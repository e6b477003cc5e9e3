---------------------------- MODULE LexerProofs ----------------------------
(***************************************************************************)
(* Proofs about Lexer, for every sequence of texts, every set of modes and *)
(* whatever the simulator answers, so for any rules and commands.  The     *)
(* argument: a cursor is only ever moved by consume, so it always has the  *)
(* line and column of its index; and the last place a rule ended at is     *)
(* never before the token nor behind the cursor, so that going back to it  *)
(* leaves no gap and no overlap.                                           *)
(* With what the lexer says of its rules (RulesAssumption), it delivers    *)
(* what the token stream takes for granted: once the end of the text has   *)
(* been seen nothing leaves it; only there is a token of type EOF made,    *)
(* and then the lexer is done; and its channel is still the one nextToken  *)
(* began with.                                                             *)
(***************************************************************************)
EXTENDS Lexer, FiniteSetTheorems, WellFoundedInduction, TLAPS

Reading == plan \in Seq(Source) /\ plan # << >>

(* A place in a text that consume has been at. *)
Place(text, c) == c.index \in 0..Len(text) /\ c = CursorAt(text, c.index)

(* Where the pieces ps of a text end, and that they leave no gap. *)
EndOf(ps) == IF ps = << >> THEN 0 ELSE Last(ps).last + 1
Tiled(text, ps) ==
  /\ \E S : ps \in Seq(S)
  /\ \A k \in DOMAIN ps :
       /\ ps[k].last \in Int
       /\ ps[k].start = CursorAt(text, IF k = 1 THEN 0 ELSE ps[k - 1].last + 1)
       /\ ps[k].start.index <= ps[k].last + 1

(* A token, once begun, begins where the pieces end and ends at most at    *)
(* the cursor; so does the last end of a rule that is kept.                *)
Making == phase \in {"match", "exec", "fail"}
TokenBegun ==
  Making => /\ Place(Text, token.start) /\ token.start.index = EndOf(pieces)
            /\ token.start.index <= cursor.index
EndKept ==
  phase \in {"exec", "fail"} /\ prevAccept.state # NOSTATE =>
    Place(Text, prevAccept.at) /\ token.start.index <= prevAccept.at.index

IInv ==
  /\ Reading
  /\ phase \in {"next", "match", "exec", "fail", "done"}
  /\ Place(Text, cursor) /\ Tiled(Text, pieces)
  /\ phase \in {"next", "done"} => cursor.index = EndOf(pieces)
  /\ TokenBegun /\ EndKept

-----------------------------------------------------------------------------
(* The text being lexed is a sequence without EOF in it. *)
LEMMA TextFacts ==
  ASSUME Reading
  PROVE  /\ Text \in Seq(Char) /\ Len(Text) \in Nat
         /\ \A k \in 1..Len(Text) : Text[k] # EOF
<1>1. plan[1] \in Source /\ 1 \in DOMAIN plan
  BY DEF Reading
<1>2. Text = plan[1].text
  BY DEF Text, Reading
<1> QED BY <1>1, <1>2, LexerAssumption DEF Source

(* LA is EOF exactly at the end. *)
LEMMA EOFAtEnd ==
  ASSUME Reading, NEW n \in 0..Len(Text)
  PROVE  LAat(n) = EOF <=> n = Len(Text)
BY TextFacts DEF LAat

(* The greatest of finitely many indices is one of them: it is their least *)
(* upper bound.                                                            *)
LEMMA GreatestIndex ==
  ASSUME NEW n \in Nat, NEW S \in SUBSET (0..n), 0 \in S
  PROVE  Max(S) \in S /\ \A y \in S : Max(S) >= y
<1> DEFINE Bounds == {m \in Nat : \A y \in S : m >= y}
<1>1. Bounds \subseteq Nat /\ n \in Bounds
  OBVIOUS
<1>2. PICK m \in Bounds : \A j \in Bounds : ~(<<j, m>> \in OpToRel(<, Nat))
  <2> HIDE DEF Bounds
  <2> QED BY <1>1, WFMin, NatLessThanWellFounded, Zenon
<1>3. \A j \in Bounds : ~(j < m)
  BY <1>2 DEF OpToRel
<1>4. m \in S
  <2>1. CASE m = 0
    BY <2>1
  <2>2. CASE m # 0 /\ m \notin S
    <3>1. m \in Nat /\ \A y \in S : y \in Nat /\ m >= y /\ y # m
      <4>1. m \in Nat /\ \A y \in S : m >= y
        BY <1>2
      <4>2. \A y \in S : y # m
        BY <2>2
      <4> QED BY <4>1, <4>2
    <3>2. m - 1 \in Nat /\ \A y \in S : m - 1 >= y
      <4>1. m - 1 \in Nat
        BY <2>2, <3>1
      <4>2. ASSUME NEW y \in S PROVE m - 1 >= y
        BY <3>1
      <4> QED BY <4>1, <4>2
    <3>3. m - 1 < m
      BY <3>1
    <3> QED BY <1>3, <3>2, <3>3
  <2> QED BY <2>1, <2>2
<1>5. \E x \in S : \A y \in S : x >= y
  BY <1>2, <1>4
<1> QED BY <1>5 DEF Max

LEMMA LineFeedsFinite ==
  ASSUME NEW text, NEW n \in Nat
  PROVE  /\ IsFiniteSet(LineFeeds(text, n)) /\ Cardinality(LineFeeds(text, n)) \in Nat
         /\ \A k \in LineFeeds(text, n) : k \in Nat /\ 1 <= k /\ k <= n
<1>1. IsFiniteSet(1..n)
  BY FS_Interval
<1>2. LineFeeds(text, n) \subseteq 1..n
  BY DEF LineFeeds
<1>3. IsFiniteSet(LineFeeds(text, n))
  BY <1>1, <1>2, FS_Subset
<1> QED BY <1>2, <1>3, FS_CardinalityType

(* The line feeds before the next character. *)
LEMMA LineFeedsNext ==
  ASSUME NEW text, NEW n \in Nat
  PROVE  LineFeeds(text, n + 1) = IF text[n + 1] = LineFeed THEN LineFeeds(text, n) \union {n + 1}
                            ELSE LineFeeds(text, n)
BY DEF LineFeeds

LEMMA Beginnings == \A text : Beginning = CursorAt(text, 0)
<1>1. \A text : LineFeeds(text, 0) = {}
  BY DEF LineFeeds
<1>2. Cardinality({}) = 0
  BY FS_EmptySet
<1>3. Max({} \union {0}) = 0
  BY DEF Max
<1> QED BY <1>1, <1>2, <1>3 DEF Beginning, CursorAt

(* consume keeps line and column right. *)
LEMMA ConsumedIsNext ==
  ASSUME Reading, NEW n \in 0..(Len(Text) - 1)
  PROVE  Consumed(CursorAt(Text, n)) = CursorAt(Text, n + 1)
<1>0. n \in Nat /\ LAat(n) = Text[n + 1]
  BY TextFacts DEF LAat
<1>1. CursorAt(Text, n) = [index |-> n, line |-> 1 + Cardinality(LineFeeds(Text, n)),
                     column |-> n - Max(LineFeeds(Text, n) \union {0})]
  BY DEF CursorAt
<1>2. CASE Text[n + 1] = LineFeed
  <2>1. LineFeeds(Text, n + 1) = LineFeeds(Text, n) \union {n + 1}
    BY <1>0, <1>2, LineFeedsNext
  <2>2. Cardinality(LineFeeds(Text, n + 1)) = Cardinality(LineFeeds(Text, n)) + 1
    <3>1. IsFiniteSet(LineFeeds(Text, n)) /\ n + 1 \notin LineFeeds(Text, n)
      BY <1>0, LineFeedsFinite
    <3> QED BY <2>1, <3>1, FS_AddElement
  <2>3. Max(LineFeeds(Text, n + 1) \union {0}) = n + 1
    <3>0. \A x \in LineFeeds(Text, n + 1) : x \in Nat /\ x <= n + 1
      <4>1. n + 1 \in Nat
        BY <1>0
      <4> QED BY <4>1, LineFeedsFinite
    <3>1. \A y \in LineFeeds(Text, n + 1) \union {0} : n + 1 >= y
      BY <1>0, <3>0
    <3>2. \A x \in LineFeeds(Text, n + 1) \union {0} : x >= n + 1 => x = n + 1
      BY <1>0, <3>0
    <3>3. n + 1 \in LineFeeds(Text, n + 1) \union {0}
      BY <2>1
    <3> HIDE <2>1
    <3> QED BY <3>1, <3>2, <3>3 DEF Max
  <2>4. CursorAt(Text, n + 1) = [index |-> n + 1, line |-> 1 + (Cardinality(LineFeeds(Text, n)) + 1), column |-> 0]
    BY <1>0, <2>2, <2>3 DEF CursorAt
  <2> QED BY <1>0, <1>1, <1>2, <2>4, LineFeedsFinite DEF Consumed
<1>3. CASE Text[n + 1] # LineFeed
  <2>1. LineFeeds(Text, n + 1) = LineFeeds(Text, n)
    BY <1>0, <1>3, LineFeedsNext
  <2>2. Max(LineFeeds(Text, n) \union {0}) \in Int
    <3>1. LineFeeds(Text, n) \union {0} \in SUBSET (0..n)
      <4>1. \A k \in LineFeeds(Text, n) \union {0} : k \in 0..n
        BY <1>0, LineFeedsFinite
      <4> QED BY <4>1
    <3>2. 0 \in LineFeeds(Text, n) \union {0}
      OBVIOUS
    <3>3. Max(LineFeeds(Text, n) \union {0}) \in LineFeeds(Text, n) \union {0}
      BY <1>0, <3>1, <3>2, GreatestIndex
    <3> QED BY <1>0, <3>1, <3>3
  <2>3. CursorAt(Text, n + 1) = [index |-> n + 1, line |-> 1 + Cardinality(LineFeeds(Text, n)),
                           column |-> (n + 1) - Max(LineFeeds(Text, n) \union {0})]
    BY <2>1 DEF CursorAt
  <2>4. Consumed(CursorAt(Text, n)) = [index |-> n + 1, line |-> 1 + Cardinality(LineFeeds(Text, n)),
                                 column |-> (n - Max(LineFeeds(Text, n) \union {0})) + 1]
    BY <1>0, <1>1, <1>3 DEF Consumed
  <2>5. (n - Max(LineFeeds(Text, n) \union {0})) + 1 = (n + 1) - Max(LineFeeds(Text, n) \union {0})
    BY <1>0, <2>2
  <2> QED BY <2>3, <2>4, <2>5
<1> QED BY <1>2, <1>3

(* One more character, if there is one. *)
LEMMA OnwardIsPlace ==
  ASSUME Reading, NEW c, Place(Text, c)
  PROVE  /\ Place(Text, Onward(c)) /\ c.index <= Onward(c).index
         /\ LAat(c.index) # EOF => Onward(c).index = c.index + 1
<1>0. c.index \in Nat /\ Len(Text) \in Nat
  BY TextFacts DEF Place
<1>1. CASE LAat(c.index) = EOF
  BY <1>0, <1>1 DEF Onward
<1>2. CASE LAat(c.index) # EOF
  <2>1. c.index \in 0..(Len(Text) - 1)
    BY <1>0, <1>2, EOFAtEnd DEF Place
  <2>2. Onward(c) = CursorAt(Text, c.index + 1)
    BY <1>2, <2>1, ConsumedIsNext DEF Onward, Place
  <2>3. Onward(c).index = c.index + 1
    BY <2>2 DEF CursorAt
  <2> QED BY <1>0, <2>1, <2>2, <2>3 DEF Place
<1> QED BY <1>1, <1>2

(* A piece that begins where the others end is one more. *)
LEMMA NotedTiles ==
  ASSUME NEW text, NEW ps, Tiled(text, ps), NEW piece, NEW noted,
         (noted = ps /\ ps # << >> /\ Last(ps) = piece) \/ noted = Append(ps, piece),
         piece.start = CursorAt(text, EndOf(ps)),
         piece.last \in Int, piece.start.index <= piece.last + 1
  PROVE  Tiled(text, noted) /\ EndOf(noted) = piece.last + 1
<1>1. CASE noted = ps /\ ps # << >> /\ Last(ps) = piece
  BY <1>1 DEF EndOf
<1>2. CASE noted = Append(ps, piece)
  <2>1. PICK S : ps \in Seq(S)
    BY DEF Tiled
  <2>2. noted \in Seq(S \union {piece}) /\ Len(noted) = Len(ps) + 1 /\ noted # << >>
    BY <1>2, <2>1
  <2>3. \A k \in 1..Len(ps) : noted[k] = ps[k]
    BY <1>2, <2>1
  <2>4. noted[Len(ps) + 1] = piece /\ Len(ps) \in Nat
    BY <1>2, <2>1
  <2>5. EndOf(ps) = IF Len(ps) = 0 THEN 0 ELSE ps[Len(ps)].last + 1
    BY <2>1 DEF EndOf, Last
  <2>6. ASSUME NEW k \in 1..(Len(ps) + 1)
        PROVE  /\ noted[k].last \in Int
               /\ noted[k].start = CursorAt(text, IF k = 1 THEN 0 ELSE noted[k - 1].last + 1)
               /\ noted[k].start.index <= noted[k].last + 1
    <3>1. CASE k \in 1..Len(ps)
      <4>1. noted[k] = ps[k] /\ (k # 1 => noted[k - 1] = ps[k - 1])
        BY <2>3, <2>4, <3>1
      <4> QED BY <2>1, <3>1, <4>1 DEF Tiled
    <3>2. CASE k = Len(ps) + 1
      <4>1. noted[k] = piece /\ (k # 1 => noted[k - 1] = ps[Len(ps)] /\ Len(ps) # 0)
        BY <2>3, <2>4, <3>2
      <4>2. k = 1 => Len(ps) = 0
        BY <2>4, <3>2
      <4> QED BY <2>5, <4>1, <4>2
    <3> QED BY <2>4, <3>1, <3>2
  <2>7. Tiled(text, noted)
    BY <2>2, <2>6 DEF Tiled
  <2>8. EndOf(noted) = piece.last + 1
    BY <2>2, <2>4 DEF EndOf, Last
  <2> QED BY <2>7, <2>8
<1> QED BY <1>1, <1>2

-----------------------------------------------------------------------------
(* A plan of Plans is one that Reading describes. *)
LEMMA InitIInv == Init => IInv
<1> SUFFICES ASSUME Init PROVE IInv
  OBVIOUS
<1>1. Reading
  BY LexerAssumption DEF Init, Reading
<1>2. Beginning.index = 0
  BY DEF Beginning
<1>3. Place(Text, cursor)
  BY <1>1, <1>2, TextFacts, Beginnings DEF Init, Place
<1>4. Tiled(Text, pieces) /\ EndOf(pieces) = 0
  <2>1. pieces = << >> /\ pieces \in Seq({})
    BY DEF Init
  <2> QED BY <2>1 DEF Tiled, EndOf
<1> QED BY <1>1, <1>2, <1>3, <1>4 DEF Init, IInv, TokenBegun, EndKept, Making

LEMMA NextTokenStep ==
  ASSUME IInv, NextToken
  PROVE  IInv'
<1>1. /\ phase = "next" /\ phase' = "match" /\ token'.start = cursor
      /\ plan' = plan /\ cursor' = cursor /\ pieces' = pieces
  BY DEF NextToken, Begun
<1>2. cursor.index = EndOf(pieces) /\ cursor.index \in Int
  BY <1>1 DEF IInv, Place
<1> QED BY <1>1, <1>2 DEF IInv, Reading, TokenBegun, EndKept, Making, Text

(* The piece up to a place in the text. *)
LEMMA NotedKeeps ==
  ASSUME IInv, NEW piece, pieces' = Noted(piece),
         NEW start, piece.start = start, start = CursorAt(Text, EndOf(pieces)),
         NEW end \in Int, piece.last = end - 1, start.index <= end
  PROVE  Tiled(Text, pieces') /\ EndOf(pieces') = end
<1>1. piece.last \in Int /\ piece.last + 1 = end
  OBVIOUS
<1>2. (pieces' = pieces /\ pieces # << >> /\ Last(pieces) = piece) \/ pieces' = Append(pieces, piece)
  BY DEF Noted
<1>3. piece.start = CursorAt(Text, EndOf(pieces)) /\ piece.start.index <= piece.last + 1
  BY <1>1
<1>4. Tiled(Text, pieces)
  BY DEF IInv
<1>5. ASSUME NEW text, NEW ps, NEW noted, Tiled(text, ps),
             (noted = ps /\ ps # << >> /\ Last(ps) = piece) \/ noted = Append(ps, piece),
             piece.start = CursorAt(text, EndOf(ps))
      PROVE  Tiled(text, noted) /\ EndOf(noted) = piece.last + 1
  <2>1. piece.start.index <= piece.last + 1
    BY <1>3
  <2> QED BY <1>1, <1>5, <2>1, NotedTiles
<1>6. Tiled(Text, pieces') /\ EndOf(pieces') = piece.last + 1
  BY <1>2, <1>3, <1>4, <1>5
<1> QED BY <1>1, <1>6

LEMMA EmitEOFStep ==
  ASSUME IInv, EmitEOF
  PROVE  IInv'
<1>1. /\ phase = "next" /\ phase' = "done" /\ plan' = plan /\ cursor' = cursor
      /\ pieces' = Noted(EOFToken)
  BY DEF EmitEOF
<1>2. EOFToken.start = cursor /\ EOFToken.last = cursor.index - 1
  BY DEF EOFToken, Piece
<1>3. cursor = CursorAt(Text, EndOf(pieces)) /\ cursor.index \in Int /\ cursor.index <= cursor.index
  BY <1>1 DEF IInv, Place
<1>4. Tiled(Text, pieces') /\ EndOf(pieces') = cursor.index
  BY <1>1, <1>2, <1>3, NotedKeeps
<1> QED BY <1>1, <1>2, <1>3, <1>4 DEF IInv, Reading, TokenBegun, EndKept, Making, Text

LEMMA MatchStep ==
  ASSUME IInv, Match
  PROVE  IInv'
<1>1. /\ phase = "match" /\ phase' = "exec" /\ token'.start = token.start
      /\ plan' = plan /\ cursor' = cursor /\ pieces' = pieces
  BY DEF Match
<1>2. prevAccept' = NoAccept \/ prevAccept'.at = cursor
  BY DEF Match, Captured
<1>3. NoAccept.state = NOSTATE
  BY DEF NoAccept
<1> QED BY <1>1, <1>2, <1>3 DEF IInv, Reading, TokenBegun, EndKept, Making, Text

(* Following an edge, kept or new: the cursor goes on, and the end of a    *)
(* rule is kept where it is now.                                           *)
LEMMA FollowKeeps ==
  ASSUME IInv, phase = "exec", NEW target, NEW states, Follow(target, states),
         plan' = plan, pieces' = pieces, token' = token
  PROVE  IInv'
<1>1. phase' \in {"exec", "fail"}
  BY DEF Follow
<1>2. Place(Text, cursor') /\ cursor.index <= cursor'.index
  <2>1. cursor' = cursor \/ cursor' = Onward(cursor)
    BY DEF Follow
  <2>2. Place(Text, cursor) /\ cursor.index \in Int
    BY DEF IInv, Place
  <2> QED BY <2>1, <2>2, OnwardIsPlace DEF IInv
<1>3. prevAccept' = prevAccept \/ prevAccept'.at = cursor'
  BY DEF Follow, Captured
<1>4. cursor.index \in Int /\ cursor'.index \in Int /\ token.start.index \in Int
      /\ token.start.index <= cursor.index
  BY <1>2 DEF IInv, Place, TokenBegun, Making
<1>5. token.start.index <= cursor'.index
  BY <1>2, <1>4
<1>6. TokenBegun'
  BY <1>5 DEF IInv, TokenBegun, Making, Text
<1>7. EndKept'
  BY <1>2, <1>3, <1>5 DEF IInv, EndKept, Text
<1> QED BY <1>1, <1>2, <1>6, <1>7 DEF IInv, Reading, Text

LEMMA ExistingTargetStateStep ==
  ASSUME IInv, ExistingTargetState
  PROVE  IInv'
BY FollowKeeps DEF ExistingTargetState

LEMMA ComputeTargetStateStep ==
  ASSUME IInv, ComputeTargetState
  PROVE  IInv'
<1>1. /\ phase = "exec" /\ plan' = plan /\ pieces' = pieces /\ token' = token
      /\ \E target, states : Follow(target, states)
  BY DEF ComputeTargetState
<1> QED BY <1>1, FollowKeeps

(* The end of nextToken, or of a round of its inner loop, at a place that  *)
(* is not before the token.                                                *)
LEMMA ConcludeKeeps ==
  ASSUME IInv, phase = "fail", plan' = plan,
         NEW now, NEW type, NEW channel, NEW kind, NEW last,
         Conclude(now, type, channel, kind, last),
         Place(Text, now), token.start.index <= now.index, last = now.index - 1
  PROVE  IInv'
<1>1. /\ cursor' = now /\ token'.start = token.start
      /\ phase' \in {"match", "next", "done"}
      /\ phase' = "match" <=> type = MORE
      /\ pieces' = IF type = MORE THEN pieces
                   ELSE Noted(Piece(kind, type, channel, token.start, last))
  BY DEF Conclude
<1>2. /\ Place(Text, token.start) /\ token.start.index = EndOf(pieces)
      /\ now.index \in Int /\ token.start.index \in Int
  BY DEF IInv, TokenBegun, Making, Place
<1>3. CASE type = MORE
  BY <1>1, <1>2, <1>3 DEF IInv, Reading, TokenBegun, EndKept, Making, Text
<1>4. CASE type # MORE
  <2> DEFINE piece == Piece(kind, type, channel, token.start, last)
  <2>1. piece.start = token.start /\ token.start = CursorAt(Text, EndOf(pieces))
        /\ piece.last = now.index - 1
    BY <1>2 DEF Piece, Place
  <2>2. pieces' = Noted(piece)
    BY <1>1, <1>4
  <2>3. Tiled(Text, pieces') /\ EndOf(pieces') = now.index
    <3> HIDE DEF piece
    <3> QED BY <1>2, <2>1, <2>2, NotedKeeps
  <2> QED BY <1>1, <1>4, <2>3 DEF IInv, Reading, TokenBegun, EndKept, Making, Text
<1> QED BY <1>3, <1>4

LEMMA AcceptStep ==
  ASSUME IInv, Accept
  PROVE  IInv'
<1>1. /\ phase = "fail" /\ prevAccept.state # NOSTATE /\ plan' = plan
      /\ \E type, channel, kind : Conclude(prevAccept.at, type, channel, kind, prevAccept.at.index - 1)
  BY DEF Accept
<1>2. Place(Text, prevAccept.at) /\ token.start.index <= prevAccept.at.index
  BY <1>1 DEF IInv, EndKept
<1> QED BY <1>1, <1>2, ConcludeKeeps

LEMMA PopModeThrowsStep ==
  ASSUME IInv, PopModeThrows
  PROVE  IInv'
<1>1. /\ phase = "fail" /\ prevAccept.state # NOSTATE /\ plan' = plan /\ phase' = "next"
      /\ cursor' = prevAccept.at
      /\ \E type, channel :
           pieces' = Noted(Piece("thrown", type, channel, token.start, prevAccept.at.index - 1))
  BY DEF PopModeThrows
<1>2. PICK piece :
        /\ pieces' = Noted(piece)
        /\ piece.start = token.start /\ piece.last = prevAccept.at.index - 1
  <2>1. PICK type, channel :
          pieces' = Noted(Piece("thrown", type, channel, token.start, prevAccept.at.index - 1))
    BY <1>1
  <2> QED BY <2>1 DEF Piece
<1>3. /\ Place(Text, prevAccept.at) /\ token.start.index <= prevAccept.at.index
      /\ token.start = CursorAt(Text, EndOf(pieces)) /\ prevAccept.at.index \in Int
  BY <1>1 DEF IInv, EndKept, TokenBegun, Making, Place
<1>4. Tiled(Text, pieces') /\ EndOf(pieces') = prevAccept.at.index
  BY <1>2, <1>3, NotedKeeps
<1> QED BY <1>1, <1>2, <1>3, <1>4 DEF IInv, Reading, TokenBegun, EndKept, Making, Text

LEMMA EndOfTextStep ==
  ASSUME IInv, EndOfText
  PROVE  IInv'
<1>1. /\ phase = "fail" /\ plan' = plan
      /\ Conclude(cursor, EOF, token.channel, "token", cursor.index - 1)
  BY DEF EndOfText
<1>2. Place(Text, cursor) /\ token.start.index <= cursor.index
  BY <1>1 DEF IInv, TokenBegun, Making
<1> QED BY <1>1, <1>2, ConcludeKeeps

(* What recover skips is what the message quotes last. *)
LEMMA NoViableAltStep ==
  ASSUME IInv, NoViableAlt
  PROVE  IInv'
<1>1. /\ phase = "fail" /\ plan' = plan
      /\ Conclude(Recovered, SKIP, token.channel, "error", Quoted)
  BY DEF NoViableAlt
<1>2. Place(Text, cursor) /\ token.start.index <= cursor.index /\ token.start.index \in Int
  BY <1>1 DEF IInv, TokenBegun, Making, Place
<1>3. /\ Recovered = Onward(cursor)
      /\ cursor.index \in 0..Len(Text) /\ Len(Text) \in Nat
      /\ LAat(cursor.index) = EOF <=> cursor.index = Len(Text)
  BY <1>2, TextFacts, EOFAtEnd DEF IInv, Recovered, Onward, t, Place
<1>4. Place(Text, Recovered) /\ cursor.index <= Recovered.index
  BY <1>2, <1>3, OnwardIsPlace DEF IInv
<1>5. Quoted = Recovered.index - 1
  <2>1. CASE LAat(cursor.index) = EOF
    BY <1>3, <2>1 DEF Quoted, Onward
  <2>2. CASE LAat(cursor.index) # EOF
    BY <1>2, <1>3, <2>2, OnwardIsPlace DEF IInv, Quoted
  <2> QED BY <2>1, <2>2
<1>6. token.start.index <= Recovered.index
  BY <1>2, <1>3, <1>4 DEF Place
<1> QED BY <1>1, <1>4, <1>5, <1>6, ConcludeKeeps

LEMMA NextTextStep ==
  ASSUME IInv, NextText
  PROVE  IInv'
<1>1. /\ plan' = Tail(plan) /\ Len(plan) > 1 /\ phase' = "next"
      /\ cursor' = Beginning /\ pieces' = << >>
  BY DEF NextText, Fresh
<1>2. plan' \in Seq(Source) /\ plan' # << >> /\ plan'[1] \in Source
  <2>1. plan \in Seq(Source) /\ Len(plan) \in Nat
    BY DEF IInv, Reading
  <2>2. /\ plan' \in Seq(Source) /\ Len(plan') = Len(plan) - 1
        /\ \A k \in 1..Len(plan') : plan'[k] = plan[k + 1]
    BY <1>1, <2>1
  <2>3. plan' # << >>
    BY <1>1, <2>1, <2>2
  <2>4. plan'[1] \in Source
    <3>1. 1 \in 1..Len(plan')
      BY <1>1, <2>1, <2>2
    <3> QED BY <2>2, <3>1
  <2> QED BY <2>2, <2>3, <2>4
<1>3. Len(Text') \in Nat
  BY <1>2 DEF Text, Source
<1>4. Place(Text', cursor')
  BY <1>1, <1>3, Beginnings DEF Place, Beginning
<1>5. Tiled(Text', pieces') /\ EndOf(pieces') = 0
  <2>1. pieces' \in Seq({})
    BY <1>1
  <2> QED BY <1>1, <2>1 DEF Tiled, EndOf
<1> QED BY <1>1, <1>2, <1>4, <1>5 DEF IInv, Reading, TokenBegun, EndKept, Making, Beginning

LEMMA NextKeeps == IInv /\ [Next]_vars => IInv'
<1> SUFFICES ASSUME IInv, [Next]_vars PROVE IInv'
  OBVIOUS
<1>1. CASE UNCHANGED vars
  BY <1>1 DEF vars, IInv, Reading, TokenBegun, EndKept, Making, Text
<1> QED BY <1>1, NextTokenStep, EmitEOFStep, MatchStep, ExistingTargetStateStep,
           ComputeTargetStateStep, AcceptStep, PopModeThrowsStep, EndOfTextStep,
           NoViableAltStep, NextTextStep DEF Next, Finished

(* The invariant, whatever the rules of the lexer are. *)
THEOREM LexerInvariant == Spec => []IInv
BY InitIInv, NextKeeps, PTL DEF Spec

(* Whatever the rules, whatever the DFA holds and wherever matches fail,   *)
(* tokens, skipped text and errors tile the text, each at the line and     *)
(* column of its index.                                                    *)
THEOREM LexerTokensTile == Spec => []TokensTile
<1>1. IInv => TokensTile
  BY DEF IInv, Place, Tiled, TokenBegun, Making, EndOf, Reached, TokensTile
<1> QED BY <1>1, LexerInvariant, PTL

-----------------------------------------------------------------------------
(* Recursive functions on 0..m: they exist, and stay where they begin if   *)
(* no step leaves.                                                         *)
LEMMA LeastOf ==
  ASSUME NEW S \in SUBSET Nat, S # {}
  PROVE  \E j \in S : \A m \in S : j <= m
<1>1. PICK j \in S : \A m \in S : ~(<<m, j>> \in OpToRel(<, Nat))
  BY WFMin, NatLessThanWellFounded, Zenon
<1>2. \A m \in S : ~(m < j)
  BY <1>1 DEF OpToRel
<1> QED BY <1>2

LEMMA RunStays ==
  ASSUME NEW A, NEW m \in Nat, NEW f, f[0] \in A,
         \A k \in 1..m : f[k - 1] \in A => f[k] \in A
  PROVE  \A k \in 0..m : f[k] \in A
<1> DEFINE Outside == {k \in 0..m : f[k] \notin A}
<1>1. SUFFICES ASSUME Outside # {} PROVE FALSE
  OBVIOUS
<1>2. PICK j \in Outside : \A k \in Outside : j <= k
  <2>1. Outside \in SUBSET Nat
    OBVIOUS
  <2> HIDE DEF Outside
  <2> QED BY <1>1, <2>1, LeastOf
<1>3. j \in 1..m /\ j - 1 \in 0..m
  BY <1>2
<1>4. f[j - 1] \in A
  BY <1>2, <1>3
<1> QED BY <1>2, <1>3, <1>4

IsRun(f, step, first, m) == f[0] = first /\ \A k \in 1..m : f[k] = step[k][f[k - 1]]

LEMMA RunExists ==
  ASSUME NEW A, NEW m \in Nat, NEW step \in [1..m -> [A -> A]], NEW first \in A
  PROVE  \E f \in [0..m -> A] : IsRun(f, step, first, m)
<1> DEFINE Runs(k) == \E f \in [0..k -> A] : IsRun(f, step, first, k)
           None == {k \in 0..m : ~Runs(k)}
<1>1. SUFFICES ASSUME None # {} PROVE FALSE
  <2>1. m \in 0..m
    OBVIOUS
  <2> QED BY <1>1, <2>1
<1>2. PICK j \in None : \A k \in None : j <= k
  <2>1. None \in SUBSET Nat
    OBVIOUS
  <2> HIDE DEF None
  <2> QED BY <1>1, <2>1, LeastOf
<1>3. j # 0
  <2> DEFINE f == [k \in 0..0 |-> first]
  <2>1. f \in [0..0 -> A] /\ IsRun(f, step, first, 0)
    BY DEF IsRun
  <2> QED BY <1>2, <2>1
<1>4. j \in 1..m /\ j - 1 \in 0..m /\ Runs(j - 1)
  BY <1>2, <1>3
<1>5. PICK f \in [0..(j - 1) -> A] : IsRun(f, step, first, j - 1)
  BY <1>4
<1> DEFINE g == [k \in 0..j |-> IF k = j THEN step[j][f[j - 1]] ELSE f[k]]
<1>6. f[j - 1] \in A /\ step[j] \in [A -> A] /\ step[j][f[j - 1]] \in A
  BY <1>4
<1>7. /\ g \in [0..j -> A] /\ g[j] = step[j][f[j - 1]]
      /\ \A k \in 0..(j - 1) : g[k] = f[k]
  BY <1>4, <1>6
<1> HIDE DEF g
<1>8. g[0] = first /\ \A k \in 1..j : g[k] = step[k][g[k - 1]]
  <2>1. 0 \in 0..(j - 1) /\ \A k \in 1..j : k - 1 \in 0..(j - 1)
    BY <1>4
  <2>2. \A k \in 1..j : k # j => k \in 1..(j - 1) /\ k \in 0..(j - 1)
    BY <1>4
  <2>3. \A k \in 1..(j - 1) : g[k] = step[k][g[k - 1]]
    BY <1>5, <1>7, <2>1 DEF IsRun
  <2> QED BY <1>5, <1>7, <2>1, <2>2, <2>3 DEF IsRun
<1> QED BY <1>2, <1>7, <1>8 DEF IsRun

-----------------------------------------------------------------------------
(* LexerActionExecutor::execute: the types, channels and modes there may   *)
(* be after it. There is either no more or no channel among the commands.  *)
ModeStack == Seq(ModeNames) \ {<< >>}
TypesBy(actions) ==
  {INVALID_TYPE, SKIP}
    \union {actions[k].to : k \in {k \in 1..Len(actions) : actions[k].do = "type"}}
    \union {MORE : k \in {k \in 1..Len(actions) : actions[k].do = "more"}}
ChannelsBy(actions) ==
  {DEFAULT_CHANNEL} \union {actions[k].to : k \in {k \in 1..Len(actions) : actions[k].do = "channel"}}
Outcome(actions) ==
  [type : TypesBy(actions), channel : ChannelsBy(actions), modes : ModeStack, threw : BOOLEAN]

LEMMA ModeStackFacts ==
  ASSUME NEW ms \in ModeStack
  PROVE  /\ Head(ms) \in ModeNames /\ Len(ms) \in Nat
         /\ \A m \in ModeNames : <<m>> \o ms \in ModeStack /\ <<m>> \o Tail(ms) \in ModeStack
         /\ Len(ms) # 1 => Tail(ms) \in ModeStack
<1>1. ms \in Seq(ModeNames) /\ ms # << >> /\ Len(ms) \in Nat /\ Len(ms) # 0
  BY DEF ModeStack
<1>2. Head(ms) \in ModeNames /\ Tail(ms) \in Seq(ModeNames) /\ Len(Tail(ms)) = Len(ms) - 1
  BY <1>1
<1>3. ASSUME NEW m \in ModeNames, NEW rest \in Seq(ModeNames)
      PROVE  <<m>> \o rest \in ModeStack
  <2>1. <<m>> \in Seq(ModeNames) /\ Len(<<m>>) = 1
    OBVIOUS
  <2>2. <<m>> \o rest \in Seq(ModeNames) /\ Len(<<m>> \o rest) = 1 + Len(rest) /\ Len(rest) \in Nat
    BY <2>1
  <2>3. <<m>> \o rest # << >>
    BY <2>2
  <2> QED BY <2>2, <2>3 DEF ModeStack
<1>4. Len(ms) # 1 => Tail(ms) \in ModeStack
  <2>1. Len(ms) # 1 => Len(Tail(ms)) # 0
    BY <1>1, <1>2
  <2>2. Len(ms) # 1 => Tail(ms) # << >>
    BY <2>1
  <2> QED BY <1>2, <2>2 DEF ModeStack
<1> QED BY <1>1, <1>2, <1>3, <1>4

LEMMA ExecuteKeeps ==
  ASSUME NEW actions, AreCommands(actions), NEW k \in 1..Len(actions), NEW l \in Outcome(actions)
  PROVE  Execute(l, actions[k]) \in Outcome(actions)
<1> DEFINE action == actions[k]
<1>1. IsCommand(action)
  BY DEF AreCommands
<1>2. CASE l.threw
  BY <1>2 DEF Execute
<1>3. CASE ~l.threw
  <2>0. /\ l = [type |-> l.type, channel |-> l.channel, modes |-> l.modes, threw |-> l.threw]
        /\ l.type \in TypesBy(actions) /\ l.channel \in ChannelsBy(actions)
        /\ l.modes \in ModeStack /\ l.threw \in BOOLEAN
    BY DEF Outcome
  <2>1. CASE action.do = "skip"
    <3>1. Execute(l, action) = [l EXCEPT !.type = SKIP] /\ SKIP \in TypesBy(actions)
      BY <1>3, <2>1 DEF Execute, TypesBy
    <3> QED BY <3>1, <2>0 DEF Outcome
  <2>2. CASE action.do = "more"
    <3>1. Execute(l, action) = [l EXCEPT !.type = MORE] /\ MORE \in TypesBy(actions)
      BY <1>3, <2>2 DEF Execute, TypesBy
    <3> QED BY <3>1, <2>0 DEF Outcome
  <2>3. CASE action.do = "type"
    <3>1. Execute(l, action) = [l EXCEPT !.type = action.to] /\ action.to \in TypesBy(actions)
      BY <1>3, <2>3 DEF Execute, TypesBy
    <3> QED BY <3>1, <2>0 DEF Outcome
  <2>4. CASE action.do = "channel"
    <3>1. Execute(l, action) = [l EXCEPT !.channel = action.to] /\ action.to \in ChannelsBy(actions)
      BY <1>3, <2>4 DEF Execute, ChannelsBy
    <3> QED BY <3>1, <2>0 DEF Outcome
  <2>5. CASE action.do = "mode"
    <3>1. Execute(l, action) = [l EXCEPT !.modes = <<action.to>> \o Tail(l.modes)]
      BY <1>3, <2>5 DEF Execute
    <3>2. <<action.to>> \o Tail(l.modes) \in ModeStack
      BY <1>1, <2>0, <2>5, ModeStackFacts DEF IsCommand
    <3> QED BY <3>1, <3>2, <2>0 DEF Outcome
  <2>6. CASE action.do = "pushMode"
    <3>1. Execute(l, action) = [l EXCEPT !.modes = <<action.to>> \o l.modes]
      BY <1>3, <2>6 DEF Execute
    <3>2. <<action.to>> \o l.modes \in ModeStack
      BY <1>1, <2>0, <2>6, ModeStackFacts DEF IsCommand
    <3> QED BY <3>1, <3>2, <2>0 DEF Outcome
  <2>7. CASE action.do = "popMode"
    <3>1. Execute(l, action) = IF Len(l.modes) = 1 THEN [l EXCEPT !.threw = TRUE]
                               ELSE [l EXCEPT !.modes = Tail(l.modes)]
      BY <1>3, <2>7 DEF Execute
    <3>2. Len(l.modes) # 1 => Tail(l.modes) \in ModeStack
      BY <2>0, ModeStackFacts
    <3> QED BY <3>1, <3>2, <2>0 DEF Outcome
  <2> QED BY <1>1, <2>1, <2>2, <2>3, <2>4, <2>5, <2>6, <2>7 DEF IsCommand
<1> QED BY <1>2, <1>3

LEMMA ExecutedOutcome ==
  ASSUME NEW actions, AreCommands(actions), token.type = INVALID_TYPE,
         token.channel = DEFAULT_CHANNEL, modes \in ModeStack
  PROVE  Executed(actions) \in Outcome(actions)
<1> DEFINE n == Len(actions)
           first == [type |-> token.type, channel |-> token.channel, modes |-> modes, threw |-> FALSE]
           step == [k \in 1..n |-> [l \in Outcome(actions) |-> Execute(l, actions[k])]]
           W(f) == [k \in 0..n |-> IF k = 0 THEN first ELSE Execute(f[k - 1], actions[k])]
           run == CHOOSE f : f = W(f)
<1>1. first \in Outcome(actions) /\ n \in Nat
  BY DEF Outcome, TypesBy, ChannelsBy, AreCommands
<1>2. step \in [1..n -> [Outcome(actions) -> Outcome(actions)]]
  BY ExecuteKeeps
<1>3. PICK f \in [0..n -> Outcome(actions)] : IsRun(f, step, first, n)
  <2> HIDE DEF step, first, n
  <2> QED BY <1>1, <1>2, RunExists
<1>4. f = W(f)
  <2>1. ASSUME NEW k \in 0..n, k # 0 PROVE f[k] = Execute(f[k - 1], actions[k])
    <3>1. k \in 1..n /\ k - 1 \in 0..n
      BY <1>1, <2>1
    <3> QED BY <1>3, <3>1 DEF IsRun
  <2> QED BY <1>3, <2>1 DEF IsRun
<1>5. run = W(run)
  <2> HIDE DEF W
  <2> QED BY <1>4
<1>6. \A k \in 0..n : run[k] = IF k = 0 THEN first ELSE Execute(run[k - 1], actions[k])
  <2> HIDE DEF run
  <2> QED BY <1>5
<1>7. Executed(actions) = run[n]
  BY DEF Executed
<1> HIDE DEF run, first
<1>8. run[0] \in Outcome(actions)
  BY <1>1, <1>6
<1>9. ASSUME NEW k \in 1..n, run[k - 1] \in Outcome(actions)
      PROVE  run[k] \in Outcome(actions)
  <2>1. k \in 0..n /\ k # 0
    BY <1>1
  <2> QED BY <1>6, <1>9, <2>1, ExecuteKeeps
<1>10. n \in 0..n
  BY <1>1
<1> HIDE DEF n
<1>11. \A k \in 0..n : run[k] \in Outcome(actions)
  BY <1>1, <1>8, <1>9, RunStays
<1> QED BY <1>7, <1>10, <1>11

(* What Accept and PopModeThrows need to know of it. *)
LEMMA ExecutedFacts ==
  ASSUME NEW actions, AreCommands(actions), token.type = INVALID_TYPE,
         token.channel = DEFAULT_CHANNEL, modes \in ModeStack
  PROVE  /\ Executed(actions).modes \in ModeStack /\ Executed(actions).threw \in BOOLEAN
         /\ Executed(actions).type # EOF
         /\ Executed(actions).type = MORE => Executed(actions).channel = DEFAULT_CHANNEL
<1> DEFINE l == Executed(actions)
<1>1. l \in Outcome(actions)
  BY ExecutedOutcome
<1>2. l.type \in TypesBy(actions) /\ l.channel \in ChannelsBy(actions)
  BY <1>1 DEF Outcome
<1>3. \A k \in 1..Len(actions) : actions[k].do = "type" => actions[k].to \notin {EOF, MORE}
  BY DEF AreCommands, IsCommand
<1>4. l.type # EOF
  BY <1>2, <1>3 DEF TypesBy, INVALID_TYPE, SKIP, MORE, EOF
<1>5. l.type = MORE => \E k \in 1..Len(actions) : actions[k].do = "more"
  BY <1>2, <1>3 DEF TypesBy, INVALID_TYPE, SKIP, MORE
<1>6. l.channel = DEFAULT_CHANNEL \/ \E k \in 1..Len(actions) : actions[k].do = "channel"
  BY <1>2 DEF ChannelsBy
<1>7. \A j, k \in 1..Len(actions) : ~(actions[j].do = "more" /\ actions[k].do = "channel")
  BY DEF AreCommands
<1>8. l.modes \in ModeStack /\ l.threw \in BOOLEAN
  BY <1>1 DEF Outcome
<1> HIDE DEF l
<1>9. l.type = MORE => l.channel = DEFAULT_CHANNEL
  BY <1>5, <1>6, <1>7
<1> QED BY <1>4, <1>8, <1>9 DEF l

-----------------------------------------------------------------------------
(* The DFA of a mode: its states are known by their number, and grow.      *)
Edges == UNION {[D -> Nat] : D \in SUBSET (Nat \X (Char \union {EOF}))}
IsDFA(d) ==
  /\ d \in [s0 : Nat, states : Seq(Configs), edges : Edges]
  /\ d.s0 <= Len(d.states) /\ \A e \in DOMAIN d.edges : d.edges[e] <= Len(d.states)

(* Every state d has, e has under the same number. *)
Grown(d, e) ==
  Len(d.states) <= Len(e.states) /\ \A k \in 1..Len(d.states) : e.states[k] = d.states[k]

(* addDFAState *)
LEMMA WithStateFacts ==
  ASSUME NEW d, IsDFA(d), NEW configs \in Configs
  PROVE  /\ IsDFA(WithState(d, configs).dfa) /\ Grown(d, WithState(d, configs).dfa)
         /\ WithState(d, configs).number \in 1..Len(WithState(d, configs).dfa.states)
<1>1. /\ d = [s0 |-> d.s0, states |-> d.states, edges |-> d.edges]
      /\ d.s0 \in Nat /\ d.states \in Seq(Configs) /\ d.edges \in Edges /\ Len(d.states) \in Nat
      /\ DOMAIN d.states = 1..Len(d.states)
      /\ d.s0 <= Len(d.states) /\ \A e \in DOMAIN d.edges : d.edges[e] <= Len(d.states)
  BY DEF IsDFA
<1>2. CASE Contains(d.states, configs)
  <2>1. \E k \in DOMAIN d.states : d.states[k] = configs
    BY <1>1, <1>2 DEF Contains
  <2>2. (CHOOSE k \in DOMAIN d.states : d.states[k] = configs) \in DOMAIN d.states
    BY <2>1
  <2>3. /\ WithState(d, configs).number = CHOOSE k \in DOMAIN d.states : d.states[k] = configs
        /\ WithState(d, configs).dfa = d
    BY <1>2 DEF WithState
  <2> QED BY <1>1, <2>2, <2>3 DEF Grown
<1>3. CASE ~Contains(d.states, configs)
  <2> DEFINE more == Append(d.states, configs)
             e == [s0 |-> d.s0, states |-> more, edges |-> d.edges]
  <2>1. WithState(d, configs) = [number |-> Len(d.states) + 1, dfa |-> [d EXCEPT !.states = more]]
    BY <1>3 DEF WithState
  <2>2. [d EXCEPT !.states = more] = e
    <3> HIDE DEF more
    <3> QED BY DEF IsDFA
  <2>3. more \in Seq(Configs) /\ Len(more) = Len(d.states) + 1
        /\ \A k \in 1..Len(d.states) : more[k] = d.states[k]
    BY <1>1
  <2> HIDE DEF more
  <2>4. \A x \in DOMAIN d.edges : d.edges[x] \in Nat
    BY <1>1 DEF Edges
  <2>5. IsDFA(e)
    BY <1>1, <2>3, <2>4 DEF IsDFA
  <2>6. Grown(d, e)
    BY <1>1, <2>3 DEF Grown
  <2> QED BY <1>1, <2>1, <2>2, <2>3, <2>5, <2>6
<1> QED BY <1>2, <1>3

(* addDFAEdge *)
LEMMA WithEdgeFacts ==
  ASSUME NEW d, IsDFA(d), NEW target \in 0..Len(d.states), s \in Nat, t \in Char \union {EOF}
  PROVE  IsDFA(WithEdge(d, target)) /\ WithEdge(d, target).states = d.states
<1>1. /\ d = [s0 |-> d.s0, states |-> d.states, edges |-> d.edges]
      /\ d.s0 \in Nat /\ d.states \in Seq(Configs) /\ d.edges \in Edges /\ Len(d.states) \in Nat
      /\ d.s0 <= Len(d.states) /\ \A e \in DOMAIN d.edges : d.edges[e] <= Len(d.states)
  BY DEF IsDFA
<1>2. CASE t \in Wide \union {EOF}
  BY <1>2 DEF WithEdge
<1>3. CASE t \notin Wide \union {EOF}
  <2> DEFINE D == DOMAIN d.edges
             edges == [e \in D \union {Edge} |-> IF e = Edge THEN target ELSE d.edges[e]]
  <2>1. WithEdge(d, target) = [s0 |-> d.s0, states |-> d.states, edges |-> edges]
    BY <1>1, <1>3 DEF WithEdge
  <2>2. PICK E \in SUBSET (Nat \X (Char \union {EOF})) : d.edges \in [E -> Nat]
    BY <1>1 DEF Edges
  <2>3. Edge \in Nat \X (Char \union {EOF}) /\ D = E /\ target \in Nat
    BY <2>2 DEF Edge
  <2>4. D \union {Edge} \in SUBSET (Nat \X (Char \union {EOF}))
    BY <2>3
  <2>5. edges \in [D \union {Edge} -> Nat]
    BY <2>2, <2>3
  <2>6. edges \in Edges /\ \A e \in DOMAIN edges : edges[e] <= Len(d.states)
    <3> HIDE DEF D
    <3>1. \A e \in D \union {Edge} : edges[e] <= Len(d.states)
      BY <1>1 DEF D
    <3> HIDE DEF edges
    <3> QED BY <2>4, <2>5, <3>1 DEF Edges
  <2> HIDE DEF edges
  <2> QED BY <1>1, <2>1, <2>6 DEF IsDFA
<1> QED BY <1>2, <1>3

-----------------------------------------------------------------------------
(* The last piece is the token of type EOF, and no other is one.           *)
OfEOF(piece) == piece.kind = "token" /\ piece.type = EOF
NoEOF(ps) == \A k \in DOMAIN ps : ~OfEOF(ps[k])
EOFEnds(ps) ==
  /\ ps # << >> /\ OfEOF(Last(ps)) /\ Last(ps).channel = DEFAULT_CHANNEL
  /\ \A k \in 1..(Len(ps) - 1) : ~OfEOF(ps[k])

Matching == phase \in {"exec", "fail"}

Ranges ==
  /\ Place(Text, token.start) /\ Place(Text, prevAccept.at)
  /\ startIndex \in 0..cursor.index /\ hitEOF \in BOOLEAN
  /\ modes \in ModeStack

DFAs == dfa = [m \in ModeNames |-> dfa[m]] /\ \A m \in ModeNames : IsDFA(dfa[m])

(* The states of the match are states of the DFA, and the one kept accepts, *)
(* at a place that is not before the one the match began at.               *)
StatesKnown ==
  Matching =>
    /\ s \in 1..Len(dfa[Mode].states)
    /\ prevAccept.state \in 0..Len(dfa[Mode].states)
    /\ prevAccept.state # NOSTATE => IsAccepting(AcceptedConfigs) /\ startIndex <= prevAccept.at.index

(* What nextToken has set is what the commands of a rule find. *)
Unset == (Making => token.channel = DEFAULT_CHANNEL) /\ (Matching => token.type = INVALID_TYPE)

(* Once its end has been seen, the lexer stays at the end of the text. *)
EndSeen == hitEOF => cursor.index = Len(Text) /\ (Matching => startIndex = Len(Text))

OneEOF ==
  /\ phase # "done" => NoEOF(pieces)
  /\ phase = "done" => cursor.index = Len(Text) /\ EOFEnds(pieces)

DInv == Ranges /\ DFAs /\ StatesKnown /\ Unset /\ EndSeen /\ OneEOF

LEMMA TextStays ==
  ASSUME plan' = plan
  PROVE  Text' = Text
BY DEF Text

LEMMA ModeFacts ==
  ASSUME DInv
  PROVE  Mode \in ModeNames /\ IsDFA(dfa[Mode]) /\ DOMAIN dfa = ModeNames
<1>1. Mode \in ModeNames
  BY ModeStackFacts DEF DInv, Ranges, Mode
<1> QED BY <1>1 DEF DInv, DFAs

(* One more piece, which is not noted twice. *)
LEMMA NotedEOF ==
  ASSUME IInv, NoEOF(pieces), NEW piece, pieces' = Noted(piece)
  PROVE  /\ ~OfEOF(piece) => NoEOF(pieces')
         /\ OfEOF(piece) /\ piece.channel = DEFAULT_CHANNEL => EOFEnds(pieces')
<1>1. PICK S : pieces \in Seq(S)
  BY DEF IInv, Tiled
<1>2. Len(pieces) \in Nat /\ DOMAIN pieces = 1..Len(pieces)
  BY <1>1
<1>3. CASE pieces' = pieces /\ pieces # << >> /\ Last(pieces) = piece
  <2>1. Len(pieces) \in 1..Len(pieces) /\ Last(pieces) = pieces[Len(pieces)]
    BY <1>1, <1>2, <1>3 DEF Last
  <2>2. ~OfEOF(piece)
    BY <1>2, <1>3, <2>1 DEF NoEOF
  <2> QED BY <1>3, <2>2
<1>4. CASE pieces' = Append(pieces, piece)
  <2>1. /\ pieces' \in Seq(S \union {piece}) /\ pieces' # << >> /\ Len(pieces') = Len(pieces) + 1
        /\ \A k \in 1..Len(pieces) : pieces'[k] = pieces[k]
        /\ pieces'[Len(pieces) + 1] = piece
    BY <1>1, <1>4
  <2>2. DOMAIN pieces' = 1..(Len(pieces) + 1) /\ Last(pieces') = piece
        /\ 1..(Len(pieces') - 1) = 1..Len(pieces)
    BY <1>2, <2>1 DEF Last
  <2>3. \A k \in 1..Len(pieces) : ~OfEOF(pieces'[k])
    BY <1>2, <2>1 DEF NoEOF
  <2>4. \A k \in 1..(Len(pieces) + 1) : k \in 1..Len(pieces) \/ k = Len(pieces) + 1
    BY <1>2
  <2>5. ~OfEOF(piece) => NoEOF(pieces')
    BY <2>1, <2>2, <2>3, <2>4 DEF NoEOF
  <2>6. OfEOF(piece) /\ piece.channel = DEFAULT_CHANNEL => EOFEnds(pieces')
    BY <2>1, <2>2, <2>3 DEF EOFEnds
  <2> QED BY <2>5, <2>6
<1> QED BY <1>3, <1>4 DEF Noted

-----------------------------------------------------------------------------
LEMMA FreshModes ==
  ASSUME NEW p, p \in Seq(Source), p # << >>
  PROVE  <<Head(p).mode>> \in ModeStack
<1>1. Head(p) \in Source
  OBVIOUS
<1> QED BY <1>1 DEF Source, ModeStack

LEMMA InitDInv == Init => DInv
<1> SUFFICES ASSUME Init PROVE DInv
  OBVIOUS
<1>1. IInv /\ Reading
  BY InitIInv DEF IInv
<1>2. /\ cursor = Beginning /\ token.start = Beginning /\ prevAccept.at = Beginning
      /\ startIndex = 0 /\ hitEOF = FALSE /\ phase = "next" /\ pieces = << >>
      /\ modes = <<Head(plan).mode>> /\ dfa = [m \in ModeNames |-> NewDFA]
  BY DEF Init, NoAccept
<1>3. Ranges
  <2>1. Place(Text, cursor) /\ cursor.index = 0
    BY <1>1, <1>2 DEF IInv, Beginning
  <2>2. modes \in ModeStack
    BY <1>1, <1>2, FreshModes DEF Reading
  <2>3. Place(Text, token.start) /\ Place(Text, prevAccept.at) /\ startIndex \in 0..cursor.index
    BY <1>2, <2>1
  <2>4. hitEOF \in BOOLEAN
    BY <1>2
  <2> QED BY <2>2, <2>3, <2>4 DEF Ranges
<1>4. DFAs
  <2>1. IsDFA(NewDFA)
    <3>1. << >> \in Seq(Configs) /\ Len(<< >>) = 0 /\ NOSTATE = 0
      BY DEF NOSTATE
    <3>2. [e \in {} |-> NOSTATE] \in Edges
      <4>1. [e \in {} |-> NOSTATE] \in [{} -> Nat] /\ {} \in SUBSET (Nat \X (Char \union {EOF}))
        OBVIOUS
      <4> QED BY <4>1 DEF Edges
    <3> QED BY <3>1, <3>2 DEF IsDFA, NewDFA
  <2>2. \A m \in ModeNames : dfa[m] = NewDFA
    BY <1>2
  <2> QED BY <1>2, <2>1, <2>2 DEF DFAs
<1>5. StatesKnown /\ Unset /\ EndSeen
  BY <1>2 DEF StatesKnown, Unset, EndSeen, Matching, Making
<1>6. OneEOF
  BY <1>2 DEF OneEOF, NoEOF
<1> QED BY <1>3, <1>4, <1>5, <1>6 DEF DInv

LEMMA NextTokenKeeps ==
  ASSUME IInv, DInv, NextToken
  PROVE  DInv'
<1>1. /\ phase = "next" /\ phase' = "match" /\ ~hitEOF
      /\ token'.start = cursor /\ token'.channel = DEFAULT_CHANNEL
      /\ plan' = plan /\ cursor' = cursor /\ hitEOF' = hitEOF /\ modes' = modes
      /\ startIndex' = startIndex /\ prevAccept' = prevAccept /\ dfa' = dfa /\ pieces' = pieces
      /\ Text' = Text
  BY TextStays DEF NextToken, Begun
<1>2. Ranges'
  BY <1>1 DEF IInv, DInv, Ranges
<1>3. DFAs'
  BY <1>1 DEF DInv, DFAs
<1>4. StatesKnown' /\ Unset' /\ EndSeen'
  BY <1>1 DEF StatesKnown, Unset, EndSeen, Matching, Making
<1>5. OneEOF'
  BY <1>1 DEF DInv, OneEOF
<1> QED BY <1>2, <1>3, <1>4, <1>5 DEF DInv

LEMMA EmitEOFKeeps ==
  ASSUME IInv, DInv, EmitEOF
  PROVE  DInv'
<1>1. /\ phase = "next" /\ phase' = "done" /\ hitEOF /\ pieces' = Noted(EOFToken)
      /\ plan' = plan /\ cursor' = cursor /\ token' = token /\ hitEOF' = hitEOF /\ modes' = modes
      /\ startIndex' = startIndex /\ prevAccept' = prevAccept /\ dfa' = dfa
      /\ Text' = Text
  BY TextStays DEF EmitEOF
<1>2. Ranges'
  BY <1>1 DEF DInv, Ranges
<1>3. DFAs'
  BY <1>1 DEF DInv, DFAs
<1>4. StatesKnown' /\ Unset' /\ EndSeen'
  BY <1>1 DEF DInv, StatesKnown, Unset, EndSeen, Matching, Making
<1>5. OneEOF'
  <2>1. NoEOF(pieces) /\ cursor.index = Len(Text)
    BY <1>1 DEF DInv, OneEOF, EndSeen
  <2>2. OfEOF(EOFToken) /\ EOFToken.channel = DEFAULT_CHANNEL
    BY DEF OfEOF, EOFToken, Piece
  <2>3. EOFEnds(pieces')
    BY <1>1, <2>1, <2>2, NotedEOF
  <2> QED BY <1>1, <2>1, <2>3 DEF OneEOF
<1> QED BY <1>2, <1>3, <1>4, <1>5 DEF DInv

LEMMA MatchKeeps ==
  ASSUME IInv, DInv, Match
  PROVE  DInv'
<1>1. /\ phase = "match" /\ phase' = "exec" /\ startIndex' = cursor.index
      /\ token'.start = token.start /\ token'.type = INVALID_TYPE /\ token'.channel = token.channel
      /\ plan' = plan /\ cursor' = cursor /\ hitEOF' = hitEOF /\ modes' = modes /\ pieces' = pieces
      /\ Text' = Text /\ Mode' = Mode
  BY TextStays DEF Match, Mode
<1>2. PICK start \in {IF dfa[Mode].s0 # NOSTATE THEN [number |-> dfa[Mode].s0, dfa |-> dfa[Mode]]
                      ELSE WithState(dfa[Mode], StartConfigs(Mode))} :
        /\ dfa' = [dfa EXCEPT ![Mode] = [start.dfa EXCEPT !.s0 = start.number]]
        /\ s' = start.number
        /\ prevAccept' = IF IsAccepting(start.dfa.states[start.number])
                         THEN Captured(start.number, cursor) ELSE NoAccept
  BY DEF Match
<1>3. Mode \in ModeNames /\ IsDFA(dfa[Mode]) /\ DOMAIN dfa = ModeNames /\ StartConfigs(Mode) \in Configs
  BY ModeFacts, RulesAssumption
<1>4. IsDFA(start.dfa) /\ start.number \in 1..Len(start.dfa.states)
  <2>1. CASE dfa[Mode].s0 # NOSTATE
    <3>1. start.number = dfa[Mode].s0 /\ start.dfa = dfa[Mode]
      BY <1>2, <2>1
    <3> QED BY <1>3, <2>1, <3>1 DEF IsDFA, NOSTATE
  <2>2. CASE dfa[Mode].s0 = NOSTATE
    <3>1. start = WithState(dfa[Mode], StartConfigs(Mode))
      BY <1>2, <2>2
    <3> QED BY <1>3, <3>1, WithStateFacts
  <2> QED BY <2>1, <2>2
<1> DEFINE d == [start.dfa EXCEPT !.s0 = start.number]
<1>5. IsDFA(d) /\ d.states = start.dfa.states
  BY <1>4 DEF IsDFA
<1>6. dfa' = [dfa EXCEPT ![Mode] = d]
  BY <1>2
<1> HIDE DEF d
<1>7. DFAs' /\ dfa'[Mode] = d
  BY <1>3, <1>5, <1>6 DEF DInv, DFAs
<1>8. /\ s' \in 1..Len(d.states) /\ prevAccept'.state \in 0..Len(d.states)
      /\ prevAccept'.state # NOSTATE => IsAccepting(d.states[prevAccept'.state]) /\ prevAccept'.at = cursor
      /\ prevAccept'.at \in {cursor, Beginning}
  BY <1>2, <1>4, <1>5 DEF Captured, NoAccept, NOSTATE
<1>9. Place(Text, cursor) /\ Place(Text, Beginning) /\ cursor.index \in Nat
  <2>1. Reading
    BY DEF IInv
  <2> QED BY <2>1, TextFacts, Beginnings DEF IInv, Place, Beginning
<1>10. Ranges'
  BY <1>1, <1>8, <1>9 DEF DInv, Ranges
<1>11. StatesKnown'
  BY <1>1, <1>7, <1>8, <1>9 DEF StatesKnown, AcceptedConfigs
<1>12. Unset' /\ EndSeen' /\ OneEOF'
  BY <1>1 DEF DInv, Unset, EndSeen, OneEOF, Matching, Making
<1> QED BY <1>7, <1>10, <1>11, <1>12 DEF DInv

(* Following an edge to a state of the DFA, which may have grown. *)
LEMMA FollowKeepsDInv ==
  ASSUME IInv, DInv, phase = "exec", NEW d, IsDFA(d), Grown(dfa[Mode], d), dfa' = [dfa EXCEPT ![Mode] = d],
         NEW target \in 0..Len(d.states), Follow(target, d.states),
         plan' = plan, token' = token, hitEOF' = hitEOF, modes' = modes, startIndex' = startIndex,
         pieces' = pieces
  PROVE  DInv'
<1>1. Mode \in ModeNames /\ DOMAIN dfa = ModeNames /\ Mode' = Mode /\ Text' = Text
  BY ModeFacts, TextStays DEF Mode
<1>2. DFAs' /\ dfa'[Mode] = d
  BY <1>1 DEF DInv, DFAs
<1>3. /\ Place(Text, cursor) /\ startIndex \in 0..cursor.index /\ cursor.index \in Nat
      /\ Reading /\ hitEOF \in BOOLEAN
  BY DEF IInv, DInv, Ranges, Place
<1>4. /\ Matching /\ Making /\ Matching'
      /\ (Making' => Making) /\ phase' # "done" /\ phase # "done"
  BY DEF Matching, Making, Follow
<1>5. /\ Place(Text, cursor') /\ cursor'.index \in Nat /\ cursor.index <= cursor'.index
      /\ cursor.index = Len(Text) => cursor' = cursor
  <2>1. cursor' = cursor \/ cursor' = Onward(cursor)
    BY DEF Follow
  <2>2. Place(Text, Onward(cursor)) /\ cursor.index <= Onward(cursor).index
    BY <1>3, OnwardIsPlace
  <2>3. cursor.index = Len(Text) => Onward(cursor) = cursor
    <3>1. cursor.index \in 0..Len(Text)
      BY <1>3 DEF Place
    <3> QED BY <1>3, <3>1, EOFAtEnd DEF Onward
  <2> QED BY <1>3, <2>1, <2>2, <2>3 DEF Place
<1>6. Len(d.states) \in Nat /\ Len(dfa[Mode].states) \in Nat
  BY ModeFacts DEF IsDFA
<1>7. /\ s \in 1..Len(d.states) /\ prevAccept.state \in 0..Len(d.states)
      /\ prevAccept.state # NOSTATE =>
           IsAccepting(d.states[prevAccept.state]) /\ startIndex <= prevAccept.at.index
  <2>1. /\ s \in 1..Len(dfa[Mode].states) /\ prevAccept.state \in 0..Len(dfa[Mode].states)
        /\ prevAccept.state # NOSTATE =>
             IsAccepting(dfa[Mode].states[prevAccept.state]) /\ startIndex <= prevAccept.at.index
    BY <1>4 DEF DInv, StatesKnown, AcceptedConfigs
  <2>2. prevAccept.state # NOSTATE => prevAccept.state \in 1..Len(dfa[Mode].states)
    BY <2>1 DEF NOSTATE
  <2> QED BY <1>6, <2>1, <2>2 DEF Grown
<1>8. /\ s' \in 1..Len(d.states) /\ prevAccept'.state \in 0..Len(d.states)
      /\ prevAccept'.state # NOSTATE =>
           IsAccepting(d.states[prevAccept'.state]) /\ startIndex <= prevAccept'.at.index
      /\ Place(Text, prevAccept'.at)
  <2>1. Place(Text, prevAccept.at)
    BY DEF DInv, Ranges
  <2>2. CASE target = NOSTATE
    BY <1>7, <2>1, <2>2 DEF Follow
  <2>3. CASE target # NOSTATE
    <3>1. s' \in {s, target} /\ target \in 1..Len(d.states)
      BY <2>3 DEF Follow, NOSTATE
    <3>2. CASE IsAccepting(d.states[target])
      <4>1. prevAccept' = [state |-> target, at |-> cursor']
        BY <2>3, <3>2 DEF Follow, Captured
      <4>2. startIndex <= cursor'.index
        BY <1>3, <1>5
      <4> QED BY <1>5, <1>7, <3>1, <3>2, <4>1, <4>2
    <3>3. CASE ~IsAccepting(d.states[target])
      <4>1. prevAccept' = prevAccept
        BY <2>3, <3>3 DEF Follow
      <4> QED BY <1>7, <2>1, <3>1, <4>1
    <3> QED BY <3>2, <3>3
  <2> QED BY <2>2, <2>3
<1>9. Ranges'
  <2>1. startIndex' \in 0..cursor'.index
    BY <1>3, <1>5
  <2> QED BY <1>1, <1>8, <2>1 DEF DInv, Ranges
<1>10. StatesKnown'
  BY <1>1, <1>2, <1>8 DEF StatesKnown, AcceptedConfigs
<1>11. Unset' /\ OneEOF'
  BY <1>4 DEF DInv, Unset, OneEOF
<1>12. EndSeen'
  BY <1>1, <1>4, <1>5 DEF DInv, EndSeen
<1> QED BY <1>2, <1>9, <1>10, <1>11, <1>12 DEF DInv

LEMMA ExistingTargetStateKeeps ==
  ASSUME IInv, DInv, ExistingTargetState
  PROVE  DInv'
<1>1. /\ phase = "exec" /\ Edge \in DOMAIN dfa[Mode].edges
      /\ Follow(dfa[Mode].edges[Edge], dfa[Mode].states)
      /\ plan' = plan /\ token' = token /\ hitEOF' = hitEOF /\ modes' = modes
      /\ startIndex' = startIndex /\ dfa' = dfa /\ pieces' = pieces
  BY DEF ExistingTargetState
<1> DEFINE d == dfa[Mode]
<1>2. IsDFA(d) /\ Mode \in ModeNames /\ dfa = [m \in ModeNames |-> dfa[m]]
  BY ModeFacts DEF DInv, DFAs
<1>3. d.edges[Edge] \in 0..Len(d.states)
  BY <1>1, <1>2 DEF IsDFA, Edges
<1>4. Grown(d, d)
  BY <1>2 DEF Grown, IsDFA
<1>5. dfa' = [dfa EXCEPT ![Mode] = d]
  BY <1>1, <1>2
<1> QED BY <1>1, <1>2, <1>3, <1>4, <1>5, FollowKeepsDInv

LEMMA ComputeTargetStateKeeps ==
  ASSUME IInv, DInv, ComputeTargetState
  PROVE  DInv'
<1> DEFINE reach == Reach(dfa[Mode].states[s], t)
           added == IF reach = << >> THEN [number |-> NOSTATE, dfa |-> dfa[Mode]]
                    ELSE WithState(dfa[Mode], reach)
           d == WithEdge(added.dfa, added.number)
<1>1. /\ phase = "exec" /\ dfa' = [dfa EXCEPT ![Mode] = d] /\ Follow(added.number, added.dfa.states)
      /\ plan' = plan /\ token' = token /\ hitEOF' = hitEOF /\ modes' = modes
      /\ startIndex' = startIndex /\ pieces' = pieces
  BY DEF ComputeTargetState
<1>2. IsDFA(dfa[Mode]) /\ s \in 1..Len(dfa[Mode].states) /\ s \in Nat
      /\ dfa[Mode].states[s] \in Configs
  <2>1. s \in 1..Len(dfa[Mode].states)
    BY <1>1 DEF DInv, StatesKnown, Matching
  <2> QED BY <2>1, ModeFacts DEF IsDFA
<1>3. t \in Char \union {EOF}
  <2>1. Reading /\ cursor.index \in 0..Len(Text)
    BY DEF IInv, Place
  <2> QED BY <2>1, TextFacts DEF t, LAat
<1>4. reach \in Configs \union {<< >>}
  BY <1>2, <1>3, RulesAssumption
<1> HIDE DEF reach
<1>5. IsDFA(added.dfa) /\ Grown(dfa[Mode], added.dfa) /\ added.number \in 0..Len(added.dfa.states)
  <2>1. CASE reach = << >>
    BY <1>2, <2>1 DEF Grown, IsDFA, NOSTATE
  <2>2. CASE reach # << >>
    <3>1. reach \in Configs /\ added = WithState(dfa[Mode], reach)
      BY <1>4, <2>2
    <3> HIDE DEF added
    <3> QED BY <1>2, <3>1, WithStateFacts
  <2> QED BY <2>1, <2>2
<1> HIDE DEF added
<1>6. IsDFA(d) /\ d.states = added.dfa.states
  BY <1>2, <1>3, <1>5, WithEdgeFacts
<1> HIDE DEF d
<1>7. Grown(dfa[Mode], d)
  BY <1>5, <1>6 DEF Grown
<1> QED BY <1>1, <1>5, <1>6, <1>7, FollowKeepsDInv

(* nextToken ends, or goes round once more, at a place that is not before  *)
(* the one the match began at.                                             *)
LEMMA ConcludeKeepsDInv ==
  ASSUME IInv, DInv, phase = "fail", plan' = plan, startIndex' = startIndex, prevAccept' = prevAccept,
         dfa' = dfa, modes' \in ModeStack,
         NEW now, NEW type, NEW channel, NEW kind, NEW last,
         Conclude(now, type, channel, kind, last), Place(Text, now), startIndex <= now.index,
         type = MORE => channel = DEFAULT_CHANNEL,
         type = EOF => kind = "token" /\ channel = DEFAULT_CHANNEL /\ now.index = Len(Text)
  PROVE  DInv'
<1> DEFINE piece == Piece(kind, type, channel, token.start, last)
<1>1. /\ cursor' = now /\ hitEOF' = (hitEOF \/ LAat(now.index) = EOF) /\ Text' = Text
      /\ token'.start = token.start /\ token'.channel = channel
      /\ phase' \in {"match", "next", "done"}
      /\ phase' = "match" => type = MORE
      /\ phase' = "done" <=> type = EOF
      /\ type = MORE => pieces' = pieces
      /\ type # MORE => pieces' = Noted(piece)
  BY TextStays DEF Conclude, MORE, EOF
<1>2. /\ Reading /\ Matching /\ Making /\ phase # "done"
      /\ startIndex \in Nat /\ now.index \in 0..Len(Text) /\ Len(Text) \in Nat
      /\ LAat(now.index) = EOF <=> now.index = Len(Text)
  <2>1. Reading /\ startIndex \in 0..cursor.index
    BY DEF IInv, DInv, Ranges
  <2> QED BY <2>1, TextFacts, EOFAtEnd DEF Matching, Making, Place
<1>3. Ranges'
  <2>1. hitEOF' \in BOOLEAN
    BY <1>1
  <2>2. startIndex' \in 0..cursor'.index
    BY <1>1, <1>2
  <2> QED BY <1>1, <2>1, <2>2 DEF DInv, Ranges
<1>4. DFAs'
  BY DEF DInv, DFAs
<1>5. StatesKnown' /\ Unset'
  BY <1>1 DEF StatesKnown, Unset, Matching, Making
<1>6. EndSeen'
  <2>1. hitEOF => now.index = Len(Text)
    BY <1>2 DEF DInv, EndSeen
  <2> QED BY <1>1, <1>2, <2>1 DEF EndSeen, Matching
<1>7. OneEOF'
  <2>1. NoEOF(pieces) /\ (OfEOF(piece) <=> kind = "token" /\ type = EOF) /\ piece.channel = channel
    BY <1>2 DEF DInv, OneEOF, OfEOF, Piece
  <2>2. type # MORE => /\ ~OfEOF(piece) => NoEOF(pieces')
                       /\ OfEOF(piece) /\ piece.channel = DEFAULT_CHANNEL => EOFEnds(pieces')
    <3> HIDE DEF piece
    <3> QED BY <1>1, <2>1, NotedEOF
  <2>3. CASE type = EOF
    <3>1. type # MORE
      BY <2>3 DEF EOF, MORE
    <3> QED BY <1>1, <2>1, <2>2, <2>3, <3>1 DEF OneEOF
  <2>4. CASE type # EOF
    BY <1>1, <2>1, <2>2, <2>4 DEF OneEOF
  <2> QED BY <2>3, <2>4
<1> QED BY <1>3, <1>4, <1>5, <1>6, <1>7 DEF DInv

(* What the last end of a rule was kept with. *)
LEMMA AcceptedFacts ==
  ASSUME IInv, DInv, phase = "fail", prevAccept.state # NOSTATE
  PROVE  /\ TypeOf(AcceptedConfigs) \notin {EOF, MORE}
         /\ AreCommands(ActionsOf(AcceptedConfigs))
         /\ token.type = INVALID_TYPE /\ token.channel = DEFAULT_CHANNEL /\ modes \in ModeStack
         /\ Place(Text, prevAccept.at) /\ startIndex <= prevAccept.at.index
<1>1. Matching /\ Making
  BY DEF Matching, Making
<1>2. /\ prevAccept.state \in 0..Len(dfa[Mode].states) /\ IsAccepting(AcceptedConfigs)
      /\ startIndex <= prevAccept.at.index
  BY <1>1 DEF DInv, StatesKnown
<1>3. AcceptedConfigs \in Configs
  <2>1. prevAccept.state \in 1..Len(dfa[Mode].states)
    BY <1>2 DEF NOSTATE
  <2> QED BY <2>1, ModeFacts DEF AcceptedConfigs, IsDFA
<1> QED BY <1>1, <1>2, <1>3, RulesAssumption DEF DInv, Ranges, Unset

LEMMA AcceptKeeps ==
  ASSUME IInv, DInv, Accept
  PROVE  DInv'
<1> DEFINE l == Executed(ActionsOf(AcceptedConfigs))
           type == IF l.type = INVALID_TYPE THEN TypeOf(AcceptedConfigs) ELSE l.type
<1>1. /\ phase = "fail" /\ prevAccept.state # NOSTATE /\ modes' = l.modes
      /\ Conclude(prevAccept.at, type, l.channel, IF type = SKIP THEN "skipped" ELSE "token",
                  prevAccept.at.index - 1)
      /\ plan' = plan /\ startIndex' = startIndex /\ prevAccept' = prevAccept /\ dfa' = dfa
  BY DEF Accept
<1>2. /\ TypeOf(AcceptedConfigs) \notin {EOF, MORE}
      /\ Place(Text, prevAccept.at) /\ startIndex <= prevAccept.at.index
  BY <1>1, AcceptedFacts
<1>3. /\ l.modes \in ModeStack /\ l.type # EOF
      /\ l.type = MORE => l.channel = DEFAULT_CHANNEL
  BY <1>1, AcceptedFacts, ExecutedFacts
<1> HIDE DEF l
<1>4. type # EOF /\ (type = MORE => l.channel = DEFAULT_CHANNEL)
  BY <1>2, <1>3
<1> HIDE DEF type
<1> QED BY <1>1, <1>2, <1>3, <1>4, ConcludeKeepsDInv

LEMMA PopModeThrowsKeeps ==
  ASSUME IInv, DInv, PopModeThrows
  PROVE  DInv'
<1> DEFINE l == Executed(ActionsOf(AcceptedConfigs))
           piece == Piece("thrown", l.type, l.channel, token.start, prevAccept.at.index - 1)
<1>1. /\ phase = "fail" /\ prevAccept.state # NOSTATE /\ modes' = l.modes
      /\ token'.start = token.start /\ pieces' = Noted(piece)
      /\ cursor' = prevAccept.at /\ phase' = "next" /\ hitEOF' = hitEOF
      /\ plan' = plan /\ startIndex' = startIndex /\ prevAccept' = prevAccept /\ dfa' = dfa
      /\ Text' = Text
  BY TextStays DEF PopModeThrows
<1>2. Place(Text, prevAccept.at) /\ startIndex <= prevAccept.at.index /\ l.modes \in ModeStack
  BY <1>1, AcceptedFacts, ExecutedFacts
<1>3. startIndex \in Nat /\ prevAccept.at.index \in 0..Len(Text) /\ Len(Text) \in Nat
  <2>1. Reading /\ startIndex \in 0..cursor.index
    BY DEF IInv, DInv, Ranges
  <2> QED BY <1>2, <2>1, TextFacts DEF Place
<1>4. Ranges'
  <2>1. startIndex' \in 0..cursor'.index
    BY <1>1, <1>2, <1>3
  <2> QED BY <1>1, <1>2, <2>1 DEF DInv, Ranges
<1>5. DFAs'
  BY <1>1 DEF DInv, DFAs
<1>6. StatesKnown' /\ Unset'
  BY <1>1 DEF StatesKnown, Unset, Matching, Making
<1>7. EndSeen'
  <2>1. hitEOF => startIndex = Len(Text)
    BY <1>1 DEF DInv, EndSeen, Matching
  <2> QED BY <1>1, <1>2, <1>3, <2>1 DEF EndSeen, Matching
<1>8. OneEOF'
  <2>1. NoEOF(pieces) /\ ~OfEOF(piece)
    BY <1>1 DEF DInv, OneEOF, OfEOF, Piece
  <2> HIDE DEF piece
  <2> QED BY <1>1, <2>1, NotedEOF DEF OneEOF
<1> QED BY <1>4, <1>5, <1>6, <1>7, <1>8 DEF DInv

LEMMA EndOfTextKeeps ==
  ASSUME IInv, DInv, EndOfText
  PROVE  DInv'
<1>1. /\ phase = "fail" /\ t = EOF /\ modes' = modes
      /\ Conclude(cursor, EOF, token.channel, "token", cursor.index - 1)
      /\ plan' = plan /\ startIndex' = startIndex /\ prevAccept' = prevAccept /\ dfa' = dfa
  BY DEF EndOfText, NothingLeft
<1>2. /\ Place(Text, cursor) /\ startIndex <= cursor.index /\ modes \in ModeStack
      /\ token.channel = DEFAULT_CHANNEL /\ Reading
  BY <1>1 DEF IInv, DInv, Ranges, Unset, Making
<1>3. cursor.index = Len(Text)
  <2>1. cursor.index \in 0..Len(Text)
    BY <1>2 DEF Place
  <2> QED BY <1>1, <1>2, <2>1, EOFAtEnd DEF t
<1> QED BY <1>1, <1>2, <1>3, ConcludeKeepsDInv

LEMMA NoViableAltKeeps ==
  ASSUME IInv, DInv, NoViableAlt
  PROVE  DInv'
<1>1. /\ phase = "fail" /\ modes' = modes
      /\ Conclude(Recovered, SKIP, token.channel, "error", Quoted)
      /\ plan' = plan /\ startIndex' = startIndex /\ prevAccept' = prevAccept /\ dfa' = dfa
  BY DEF NoViableAlt
<1>2. /\ Place(Text, cursor) /\ startIndex \in 0..cursor.index /\ modes \in ModeStack
      /\ token.channel = DEFAULT_CHANNEL /\ Reading
  BY <1>1 DEF IInv, DInv, Ranges, Unset, Making
<1>3. Recovered = Onward(cursor)
  BY DEF Recovered, Onward, t
<1>4. Place(Text, Recovered) /\ cursor.index <= Recovered.index
  BY <1>2, <1>3, OnwardIsPlace
<1>5. startIndex <= Recovered.index
  BY <1>2, <1>4 DEF Place
<1>6. SKIP # EOF
  BY DEF SKIP, EOF
<1> QED BY <1>1, <1>2, <1>4, <1>5, <1>6, ConcludeKeepsDInv

LEMMA NextTextKeeps ==
  ASSUME IInv, DInv, NextText
  PROVE  DInv'
<1>1. /\ phase' = "next" /\ hitEOF' = FALSE /\ startIndex' = 0 /\ pieces' = << >>
      /\ cursor' = Beginning /\ token'.start = Beginning /\ prevAccept'.at = Beginning
      /\ modes' = <<Head(plan').mode>> /\ dfa' = dfa
  BY DEF NextText, Fresh, NoAccept
<1>2. IInv'
  BY NextTextStep
<1>3. Place(Text', cursor') /\ cursor'.index = 0 /\ plan' \in Seq(Source) /\ plan' # << >>
  BY <1>1, <1>2 DEF IInv, Reading, Beginning
<1>4. Ranges'
  <2>1. modes' \in ModeStack
    BY <1>1, <1>3, FreshModes
  <2>2. Place(Text', token'.start) /\ Place(Text', prevAccept'.at) /\ startIndex' \in 0..cursor'.index
    BY <1>1, <1>3
  <2>3. hitEOF' \in BOOLEAN
    BY <1>1
  <2> QED BY <2>1, <2>2, <2>3 DEF Ranges
<1>5. DFAs'
  BY <1>1 DEF DInv, DFAs
<1>6. StatesKnown' /\ Unset' /\ EndSeen'
  BY <1>1 DEF StatesKnown, Unset, EndSeen, Matching, Making
<1>7. OneEOF'
  BY <1>1 DEF OneEOF, NoEOF
<1> QED BY <1>4, <1>5, <1>6, <1>7 DEF DInv

LEMMA NextKeepsDInv == IInv /\ DInv /\ [Next]_vars => DInv'
<1> SUFFICES ASSUME IInv, DInv, [Next]_vars PROVE DInv'
  OBVIOUS
<1>1. CASE UNCHANGED vars
  <2>1. Text' = Text /\ Mode' = Mode /\ AcceptedConfigs' = AcceptedConfigs
    BY <1>1 DEF vars, Text, Mode, AcceptedConfigs
  <2>2. Ranges' /\ DFAs' /\ StatesKnown' /\ Unset' /\ EndSeen' /\ OneEOF'
    BY <1>1, <2>1 DEF vars, DInv, Ranges, DFAs, StatesKnown, Unset, EndSeen, OneEOF, Matching, Making
  <2> QED BY <2>2 DEF DInv
<1> QED BY <1>1, NextTokenKeeps, EmitEOFKeeps, MatchKeeps, ExistingTargetStateKeeps,
           ComputeTargetStateKeeps, AcceptKeeps, PopModeThrowsKeeps, EndOfTextKeeps,
           NoViableAltKeeps, NextTextKeeps DEF Next, Finished

(* The second invariant, for any rules the assumption allows. *)
THEOREM LexerDeliveryInvariant == Spec => []DInv
BY InitDInv, NextKeepsDInv, LexerInvariant, PTL DEF Spec

-----------------------------------------------------------------------------
LEMMA PlaceIsCursor ==
  ASSUME Reading, NEW c, Place(Text, c)
  PROVE  c \in Cursor
<1> DEFINE n == c.index
           feeds == LineFeeds(Text, n)
<1>1. n \in 0..Len(Text) /\ n \in Nat /\ Len(Text) \in Nat /\ c = CursorAt(Text, n)
  BY TextFacts DEF Place
<1>2. Cardinality(feeds) \in 0..n
  <2>1. IsFiniteSet(1..n) /\ Cardinality(1..n) = n
    <3>1. n \in Int /\ 1 \in Int /\ (IF 1 > n THEN 0 ELSE n - 1 + 1) = n
      BY <1>1
    <3> HIDE DEF n
    <3> QED BY <3>1, FS_Interval
  <2>2. feeds \subseteq 1..n
    BY DEF LineFeeds
  <2> HIDE DEF feeds
  <2>3. Cardinality(feeds) <= Cardinality(1..n) /\ Cardinality(feeds) \in Nat
    BY <2>1, <2>2, FS_Subset, FS_CardinalityType
  <2> QED BY <1>1, <2>1, <2>3
<1>3. Max(feeds \union {0}) \in 0..n
  <2>1. feeds \union {0} \in SUBSET (0..n) /\ 0 \in feeds \union {0}
    BY <1>1 DEF LineFeeds
  <2> HIDE DEF feeds
  <2> QED BY <1>1, <2>1, GreatestIndex
<1>4. c = [index |-> n, line |-> 1 + Cardinality(feeds), column |-> n - Max(feeds \union {0})]
  BY <1>1 DEF CursorAt
<1> HIDE DEF feeds, n
<1>5. /\ 1 + Cardinality(feeds) \in 1..(Len(Text) + 1)
      /\ n - Max(feeds \union {0}) \in 0..Len(Text)
  BY <1>1, <1>2, <1>3
<1> QED BY <1>1, <1>4, <1>5 DEF Cursor

(* The fields of the lexer keep their ranges: the state a match is in and  *)
(* the one it would go back to are states of the DFA of its mode, edges    *)
(* end at states, and there always is a mode.                              *)
THEOREM LexerTypeOK == Spec => []TypeOK
<1>1. IInv /\ DInv => TypeOK
  <2> SUFFICES ASSUME IInv, DInv PROVE TypeOK
    OBVIOUS
  <2>1. Reading /\ plan # << >> /\ phase \in {"next", "match", "exec", "fail", "done"}
    BY DEF IInv, Reading
  <2>2. cursor \in Cursor /\ token.start \in Cursor /\ prevAccept.at \in Cursor
    BY <2>1, PlaceIsCursor DEF IInv, DInv, Ranges
  <2>3. hitEOF \in BOOLEAN /\ startIndex \in 0..cursor.index
    BY DEF DInv, Ranges
  <2>4. modes # << >> /\ Range(modes) \subseteq ModeNames
    BY DEF DInv, Ranges, ModeStack, Range
  <2>5. ASSUME NEW m \in ModeNames
        PROVE  /\ dfa[m].s0 \in 0..Len(dfa[m].states)
               /\ \A e \in DOMAIN dfa[m].edges : dfa[m].edges[e] \in 0..Len(dfa[m].states)
    <3>1. IsDFA(dfa[m])
      BY DEF DInv, DFAs
    <3> QED BY <3>1 DEF IsDFA, Edges
  <2>6. phase \in {"exec", "fail"} =>
          s \in DOMAIN dfa[Mode].states /\ prevAccept.state \in 0..Len(dfa[Mode].states)
    <3>1. DOMAIN dfa[Mode].states = 1..Len(dfa[Mode].states)
      BY ModeFacts DEF IsDFA
    <3> QED BY <3>1 DEF DInv, StatesKnown, Matching
  <2> QED BY <2>1, <2>2, <2>3, <2>4, <2>5, <2>6 DEF TypeOK
<1> QED BY <1>1, LexerInvariant, LexerDeliveryInvariant, PTL

(* The tokens among the pieces: those before the last are what the others  *)
(* deliver, none of them EOF.                                              *)
LEMMA DeliveredFacts ==
  ASSUME NEW S, pieces \in Seq(S), EOFEnds(pieces)
  PROVE  \E before \in Seq({piece \in S : piece.type # EOF}) : Delivered = Append(before, Last(pieces))
<1> DEFINE n == Len(pieces)
           Fetch(ps, k) == IF pieces[k].kind = "token" THEN Append(ps, pieces[k]) ELSE ps
           step == [k \in 1..n |-> [ps \in Seq(S) |-> Fetch(ps, k)]]
           W(f) == [k \in 0..n |-> IF k = 0 THEN << >>
                                   ELSE IF pieces[k].kind = "token" THEN Append(f[k - 1], pieces[k])
                                   ELSE f[k - 1]]
           run == CHOOSE f : f = W(f)
           B == {piece \in S : piece.type # EOF}
<1>1. n \in Nat /\ n # 0 /\ Last(pieces) = pieces[n] /\ \A k \in 1..n : pieces[k] \in S
  BY DEF EOFEnds, Last
<1>2. step \in [1..n -> [Seq(S) -> Seq(S)]]
  <2>1. \A k \in 1..n, ps \in Seq(S) : Fetch(ps, k) \in Seq(S)
    BY <1>1
  <2> HIDE DEF Fetch
  <2> QED BY <2>1
<1>3. PICK f \in [0..n -> Seq(S)] : IsRun(f, step, << >>, n)
  <2>1. << >> \in Seq(S)
    OBVIOUS
  <2> HIDE DEF step, n
  <2> QED BY <1>1, <1>2, <2>1, RunExists
<1>4. f = W(f)
  <2>1. ASSUME NEW k \in 0..n, k # 0 PROVE f[k] = Fetch(f[k - 1], k)
    <3>1. k \in 1..n /\ k - 1 \in 0..n
      BY <1>1, <2>1
    <3> QED BY <1>3, <3>1 DEF IsRun
  <2> QED BY <1>3, <2>1 DEF IsRun
<1>5. run = W(run)
  <2> HIDE DEF W
  <2> QED BY <1>4
<1>6. run[0] = << >> /\ \A k \in 1..n : run[k] = Fetch(run[k - 1], k)
  <2>1. \A k \in 0..n : run[k] = IF k = 0 THEN << >> ELSE Fetch(run[k - 1], k)
    <3> HIDE DEF run
    <3> QED BY <1>5
  <2> HIDE DEF run, n, Fetch
  <2> QED BY <1>1, <2>1
<1>7. Delivered = run[n]
  BY DEF Delivered
<1> HIDE DEF run, n
<1>8. \A k \in 0..(n - 1) : run[k] \in Seq(B)
  <2>1. run[0] \in Seq(B) /\ n - 1 \in Nat
    <3>1. << >> \in Seq(B)
      OBVIOUS
    <3> QED BY <1>1, <1>6, <3>1
  <2>2. ASSUME NEW k \in 1..(n - 1), run[k - 1] \in Seq(B)
        PROVE  run[k] \in Seq(B)
    <3>1. k \in 1..n
      BY <1>1
    <3>2. pieces[k].kind = "token" => pieces[k] \in B
      BY <1>1, <3>1 DEF EOFEnds, OfEOF, n
    <3> HIDE DEF B
    <3>3. run[k] = IF pieces[k].kind = "token" THEN Append(run[k - 1], pieces[k]) ELSE run[k - 1]
      BY <1>6, <3>1
    <3> QED BY <2>2, <3>2, <3>3
  <2> HIDE DEF B
  <2> QED BY <2>1, <2>2, RunStays
<1>9. run[n] = Append(run[n - 1], pieces[n]) /\ n - 1 \in 0..(n - 1)
  <2>1. n \in 1..n /\ pieces[n].kind = "token"
    BY <1>1 DEF EOFEnds, OfEOF
  <2>2. run[n] = Fetch(run[n - 1], n)
    <3> HIDE DEF Fetch
    <3> QED BY <1>6, <2>1
  <2>3. n - 1 \in 0..(n - 1)
    BY <1>1
  <2> QED BY <2>1, <2>2, <2>3
<1> QED BY <1>1, <1>7, <1>8, <1>9

(* Whatever the text, whatever mode it begins in and wherever matches fail *)
(* or popMode throws: what the lexer has delivered when it is done is what *)
(* the token stream is told to expect, with EOF where the text ends.       *)
THEOREM LexerDeliversWellFormed == Spec => []DeliversWellFormed
<1>1. IInv /\ DInv => DeliversWellFormed
  <2> SUFFICES ASSUME IInv, DInv, phase = "done"
               PROVE  cursor.index = Len(Text) /\ Stream!WellFormed(Delivered)
    BY DEF DeliversWellFormed
  <2>1. cursor.index = Len(Text) /\ EOFEnds(pieces)
    BY DEF DInv, OneEOF
  <2>2. PICK S : pieces \in Seq(S)
    BY DEF IInv, Tiled
  <2> DEFINE B == {piece \in S : piece.type # EOF}
             end == Last(pieces)
  <2>3. PICK before \in Seq(B) : Delivered = Append(before, end)
    BY <2>1, <2>2, DeliveredFacts
  <2>4. end.type = "EOF" /\ end.channel = 0
    BY <2>1 DEF EOFEnds, OfEOF, EOF, DEFAULT_CHANNEL
  <2>5. /\ Len(before) \in Nat /\ \A k \in 1..Len(before) : before[k].type # "EOF"
        /\ \A k \in 1..Len(before) : before[k] \in B
    BY <2>3 DEF EOF
  <2> HIDE DEF B, end
  <2>6. /\ Len(Delivered) = Len(before) + 1 /\ Delivered # << >>
        /\ Delivered[Len(before) + 1] = end
        /\ \A k \in 1..Len(before) : Delivered[k] = before[k]
    <3>1. Len(before) \in Nat /\ before \in Seq(B \union {end})
      BY <2>3
    <3> QED BY <2>3, <3>1
  <2>7. \A k \in 1..Len(Delivered) : Delivered[k].type = "EOF" <=> k = Len(Delivered)
    BY <2>4, <2>5, <2>6
  <2> QED BY <2>1, <2>4, <2>6, <2>7 DEF Stream!WellFormed, Stream!IsEOF, Stream!DefaultChannel
<1> QED BY <1>1, LexerInvariant, LexerDeliveryInvariant, PTL
=============================================================================
