---------------------------- MODULE TokenStream ----------------------------
(***************************************************************************)
(* The token stream the parser reads through: CommonTokenStream over       *)
(* BufferedTokenStream (src/antlr/src).  Tokens are pulled from the lexer  *)
(* only when somebody looks at them, are kept for ever, and the comments,  *)
(* which the lexer puts on another channel, are skipped by the lookahead   *)
(* but stay in the buffer.                                                 *)
(*                                                                         *)
(* Indices are the code's: token i is tokens[i + 1] of the sequence.       *)
(***************************************************************************)
EXTENDS Tokens, FiniteSets

CONSTANTS
  Sources,   (* the token sequences a lexer may deliver                   *)
  MaxLook,   (* bound: lookahead and lookbehind distances                 *)
  WordSize   (* 2^w for the w bits of size_t                              *)

ASSUME SourcesAssumption ==
  /\ Sources \subseteq Seq(RawToken)
  /\ \A src \in Sources : WellFormed(src) /\ Len(src) + 1 < WordSize
ASSUME BoundsAssumption ==
  Channel \in Nat /\ MaxLook \in Nat /\ WordSize \in Nat \ {0}

VARIABLES
  source,     (* the lexer behind _tokenSource: all it will ever deliver   *)
  buffer,     (* _tokens, _fetchedEOF, and the lexer's own position        *)
  p,          (* _p                                                        *)
  needSetup,  (* _needSetup                                                *)
  ret         (* the last call and what it returned: a set of indices      *)

vars == <<source, buffer, p, needSetup, ret>>

-----------------------------------------------------------------------------
(* size_t arithmetic *)
Wrap(i) == i % WordSize

Size(b) == Len(b.tokens)

(* Lexer::nextToken: the n-th call.  Once it hit EOF it emits EOF again. *)
NextToken(n) == source[IF n <= Len(source) THEN n ELSE Len(source)]

(* Token i carries the index it was stored at. *)
Stamp(t, i) == [type |-> t.type, channel |-> t.channel, index |-> i]

(* How many tokens fetch(n) appends: it stops after the first EOF. *)
FetchCount(b, n) ==
  CHOOSE k \in 0..n :
    /\ \A j \in 1..(k - 1) : ~IsEOF(NextToken(b.delivered + j))
    /\ k = n \/ (k > 0 /\ IsEOF(NextToken(b.delivered + k)))

(* Mutant: fetch stops at EOF but does not remember that it did.           *)
FetchUnmarked(b, n) ==
  LET k == FetchCount(b, n) IN
  [ tokens     |-> [i \in 1..(Size(b) + k) |->
                      IF i <= Size(b) THEN b.tokens[i]
                      ELSE Stamp(NextToken(b.delivered + i - Size(b)), i - 1)],
    fetchedEOF |-> FALSE,
    delivered  |-> b.delivered + k ]

Fetch(b, n) ==
  IF b.fetchedEOF THEN b
  ELSE LET k == FetchCount(b, n) IN
       [ tokens     |-> [i \in 1..(Size(b) + k) |->
                           IF i <= Size(b) THEN b.tokens[i]
                           ELSE Stamp(NextToken(b.delivered + i - Size(b)), i - 1)],
         fetchedEOF |-> k > 0 /\ IsEOF(NextToken(b.delivered + k)),
         delivered  |-> b.delivered + k ]

(* sync(i): the buffer after it, and what it returned. *)
Missing(b, i) == Wrap(i - Size(b) + 1)
Sync(b, i) ==
  IF Wrap(i + 1) < Size(b) \/ Missing(b, i) = 0 THEN b ELSE Fetch(b, Missing(b, i))
SyncOK(b, i) ==
  Wrap(i + 1) < Size(b) \/ Size(Sync(b, i)) - Size(b) >= Missing(b, i)

(* The token index i will hold once synced. *)
TokenAt(b, i) == Sync(b, i).tokens[i + 1]

(* nextTokenOnChannel(i), which fetches every token it walks over. *)
NextOnChannel(b, i, ch) ==
  IF i >= Size(Sync(b, i)) THEN Size(Sync(b, i)) - 1
  ELSE CHOOSE j \in i..(Len(source) - 1) :
         /\ TokenAt(b, j).channel = ch \/ IsEOF(TokenAt(b, j))
         /\ \A m \in i..(j - 1) :
              ~(TokenAt(b, m).channel = ch \/ IsEOF(TokenAt(b, m)))

(* The buffer nextTokenOnChannel(i) leaves behind. *)
Walked(b, i, ch) == Sync(Sync(b, i), NextOnChannel(b, i, ch))

(* Mutant: -1 for no token, which a size_t cannot hold. *)
PrevOrMinusOne(b, i, ch) ==
  LET good == {j \in 0..i : b.tokens[j + 1].channel = ch \/ IsEOF(b.tokens[j + 1])}
  IN IF i >= Size(b) THEN Size(b) - 1
     ELSE IF good = {} THEN -1
     ELSE CHOOSE j \in good : \A m \in good : m <= j

(* previousTokenOnChannel(i): gives up at index 0 and returns it. *)
PrevOnChannel(b, i, ch) ==
  LET good == {j \in 0..i : b.tokens[j + 1].channel = ch \/ IsEOF(b.tokens[j + 1])}
  IN IF i >= Size(b) THEN Size(b) - 1
     ELSE IF good = {} THEN 0
     ELSE CHOOSE j \in good : \A m \in good : m <= j

(* Mutant: BufferedTokenStream::adjustSeekIndex, which CommonTokenStream      *)
(* overrides: the index as it is.                                          *)
AtUnadjusted(b, i) == [b |-> b, p |-> i]

(* A stream position: the buffer and the cursor together.  adjustSeekIndex *)
(* is nextTokenOnChannel on the stream's channel.                          *)
At(b, i) == [b |-> Walked(b, i, Channel), p |-> NextOnChannel(b, i, Channel)]

(* lazyInit and setup *)
Ready == IF needSetup THEN At(Sync(buffer, 0), 0) ELSE [b |-> buffer, p |-> p]

Become(s) ==
  /\ buffer' = s.b
  /\ p' = s.p
  /\ needSetup' = FALSE
  /\ UNCHANGED source

Return(op, arg, out) == ret' = [op |-> op, arg |-> arg, out |-> out, threw |-> FALSE]
Throw(op, arg) == ret' = [op |-> op, arg |-> arg, out |-> {}, threw |-> TRUE]

-----------------------------------------------------------------------------
(* Mutant: adjusts from one index too far. *)
SkipTwo(s) ==
  IF SyncOK(s.b, s.p + 1) THEN At(Sync(s.b, s.p + 1), s.p + 2)
  ELSE [b |-> Sync(s.b, s.p + 1), p |-> s.p]

(* One token on, as consume and LT's loop do: sync, then adjust. *)
Skip(s) ==
  IF SyncOK(s.b, s.p + 1) THEN At(Sync(s.b, s.p + 1), s.p + 1)
  ELSE [b |-> Sync(s.b, s.p + 1), p |-> s.p]

(* consume: the EOF check is skipped while the cursor is inside the buffer. *)
SkipEofCheck ==
  /\ ~needSetup
  /\ p < IF buffer.fetchedEOF THEN Size(buffer) - 1 ELSE Size(buffer)

ConsumeEOF ==
  /\ ~SkipEofCheck
  /\ IsEOF(Ready.b.tokens[Ready.p + 1])
  /\ Become(Ready)
  /\ Throw("consume", 0)

Consume ==
  /\ SkipEofCheck \/ ~IsEOF(Ready.b.tokens[Ready.p + 1])
  /\ Become(Skip(Ready))
  /\ Return("consume", 0, {Ready.p})

(* seek(i); reset() is seek(0). *)
Seek(i) ==
  /\ Become(At(Ready.b, i))
  /\ Return("seek", i, {})

Reset == Seek(0)

(* Mutant: LT(k) skips k times instead of k - 1. *)
AheadOneMore(s, k) ==
  LET walk[n \in 0..k] == IF n = 0 THEN s ELSE Skip(walk[n - 1]) IN walk[k]

(* CommonTokenStream::LT(k) for k > 0: the current token, or k - 1 skips on *)
Ahead(s, k) ==
  LET walk[n \in 0..(k - 1)] == IF n = 0 THEN s ELSE Skip(walk[n - 1])
  IN walk[k - 1]

LT(k) ==
  LET s == Ahead(Ready, k) IN
  /\ Become([b |-> s.b, p |-> Ready.p])
  /\ Return("LT", k, {s.p})

(* Mutant: LB starts at the current token, not before it. *)
BehindFromHere(s, k) ==
  LET walk[n \in 0..k] ==
        IF n = 0 THEN s.p ELSE PrevOnChannel(s.b, Wrap(walk[n - 1]), Channel)
  IN walk[k]

(* CommonTokenStream::LB(k), reached through LT(-k) *)
Behind(s, k) ==
  LET walk[n \in 0..k] ==
        IF n = 0 THEN s.p ELSE PrevOnChannel(s.b, Wrap(walk[n - 1] - 1), Channel)
  IN walk[k]

LB(k) ==
  /\ Become(Ready)
  /\ Return("LB", k, IF k = 0 \/ k > Ready.p THEN {} ELSE {Behind(Ready, k)})

(* fill(): blocks of fetches until one comes up short *)
Fill ==
  /\ Become([b |-> Fetch(Ready.b, Len(source) + 1), p |-> Ready.p])
  /\ Return("fill", 0, {})

(* getHiddenTokensToRight(i) and getHiddenTokensToLeft(i), any channel *)
(* Mutant: filterForChannel that keeps every channel. *)
Unfiltered(b, from, to) == from..to

Hidden(b, from, to) == {i \in from..to : b.tokens[i + 1].channel # DefaultChannel}

HiddenRight(i) ==
  LET b == Ready.b
      to == NextOnChannel(b, i + 1, DefaultChannel)
      after == Walked(b, i + 1, DefaultChannel)
  IN IF i >= Size(b)
     THEN Become(Ready) /\ Throw("hiddenRight", i)
     ELSE /\ Become([b |-> after, p |-> Ready.p])
          /\ Return("hiddenRight", i, Hidden(after, i + 1, to))

(* Mutant: token i itself is where the search to the left begins. *)
HiddenLeftFromHere(i) ==
  LET b == Ready.b
      prev == PrevOnChannel(b, i, DefaultChannel)
  IN /\ Become(Ready)
     /\ IF i >= Size(b) THEN Throw("hiddenLeft", i)
        ELSE Return("hiddenLeft", i,
                    IF i = 0 \/ prev = i - 1 THEN {} ELSE Hidden(b, prev + 1, i - 1))

HiddenLeft(i) ==
  LET b == Ready.b
      prev == PrevOnChannel(b, i - 1, DefaultChannel)
  IN /\ Become(Ready)
     /\ IF i >= Size(b) THEN Throw("hiddenLeft", i)
        ELSE Return("hiddenLeft", i,
                    IF i = 0 \/ prev = i - 1 THEN {} ELSE Hidden(b, prev + 1, i - 1))

(* getNumberOfOnChannelTokens *)
CountOnChannel ==
  LET b == Fetch(Ready.b, Len(source) + 1) IN
  /\ Become([b |-> b, p |-> Ready.p])
  /\ Return("count", 0, {i \in 0..(Size(b) - 1) : b.tokens[i + 1].channel = Channel})

(* setTokenSource: _p keeps its old value until the next call sets it up *)
Empty == [tokens |-> << >>, fetchedEOF |-> FALSE, delivered |-> 0]

SetTokenSource(src) ==
  /\ source' = src
  /\ buffer' = Empty
  /\ needSetup' = TRUE
  /\ UNCHANGED p
  /\ Return("setTokenSource", 0, {})

-----------------------------------------------------------------------------
(* _p is not initialised by the constructor: any value. *)
Init ==
  /\ source \in Sources
  /\ buffer = Empty
  /\ p \in 0..MaxLook
  /\ needSetup = TRUE
  /\ ret = [op |-> "new", arg |-> 0, out |-> {}, threw |-> FALSE]

Next ==
  \/ Consume
  \/ ConsumeEOF
  \/ Reset
  \/ \E i \in 0..Len(source) : Seek(i) \/ HiddenRight(i) \/ HiddenLeft(i)
  \/ \E k \in 1..MaxLook : LT(k) \/ LB(k)
  \/ Fill
  \/ CountOnChannel
  \/ \E src \in Sources : SetTokenSource(src)

Spec == Init /\ [][Next]_vars

-----------------------------------------------------------------------------
Token == [type : Types, channel : Nat, index : Nat]
Buffer == [tokens : Seq(Token), fetchedEOF : BOOLEAN, delivered : Nat]
Ops == {"new", "consume", "seek", "LT", "LB", "fill", "hiddenRight",
        "hiddenLeft", "count", "setTokenSource"}

(* The types of _tokens, _fetchedEOF, _p and of the recorded call. *)
TypeOK ==
  /\ source \in Sources
  /\ buffer \in Buffer
  /\ p \in Nat
  /\ needSetup \in BOOLEAN
  /\ ret \in [op : Ops, arg : Nat, out : SUBSET Nat, threw : BOOLEAN]

(* Every lexer token is fetched once and in order, whatever mixture of     *)
(* seeks, resets and second passes asked for it; _fetchedEOF says exactly  *)
(* that EOF is in the buffer, so the lexer is never asked again after EOF. *)
BufferIsPrefix ==
  /\ buffer.delivered = Size(buffer)
  /\ Size(buffer) <= Len(source)
  /\ \A i \in 1..Size(buffer) : buffer.tokens[i] = Stamp(source[i], i - 1)
  /\ buffer.fetchedEOF <=> Size(buffer) = Len(source)

(* Once set up, the cursor rests on a fetched token the parser may see: no *)
(* operation leaves it on a comment or past the end.                       *)
CursorOnChannel ==
  ~needSetup => /\ p \in 0..(Size(buffer) - 1)
                /\ Visible(buffer.tokens[p + 1])

(* The three together are inductive. *)
IInv == TypeOK /\ BufferIsPrefix /\ CursorOnChannel

(* The raw source indices the parser sees, and how many lie between two.   *)
Shown(from, to) == {i \in from..to : i < Len(source) /\ Visible(source[i + 1])}

(* LT(k) is the k-th visible token counting the current one, or EOF when   *)
(* there are not so many, although comments interleave and the buffer is   *)
(* filled while looking.                                                   *)
LookaheadCorrect ==
  ret.op = "LT" =>
    \A i \in ret.out :
      /\ i < Size(buffer) /\ Visible(buffer.tokens[i + 1])
      /\ \/ Cardinality(Shown(p, i)) = ret.arg
         \/ IsEOF(source[i + 1]) /\ Cardinality(Shown(p, i)) < ret.arg

(* LB(k) is the k-th visible token before the current one whenever there   *)
(* are that many.                                                          *)
LookbehindCorrect ==
  (ret.op = "LB" /\ Cardinality(Shown(0, p - 1)) >= ret.arg) =>
    \E i \in ret.out : /\ ret.out = {i}
                       /\ i < p /\ Visible(source[i + 1])
                       /\ Cardinality(Shown(i, p - 1)) = ret.arg

(* getHiddenTokensToRight(i) is every comment between token i and the next *)
(* token of the default channel.                                           *)
HiddenRightCorrect ==
  (ret.op = "hiddenRight" /\ ~ret.threw) =>
    LET hidden(i) == source[i + 1].channel # DefaultChannel IN
    \A i \in 0..(Len(source) - 1) :
      i \in ret.out <=> /\ ret.arg < i
                       /\ \A j \in (ret.arg + 1)..i : hidden(j)

(* BufferedTokenStream.h:179-182 of previousTokenOnChannel, on which LB    *)
(* rests: "Return -1 if there are no tokens on channel between i and 0".   *)
(* So a lookbehind never hands out a token of another channel.             *)
LookbehindOnChannel ==
  ret.op = "LB" => \A i \in ret.out : Visible(source[i + 1])

(* getHiddenTokensToLeft(i) is every comment between the token of the      *)
(* default channel before token i and token i, but for the first token of  *)
(* the file: index 0 also stands for there being no such token.            *)
HiddenLeftCorrect ==
  (ret.op = "hiddenLeft" /\ ~ret.threw) =>
    LET hidden(i) == source[i + 1].channel # DefaultChannel IN
    \A i \in 0..(Len(source) - 1) :
      i \in ret.out <=> /\ 0 < i /\ i < ret.arg
                       /\ \A j \in i..(ret.arg - 1) : hidden(j)

(* A cursor over the whole input, with no buffer behind it: before the     *)
(* first call it already stands on the first visible token.                *)
FirstVisible == CHOOSE j \in 0..(Len(source) - 1) :
                  /\ Visible(source[j + 1])
                  /\ \A m \in 0..(j - 1) : ~Visible(source[m + 1])

C == INSTANCE TokenCursor WITH input <- source,
                               pos <- IF needSetup THEN FirstVisible ELSE p,
                               call <- [op |-> ret.op, arg |-> ret.arg]
ImplementsCursor == C!Cursor
=============================================================================
