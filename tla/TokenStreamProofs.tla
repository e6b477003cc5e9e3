------------------------- MODULE TokenStreamProofs -------------------------
(***************************************************************************)
(* Proofs about TokenStream, for every set of sources, every channel and   *)
(* every word size.  The argument: whatever the calls, the buffer is       *)
(* Prefix(n), the first n tokens of the source, for some n; each helper is *)
(* a function from prefixes to prefixes; and nextTokenOnChannel finds the  *)
(* first visible token, fetched or not.                                    *)
(***************************************************************************)
EXTENDS TokenStream, WellFoundedInduction, TLAPS

(* The buffer that holds the first n tokens of the source. *)
Prefix(n) ==
  [ tokens     |-> [i \in 1..n |-> Stamp(source[i], i - 1)],
    fetchedEOF |-> n = Len(source),
    delivered  |-> n ]

-----------------------------------------------------------------------------
(* A non-empty set of naturals has a least element. *)
LEMMA Least ==
  ASSUME NEW S \in SUBSET Nat, S # {}
  PROVE  \E j \in S : \A m \in S : j <= m
<1>1. PICK j \in S : \A m \in S : ~(<<m, j>> \in OpToRel(<, Nat))
  BY WFMin, NatLessThanWellFounded, Zenon
<1>2. \A m \in S : ~(m < j)
  BY <1>1 DEF OpToRel
<1> QED BY <1>2

(* size_t arithmetic is exact below the word size. *)
LEMMA WrapSmall ==
  ASSUME NEW i \in 0..(WordSize - 1)
  PROVE  Wrap(i) = i
BY BoundsAssumption DEF Wrap

(* A source is a non-empty sequence whose only EOF is its last token. *)
LEMMA SourceFacts ==
  ASSUME source \in Sources
  PROVE  /\ source \in Seq(RawToken)
         /\ Len(source) \in Nat \ {0}
         /\ Len(source) + 1 < WordSize
         /\ \A i \in 1..Len(source) : source[i] \in RawToken
         /\ \A i \in 1..Len(source) : IsEOF(source[i]) <=> i = Len(source)
BY SourcesAssumption DEF WellFormed

(* Fields of a prefix. *)
LEMMA PrefixFields ==
  ASSUME NEW n \in Nat
  PROVE  /\ Prefix(n).tokens = [i \in 1..n |-> Stamp(source[i], i - 1)]
         /\ Prefix(n).fetchedEOF = (n = Len(source))
         /\ Prefix(n).delivered = n
         /\ Size(Prefix(n)) = n
         /\ \A i \in 1..n : Prefix(n).tokens[i] = Stamp(source[i], i - 1)
<1>1. /\ Prefix(n).tokens = [i \in 1..n |-> Stamp(source[i], i - 1)]
      /\ Prefix(n).fetchedEOF = (n = Len(source))
      /\ Prefix(n).delivered = n
  BY DEF Prefix
<1>2. Size(Prefix(n)) = n
  BY <1>1 DEF Size
<1> QED BY <1>1, <1>2

(* fetch(k) stops at EOF. *)
LEMMA FetchCountOfPrefix ==
  ASSUME source \in Sources,
         NEW n \in 0..(Len(source) - 1), NEW k \in Nat
  PROVE  FetchCount(Prefix(n), k) =
           IF k <= Len(source) - n THEN k ELSE Len(source) - n
<1> DEFINE Stops(c) == /\ \A j \in 1..(c - 1) : ~IsEOF(NextToken(n + j))
                       /\ c = k \/ (c > 0 /\ IsEOF(NextToken(n + c)))
           m == IF k <= Len(source) - n THEN k ELSE Len(source) - n
<1>0. n \in Nat /\ Len(source) \in Nat \ {0} /\ n < Len(source)
  BY SourceFacts
<1>1. \A j \in Nat : j > 0 => (IsEOF(NextToken(n + j)) <=> n + j >= Len(source))
  BY SourceFacts DEF NextToken
<1>2. m \in 0..k /\ Stops(m)
  <2>1. m \in 0..k /\ m <= Len(source) - n
    BY <1>0
  <2>2. \A j \in 1..(m - 1) : ~IsEOF(NextToken(n + j))
    <3> SUFFICES ASSUME NEW j \in 1..(m - 1)
                 PROVE  ~IsEOF(NextToken(n + j))
      OBVIOUS
    <3>1. j \in Nat /\ j > 0 /\ n + j < Len(source)
      BY <1>0, <2>1
    <3> QED BY <1>0, <1>1, <3>1
  <2>3. m = k \/ (m > 0 /\ IsEOF(NextToken(n + m)))
    BY <1>0, <1>1
  <2> QED BY <2>1, <2>2, <2>3
<1>3. \A c \in 0..k : Stops(c) => c = m
  <2> SUFFICES ASSUME NEW c \in 0..k, Stops(c)
               PROVE  c = m
    OBVIOUS
  <2>1. c - 1 <= 0 \/ n + (c - 1) < Len(source)
    BY <1>0, <1>1
  <2>2. c = k \/ (c > 0 /\ n + c >= Len(source))
    BY <1>0, <1>1
  <2> QED BY <1>0, <2>1, <2>2
<1>4. Prefix(n).delivered = n
  BY <1>0, PrefixFields
<1>5. FetchCount(Prefix(n), k) = CHOOSE c \in 0..k : Stops(c)
  BY <1>4 DEF FetchCount
<1> HIDE DEF Stops, m
<1> QED BY <1>2, <1>3, <1>5 DEF m

(* fetch on a prefix. *)
LEMMA FetchOfPrefix ==
  ASSUME source \in Sources,
         NEW n \in 0..Len(source), NEW k \in Nat
  PROVE  Fetch(Prefix(n), k) =
           Prefix(IF k <= Len(source) - n THEN n + k ELSE Len(source))
<1>0. n \in Nat /\ Len(source) \in Nat \ {0} /\ n <= Len(source)
  BY SourceFacts
<1>1. CASE n = Len(source)
  <2>1. Fetch(Prefix(n), k) = Prefix(n)
    BY <1>0, <1>1, PrefixFields DEF Fetch
  <2> QED BY <1>0, <1>1, <2>1
<1>2. CASE n < Len(source)
  <2> DEFINE c == IF k <= Len(source) - n THEN k ELSE Len(source) - n
             b == Prefix(n)
  <2>1. FetchCount(b, k) = c
    BY <1>0, <1>2, FetchCountOfPrefix
  <2>2. /\ Size(b) = n /\ b.delivered = n /\ ~b.fetchedEOF
        /\ \A i \in 1..n : b.tokens[i] = Stamp(source[i], i - 1)
    <3>1. Prefix(n).fetchedEOF = (n = Len(source))
      BY <1>0, PrefixFields, Zenon
    <3>2. n # Len(source)
      BY <1>0, <1>2
    <3>3. /\ Size(b) = n /\ b.delivered = n
          /\ \A i \in 1..n : b.tokens[i] = Stamp(source[i], i - 1)
      BY <1>0, PrefixFields, Zenon
    <3> QED BY <3>1, <3>2, <3>3, Zenon
  <2>3. c \in Nat /\ n + c <= Len(source)
    BY <1>0
  <2>4. Fetch(b, k) =
          [ tokens     |-> [i \in 1..(n + c) |->
                              IF i <= n THEN b.tokens[i]
                              ELSE Stamp(NextToken(n + i - n), i - 1)],
            fetchedEOF |-> c > 0 /\ IsEOF(NextToken(n + c)),
            delivered  |-> n + c ]
    <3> HIDE DEF c, b
    <3> QED BY <2>1, <2>2 DEF Fetch
  <2>5. ASSUME NEW i \in 1..(n + c)
        PROVE  (IF i <= n THEN b.tokens[i] ELSE Stamp(NextToken(n + i - n), i - 1))
                 = Stamp(source[i], i - 1)
    <3>1. n + i - n = i /\ i <= Len(source)
      BY <1>0, <2>3
    <3>2. NextToken(n + i - n) = source[i]
      BY <3>1 DEF NextToken
    <3> HIDE DEF c, b
    <3> QED BY <2>2, <3>2, <1>0, <2>3
  <2>6. (c > 0 /\ IsEOF(NextToken(n + c))) = (n + c = Len(source))
    <3>1. NextToken(n + c) = source[n + c]
      BY <2>3 DEF NextToken
    <3> HIDE DEF c
    <3>2. CASE c = 0
      BY <3>2, <1>2, <1>0
    <3>3. CASE c > 0
      <4>1. IsEOF(source[n + c]) <=> n + c = Len(source)
        BY <3>3, <2>3, <1>0, SourceFacts
      <4> QED BY <3>1, <3>3, <4>1
    <3> QED BY <2>3, <3>2, <3>3
  <2>7. Fetch(b, k) = Prefix(n + c)
    <3> HIDE DEF c, b
    <3> QED BY <2>4, <2>5, <2>6 DEF Prefix
  <2>8. n + c = IF k <= Len(source) - n THEN n + k ELSE Len(source)
    BY <1>0
  <2> QED BY <2>7, <2>8
<1> QED BY <1>0, <1>1, <1>2

(* sync(i) extends the prefix to index i, or to the end. *)
LEMMA SyncOfPrefix ==
  ASSUME source \in Sources,
         NEW n \in 0..Len(source), NEW i \in 0..Len(source)
  PROVE  LET m == IF i < n THEN n
                  ELSE IF i < Len(source) THEN i + 1 ELSE Len(source)
         IN /\ Sync(Prefix(n), i) = Prefix(m)
            /\ SyncOK(Prefix(n), i) <=> i < Len(source)
            /\ m \in 0..Len(source)
<1> DEFINE m == IF i < n THEN n
                ELSE IF i < Len(source) THEN i + 1 ELSE Len(source)
<1>0. /\ n \in Nat /\ i \in Nat /\ Len(source) \in Nat \ {0}
      /\ n <= Len(source) /\ i <= Len(source)
      /\ Len(source) + 1 < WordSize /\ WordSize \in Nat
  BY SourceFacts, BoundsAssumption
<1>1. Size(Prefix(n)) = n /\ Wrap(i + 1) = i + 1
  <2>1. Size(Prefix(n)) = n
    BY <1>0, PrefixFields, Zenon
  <2>2. i + 1 \in 0..(WordSize - 1)
    BY <1>0
  <2>3. Wrap(i + 1) = i + 1
    BY <2>2, WrapSmall, Zenon
  <2> QED BY <2>1, <2>3
<1>2. CASE i + 1 < n
  <2>1. Sync(Prefix(n), i) = Prefix(n) /\ SyncOK(Prefix(n), i)
    BY <1>1, <1>2 DEF Sync, SyncOK
  <2> QED BY <1>0, <1>2, <2>1
<1>3. CASE i + 1 = n
  <2>1. Missing(Prefix(n), i) = 0
    BY <1>0, <1>1, <1>3, WrapSmall DEF Missing
  <2>2. Sync(Prefix(n), i) = Prefix(n)
    BY <2>1 DEF Sync
  <2>3. SyncOK(Prefix(n), i)
    BY <1>0, <1>1, <2>1, <2>2 DEF SyncOK
  <2> QED BY <1>0, <1>3, <2>2, <2>3
<1>4. CASE i + 1 > n
  <2>1. Missing(Prefix(n), i) = i - n + 1 /\ i - n + 1 \in Nat /\ i - n + 1 # 0
    <3>1. i - n + 1 \in 0..(WordSize - 1)
      BY <1>0, <1>4
    <3> QED BY <1>0, <1>1, <1>4, <3>1, WrapSmall DEF Missing
  <2>2. Sync(Prefix(n), i) = Fetch(Prefix(n), i - n + 1)
    BY <1>0, <1>1, <1>4, <2>1 DEF Sync
  <2>3. Sync(Prefix(n), i) = Prefix(m)
    <3>1. Fetch(Prefix(n), i - n + 1) =
            Prefix(IF i - n + 1 <= Len(source) - n THEN n + (i - n + 1) ELSE Len(source))
      BY <2>1, FetchOfPrefix
    <3>2. (IF i - n + 1 <= Len(source) - n THEN n + (i - n + 1) ELSE Len(source)) = m
      BY <1>0, <1>4
    <3> QED BY <2>2, <3>1, <3>2
  <2>4. m \in 0..Len(source) /\ Size(Prefix(m)) = m
    <3>1. m \in 0..Len(source) /\ m \in Nat
      BY <1>0
    <3>2. Size(Prefix(m)) = m
      BY <3>1, PrefixFields, Zenon
    <3> QED BY <3>1, <3>2
  <2>5. SyncOK(Prefix(n), i) <=> i < Len(source)
    <3>1. SyncOK(Prefix(n), i) <=> m - n >= i - n + 1
      <4> HIDE DEF m
      <4> QED BY <1>0, <1>1, <1>4, <2>1, <2>3, <2>4 DEF SyncOK
    <3> QED BY <1>0, <1>4, <3>1
  <2> QED BY <2>3, <2>4, <2>5
<1> QED BY <1>0, <1>2, <1>3, <1>4

(* The token at an index, fetched or not, is the source's. *)
LEMMA TokenAtOfPrefix ==
  ASSUME source \in Sources,
         NEW n \in 0..Len(source), NEW i \in 0..(Len(source) - 1)
  PROVE  TokenAt(Prefix(n), i) = Stamp(source[i + 1], i)
<1> DEFINE m == IF i < n THEN n ELSE i + 1
<1>0. /\ n \in Nat /\ i \in Nat /\ Len(source) \in Nat \ {0}
      /\ n <= Len(source) /\ i < Len(source)
  BY SourceFacts
<1>1. Sync(Prefix(n), i) = Prefix(m)
  BY <1>0, SyncOfPrefix
<1>2. m \in Nat /\ i + 1 \in 1..m /\ i + 1 - 1 = i
  BY <1>0
<1>3. Prefix(m).tokens[i + 1] = Stamp(source[i + 1], i + 1 - 1)
  <2> HIDE DEF m
  <2>1. \A k \in 1..m : Prefix(m).tokens[k] = Stamp(source[k], k - 1)
    BY <1>2, PrefixFields, Zenon
  <2> QED BY <1>2, <2>1
<1> HIDE DEF m
<1> QED BY <1>1, <1>2, <1>3, Zenon DEF TokenAt

(* A token shows on channel ch if it is its own or EOF, stamped or not. *)
Shows(t, ch) == t.channel = ch \/ IsEOF(t)

LEMMA ShowsStamp ==
  ASSUME NEW t, NEW i, NEW ch
  PROVE  /\ Shows(Stamp(t, i), ch) <=> Shows(t, ch)
         /\ Visible(Stamp(t, i)) <=> Visible(t)
         /\ Visible(t) <=> Shows(t, Channel)
         /\ IsEOF(Stamp(t, i)) <=> IsEOF(t)
BY DEF Shows, Stamp, Visible, IsEOF

(* nextTokenOnChannel(i) is the first token at or after i that shows, and  *)
(* EOF when i is past it.                                                  *)
LEMMA NextOnChannelOfPrefix ==
  ASSUME source \in Sources,
         NEW n \in 0..Len(source), NEW i \in 0..Len(source), NEW ch
  PROVE  LET j == NextOnChannel(Prefix(n), i, ch)
         IN /\ j \in 0..(Len(source) - 1)
            /\ Shows(source[j + 1], ch)
            /\ i < Len(source) => /\ i <= j
                                  /\ \A m \in i..(j - 1) : ~Shows(source[m + 1], ch)
            /\ i = Len(source) => j = Len(source) - 1
<1> DEFINE j == NextOnChannel(Prefix(n), i, ch)
           L == Len(source)
           s == IF i < n THEN n ELSE IF i < L THEN i + 1 ELSE L
           Good(x) == /\ Shows(source[x + 1], ch)
                      /\ \A m \in i..(x - 1) : ~Shows(source[m + 1], ch)
<1>0. /\ n \in Nat /\ i \in Nat /\ L \in Nat \ {0} /\ n <= L /\ i <= L
      /\ IsEOF(source[L])
  BY SourceFacts
<1>1. Size(Sync(Prefix(n), i)) = s
  <2>1. Sync(Prefix(n), i) = Prefix(s)
    BY SyncOfPrefix
  <2>2. s \in Nat
    BY <1>0
  <2> HIDE DEF s
  <2> QED BY <2>1, <2>2, PrefixFields
<1>2. Shows(source[L - 1 + 1], ch)
  BY <1>0 DEF Shows
<1>3. CASE i = L
  <2>1. i >= s /\ s - 1 = L - 1
    BY <1>0, <1>3
  <2>2. j = L - 1
    BY <1>1, <2>1 DEF NextOnChannel
  <2>3. L - 1 \in 0..(L - 1)
    BY <1>0
  <2> QED BY <1>2, <1>3, <2>2, <2>3, <1>0
<1>4. CASE i < L
  <2>1. ~(i >= s)
    BY <1>0, <1>4
  <2>2. \A x \in 0..(L - 1) :
          (TokenAt(Prefix(n), x).channel = ch \/ IsEOF(TokenAt(Prefix(n), x)))
            <=> Shows(source[x + 1], ch)
    <3> SUFFICES ASSUME NEW x \in 0..(L - 1)
                 PROVE  Shows(TokenAt(Prefix(n), x), ch) <=> Shows(source[x + 1], ch)
      BY Zenon DEF Shows
    <3>1. TokenAt(Prefix(n), x) = Stamp(source[x + 1], x)
      BY TokenAtOfPrefix, Zenon
    <3> QED BY <3>1, ShowsStamp, Zenon
  <2>3. j = CHOOSE x \in i..(L - 1) :
              /\ TokenAt(Prefix(n), x).channel = ch \/ IsEOF(TokenAt(Prefix(n), x))
              /\ \A m \in i..(x - 1) :
                   ~(TokenAt(Prefix(n), m).channel = ch \/ IsEOF(TokenAt(Prefix(n), m)))
    BY <1>1, <2>1 DEF NextOnChannel
  <2>4. \A x \in i..(L - 1) :
          Good(x) <=>
            /\ TokenAt(Prefix(n), x).channel = ch \/ IsEOF(TokenAt(Prefix(n), x))
            /\ \A m \in i..(x - 1) :
                 ~(TokenAt(Prefix(n), m).channel = ch \/ IsEOF(TokenAt(Prefix(n), m)))
    <3>1. \A x \in i..(L - 1) : x \in 0..(L - 1) /\ \A m \in i..(x - 1) : m \in 0..(L - 1)
      BY <1>0
    <3> QED BY <2>2, <3>1
  <2>5. \E x \in i..(L - 1) : Good(x)
    <3> DEFINE S == {x \in i..(L - 1) : Shows(source[x + 1], ch)}
    <3>1. S \in SUBSET Nat
      BY <1>0
    <3>2. L - 1 \in S
      BY <1>0, <1>2, <1>4
    <3>3. PICK x \in S : \A m \in S : x <= m
      <4> HIDE DEF S
      <4> QED BY <3>1, <3>2, Least
    <3>4. x \in i..(L - 1) /\ Shows(source[x + 1], ch)
      BY <3>3
    <3>5. ASSUME NEW m \in i..(x - 1), Shows(source[m + 1], ch)
          PROVE  FALSE
      <4>1. m \in S /\ m < x
        BY <1>0, <3>4, <3>5
      <4> QED BY <1>0, <3>3, <3>4, <4>1
    <3> QED BY <3>4, <3>5
  <2>6. j \in i..(L - 1) /\ Good(j)
    <3> HIDE DEF j, Good
    <3> QED BY <2>3, <2>4, <2>5
  <2> QED BY <1>0, <1>4, <2>6
<1> QED BY <1>0, <1>3, <1>4

-----------------------------------------------------------------------------
(* Stream states an operation may leave: a prefix and a cursor inside it,  *)
(* on a visible token.                                                     *)
Settled == {[b |-> Prefix(n), p |-> i] :
              n \in 0..Len(source),
              i \in {x \in 0..(Len(source) - 1) : Visible(source[x + 1])}}
Stream == {s \in Settled : s.p < Size(s.b)}

LEMMA StreamFacts ==
  ASSUME source \in Sources
  PROVE  /\ \A n \in 0..Len(source) : \A i \in 0..(n - 1) :
              Visible(source[i + 1]) => [b |-> Prefix(n), p |-> i] \in Stream
         /\ \A s \in Stream :
              \E n \in 0..Len(source), i \in 0..(Len(source) - 1) :
                /\ s = [b |-> Prefix(n), p |-> i]
                /\ s.b = Prefix(n) /\ s.p = i /\ i < n
                /\ Visible(source[i + 1])
<1>1. ASSUME NEW n \in 0..Len(source), NEW i \in 0..(n - 1), Visible(source[i + 1])
      PROVE  [b |-> Prefix(n), p |-> i] \in Stream
  <2>1. n \in Nat /\ i \in 0..(Len(source) - 1) /\ i < n
    BY SourceFacts
  <2>2. Size(Prefix(n)) = n
    BY <2>1, PrefixFields, Zenon
  <2>3. [b |-> Prefix(n), p |-> i] \in Settled
    BY <1>1, <2>1 DEF Settled
  <2> QED BY <2>1, <2>2, <2>3 DEF Stream
<1>2. ASSUME NEW s \in Stream
      PROVE  \E n \in 0..Len(source), i \in 0..(Len(source) - 1) :
                /\ s = [b |-> Prefix(n), p |-> i]
                /\ s.b = Prefix(n) /\ s.p = i /\ i < n
                /\ Visible(source[i + 1])
  <2>1. PICK n \in 0..Len(source), i \in 0..(Len(source) - 1) :
          s = [b |-> Prefix(n), p |-> i] /\ Visible(source[i + 1])
    BY DEF Stream, Settled
  <2>2. s.b = Prefix(n) /\ s.p = i
    BY <2>1
  <2>3. n \in Nat
    BY SourceFacts
  <2>4. Size(Prefix(n)) = n
    BY <2>3, PrefixFields, Zenon
  <2>5. i < n
    BY <2>2, <2>4 DEF Stream
  <2> QED BY <2>1, <2>2, <2>5
<1> QED BY <1>1, <1>2

(* The abstract cursor sees the same tokens. *)
LEMMA SameVisible ==
  \A t : C!Visible(t) <=> Visible(t)
BY DEF C!Visible, C!IsEOF, Visible, IsEOF

(* nextTokenOnChannel leaves a longer prefix, which holds its answer. *)
LEMMA WalkedOfPrefix ==
  ASSUME source \in Sources,
         NEW n \in 0..Len(source), NEW i \in 0..Len(source), NEW ch
  PROVE  \E w \in 0..Len(source) :
           /\ Walked(Prefix(n), i, ch) = Prefix(w)
           /\ n <= w /\ NextOnChannel(Prefix(n), i, ch) < w
<1> DEFINE L == Len(source)
           j == NextOnChannel(Prefix(n), i, ch)
           m == IF i < n THEN n ELSE IF i < L THEN i + 1 ELSE L
           w == IF j < m THEN m ELSE j + 1
<1>0. L \in Nat \ {0} /\ n \in 0..L /\ i \in 0..L /\ m \in 0..L /\ n <= m
  BY SourceFacts
<1>1. j \in 0..(L - 1)
  BY NextOnChannelOfPrefix
<1>2. Sync(Prefix(n), i) = Prefix(m)
  BY SyncOfPrefix
<1> HIDE DEF j, m
<1>3. Sync(Prefix(m), j) = Prefix(w) /\ w \in 0..L /\ j < w /\ n <= w
  <2>1. w = IF j < m THEN m ELSE IF j < L THEN j + 1 ELSE L
    BY <1>0, <1>1
  <2>2. j \in 0..L
    BY <1>0, <1>1
  <2> HIDE DEF w
  <2>3. Sync(Prefix(m), j) = Prefix(w)
    BY <1>0, <2>1, <2>2, SyncOfPrefix
  <2> QED BY <1>0, <1>1, <2>3 DEF w
<1>4. Walked(Prefix(n), i, ch) = Prefix(w)
  BY <1>2, <1>3 DEF Walked, j
<1> HIDE DEF w
<1> QED BY <1>3, <1>4 DEF j

(* adjustSeekIndex settles the stream on the first visible token at or     *)
(* after i, and the walk there fetched it.                                 *)
LEMMA AtOfPrefix ==
  ASSUME source \in Sources,
         NEW n \in 0..Len(source), NEW i \in 0..Len(source)
  PROVE  /\ At(Prefix(n), i) \in Stream
         /\ C!IsFirst(source, i, At(Prefix(n), i).p)
<1> DEFINE L == Len(source)
           j == NextOnChannel(Prefix(n), i, Channel)
<1>1. /\ L \in Nat \ {0} /\ n \in 0..L /\ i \in 0..L
      /\ j \in 0..(L - 1)
      /\ Shows(source[j + 1], Channel)
      /\ i < L => i <= j /\ \A x \in i..(j - 1) : ~Shows(source[x + 1], Channel)
      /\ i = L => j = L - 1
  BY SourceFacts, NextOnChannelOfPrefix
<1>2. PICK w \in 0..L : Walked(Prefix(n), i, Channel) = Prefix(w) /\ j < w
  BY WalkedOfPrefix
<1> HIDE DEF j
<1>3. At(Prefix(n), i) = [b |-> Prefix(w), p |-> j]
  BY <1>2 DEF At, j
<1>4. \A t : Visible(t) <=> Shows(t, Channel)
  BY ShowsStamp
<1>5. At(Prefix(n), i) \in Stream
  <2>1. j \in 0..(w - 1) /\ Visible(source[j + 1])
    BY <1>1, <1>2, <1>4
  <2> QED BY <1>2, <1>3, <2>1, StreamFacts
<1>6. At(Prefix(n), i).p = j
  BY <1>3
<1>7. C!IsFirst(source, i, j)
  BY <1>1, <1>4, SameVisible DEF C!IsFirst
<1> QED BY <1>5, <1>6, <1>7

(* One token on: to the next visible token, or nowhere at EOF. *)
LEMMA SkipOfStream ==
  ASSUME source \in Sources, NEW s \in Stream
  PROVE  /\ Skip(s) \in Stream
         /\ s.p < Len(source) - 1 => C!IsFirst(source, s.p + 1, Skip(s).p)
         /\ s.p = Len(source) - 1 => Skip(s).p = s.p
<1>1. PICK n \in 0..Len(source), i \in 0..(Len(source) - 1) :
        /\ s.b = Prefix(n) /\ s.p = i /\ i < n /\ Visible(source[i + 1])
  BY StreamFacts, Zenon
<1> DEFINE L == Len(source)
           m == IF i + 1 < n THEN n ELSE IF i + 1 < L THEN i + 2 ELSE L
<1>2. L \in Nat \ {0} /\ n \in 0..L /\ i + 1 \in 0..L /\ m \in 0..L /\ i \in 0..(m - 1)
  BY <1>1, SourceFacts
<1>3. /\ Sync(Prefix(n), i + 1) = Prefix(m)
      /\ SyncOK(Prefix(n), i + 1) <=> i + 1 < L
  <2>1. m = IF i + 1 < n THEN n ELSE IF i + 1 < L THEN (i + 1) + 1 ELSE L
    BY <1>2
  <2> HIDE DEF m
  <2> QED BY <1>2, <2>1, SyncOfPrefix
<1> HIDE DEF m
<1>4. CASE i + 1 < L
  <2>1. Skip(s) = At(Prefix(m), i + 1)
    BY <1>1, <1>3, <1>4 DEF Skip
  <2> QED BY <1>1, <1>2, <1>4, <2>1, AtOfPrefix
<1>5. CASE i + 1 = L
  <2>1. Skip(s) = [b |-> Prefix(m), p |-> i]
    BY <1>1, <1>2, <1>3, <1>5 DEF Skip
  <2>2. Skip(s) \in Stream
    BY <1>1, <1>2, <2>1, StreamFacts
  <2> QED BY <1>1, <1>2, <1>5, <2>1, <2>2
<1> QED BY <1>1, <1>2, <1>4, <1>5

-----------------------------------------------------------------------------
(* Induction over a walk: from a start in St, a step that stays in St can  *)
(* be taken any number of times.                                           *)
IsWalk(f, s0, step, k) == f[0] = s0 /\ \A n \in 1..k : f[n] = step[f[n - 1]]

LEMMA IterateExists ==
  ASSUME NEW St, NEW step \in [St -> St], NEW s0 \in St, NEW k \in Nat
  PROVE  \E f \in [0..k -> St] : IsWalk(f, s0, step, k)
<1> DEFINE Walks(m, f) == IsWalk(f, s0, step, m)
           Bad == {m \in 0..k : ~\E f \in [0..m -> St] : Walks(m, f)}
<1>1. SUFFICES ASSUME Bad # {} PROVE FALSE
  <2>1. ASSUME Bad = {} PROVE \E f \in [0..k -> St] : Walks(k, f)
    BY <2>1
  <2> QED BY <1>1, <2>1
<1>2. PICK j \in Bad : \A m \in Bad : j <= m
  <2>1. Bad \in SUBSET Nat
    OBVIOUS
  <2> HIDE DEF Bad
  <2> QED BY <1>1, <2>1, Least
<1>3. CASE j = 0
  <2> DEFINE f == [n \in 0..0 |-> s0]
  <2>1. f \in [0..0 -> St] /\ Walks(0, f)
    BY DEF IsWalk
  <2> QED BY <1>2, <1>3, <2>1
<1>4. CASE j > 0
  <2>1. j - 1 \in 0..k /\ j - 1 \notin Bad
    BY <1>2, <1>4
  <2>2. PICK f \in [0..(j - 1) -> St] : Walks(j - 1, f)
    BY <2>1
  <2> DEFINE g == [n \in 0..j |-> IF n = j THEN step[f[j - 1]] ELSE f[n]]
  <2>3. j \in Nat /\ j - 1 \in 0..(j - 1)
    BY <1>2, <1>4
  <2>4. g \in [0..j -> St]
    <3> SUFFICES ASSUME NEW n \in 0..j
                 PROVE  (IF n = j THEN step[f[j - 1]] ELSE f[n]) \in St
      OBVIOUS
    <3>1. f[j - 1] \in St
      BY <2>3
    <3>2. n # j => f[n] \in St
      BY <2>3
    <3> QED BY <3>1, <3>2
  <2>5. g[0] = s0
    BY <1>4, <2>2, <2>3 DEF IsWalk
  <2>6. ASSUME NEW n \in 1..j PROVE g[n] = step[g[n - 1]]
    <3>1. n - 1 \in 0..j /\ n - 1 # j /\ g[n - 1] = f[n - 1]
      BY <2>3
    <3>2. CASE n = j
      BY <2>3, <3>1, <3>2
    <3>3. CASE n # j
      <4>1. n \in 1..(j - 1) /\ g[n] = f[n]
        BY <2>3, <3>3
      <4> QED BY <2>2, <3>1, <4>1 DEF IsWalk
    <3> QED BY <3>2, <3>3
  <2>7. Walks(j, g)
    BY <2>5, <2>6 DEF IsWalk
  <2> QED BY <1>2, <2>4, <2>7
<1> QED BY <1>2, <1>3, <1>4

(* A walk stays where its step keeps it. *)
LEMMA WalkStays ==
  ASSUME NEW St, NEW step \in [St -> St], NEW s0 \in St, NEW k \in Nat,
         NEW f, f[0] = s0, \A n \in 1..k : f[n - 1] \in St => f[n] = step[f[n - 1]]
  PROVE  \A n \in 0..k : f[n] \in St
<1> DEFINE Bad == {n \in 0..k : f[n] \notin St}
<1>1. SUFFICES ASSUME Bad # {} PROVE FALSE
  OBVIOUS
<1>2. PICK j \in Bad : \A m \in Bad : j <= m
  <2>1. Bad \in SUBSET Nat
    OBVIOUS
  <2> HIDE DEF Bad
  <2> QED BY <1>1, <2>1, Least
<1>3. j > 0
  BY <1>2
<1>4. j - 1 \in 0..k /\ j - 1 \notin Bad /\ j \in 1..k
  BY <1>2, <1>3
<1>5. f[j - 1] \in St
  BY <1>4
<1>6. f[j] \in St
  BY <1>4, <1>5
<1> QED BY <1>2, <1>6

(* LT never leaves the stream's states and never walks backwards, however  *)
(* far it looks.                                                           *)
Onward(i) == {x \in Stream : x.p \in Nat /\ i <= x.p}

LEMMA SkipOnward ==
  ASSUME source \in Sources, NEW i \in Nat, NEW s \in Onward(i)
  PROVE  Skip(s) \in Onward(i)
<1>1. s \in Stream /\ s.p \in Nat /\ i <= s.p /\ Skip(s) \in Stream
  BY SkipOfStream DEF Onward
<1>2. PICK j \in 0..(Len(source) - 1) : s.p = j
  BY <1>1, StreamFacts, Zenon
<1>3. Len(source) \in Nat
  BY SourceFacts
<1>4. CASE s.p < Len(source) - 1
  <2>1. C!IsFirst(source, s.p + 1, Skip(s).p)
    BY <1>1, <1>4, SkipOfStream
  <2>2. s.p + 1 <= Skip(s).p /\ Skip(s).p \in 0..(Len(source) - 1)
    BY <1>3, <1>4, <1>2, <2>1 DEF C!IsFirst
  <2> QED BY <1>1, <1>3, <2>2 DEF Onward
<1>5. CASE s.p = Len(source) - 1
  <2>1. Skip(s).p = s.p
    BY <1>1, <1>5, SkipOfStream
  <2> QED BY <1>1, <2>1 DEF Onward
<1> QED BY <1>2, <1>3, <1>4, <1>5

(* What LT walks over: every step is a skip. *)
LEMMA AheadIsWalk ==
  ASSUME source \in Sources, NEW s \in Stream, NEW k \in Nat \ {0}
  PROVE  \E f : /\ f[0] = s
                /\ \A n \in 1..(k - 1) : f[n] = Skip(f[n - 1])
                /\ Ahead(s, k) = f[k - 1]
<1> DEFINE step == [x \in Stream |-> Skip(x)]
           W(f) == [n \in 0..(k - 1) |-> IF n = 0 THEN s ELSE Skip(f[n - 1])]
           walk == CHOOSE f : f = W(f)
<1>1. step \in [Stream -> Stream]
  BY SkipOfStream
<1>2. PICK f \in [0..(k - 1) -> Stream] :
        IsWalk(f, s, step, k - 1)
  <2>1. k - 1 \in Nat
    OBVIOUS
  <2> HIDE DEF step
  <2> QED BY <1>1, <2>1, IterateExists, Zenon
<1>3. f = W(f)
  <2>1. \A n \in 0..(k - 1) : n # 0 => f[n] = Skip(f[n - 1])
    <3> SUFFICES ASSUME NEW n \in 0..(k - 1), n # 0 PROVE f[n] = Skip(f[n - 1])
      OBVIOUS
    <3>1. n \in 1..(k - 1) /\ n - 1 \in 0..(k - 1)
      OBVIOUS
    <3>2. f[n - 1] \in Stream
      BY <3>1
    <3> QED BY <1>2, <3>1, <3>2 DEF IsWalk
  <2> QED BY <1>2, <2>1 DEF IsWalk
<1>4. walk = W(walk)
  <2> HIDE DEF W
  <2> QED BY <1>3
<1>5. walk[0] = s /\ \A n \in 1..(k - 1) : walk[n] = Skip(walk[n - 1])
  <2>1. \A n \in 0..(k - 1) : walk[n] = IF n = 0 THEN s ELSE Skip(walk[n - 1])
    <3> HIDE DEF walk
    <3> QED BY <1>4
  <2> HIDE DEF walk
  <2> QED BY <2>1
<1>6. Ahead(s, k) = walk[k - 1]
  BY DEF Ahead
<1> HIDE DEF walk
<1> QED BY <1>5, <1>6

LEMMA AheadOfStream ==
  ASSUME source \in Sources, NEW s \in Stream, NEW k \in Nat \ {0}
  PROVE  Ahead(s, k) \in Onward(s.p)
<1>0. s.p \in Nat /\ s \in Onward(s.p)
  <2>1. PICK j \in 0..(Len(source) - 1) : s.p = j
    BY StreamFacts, Zenon
  <2> QED BY <2>1 DEF Onward
<1> DEFINE St == Onward(s.p)
           step == [x \in St |-> Skip(x)]
<1>1. step \in [St -> St]
  BY <1>0, SkipOnward
<1>2. PICK f : /\ f[0] = s
               /\ \A n \in 1..(k - 1) : f[n] = Skip(f[n - 1])
               /\ Ahead(s, k) = f[k - 1]
  BY AheadIsWalk, Zenon
<1> HIDE DEF St
<1>3. \A n \in 1..(k - 1) : f[n - 1] \in St => f[n] = step[f[n - 1]]
  BY <1>2
<1>4. k - 1 \in Nat /\ k - 1 \in 0..(k - 1) /\ s \in St
  BY <1>0 DEF St
<1> HIDE DEF step
<1>5. \A n \in 0..(k - 1) : f[n] \in St
  BY <1>1, <1>2, <1>3, <1>4, WalkStays
<1> QED BY <1>2, <1>4, <1>5 DEF St

(* A non-empty set of naturals with an upper bound has a greatest element. *)
LEMMA Greatest ==
  ASSUME NEW N \in Nat, NEW S \in SUBSET (0..N), S # {}
  PROVE  \E j \in S : \A m \in S : m <= j
<1> DEFINE T == {N - j : j \in S}
<1>1. T \in SUBSET Nat /\ T # {}
  <2>1. \A j \in S : N - j \in Nat
    OBVIOUS
  <2>2. T \in SUBSET Nat
    BY <2>1
  <2>3. PICK j \in S : TRUE
    OBVIOUS
  <2>4. N - j \in T
    BY <2>3
  <2> QED BY <2>2, <2>4
<1>2. PICK t \in T : \A u \in T : t <= u
  <2> HIDE DEF T
  <2> QED BY <1>1, Least
<1>3. PICK j \in S : t = N - j
  BY <1>2
<1>4. \A m \in S : N - j <= N - m
  BY <1>2, <1>3
<1>5. \A m \in S : m <= j
  BY <1>4
<1> QED BY <1>5

(* previousTokenOnChannel answers an index of the buffer. *)
LEMMA PrevIsIndex ==
  ASSUME source \in Sources, NEW n \in 1..Len(source), NEW i \in Nat, NEW ch
  PROVE  PrevOnChannel(Prefix(n), i, ch) \in 0..(n - 1)
<1> DEFINE b == Prefix(n)
           good == {j \in 0..i : b.tokens[j + 1].channel = ch \/ IsEOF(b.tokens[j + 1])}
<1>1. n \in Nat /\ n > 0
  BY SourceFacts
<1>2. Size(b) = n
  BY <1>1, PrefixFields, Zenon
<1>3. PrevOnChannel(b, i, ch) =
        IF i >= n THEN n - 1
        ELSE IF good = {} THEN 0
        ELSE CHOOSE j \in good : \A m \in good : m <= j
  <2> HIDE DEF b
  <2> QED BY <1>2 DEF PrevOnChannel
<1>4. good # {} => \E j \in good : \A m \in good : m <= j
  <2>1. good \in SUBSET (0..i)
    OBVIOUS
  <2> HIDE DEF good
  <2> QED BY <2>1, Greatest
<1>5. good \subseteq 0..i
  OBVIOUS
<1> HIDE DEF good
<1>6. good # {} => (CHOOSE j \in good : \A m \in good : m <= j) \in 0..i
  BY <1>4, <1>5
<1> QED BY <1>1, <1>3, <1>6

(* What LB walks over: every step is a search from before the last. *)
LEMMA BehindIsWalk ==
  ASSUME source \in Sources, NEW s \in Stream, NEW k \in Nat
  PROVE  \E f : /\ \A m \in 0..k : f[m] \in 0..(Size(s.b) - 1)
                /\ f[0] = s.p
                /\ \A m \in 1..k : f[m] = PrevOnChannel(s.b, Wrap(f[m - 1] - 1), Channel)
                /\ Behind(s, k) = f[k]
<1>1. PICK n \in 0..Len(source), i \in 0..(Len(source) - 1) :
        /\ s.b = Prefix(n) /\ s.p = i /\ i < n /\ Visible(source[i + 1])
  BY StreamFacts, Zenon
<1>2. n \in 1..Len(source) /\ n \in Nat /\ Size(Prefix(n)) = n
  <2>1. n \in 1..Len(source) /\ n \in Nat
    BY <1>1, SourceFacts
  <2>2. Size(Prefix(n)) = n
    BY <2>1, PrefixFields, Zenon
  <2> QED BY <2>1, <2>2
<1> DEFINE Back(x) == PrevOnChannel(s.b, Wrap(x - 1), Channel)
           step == [x \in 0..(n - 1) |-> Back(x)]
           W(f) == [m \in 0..k |-> IF m = 0 THEN s.p ELSE Back(f[m - 1])]
           walk == CHOOSE f : f = W(f)
<1>3. step \in [0..(n - 1) -> 0..(n - 1)]
  <2>1. \A x \in 0..(n - 1) : Wrap(x - 1) \in Nat
    BY <1>2, BoundsAssumption DEF Wrap
  <2>2. \A x \in 0..(n - 1) : Back(x) \in 0..(n - 1)
    BY <1>1, <1>2, <2>1, PrevIsIndex
  <2> HIDE DEF Back
  <2> QED BY <2>2
<1> HIDE DEF Back
<1>4. PICK f \in [0..k -> 0..(n - 1)] :
        IsWalk(f, i, step, k)
  <2>1. i \in 0..(n - 1)
    BY <1>1, <1>2
  <2> HIDE DEF step
  <2> QED BY <1>3, <2>1, IterateExists, Zenon
<1>5. f = W(f)
  <2>1. \A m \in 0..k : m # 0 => f[m] = Back(f[m - 1])
    <3> SUFFICES ASSUME NEW m \in 0..k, m # 0 PROVE f[m] = Back(f[m - 1])
      OBVIOUS
    <3>1. m \in 1..k /\ m - 1 \in 0..k
      OBVIOUS
    <3>2. f[m - 1] \in 0..(n - 1)
      BY <3>1
    <3> QED BY <1>4, <3>1, <3>2 DEF IsWalk
  <2> QED BY <1>1, <1>4, <2>1 DEF IsWalk
<1>6. walk = W(walk)
  <2> HIDE DEF W
  <2> QED BY <1>5
<1>7. /\ walk[0] = i
      /\ \A m \in 1..k : walk[m - 1] \in 0..(n - 1) => walk[m] = step[walk[m - 1]]
  <2>1. \A m \in 0..k : walk[m] = IF m = 0 THEN s.p ELSE Back(walk[m - 1])
    <3> HIDE DEF walk
    <3> QED BY <1>6
  <2> HIDE DEF walk
  <2> QED BY <1>1, <2>1
<1>8. \A m \in 0..k : walk[m] \in 0..(n - 1)
  <2>1. i \in 0..(n - 1)
    BY <1>1, <1>2
  <2> HIDE DEF walk, step
  <2> QED BY <1>3, <1>7, <2>1, WalkStays
<1>9. Behind(s, k) = walk[k]
  BY DEF Behind, Back
<1>10. \A m \in 1..k : walk[m] = PrevOnChannel(s.b, Wrap(walk[m - 1] - 1), Channel)
  <2> HIDE DEF walk
  <2>1. \A m \in 1..k : m - 1 \in 0..k
    OBVIOUS
  <2>2. \A x \in 0..(n - 1) : step[x] = Back(x)
    OBVIOUS
  <2> HIDE DEF step
  <2>3. \A m \in 1..k : walk[m] = Back(walk[m - 1])
    BY <1>7, <1>8, <2>1, <2>2
  <2> QED BY <2>3 DEF Back
<1> HIDE DEF walk
<1> QED BY <1>1, <1>2, <1>7, <1>8, <1>9, <1>10

(* LB answers an index of the buffer: never one outside _tokens. *)
LEMMA BehindIsIndex ==
  ASSUME source \in Sources, NEW s \in Stream, NEW k \in Nat
  PROVE  Behind(s, k) \in 0..(Size(s.b) - 1)
<1>1. k \in 0..k
  OBVIOUS
<1>2. PICK f : (\A m \in 0..k : f[m] \in 0..(Size(s.b) - 1)) /\ Behind(s, k) = f[k]
  BY BehindIsWalk, Zenon
<1> QED BY <1>1, <1>2

-----------------------------------------------------------------------------
(* The inductive invariant says that the buffer is a prefix and, once set  *)
(* up, the whole state is a stream state.                                  *)
LEMMA BufferOfInv ==
  ASSUME TypeOK, BufferIsPrefix
  PROVE  Size(buffer) \in 0..Len(source) /\ buffer = Prefix(Size(buffer))
<1>1. source \in Sources /\ buffer \in Buffer
  BY DEF TypeOK
<1>2. /\ buffer = [tokens |-> buffer.tokens, fetchedEOF |-> buffer.fetchedEOF,
                   delivered |-> buffer.delivered]
      /\ buffer.tokens \in Seq(Token) /\ buffer.fetchedEOF \in BOOLEAN
  BY <1>1 DEF Buffer
<1>3. Size(buffer) \in 0..Len(source)
  BY <1>1, <1>2, SourceFacts DEF BufferIsPrefix, Size
<1>4. buffer.tokens = [i \in 1..Size(buffer) |-> Stamp(source[i], i - 1)]
  <2>1. buffer.tokens = [i \in 1..Size(buffer) |-> buffer.tokens[i]]
    BY <1>2 DEF Size
  <2> QED BY <2>1 DEF BufferIsPrefix
<1>5. buffer.fetchedEOF = (Size(buffer) = Len(source))
  BY <1>2 DEF BufferIsPrefix
<1>6. buffer.delivered = Size(buffer)
  BY DEF BufferIsPrefix
<1>7. buffer = Prefix(Size(buffer))
  <2> DEFINE e == (Size(buffer) = Len(source))
             t == [i \in 1..Size(buffer) |-> Stamp(source[i], i - 1)]
  <2>1. Prefix(Size(buffer)) = [tokens |-> t, fetchedEOF |-> e, delivered |-> Size(buffer)]
    BY DEF Prefix
  <2> HIDE DEF e, t
  <2>2. buffer.tokens = t /\ buffer.fetchedEOF = e /\ buffer.delivered = Size(buffer)
    BY <1>4, <1>5, <1>6 DEF e, t
  <2> QED BY <1>2, <2>1, <2>2
<1> QED BY <1>3, <1>7

(* Stamping keeps a token's type. *)
LEMMA StampType ==
  ASSUME NEW t \in RawToken, NEW i \in Nat
  PROVE  Stamp(t, i) \in Token
BY DEF RawToken, Token, Stamp

LEMMA PrefixType ==
  ASSUME source \in Sources, NEW n \in 0..Len(source)
  PROVE  Prefix(n) \in Buffer
<1>1. n \in Nat /\ \A i \in 1..n : source[i] \in RawToken /\ i - 1 \in Nat
  BY SourceFacts
<1>2. \A i \in 1..n : Stamp(source[i], i - 1) \in Token
  BY <1>1, StampType
<1>3. [i \in 1..n |-> Stamp(source[i], i - 1)] \in Seq(Token)
  BY <1>1, <1>2
<1>4. (n = Len(source)) \in BOOLEAN
  OBVIOUS
<1> QED BY <1>1, <1>3, <1>4 DEF Prefix, Buffer

(* lazyInit: what every call starts from. *)
LEMMA ReadyIsStream ==
  ASSUME IInv
  PROVE  /\ Ready \in Stream
         /\ needSetup => C!IsFirst(source, 0, Ready.p)
         /\ ~needSetup => Ready.p = p
<1>1. /\ source \in Sources /\ needSetup \in BOOLEAN
      /\ Size(buffer) \in 0..Len(source) /\ buffer = Prefix(Size(buffer))
  BY BufferOfInv DEF IInv, TypeOK
<1>2. CASE needSetup
  <2> DEFINE n == Size(buffer)
             m == IF 0 < n THEN n ELSE IF 0 < Len(source) THEN 0 + 1 ELSE Len(source)
  <2>1. 0 \in 0..Len(source)
    BY <1>1, SourceFacts
  <2>2. Sync(Prefix(n), 0) = Prefix(m) /\ m \in 0..Len(source)
    BY <1>1, <2>1, SyncOfPrefix
  <2>3. Ready = At(Prefix(m), 0)
    BY <1>1, <1>2, <2>2 DEF Ready
  <2> HIDE DEF m
  <2> QED BY <1>1, <1>2, <2>1, <2>2, <2>3, AtOfPrefix
<1>3. CASE ~needSetup
  <2> DEFINE n == Size(buffer)
  <2>1. /\ p \in 0..(n - 1) /\ Visible(buffer.tokens[p + 1])
        /\ \A i \in 1..n : buffer.tokens[i] = Stamp(source[i], i - 1)
    BY <1>3 DEF IInv, CursorOnChannel, BufferIsPrefix
  <2>2. n \in Nat /\ p + 1 \in 1..n
    BY <1>1, <2>1, SourceFacts
  <2>3. Visible(source[p + 1])
    <3>1. buffer.tokens[p + 1] = Stamp(source[p + 1], p + 1 - 1)
      BY <2>1, <2>2
    <3> QED BY <2>1, <3>1, ShowsStamp
  <2>4. [b |-> Prefix(n), p |-> p] \in Stream
    <3> HIDE DEF n
    <3> QED BY <1>1, <2>1, <2>3, StreamFacts DEF n
  <2> QED BY <1>1, <1>3, <2>4 DEF Ready
<1> QED BY <1>1, <1>2, <1>3

Calls == [op : Ops, arg : Nat, out : SUBSET Nat, threw : BOOLEAN]

(* Whatever leaves a stream state preserves the invariant. *)
LEMMA BecomeStream ==
  ASSUME source \in Sources, NEW s \in Stream, Become(s), ret' \in Calls
  PROVE  IInv'
<1>1. PICK n \in 0..Len(source), i \in 0..(Len(source) - 1) :
        /\ s.b = Prefix(n) /\ s.p = i /\ i < n /\ Visible(source[i + 1])
  BY StreamFacts, Zenon
<1>2. source' = source /\ buffer' = Prefix(n) /\ p' = i /\ needSetup' = FALSE
  BY <1>1 DEF Become
<1>3. /\ n \in Nat /\ i \in Nat /\ n <= Len(source)
      /\ i \in 0..(n - 1) /\ i + 1 \in 1..n
  BY <1>1, SourceFacts
<1>4. /\ Size(Prefix(n)) = n
      /\ Prefix(n).delivered = n
      /\ \A j \in 1..n : Prefix(n).tokens[j] = Stamp(source[j], j - 1)
  BY <1>3, PrefixFields, Zenon
<1>5. Prefix(n).fetchedEOF = (n = Len(source))
  BY <1>3, PrefixFields, Zenon
<1>6. Size(buffer') = n /\ (Size(buffer))' = n
  BY <1>2, <1>4 DEF Size
<1>7. TypeOK'
  <2>1. Prefix(n) \in Buffer
    BY PrefixType
  <2>2. buffer' \in Buffer /\ source' \in Sources /\ p' \in Nat /\ needSetup' \in BOOLEAN
    BY <1>2, <1>3, <2>1
  <2> QED BY <2>2 DEF TypeOK, Calls
<1>8. BufferIsPrefix'
  <2>1. \A j \in 1..n : buffer'.tokens[j] = Stamp(source'[j], j - 1)
    BY <1>2, <1>4
  <2>2. buffer'.fetchedEOF <=> n = Len(source')
    BY <1>2, <1>5
  <2>3. buffer'.delivered = n /\ n <= Len(source')
    BY <1>2, <1>3, <1>4
  <2> QED BY <1>6, <2>1, <2>2, <2>3 DEF BufferIsPrefix
<1>9. CursorOnChannel'
  <2>1. Prefix(n).tokens[i + 1] = Stamp(source[i + 1], i + 1 - 1)
    BY <1>3, <1>4
  <2>2. Visible(Prefix(n).tokens[i + 1])
    BY <1>1, <2>1, ShowsStamp
  <2>3. Visible(buffer'.tokens[p' + 1])
    BY <1>2, <2>2
  <2>4. p' \in 0..(n - 1)
    BY <1>2, <1>3
  <2> QED BY <1>6, <2>3, <2>4 DEF CursorOnChannel, Visible
<1> QED BY <1>7, <1>8, <1>9 DEF IInv

(* Looking around may lengthen the prefix under the cursor. *)
LEMMA GrowStream ==
  ASSUME source \in Sources, NEW s \in Stream,
         NEW n \in 0..Len(source), s.p < n
  PROVE  [b |-> Prefix(n), p |-> s.p] \in Stream
<1>1. PICK i \in 0..(Len(source) - 1) : s.p = i /\ Visible(source[i + 1])
  BY StreamFacts, Zenon
<1>2. i \in 0..(n - 1)
  BY <1>1, SourceFacts
<1> QED BY <1>1, <1>2, StreamFacts

-----------------------------------------------------------------------------
(* One lemma per operation: from the invariant it goes to a stream state   *)
(* (or starts over), and the cursor moves as the abstract cursor does.     *)
LEMMA InitInv == Init => IInv
<1> SUFFICES ASSUME Init PROVE IInv
  OBVIOUS
<1>1. source \in Sources /\ buffer = Empty /\ p \in 0..MaxLook /\ needSetup = TRUE
  BY DEF Init
<1>2. Len(source) \in Nat \ {0}
  BY <1>1, SourceFacts
<1>3. Empty \in Buffer
  BY DEF Empty, Buffer
<1>4. ret \in Calls
  BY DEF Init, Calls, Ops
<1>5. TypeOK
  <2>1. p \in Nat
    BY <1>1, BoundsAssumption
  <2> QED BY <1>1, <1>3, <1>4, <2>1 DEF TypeOK, Calls
<1>6. BufferIsPrefix
  BY <1>1, <1>2 DEF BufferIsPrefix, Empty, Size
<1>7. CursorOnChannel
  BY <1>1 DEF CursorOnChannel
<1> QED BY <1>5, <1>6, <1>7 DEF IInv

LEMMA ConsumeEOFStep ==
  ASSUME IInv, ConsumeEOF
  PROVE  /\ IInv'
         /\ p' = Ready.p /\ Ready.p = Len(source) - 1
<1>1. source \in Sources /\ Ready \in Stream
  BY ReadyIsStream DEF IInv, TypeOK
<1>2. Become(Ready) /\ IsEOF(Ready.b.tokens[Ready.p + 1])
  BY DEF ConsumeEOF
<1>3. ret' \in Calls
  BY DEF ConsumeEOF, Throw, Calls, Ops
<1>4. PICK n \in 0..Len(source), i \in 0..(Len(source) - 1) :
        Ready.b = Prefix(n) /\ Ready.p = i /\ i < n
  BY <1>1, StreamFacts, Zenon
<1>5. n \in Nat /\ i + 1 \in 1..n /\ i + 1 \in 1..Len(source) /\ i \in Nat
  BY <1>1, <1>4, SourceFacts
<1>6. Prefix(n).tokens[i + 1] = Stamp(source[i + 1], i + 1 - 1)
  <2>1. \A j \in 1..n : Prefix(n).tokens[j] = Stamp(source[j], j - 1)
    BY <1>5, PrefixFields, Zenon
  <2> QED BY <1>5, <2>1
<1>7. IsEOF(source[i + 1])
  BY <1>2, <1>4, <1>6, ShowsStamp
<1>8. i + 1 = Len(source)
  BY <1>1, <1>5, <1>7, SourceFacts
<1>9. Ready.p = Len(source) - 1
  BY <1>4, <1>5, <1>8
<1>10. p' = Ready.p
  BY <1>2 DEF Become
<1> QED BY <1>1, <1>2, <1>3, <1>9, <1>10, BecomeStream

LEMMA ConsumeStep ==
  ASSUME IInv, Consume
  PROVE  /\ IInv'
         /\ p' = Skip(Ready).p
<1>1. source \in Sources /\ Ready \in Stream
  BY ReadyIsStream DEF IInv, TypeOK
<1>2. Become(Skip(Ready)) /\ Skip(Ready) \in Stream
  BY <1>1, SkipOfStream DEF Consume
<1>3. Ready.p \in Nat
  <2>1. PICK i \in 0..(Len(source) - 1) : Ready.p = i
    BY <1>1, StreamFacts, Zenon
  <2> QED BY <2>1
<1>4. ret' \in Calls
  BY <1>3 DEF Consume, Return, Calls, Ops
<1> QED BY <1>1, <1>2, <1>4, BecomeStream DEF Become

LEMMA SeekStep ==
  ASSUME IInv, NEW i \in 0..Len(source), Seek(i)
  PROVE  /\ IInv'
         /\ C!IsFirst(source, i, p')
<1>1. source \in Sources /\ Ready \in Stream
  BY ReadyIsStream DEF IInv, TypeOK
<1>2. PICK n \in 0..Len(source) : Ready.b = Prefix(n)
  BY <1>1, StreamFacts, Zenon
<1>3. At(Ready.b, i) \in Stream /\ C!IsFirst(source, i, At(Ready.b, i).p)
  BY <1>1, <1>2, AtOfPrefix
<1>4. Become(At(Ready.b, i))
  BY DEF Seek
<1>5. ret' \in Calls
  BY DEF Seek, Return, Calls, Ops
<1> QED BY <1>1, <1>3, <1>4, <1>5, BecomeStream DEF Become

LEMMA LTStep ==
  ASSUME IInv, NEW k \in 1..MaxLook, LT(k)
  PROVE  IInv' /\ p' = Ready.p
<1>1. source \in Sources /\ Ready \in Stream
  BY ReadyIsStream DEF IInv, TypeOK
<1> DEFINE s == Ahead(Ready, k)
<1>2. s \in Onward(Ready.p)
  <2>1. k \in Nat \ {0}
    BY BoundsAssumption
  <2> QED BY <1>1, <2>1, AheadOfStream
<1>3. s \in Stream /\ s.p \in Nat /\ Ready.p <= s.p
  BY <1>2 DEF Onward
<1>4. Become([b |-> s.b, p |-> Ready.p]) /\ Return("LT", k, {s.p})
  BY DEF LT
<1> HIDE DEF s
<1>5. PICK n \in 0..Len(source), i \in 0..(Len(source) - 1) :
        s.b = Prefix(n) /\ s.p = i /\ i < n
  BY <1>1, <1>3, StreamFacts, Zenon
<1>6. PICK j \in 0..(Len(source) - 1) : Ready.p = j
  BY <1>1, StreamFacts, Zenon
<1>7. Ready.p < n
  BY <1>1, <1>3, <1>5, <1>6, SourceFacts
<1>8. [b |-> s.b, p |-> Ready.p] \in Stream
  BY <1>1, <1>5, <1>7, GrowStream
<1>9. ret' \in Calls
  BY <1>3, <1>4, BoundsAssumption DEF Return, Calls, Ops
<1> QED BY <1>1, <1>4, <1>8, <1>9, BecomeStream DEF Become

LEMMA LBStep ==
  ASSUME IInv, NEW k \in 1..MaxLook, LB(k)
  PROVE  IInv' /\ p' = Ready.p
<1>1. source \in Sources /\ Ready \in Stream
  BY ReadyIsStream DEF IInv, TypeOK
<1>2. k \in Nat
  BY BoundsAssumption
<1>3. Behind(Ready, k) \in Nat
  BY <1>1, <1>2, BehindIsIndex
<1>4. ret' \in Calls
  BY <1>2, <1>3 DEF LB, Return, Calls, Ops
<1>5. Become(Ready)
  BY DEF LB
<1> QED BY <1>1, <1>4, <1>5, BecomeStream DEF Become

(* fill and getNumberOfOnChannelTokens fetch to the end. *)
LEMMA FilledStream ==
  ASSUME IInv
  PROVE  /\ Fetch(Ready.b, Len(source) + 1) = Prefix(Len(source))
         /\ [b |-> Prefix(Len(source)), p |-> Ready.p] \in Stream
<1>1. source \in Sources /\ Ready \in Stream
  BY ReadyIsStream DEF IInv, TypeOK
<1>2. PICK n \in 0..Len(source), i \in 0..(Len(source) - 1) :
        Ready.b = Prefix(n) /\ Ready.p = i
  BY <1>1, StreamFacts, Zenon
<1>3. /\ Len(source) + 1 \in Nat /\ Len(source) \in 0..Len(source) /\ n \in Nat
      /\ Ready.p < Len(source)
  BY <1>1, <1>2, SourceFacts
<1>4. Fetch(Prefix(n), Len(source) + 1) = Prefix(Len(source))
  <2>1. (IF Len(source) + 1 <= Len(source) - n THEN n + (Len(source) + 1) ELSE Len(source))
          = Len(source)
    BY <1>3
  <2>2. Fetch(Prefix(n), Len(source) + 1) =
          Prefix(IF Len(source) + 1 <= Len(source) - n
                 THEN n + (Len(source) + 1) ELSE Len(source))
    BY <1>1, <1>3, FetchOfPrefix
  <2> QED BY <2>1, <2>2
<1> QED BY <1>1, <1>2, <1>3, <1>4, GrowStream

LEMMA FillStep ==
  ASSUME IInv, Fill \/ CountOnChannel
  PROVE  IInv' /\ p' = Ready.p
<1>1. source \in Sources
  BY DEF IInv, TypeOK
<1> DEFINE b == Fetch(Ready.b, Len(source) + 1)
<1>2. [b |-> b, p |-> Ready.p] \in Stream
  BY FilledStream
<1>3. Become([b |-> b, p |-> Ready.p])
  BY DEF Fill, CountOnChannel
<1>4. ret' \in Calls
  <2>1. CASE Fill
    BY <2>1 DEF Fill, Return, Calls, Ops
  <2>2. CASE CountOnChannel
    <3>1. {i \in 0..(Size(b) - 1) : b.tokens[i + 1].channel = Channel} \in SUBSET Nat
      OBVIOUS
    <3> HIDE DEF b
    <3> QED BY <2>2, <3>1 DEF CountOnChannel, Return, Calls, Ops, b
  <2> QED BY <2>1, <2>2
<1> HIDE DEF b
<1> QED BY <1>1, <1>2, <1>3, <1>4, BecomeStream DEF Become

LEMMA HiddenRightStep ==
  ASSUME IInv, NEW i \in 0..Len(source), HiddenRight(i)
  PROVE  IInv' /\ p' = Ready.p
<1>1. source \in Sources /\ Ready \in Stream
  BY ReadyIsStream DEF IInv, TypeOK
<1>2. PICK n \in 0..Len(source), c \in 0..(Len(source) - 1) :
        Ready.b = Prefix(n) /\ Ready.p = c /\ c < n
  BY <1>1, StreamFacts, Zenon
<1>3. n \in Nat /\ n <= Len(source) /\ Len(source) \in Nat
  BY <1>1, SourceFacts
<1>4. Size(Ready.b) = n
  BY <1>2, <1>3, PrefixFields, Zenon
<1>5. CASE i >= n
  <2>1. Become(Ready) /\ Throw("hiddenRight", i)
    BY <1>4, <1>5 DEF HiddenRight
  <2>2. ret' \in Calls
    BY <2>1 DEF Throw, Calls, Ops
  <2> QED BY <1>1, <2>1, <2>2, BecomeStream DEF Become
<1>6. CASE ~(i >= n)
  <2> DEFINE after == Walked(Ready.b, i + 1, DefaultChannel)
             out == Hidden(after, i + 1, NextOnChannel(Ready.b, i + 1, DefaultChannel))
  <2>1. i + 1 \in 0..Len(source)
    BY <1>3, <1>6
  <2>2. PICK w \in 0..Len(source) : after = Prefix(w) /\ n <= w
    BY <1>1, <1>2, <2>1, WalkedOfPrefix
  <2>3. Become([b |-> after, p |-> Ready.p]) /\ Return("hiddenRight", i, out)
    BY <1>4, <1>6 DEF HiddenRight
  <2>4. out \in SUBSET Nat
    BY DEF Hidden
  <2> HIDE DEF after, out
  <2>5. [b |-> after, p |-> Ready.p] \in Stream
    <3>1. Ready.p < w
      BY <1>2, <1>3, <2>2
    <3> QED BY <1>1, <2>2, <3>1, GrowStream
  <2>6. ret' \in Calls
    BY <2>3, <2>4 DEF Return, Calls, Ops
  <2> QED BY <1>1, <2>3, <2>5, <2>6, BecomeStream DEF Become
<1> QED BY <1>5, <1>6

LEMMA HiddenLeftStep ==
  ASSUME IInv, NEW i \in 0..Len(source), HiddenLeft(i)
  PROVE  IInv' /\ p' = Ready.p
<1>1. source \in Sources /\ Ready \in Stream
  BY ReadyIsStream DEF IInv, TypeOK
<1>2. Become(Ready)
  BY DEF HiddenLeft
<1>3. PICK n \in 0..Len(source), c \in 0..(Len(source) - 1) :
        Ready.b = Prefix(n) /\ Ready.p = c /\ c < n
  BY <1>1, StreamFacts, Zenon
<1>4. n \in 1..Len(source) /\ n \in Nat
  BY <1>1, <1>3, SourceFacts
<1>5. Size(Ready.b) = n
  BY <1>3, <1>4, PrefixFields, Zenon
<1> DEFINE prev == PrevOnChannel(Ready.b, i - 1, DefaultChannel)
           out == IF i = 0 \/ prev = i - 1 THEN {} ELSE Hidden(Ready.b, prev + 1, i - 1)
<1>6. CASE i >= n
  <2>1. Throw("hiddenLeft", i)
    BY <1>5, <1>6 DEF HiddenLeft
  <2>2. ret' \in Calls
    BY <2>1 DEF Throw, Calls, Ops
  <2> QED BY <1>1, <1>2, <2>2, BecomeStream DEF Become
<1>7. CASE ~(i >= n)
  <2>1. Return("hiddenLeft", i, out)
    BY <1>5, <1>7 DEF HiddenLeft
  <2>2. out \in SUBSET Nat
    <3>1. CASE i = 0
      BY <3>1
    <3>2. CASE i # 0
      <4>1. i - 1 \in Nat
        BY <3>2
      <4>2. prev \in 0..(n - 1)
        BY <1>1, <1>3, <1>4, <4>1, PrevIsIndex
      <4> HIDE DEF prev
      <4>3. Hidden(Ready.b, prev + 1, i - 1) \in SUBSET Nat
        BY <4>2 DEF Hidden
      <4> QED BY <4>3
    <3> QED BY <3>1, <3>2
  <2> HIDE DEF out
  <2>3. ret' \in Calls
    BY <2>1, <2>2 DEF Return, Calls, Ops
  <2> QED BY <1>1, <1>2, <2>3, BecomeStream DEF Become
<1> QED BY <1>6, <1>7

(* A new source starts over: an empty buffer is a prefix of any source. *)
LEMMA SetTokenSourceStep ==
  ASSUME IInv, NEW src \in Sources, SetTokenSource(src)
  PROVE  IInv'
<1>1. source' = src /\ buffer' = Empty /\ needSetup' = TRUE /\ p' = p
  BY DEF SetTokenSource
<1>2. Len(src) \in Nat \ {0}
  BY SourcesAssumption DEF WellFormed
<1>3. Empty \in Buffer
  BY DEF Empty, Buffer
<1>4. ret' \in Calls
  BY DEF SetTokenSource, Return, Calls, Ops
<1>5. TypeOK'
  BY <1>1, <1>3, <1>4 DEF TypeOK, Calls, IInv
<1>6. BufferIsPrefix'
  BY <1>1, <1>2 DEF BufferIsPrefix, Empty, Size
<1>7. CursorOnChannel'
  BY <1>1 DEF CursorOnChannel
<1> QED BY <1>5, <1>6, <1>7 DEF IInv

LEMMA StutterStep ==
  ASSUME IInv, UNCHANGED vars
  PROVE  IInv'
BY DEF IInv, vars, TypeOK, BufferIsPrefix, CursorOnChannel, Visible, Size

-----------------------------------------------------------------------------
(* Every step of Next is one of these. *)
LEMMA NextCases ==
  ASSUME source \in Sources, Next
  PROVE  \/ Consume
         \/ ConsumeEOF
         \/ \E i \in 0..Len(source) : Seek(i)
         \/ \E i \in 0..Len(source) : HiddenRight(i)
         \/ \E i \in 0..Len(source) : HiddenLeft(i)
         \/ \E k \in 1..MaxLook : LT(k)
         \/ \E k \in 1..MaxLook : LB(k)
         \/ Fill \/ CountOnChannel
         \/ \E src \in Sources : SetTokenSource(src)
<1>1. ASSUME Reset PROVE \E i \in 0..Len(source) : Seek(i)
  <2>1. 0 \in 0..Len(source)
    BY SourceFacts
  <2> QED BY <1>1, <2>1 DEF Reset
<1> QED BY <1>1, Zenon DEF Next

(* Type correctness, the prefix and the cursor, for every source, channel  *)
(* and lookahead distance.                                                 *)
THEOREM StreamInvariant == Spec => []IInv
<1>1. Init => IInv
  BY InitInv
<1>2. IInv /\ [Next]_vars => IInv'
  <2> SUFFICES ASSUME IInv, [Next]_vars PROVE IInv'
    OBVIOUS
  <2>1. source \in Sources
    BY DEF IInv, TypeOK
  <2>2. CASE Next
    <3>1. CASE Consume
      BY <3>1, ConsumeStep
    <3>2. CASE ConsumeEOF
      BY <3>2, ConsumeEOFStep
    <3>3. CASE \E i \in 0..Len(source) : Seek(i)
      BY <3>3, SeekStep
    <3>4. CASE \E i \in 0..Len(source) : HiddenRight(i)
      BY <3>4, HiddenRightStep
    <3>5. CASE \E i \in 0..Len(source) : HiddenLeft(i)
      BY <3>5, HiddenLeftStep
    <3>6. CASE \E k \in 1..MaxLook : LT(k)
      BY <3>6, LTStep
    <3>7. CASE \E k \in 1..MaxLook : LB(k)
      BY <3>7, LBStep
    <3>8. CASE Fill \/ CountOnChannel
      BY <3>8, FillStep
    <3>9. CASE \E src \in Sources : SetTokenSource(src)
      BY <3>9, SetTokenSourceStep
    <3> QED BY <2>1, <2>2, <3>1, <3>2, <3>3, <3>4, <3>5, <3>6, <3>7, <3>8, <3>9, NextCases, Zenon
  <2>3. CASE UNCHANGED vars
    BY <2>3, StutterStep
  <2> QED BY <2>2, <2>3
<1> QED BY <1>1, <1>2, PTL DEF Spec

(* The types, by themselves. *)
THEOREM StreamTypeOK == Spec => []TypeOK
<1>1. IInv => TypeOK
  BY DEF IInv
<1> QED BY <1>1, StreamInvariant, PTL

(* Every lexer token is fetched once, in order, and never after EOF,       *)
(* whatever the calls and the second pass of the parser ask for.           *)
THEOREM StreamBufferIsPrefix == Spec => []BufferIsPrefix
<1>1. IInv => BufferIsPrefix
  BY DEF IInv
<1> QED BY <1>1, StreamInvariant, PTL

(* The cursor is never on a comment nor outside the buffer. *)
THEOREM StreamCursorOnChannel == Spec => []CursorOnChannel
<1>1. IInv => CursorOnChannel
  BY DEF IInv
<1> QED BY <1>1, StreamInvariant, PTL

-----------------------------------------------------------------------------
(* The lazily filled stream implements the cursor over the whole input.    *)

(* The first visible token exists and is unique. *)
FirstOf(src) == CHOOSE j \in 0..(Len(src) - 1) :
                  /\ Visible(src[j + 1])
                  /\ \A m \in 0..(j - 1) : ~Visible(src[m + 1])

LEMMA FirstIsFirst ==
  ASSUME NEW src \in Sources
  PROVE  /\ C!IsFirst(src, 0, FirstOf(src))
         /\ \A j : C!IsFirst(src, 0, j) => j = FirstOf(src)
<1>1. /\ Len(src) \in Nat \ {0}
      /\ IsEOF(src[Len(src)])
  BY SourcesAssumption DEF WellFormed
<1> DEFINE L == Len(src)
           Good(j) == /\ Visible(src[j + 1])
                      /\ \A m \in 0..(j - 1) : ~Visible(src[m + 1])
           S == {j \in 0..(L - 1) : Visible(src[j + 1])}
<1>2. L - 1 \in S
  <2>1. L - 1 + 1 = L
    BY <1>1
  <2> QED BY <1>1, <2>1 DEF Visible
<1>3. PICK j \in S : \A m \in S : j <= m
  <2>1. S \in SUBSET Nat
    OBVIOUS
  <2> HIDE DEF S
  <2> QED BY <1>2, <2>1, Least
<1>4. j \in 0..(L - 1) /\ Good(j)
  <2>1. \A m \in 0..(j - 1) : m \in 0..(L - 1) /\ ~(j <= m)
    BY <1>3
  <2> QED BY <1>3, <2>1
<1>5. FirstOf(src) \in 0..(L - 1) /\ Good(FirstOf(src))
  BY <1>4 DEF FirstOf
<1>6. \A x : C!IsFirst(src, 0, x) <=> x \in 0..(L - 1) /\ Good(x)
  BY <1>1, SameVisible DEF C!IsFirst
<1>7. \A x, y \in 0..(L - 1) : Good(x) /\ Good(y) => x = y
  <2> SUFFICES ASSUME NEW x \in 0..(L - 1), NEW y \in 0..(L - 1), Good(x), Good(y)
               PROVE  x = y
    OBVIOUS
  <2>1. ~(x < y)
    BY x \in 0..(y - 1) \/ ~(x < y)
  <2>2. ~(y < x)
    BY y \in 0..(x - 1) \/ ~(y < x)
  <2> QED BY <2>1, <2>2
<1> HIDE DEF Good
<1> QED BY <1>5, <1>6, <1>7

(* Where the abstract cursor stands. *)
Pos == IF needSetup THEN FirstVisible ELSE p

LEMMA PosIsReady ==
  ASSUME IInv
  PROVE  Pos = Ready.p
<1>1. source \in Sources
  BY DEF IInv, TypeOK
<1>2. FirstVisible = FirstOf(source)
  BY DEF FirstVisible, FirstOf
<1>3. CASE needSetup
  BY <1>1, <1>2, <1>3, ReadyIsStream, FirstIsFirst DEF Pos
<1>4. CASE ~needSetup
  BY <1>4, ReadyIsStream DEF Pos
<1> QED BY <1>3, <1>4

(* After a call the stream is set up, so Pos is the cursor itself. *)
LEMMA PosAfter ==
  ASSUME NEW s, Become(s)
  PROVE  source' = source /\ Pos' = p'
BY DEF Become, Pos

(* A call that only looks. *)
LEMMA LookStep ==
  ASSUME IInv, NEW s, Become(s), p' = Ready.p, ret'.op \in C!Looks
  PROVE  C!Look
<1>1. source' = source /\ Pos' = Pos
  BY PosAfter, PosIsReady
<1> QED BY <1>1 DEF C!Look, Pos

LEMMA StepImplements ==
  ASSUME IInv, Next
  PROVE  C!Step
<1>1. source \in Sources /\ Pos = Ready.p /\ Ready \in Stream
  BY PosIsReady, ReadyIsStream DEF IInv, TypeOK
<1>2. CASE Consume
  <2>1. Become(Skip(Ready)) /\ p' = Skip(Ready).p
    BY <1>2, ConsumeStep DEF Consume
  <2>2. source' = source /\ Pos' = Skip(Ready).p
    BY <2>1, PosAfter
  <2>3. ret'.op = "consume" /\ ret'.arg = 0
    BY <1>2 DEF Consume, Return
  <2>4. PICK i \in 0..(Len(source) - 1) : Ready.p = i
    BY <1>1, StreamFacts, Zenon
  <2>5. IF Pos = Len(source) - 1 THEN Pos' = Pos ELSE C!IsFirst(source, Pos + 1, Pos')
    <3>1. Len(source) \in Nat
      BY <1>1, SourceFacts
    <3> QED BY <1>1, <2>2, <2>4, <3>1, SkipOfStream
  <2>6. C!Advance
    BY <2>2, <2>3, <2>5 DEF C!Advance, C!Last, Pos
  <2> QED BY <2>6 DEF C!Step
<1>3. CASE ConsumeEOF
  <2>1. Become(Ready) /\ p' = Ready.p /\ Ready.p = Len(source) - 1
    BY <1>3, ConsumeEOFStep DEF ConsumeEOF
  <2>2. source' = source /\ Pos' = Pos /\ Pos = Len(source) - 1
    BY <1>1, <2>1, PosAfter
  <2>3. ret'.op = "consume" /\ ret'.arg = 0
    BY <1>3 DEF ConsumeEOF, Throw
  <2>4. C!Advance
    BY <2>2, <2>3 DEF C!Advance, C!Last, Pos
  <2> QED BY <2>4 DEF C!Step
<1>4. CASE \E i \in 0..Len(source) : Seek(i)
  <2>1. PICK i \in 0..Len(source) : Seek(i)
    BY <1>4
  <2>2. Become(At(Ready.b, i)) /\ C!IsFirst(source, i, p')
    BY <2>1, SeekStep DEF Seek
  <2>3. source' = source /\ Pos' = p'
    BY <2>2, PosAfter
  <2>4. ret'.op = "seek" /\ ret'.arg = i
    BY <2>1 DEF Seek, Return
  <2>5. C!Jump(i)
    BY <2>2, <2>3, <2>4 DEF C!Jump, Pos
  <2> QED BY <2>5 DEF C!Step
<1>5. CASE \E i \in 0..Len(source) : HiddenRight(i)
  <2>1. PICK i \in 0..Len(source) : HiddenRight(i)
    BY <1>5
  <2>2. p' = Ready.p
    BY <2>1, HiddenRightStep
  <2>3. ret'.op = "hiddenRight" /\ \E s : Become(s)
    BY <2>1 DEF HiddenRight, Return, Throw
  <2> QED BY <2>2, <2>3, LookStep DEF C!Step, C!Looks
<1>6. CASE \E i \in 0..Len(source) : HiddenLeft(i)
  <2>1. PICK i \in 0..Len(source) : HiddenLeft(i)
    BY <1>6
  <2>2. p' = Ready.p
    BY <2>1, HiddenLeftStep
  <2>3. ret'.op = "hiddenLeft" /\ \E s : Become(s)
    BY <2>1 DEF HiddenLeft, Return, Throw
  <2> QED BY <2>2, <2>3, LookStep DEF C!Step, C!Looks
<1>7. CASE \E k \in 1..MaxLook : LT(k)
  <2>1. PICK k \in 1..MaxLook : LT(k)
    BY <1>7
  <2>2. p' = Ready.p
    BY <2>1, LTStep
  <2>3. ret'.op = "LT" /\ \E s : Become(s)
    BY <2>1 DEF LT, Return
  <2> QED BY <2>2, <2>3, LookStep DEF C!Step, C!Looks
<1>8. CASE \E k \in 1..MaxLook : LB(k)
  <2>1. PICK k \in 1..MaxLook : LB(k)
    BY <1>8
  <2>2. p' = Ready.p
    BY <2>1, LBStep
  <2>3. ret'.op = "LB" /\ \E s : Become(s)
    BY <2>1 DEF LB, Return
  <2> QED BY <2>2, <2>3, LookStep DEF C!Step, C!Looks
<1>9. CASE Fill \/ CountOnChannel
  <2>1. p' = Ready.p
    BY <1>9, FillStep
  <2>2. ret'.op \in {"fill", "count"} /\ \E s : Become(s)
    BY <1>9 DEF Fill, CountOnChannel, Return
  <2> QED BY <2>1, <2>2, LookStep DEF C!Step, C!Looks
<1>10. CASE \E src \in Sources : SetTokenSource(src)
  <2>1. PICK src \in Sources : SetTokenSource(src)
    BY <1>10
  <2>2. source' = src /\ needSetup' = TRUE
        /\ ret'.op = "setTokenSource" /\ ret'.arg = 0
    BY <2>1 DEF SetTokenSource, Return
  <2>3. Pos' = FirstOf(src)
    BY <2>2 DEF Pos, FirstVisible, FirstOf, Visible, IsEOF
  <2>4. C!IsFirst(source', 0, Pos')
    BY <2>2, <2>3, FirstIsFirst
  <2>5. C!Restart
    BY <2>2, <2>4 DEF C!Restart, Pos
  <2> QED BY <2>5 DEF C!Step
<1> QED BY <1>1, <1>2, <1>3, <1>4, <1>5, <1>6, <1>7, <1>8, <1>9, <1>10, NextCases, Zenon

(* Laziness, the buffer and the comments cannot be seen by a client that   *)
(* consumes, seeks and looks: the stream refines TokenCursor.              *)
THEOREM StreamImplementsCursor == Spec => ImplementsCursor
<1>1. Init => C!Start
  <2> SUFFICES ASSUME Init PROVE C!Start
    OBVIOUS
  <2>1. source \in Sources /\ needSetup = TRUE /\ ret.op = "new" /\ ret.arg = 0
    BY DEF Init
  <2>2. FirstVisible = FirstOf(source)
    BY DEF FirstVisible, FirstOf
  <2>3. C!IsFirst(source, 0, FirstVisible)
    BY <2>1, <2>2, FirstIsFirst
  <2> QED BY <2>1, <2>3 DEF C!Start
<1>2. IInv /\ [Next]_vars => [C!Step]_<<source, Pos, [op |-> ret.op, arg |-> ret.arg]>>
  <2> SUFFICES ASSUME IInv, [Next]_vars
               PROVE  [C!Step]_<<source, Pos, [op |-> ret.op, arg |-> ret.arg]>>
    OBVIOUS
  <2>1. CASE Next
    BY <2>1, StepImplements
  <2>2. CASE UNCHANGED vars
    BY <2>2 DEF vars, Pos, FirstVisible, Visible, IsEOF
  <2> QED BY <2>1, <2>2
<1>3. ImplementsCursor <=>
        C!Start /\ [][C!Step]_<<source, Pos, [op |-> ret.op, arg |-> ret.arg]>>
  BY DEF ImplementsCursor, C!Cursor, Pos
<1> QED BY <1>1, <1>2, <1>3, StreamInvariant, PTL DEF Spec

=============================================================================
