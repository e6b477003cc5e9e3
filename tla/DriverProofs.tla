---------------------------- MODULE DriverProofs ----------------------------
(***************************************************************************)
(* What the driver says of which file, for all arguments, texts, options   *)
(* and whatever is done to the files while it runs.                        *)
(*                                                                         *)
(* The argument: what was written of a file was written while the loop was *)
(* at it, so the lines of the files behind it stay what they are; those of *)
(* the file under way follow from pc.                                      *)
(***************************************************************************)
EXTENDS Driver, FiniteSetTheorems, SequenceTheorems, WellFoundedInduction, TLAPS

Kinds == {"path", "missing", "lexical", "syntax", "tree"}
Lines == [what : Kinds, at : Nat, n : Int]
Reads == [at : Nat, text : Texts \union {Blank}]

(* pc, in the loop and in the file. *)
AtFile == pc \in {"load", "parse", "again", "print"}
InFile == pc \in {"parse", "again", "print"}

Typed ==
  /\ TypeOK
  /\ out \in Seq(Lines)
  /\ read \in Seq(Reads)
  /\ pc = "expand" => arg <= Len(Args)
  /\ pc \in {"expand", "list"} => at = 1 /\ read = << >> /\ out = << >>
  /\ AtFile => at <= Len(paths)

(* What cannot be opened now was noted, and so was what a line is missing. *)
AwayNoted ==
  /\ \A path \in Paths : file_exists(path) \/ path \in away
  /\ \A k \in 1..Len(out) : out[k].what = "missing" => paths[out[k].at] \in away

(* Of the arguments looked at, which are all once the loop begins, each    *)
(* name is in the list if it was steady; and the loop goes to its end.     *)
Listed(path) == path \in away \/ \E i \in 1..Len(paths) : paths[i] = path
ArgsListed ==
  /\ \A a \in DOMAIN Args : a < arg => \A j \in DOMAIN Args[a] : Listed(Args[a][j])
  /\ pc # "expand" => arg = Len(Args) + 1
  /\ pc = "exit" => at = Len(paths) + 1

(* What was read and written is of the files up to the one under way: and  *)
(* of that only once it is read.                                           *)
Behind ==
  /\ \A k \in 1..Len(read) : read[k].at < at \/ (read[k].at = at /\ k = Len(read)
                                                 /\ pc \in {"parse", "again", "print", "dead"})
  /\ \A l \in 1..Len(out) :
       out[l].what # "path" => out[l].at < at \/ (out[l].at = at /\ out[l].what # "missing"
                                                  /\ pc \in {"again", "print", "dead"})
  /\ InFile => Len(read) > 0 /\ read[Len(read)] = [at |-> at, text |-> input]

(* tree is that of the file under way once it is parsed to the end. *)
TreeOf ==
  /\ pc = "parse" => tree \in {NULL, JUNK}
  /\ pc = "again" => input.fails # 0 /\ ~config.no_lint /\ fetched = input.fails
  /\ pc = "print" => \/ tree = at
                     \/ tree \in {NULL, JUNK} /\ input.fails # 0 /\ config.no_lint

-----------------------------------------------------------------------------
(* Finite sets of numbers *)
LEMMA Least ==
  ASSUME NEW S \in SUBSET Nat, S # {}
  PROVE  \E j \in S : \A m \in S : j <= m
<1>1. PICK j \in S : \A m \in S : ~(<<m, j>> \in OpToRel(<, Nat))
  BY WFMin, NatLessThanWellFounded, Zenon
<1>2. \A m \in S : ~(m < j)
  BY <1>1 DEF OpToRel
<1> QED BY <1>2

Enumerates(f, S, n) ==
  /\ f \in [1..n -> S]
  /\ \A m \in S : \E k \in 1..n : f[k] = m
  /\ \A k, l \in 1..n : k < l => f[k] < f[l]

(* A bounded set of numbers can be put in order: by the least bound for    *)
(* which it could not.                                                     *)
LEMMA AscendingExists ==
  ASSUME NEW N \in Nat, NEW S \in SUBSET (1..N)
  PROVE  /\ IsFiniteSet(S) /\ Cardinality(S) \in Nat
         /\ \E f : Enumerates(f, S, Cardinality(S))
<1> DEFINE Upto(m) == S \cap 1..m
           Good(m) == \E f : Enumerates(f, Upto(m), Cardinality(Upto(m)))
           Left == {m \in 0..N : ~Good(m)}
<1>1. ASSUME NEW m \in 0..N
      PROVE  IsFiniteSet(Upto(m)) /\ Cardinality(Upto(m)) \in Nat
  <2>1. m \in Int /\ 1 \in Int
    OBVIOUS
  <2>2. IsFiniteSet(1..m)
    BY <2>1, FS_Interval
  <2> QED BY <2>2, FS_Subset, FS_CardinalityType
<1>2. Upto(N) = S /\ N \in 0..N
  <2>1. N \in 0..N /\ S \subseteq 1..N
    OBVIOUS
  <2> QED BY <2>1
<1> SUFFICES Left = {}
  <2>1. ASSUME Left = {} PROVE Good(N)
    BY <1>2, <2>1
  <2> HIDE DEF Left
  <2> QED BY <1>1, <1>2, <2>1
<1> SUFFICES ASSUME Left # {} PROVE FALSE
  OBVIOUS
<1>3. PICK m \in Left : \A k \in Left : m <= k
  <2>1. Left \in SUBSET Nat
    OBVIOUS
  <2> HIDE DEF Left
  <2> QED BY <2>1, Least
<1>4. CASE m = 0
  <2>1. Upto(0) = {}
    OBVIOUS
  <2>2. Cardinality(Upto(0)) = 0
    BY <2>1, FS_EmptySet
  <2>3. Enumerates([k \in 1..0 |-> 0], {}, 0)
    BY DEF Enumerates
  <2>4. Good(0)
    BY <2>1, <2>2, <2>3
  <2> QED BY <1>3, <1>4, <2>4
<1>5. CASE m # 0
  <2> DEFINE T == Upto(m - 1)
             c == Cardinality(T)
  <2>1. m \in Nat /\ m - 1 \in 0..N /\ Good(m - 1) /\ m \in 0..N
    BY <1>3, <1>5
  <2>2. PICK f : Enumerates(f, T, c)
    BY <2>1
  <2>3. IsFiniteSet(T) /\ c \in Nat
    BY <1>1, <2>1
  <2>4. CASE m \notin S
    <3>1. Upto(m) = T
      BY <2>1, <2>4
    <3> QED BY <1>3, <2>2, <3>1
  <2>5. CASE m \in S
    <3> DEFINE g == [k \in 1..(c + 1) |-> IF k = c + 1 THEN m ELSE f[k]]
    <3>1. Upto(m) = T \union {m} /\ m \notin T /\ \A t \in T : t < m /\ t \in Nat
      BY <2>1, <2>5
    <3>2. Cardinality(Upto(m)) = c + 1
      <4> HIDE DEF T, Upto
      <4> QED BY <2>3, <3>1, FS_AddElement
    <3>3. f \in [1..c -> T] /\ (\A t \in T : \E k \in 1..c : f[k] = t)
          /\ \A k, l \in 1..c : k < l => f[k] < f[l]
      BY <2>2 DEF Enumerates
    <3>4. /\ c + 1 \in 1..(c + 1) /\ g[c + 1] = m
          /\ \A k \in 1..c : k \in 1..(c + 1) /\ g[k] = f[k] /\ f[k] \in T
          /\ \A k \in 1..(c + 1) : k = c + 1 \/ k \in 1..c
      <4> HIDE DEF T, c
      <4> QED BY <2>3, <3>3
    <3> HIDE DEF T, c
    <3>5. g \in [1..(c + 1) -> T \union {m}]
      BY <3>4
    <3> HIDE DEF g
    <3>6. \A t \in T \union {m} : \E k \in 1..(c + 1) : g[k] = t
      BY <3>3, <3>4
    <3>7. ASSUME NEW k \in 1..(c + 1), NEW l \in 1..(c + 1), k < l
          PROVE  g[k] < g[l]
      <4>1. k \in 1..c
        BY <2>3, <3>4, <3>7
      <4> QED BY <3>1, <3>3, <3>4, <3>7, <4>1
    <3>8. Enumerates(g, T \union {m}, c + 1)
      BY <3>5, <3>6, <3>7 DEF Enumerates
    <3> HIDE DEF Upto
    <3> QED BY <1>3, <3>1, <3>2, <3>8
  <2> QED BY <2>4, <2>5
<1> QED BY <1>4, <1>5

LEMMA AscendingFacts ==
  ASSUME NEW N \in Nat, NEW S \in SUBSET (1..N)
  PROVE  Cardinality(S) \in Nat /\ Enumerates(Ascending(S), S, Cardinality(S))
<1> DEFINE n == Cardinality(S)
           P(f) == /\ \A m \in S : \E k \in DOMAIN f : f[k] = m
                   /\ \A k, l \in DOMAIN f : k < l => f[k] < f[l]
<1>1. n \in Nat /\ \E f : Enumerates(f, S, n)
  BY AscendingExists
<1>2. \E f \in [1..n -> S] : P(f)
  <2> HIDE DEF n
  <2> QED BY <1>1 DEF Enumerates
<1>3. Ascending(S) = CHOOSE f \in [1..n -> S] : P(f)
  BY DEF Ascending
<1>4. Ascending(S) \in [1..n -> S] /\ P(Ascending(S))
  <2> HIDE DEF n, P
  <2> QED BY <1>2, <1>3
<1> HIDE DEF n
<1> QED BY <1>1, <1>4 DEF Enumerates, n

-----------------------------------------------------------------------------
(* TypeOK *)
LEMMA TextFacts ==
  /\ Blank \in Text
  /\ \A t \in Texts \union {Blank} :
       /\ t \in Text /\ t.size \in Nat /\ t.bad \subseteq 1..t.size /\ t.fails \in 0..t.size
       /\ t.atEOF => t.fails # 0
       /\ t # ABSENT
<1>1. Blank \in Text
  BY DEF Blank, Text
<1>2. ASSUME NEW t \in Texts \union {Blank}
      PROVE  /\ t \in Text /\ t.size \in Nat /\ t.bad \subseteq 1..t.size
             /\ t.fails \in 0..t.size
             /\ t.atEOF => t.fails # 0
  <2>1. CASE t = Blank
    BY <1>1, <2>1 DEF Blank
  <2>2. CASE t \in Texts
    BY <2>2, TextAssumption DEF Text
  <2> QED BY <2>1, <2>2
<1>3. ASSUME NEW t \in Text PROVE t # ABSENT
  <2>1. DOMAIN t = {"opens", "reads", "utf8", "size", "bad", "fails", "atEOF"}
    BY DEF Text
  <2>2. DOMAIN ABSENT = {"size"}
    BY DEF ABSENT
  <2> QED BY <2>1, <2>2
<1> QED BY <1>1, <1>2, <1>3

(* The matches of a pattern are paths of it, and all of it there are. *)
LEMMA MatchesFacts ==
  ASSUME NEW names \in Seq(Paths)
  PROVE  /\ Matches(names) \in Seq(Paths)
         /\ \A j \in DOMAIN names : OnDisk(names[j]) =>
              \E k \in 1..Len(Matches(names)) : Matches(names)[k] = names[j]
<1> DEFINE found == {j \in DOMAIN names : OnDisk(names[j])}
           n == Cardinality(found)
<1>1. Len(names) \in Nat /\ found \in SUBSET (1..Len(names))
  OBVIOUS
<1>2. /\ n \in Nat /\ Ascending(found) \in [1..n -> found]
      /\ \A j \in found : \E k \in 1..n : Ascending(found)[k] = j
  <2> HIDE DEF found
  <2> QED BY <1>1, AscendingFacts DEF Enumerates
<1>3. Matches(names) = [k \in 1..n |-> names[Ascending(found)[k]]]
  BY DEF Matches
<1>4. ASSUME NEW k \in 1..n
      PROVE  names[Ascending(found)[k]] \in Paths
  <2>1. Ascending(found)[k] \in found
    <3> HIDE DEF found, n
    <3> QED BY <1>2
  <2> QED BY <2>1
<1>5. \A j \in DOMAIN names : OnDisk(names[j]) => j \in found
  OBVIOUS
<1> HIDE DEF found, n
<1>6. Matches(names) \in Seq(Paths) /\ Len(Matches(names)) = n
  BY <1>2, <1>3, <1>4
<1>7. ASSUME NEW j \in found PROVE \E k \in 1..n : Matches(names)[k] = names[j]
  <2>1. PICK k \in 1..n : Ascending(found)[k] = j
    BY <1>2
  <2> QED BY <1>3, <2>1
<1> QED BY <1>5, <1>6, <1>7

LEMMA LineType ==
  ASSUME NEW what \in Kinds, NEW i \in Nat, NEW n \in Int
  PROVE  /\ Line(what, i, n) \in Lines /\ Line(what, i, n).what = what
         /\ Line(what, i, n).at = i /\ Line(what, i, n).n = n
BY DEF Line, Lines

Bad(from, to) == input.bad \cap (from + 1)..to
InOrder(c, bad) ==
  /\ \A k \in 1..Len(c) : c[k].what = "lexical" /\ c[k].at = at /\ c[k].n \in bad
  /\ \A m \in bad : \E k \in 1..Len(c) : c[k].n = m
  /\ \A k, l \in 1..Len(c) : k < l => c[k].n < c[l].n

(* Each lexeme among these that no rule matches is complained about once,  *)
(* in order.                                                               *)
LEMMA ComplaintsFacts ==
  ASSUME Typed, NEW from \in Nat, NEW to \in Nat
  PROVE  /\ Complaints(from, to) \in Seq(Lines)
         /\ InOrder(Complaints(from, to), Bad(from, to))
<1> DEFINE bad == Bad(from, to)
           c == Complaints(from, to)
           n == Cardinality(bad)
<1>1. /\ input.size \in Nat /\ bad \in SUBSET (1..input.size) /\ bad \subseteq Int
      /\ at \in Nat
  <2>1. input \in Texts \union {Blank} /\ at \in Nat
    BY DEF Typed, TypeOK
  <2>2. input.size \in Nat /\ input.bad \subseteq 1..input.size
    BY <2>1, TextFacts
  <2> QED BY <2>1, <2>2 DEF Bad
<1>2. n \in Nat /\ Enumerates(Ascending(bad), bad, n)
  <2> HIDE DEF bad
  <2> QED BY <1>1, AscendingFacts
<1>3. c = [k \in 1..n |-> Line("lexical", at, Ascending(bad)[k])]
  BY DEF Complaints, Bad
<1> HIDE DEF n, bad, c
<1>4. \A k \in 1..n : Ascending(bad)[k] \in bad
  BY <1>2 DEF Enumerates
<1>5. ASSUME NEW k \in 1..n
      PROVE  /\ c[k] \in Lines /\ c[k].what = "lexical" /\ c[k].at = at
             /\ c[k].n = Ascending(bad)[k]
  <2>1. c[k] = Line("lexical", at, Ascending(bad)[k])
    BY <1>3
  <2>2. Ascending(bad)[k] \in Int /\ "lexical" \in Kinds
    BY <1>1, <1>4 DEF Kinds
  <2> QED BY <1>1, <2>1, <2>2, LineType
<1>6. c \in Seq(Lines) /\ Len(c) = n
  <2>1. DOMAIN c = 1..n /\ c = [k \in 1..n |-> c[k]]
    BY <1>3
  <2> QED BY <1>2, <1>5, <2>1
<1>7. /\ \A k \in 1..n : c[k].what = "lexical" /\ c[k].at = at /\ c[k].n \in bad
      /\ \A m \in bad : \E k \in 1..n : c[k].n = m
      /\ \A k, l \in 1..n : k < l => c[k].n < c[l].n
  <2>1. \A k \in 1..n : c[k].n = Ascending(bad)[k]
    BY <1>5
  <2>2. \A k \in 1..n : c[k].what = "lexical" /\ c[k].at = at /\ c[k].n \in bad
    BY <1>4, <1>5
  <2>3. /\ \A m \in bad : \E k \in 1..n : Ascending(bad)[k] = m
        /\ \A k, l \in 1..n : k < l => Ascending(bad)[k] < Ascending(bad)[l]
    BY <1>2 DEF Enumerates
  <2>4. \A m \in bad : \E k \in 1..n : c[k].n = m
    BY <2>1, <2>3
  <2>5. \A k, l \in 1..n : k < l => c[k].n < c[l].n
    BY <2>1, <2>3
  <2> QED BY <2>2, <2>4, <2>5
<1> QED BY <1>6, <1>7 DEF InOrder, bad, c

LEMMA MoreLines ==
  ASSUME NEW o \in Seq(Lines), NEW c \in Seq(Lines), NEW l \in Lines
  PROVE  /\ Append(o, l) \in Seq(Lines) /\ o \o c \in Seq(Lines)
         /\ (o \o c) \o <<l>> \in Seq(Lines)
OBVIOUS

(* The program's own steps keep the files, and the others' all the rest. *)
LEMMA TypedStep ==
  ASSUME Typed, [Next]_vars
  PROVE  Typed'
<1> USE DEF Typed
<1>0. /\ at \in Nat /\ Len(paths) \in Nat /\ at \in 1..(Len(paths) + 1)
      /\ input \in Texts \union {Blank} /\ input.size \in Nat /\ input.fails \in 0..input.size
      /\ 0 \in Int /\ paths \in Seq(Paths)
  <2>1. /\ at \in 1..(Len(paths) + 1) /\ paths \in Seq(Paths)
        /\ input \in Texts \union {Blank}
    BY DEF TypeOK
  <2> QED BY <2>1, TextFacts
<1>1. CASE Expand
  <2>1. /\ pc = "expand" /\ arg <= Len(Args) /\ at = 1 /\ read = << >> /\ out = << >>
        /\ arg \in 1..(Len(Args) + 1) /\ paths' = paths \o Matches(Args[arg])
        /\ arg' = arg + 1 /\ pc' = IF arg = Len(Args) THEN "list" ELSE "expand"
        /\ UNCHANGED <<disk, away, config, at, input, fetched, tree, out, read>>
    BY <1>1 DEF Expand, TypeOK, world
  <2>2. Args[arg] \in Seq(Paths) /\ Len(Args) \in Nat
    BY <2>1, ArgsAssumption
  <2>3. paths' \in Seq(Paths) /\ Len(paths') >= Len(paths) /\ Len(paths') \in Nat
    <3>1. Matches(Args[arg]) \in Seq(Paths)
      BY <2>2, MatchesFacts
    <3> QED BY <1>0, <2>1, <3>1
  <2>4. /\ arg' \in 1..(Len(Args) + 1)
        /\ pc' = "expand" => arg' <= Len(Args)
        /\ pc' \in {"expand", "list"}
    BY <2>1, <2>2
  <2>5. at' \in 1..(Len(paths') + 1)
    BY <2>1, <2>3
  <2>6. tree' \in {NULL, JUNK} \union 1..Len(paths')
    BY <1>0, <2>1, <2>3 DEF TypeOK, NULL, JUNK
  <2>7. TypeOK'
    BY <2>1, <2>3, <2>4, <2>5, <2>6 DEF TypeOK
  <2> QED BY <2>1, <2>4, <2>7 DEF AtFile
<1>2. CASE List
  <2>1. /\ pc' = "open"
        /\ out' = IF config.verbose
                  THEN out \o [i \in 1..Len(paths) |-> Line("path", i, 0)] ELSE out
        /\ UNCHANGED <<disk, away, config, arg, paths, at, input, fetched, tree, read>>
    BY <1>2 DEF List, world
  <2>2. [i \in 1..Len(paths) |-> Line("path", i, 0)] \in Seq(Lines)
    BY <1>0, LineType DEF Kinds
  <2>3. out' \in Seq(Lines)
    BY <2>1, <2>2
  <2> QED BY <2>1, <2>3 DEF TypeOK, AtFile
<1>3. CASE NotFound \/ PrintTree \/ PrintNothing
  <2>1. /\ at <= Len(paths) /\ at' \in {at, at + 1} /\ pc' \in {"open", "dead"}
        /\ UNCHANGED <<disk, away, config, arg, paths, input, fetched, tree, read>>
    BY <1>3, <1>0 DEF NotFound, PrintTree, PrintNothing, NextPath, world, AtFile
  <2>2. out' \in Seq(Lines)
    <3>1. Line("missing", at, 0) \in Lines
      BY <1>0, LineType DEF Kinds
    <3>2. Line("tree", at, tree) \in Lines
      BY <1>0, LineType DEF Kinds, TypeOK, NULL, JUNK
    <3> QED BY <1>3, <3>1, <3>2, MoreLines DEF NotFound, PrintTree, PrintNothing
  <2>3. at' \in 1..(Len(paths) + 1)
    BY <1>0, <2>1
  <2> QED BY <2>1, <2>2, <2>3 DEF TypeOK, AtFile
<1>4. CASE Found \/ Exit
  <2>1. /\ pc' \in {"load", "exit"} /\ (pc' = "load" => at <= Len(paths))
        /\ UNCHANGED <<disk, away, config, arg, paths, at, input, fetched, tree, out, read>>
    BY <1>4 DEF Found, Exit, world
  <2> QED BY <2>1 DEF TypeOK, AtFile
<1>5. CASE Load \/ LoadThrows
  <2>1. /\ pc = "load" /\ at <= Len(paths) /\ fetched' = 0
        /\ pc' \in {"parse", "dead"}
        /\ UNCHANGED <<disk, away, config, arg, paths, at, out>>
    BY <1>5 DEF Load, LoadThrows, world, AtFile
  <2>2. Content \in Texts \union {Blank} /\ input' \in Texts \union {Blank}
    <3>1. paths[at] \in Paths
      BY <1>0, <2>1
    <3> QED BY <1>5, <3>1 DEF TypeOK, Content, Load, LoadThrows, file_exists, OnDisk
  <2>3. fetched' \in 0..input'.size
    BY <2>1, <2>2, TextFacts
  <2>4. tree' \in {NULL, JUNK} \union 1..Len(paths)
    BY <1>5 DEF Load, LoadThrows, TypeOK
  <2>5. read' \in Seq(Reads)
    <3>1. [at |-> at, text |-> Content] \in Reads
      BY <1>0, <2>2 DEF Reads
    <3> QED BY <1>5, <3>1 DEF Load, LoadThrows
  <2> QED BY <2>1, <2>2, <2>3, <2>4, <2>5 DEF TypeOK, AtFile
<1>6. CASE Parses \/ Cancels \/ Reparse
  <2>1. /\ pc \in {"parse", "again"} /\ at <= Len(paths)
        /\ fetched' \in {input.fails, input.size} /\ tree' \in {tree, at}
        /\ pc' \in {"print", "again", "dead"}
        /\ UNCHANGED <<disk, away, config, arg, paths, at, input, read>>
    BY <1>6 DEF Parses, Cancels, Reparse, world, AtFile
  <2>2. out' \in Seq(Lines)
    <3>1. \A i, j \in Nat : Complaints(i, j) \in Seq(Lines)
      BY ComplaintsFacts
    <3>2. Line("syntax", at, 0) \in Lines
      BY <1>0, LineType DEF Kinds
    <3>3. fetched \in Nat /\ 0 \in Nat /\ input.fails \in Nat
      BY <1>0 DEF TypeOK
    <3>4. CASE Reparse
      BY <1>0, <3>1, <3>2, <3>3, <3>4, MoreLines DEF Reparse, Kept
    <3>5. CASE Parses \/ Cancels
      BY <1>0, <3>1, <3>2, <3>3, <3>5, MoreLines DEF Parses, Cancels
    <3> QED BY <1>6, <3>4, <3>5
  <2>3. fetched' \in 0..input.size
    BY <1>0, <2>1
  <2>4. tree' \in {NULL, JUNK} \union 1..Len(paths)
    BY <1>0, <2>1 DEF TypeOK
  <2> QED BY <2>1, <2>2, <2>3, <2>4 DEF TypeOK, AtFile
<1>7. CASE Others
  <2>1. PICK path \in Paths : Delete(path) \/ \E text \in Texts : Save(path, text)
    BY <1>7 DEF Others
  <2>2. /\ UNCHANGED <<config, pc, arg, paths, at, input, fetched, tree, out, read>>
        /\ away' \subseteq Paths /\ disk' \in [Paths -> Texts \union {ABSENT}]
    BY <2>1 DEF Delete, Save, TypeOK
  <2> QED BY <2>2 DEF TypeOK, AtFile
<1>8. CASE UNCHANGED vars
  BY <1>8 DEF vars, TypeOK, AtFile
<1> QED BY <1>1, <1>2, <1>3, <1>4, <1>5, <1>6, <1>7, <1>8 DEF Next, Program, Ended

(* The ranges of the driver's variables: its loops stay inside their       *)
(* vectors, and a tree printed is NULL, junk or one of a file.             *)
LEMMA TypedInit ==
  ASSUME Init
  PROVE  Typed
<1>1. Len(Args) \in Nat /\ Len(Args) >= 1
  BY ArgsAssumption
<1>2. Blank.size = 0
  BY DEF Blank
<1> QED BY <1>1, <1>2 DEF Init, Typed, TypeOK, AtFile

THEOREM DriverTypeOK == Spec => []TypeOK
<1>1. Typed => TypeOK
  BY DEF Typed
<1> QED BY <1>1, TypedInit, TypedStep, PTL DEF Spec

-----------------------------------------------------------------------------
(* What a step adds to the output *)
LEMMA Appended ==
  ASSUME NEW o \in Seq(Lines), NEW c \in Seq(Lines)
  PROVE  /\ Len(o) \in Nat /\ Len(c) \in Nat /\ Len(o \o c) = Len(o) + Len(c)
         /\ \A l \in 1..Len(o) : (o \o c)[l] = o[l]
         /\ \A k \in 1..Len(c) : (o \o c)[Len(o) + k] = c[k]
         /\ \A l \in 1..(Len(o) + Len(c)) :
              l \notin 1..Len(o) => l - Len(o) \in 1..Len(c) /\ l = Len(o) + (l - Len(o))
OBVIOUS

(* The lines of one step, by the step. *)
IsNew(l) == l \in 1..Len(out') /\ l \notin 1..Len(out)
NewLine(l) ==
  \/ List /\ out'[l].what = "path"
  \/ NotFound /\ l = Len(out) + 1 /\ out'[l].what = "missing" /\ out'[l].at = at
  \/ PrintTree /\ out'[l].what = "tree" /\ out'[l].at = at
  \/ (Parses \/ Cancels \/ Reparse) /\ out'[l].what = "lexical" /\ out'[l].at = at
  \/ Reparse /\ l = Len(out') /\ out'[l].what = "syntax" /\ out'[l].at = at

LEMMA NewLines ==
  ASSUME Typed, [Next]_vars
  PROVE  /\ Len(out) \in Nat /\ Len(out') \in Nat /\ Len(out) <= Len(out')
         /\ \A l \in 1..Len(out) : l \in 1..Len(out') /\ out'[l] = out[l]
         /\ \A l : IsNew(l) => NewLine(l)
         /\ NotFound => IsNew(Len(out) + 1)
         /\ Reparse => IsNew(Len(out')) /\ out'[Len(out')].what = "syntax"
                       /\ out'[Len(out')].at = at
<1>0. /\ out \in Seq(Lines) /\ Len(out) \in Nat /\ at \in Nat /\ tree \in Int
      /\ input.size \in Nat /\ input.fails \in Nat /\ fetched \in Nat
  <2>1. input \in Texts \union {Blank} /\ out \in Seq(Lines) /\ at \in Nat /\ tree \in Int
    BY DEF Typed, TypeOK, NULL, JUNK
  <2>2. input.size \in Nat /\ input.fails \in Nat
    BY <2>1, TextFacts
  <2> QED BY <2>1, <2>2 DEF Typed, TypeOK
<1>1. CASE out' = out
  <2>1. ~NotFound /\ ~Reparse
    <3>1. ASSUME NEW l PROVE Append(out, l) # out
      BY <1>0
    <3>2. ASSUME NEW c \in Seq(Lines), NEW l PROVE (out \o c) \o <<l>> # out
      BY <1>0, <3>2
    <3>3. Complaints(Kept(fetched), input.size) \in Seq(Lines)
      BY <1>0, ComplaintsFacts DEF Kept
    <3> QED BY <1>1, <3>1, <3>2, <3>3 DEF NotFound, Reparse
  <2> QED BY <1>0, <1>1, <2>1 DEF IsNew
<1>2. ASSUME NEW c \in Seq(Lines), out' = out \o c,
             \A k \in 1..Len(c) : NewLine(Len(out) + k),
             NotFound => Len(c) = 1,
             Reparse => Len(c) > 0 /\ c[Len(c)].what = "syntax" /\ c[Len(c)].at = at
      PROVE  /\ Len(out) \in Nat /\ Len(out') \in Nat /\ Len(out) <= Len(out')
             /\ \A l \in 1..Len(out) : l \in 1..Len(out') /\ out'[l] = out[l]
             /\ \A l : IsNew(l) => NewLine(l)
             /\ NotFound => IsNew(Len(out) + 1)
             /\ Reparse => IsNew(Len(out')) /\ out'[Len(out')].what = "syntax"
                           /\ out'[Len(out')].at = at
  <2>1. /\ Len(c) \in Nat /\ Len(out') = Len(out) + Len(c)
        /\ \A l \in 1..Len(out) : out'[l] = out[l]
        /\ \A k \in 1..Len(c) : out'[Len(out) + k] = c[k]
        /\ \A l \in 1..Len(out') :
              l \notin 1..Len(out) => l - Len(out) \in 1..Len(c) /\ l = Len(out) + (l - Len(out))
    BY <1>0, <1>2, Appended
  <2>2. \A l : IsNew(l) => NewLine(l)
    BY <1>2, <2>1 DEF IsNew
  <2>3. NotFound => IsNew(Len(out) + 1)
    <3>1. NotFound => Len(out') = Len(out) + 1
      BY <1>2, <2>1
    <3> QED BY <1>0, <3>1 DEF IsNew
  <2>4. Reparse => Len(c) \in 1..Len(c) /\ IsNew(Len(out'))
    BY <1>0, <1>2, <2>1 DEF IsNew
  <2>5. Reparse => out'[Len(out')] = c[Len(c)]
    BY <2>1, <2>4
  <2> QED BY <1>0, <1>2, <2>1, <2>2, <2>3, <2>4, <2>5
<1>3. ASSUME List \/ NotFound \/ PrintTree \/ Parses \/ Cancels \/ Reparse, out' # out
      PROVE  \E c \in Seq(Lines) :
               /\ out' = out \o c
               /\ \A k \in 1..Len(c) : NewLine(Len(out) + k)
               /\ NotFound => Len(c) = 1
               /\ Reparse => Len(c) > 0 /\ c[Len(c)].what = "syntax" /\ c[Len(c)].at = at
  <2>1. \A c \in Seq(Lines) : out' = out \o c => \A k \in 1..Len(c) : out'[Len(out) + k] = c[k]
    BY <1>0, Appended
  <2>2. CASE List
    <3> DEFINE c == [i \in 1..Len(paths) |-> Line("path", i, 0)]
    <3>1. Len(paths) \in Nat /\ \A i \in 1..Len(paths) : i \in Nat
      BY DEF Typed, TypeOK
    <3>2. \A i \in 1..Len(paths) : Line("path", i, 0) \in Lines /\ c[i].what = "path"
      BY <3>1, LineType DEF Kinds
    <3>3. c \in Seq(Lines) /\ Len(c) = Len(paths)
      BY <3>1, <3>2
    <3>4. out' = out \o c /\ ~NotFound /\ ~Reparse
      BY <1>3, <2>2 DEF List, NotFound, Reparse
    <3> HIDE DEF c
    <3>5. \A k \in 1..Len(c) : NewLine(Len(out) + k)
      BY <2>1, <2>2, <3>2, <3>3, <3>4 DEF NewLine
    <3> QED BY <3>3, <3>4, <3>5
  <2>3. ASSUME NEW l \in Lines, out' = Append(out, l), ~Reparse,
               NewLine(Len(out) + 1)
        PROVE  \E c \in Seq(Lines) :
                 /\ out' = out \o c
                 /\ \A k \in 1..Len(c) : NewLine(Len(out) + k)
                 /\ NotFound => Len(c) = 1
                 /\ Reparse => Len(c) > 0 /\ c[Len(c)].what = "syntax" /\ c[Len(c)].at = at
    <3>1. /\ <<l>> \in Seq(Lines) /\ Len(<<l>>) = 1 /\ out' = out \o <<l>>
          /\ \A k \in 1..1 : k = 1
      BY <1>0, <2>3
    <3> QED BY <2>3, <3>1
  <2>4. ASSUME NEW l \in Lines, out' = Append(out, l)
        PROVE  out'[Len(out) + 1] = l
    BY <1>0, <2>4
  <2>5. CASE NotFound
    <3>1. /\ Line("missing", at, 0) \in Lines /\ out' = Append(out, Line("missing", at, 0))
          /\ ~Reparse
      BY <1>0, <2>5, LineType DEF NotFound, Reparse, Kinds
    <3>2. NewLine(Len(out) + 1)
      BY <1>0, <2>4, <2>5, <3>1, LineType DEF NewLine, Kinds
    <3> QED BY <2>3, <3>1, <3>2
  <2>6. CASE PrintTree
    <3>1. /\ Line("tree", at, tree) \in Lines /\ out' = Append(out, Line("tree", at, tree))
          /\ ~Reparse
      BY <1>0, <2>6, LineType DEF PrintTree, Reparse, Kinds
    <3>2. NewLine(Len(out) + 1)
      BY <1>0, <2>4, <2>6, <3>1, LineType DEF NewLine, Kinds
    <3> QED BY <2>3, <3>1, <3>2
  <2>7. CASE Parses \/ Cancels
    <3>1. PICK to \in Nat : out' = out \o Complaints(0, to) /\ ~NotFound /\ ~Reparse
      BY <1>0, <2>7 DEF Parses, Cancels, NotFound, Reparse
    <3> DEFINE c == Complaints(0, to)
    <3>2. c \in Seq(Lines) /\ \A k \in 1..Len(c) : c[k].what = "lexical" /\ c[k].at = at
      BY ComplaintsFacts DEF InOrder
    <3>3. \A k \in 1..Len(c) : NewLine(Len(out) + k)
      BY <2>1, <2>7, <3>1, <3>2 DEF NewLine
    <3> QED BY <3>1, <3>2, <3>3
  <2>8. CASE Reparse
    <3> DEFINE b == Complaints(Kept(fetched), input.size)
               l == Line("syntax", at, 0)
               c == b \o <<l>>
    <3>1. b \in Seq(Lines) /\ \A k \in 1..Len(b) : b[k].what = "lexical" /\ b[k].at = at
      BY <1>0, ComplaintsFacts DEF Kept, InOrder
    <3>2. l \in Lines /\ l.what = "syntax" /\ l.at = at
      BY <1>0, LineType DEF Kinds
    <3>3. out' = (out \o b) \o <<l>> /\ ~NotFound
      BY <2>8 DEF Reparse, NotFound
    <3> HIDE DEF b, l
    <3>4. /\ c \in Seq(Lines) /\ Len(c) = Len(b) + 1 /\ Len(b) \in Nat
          /\ c[Len(b) + 1] = l /\ \A k \in 1..Len(b) : c[k] = b[k]
          /\ \A k \in 1..(Len(b) + 1) : k \in 1..Len(b) \/ k = Len(b) + 1
      BY <3>1, <3>2
    <3>5. out' = out \o c
      BY <1>0, <3>1, <3>2, <3>3, ConcatAssociative
    <3> HIDE DEF c
    <3>6. ASSUME NEW k \in 1..Len(c) PROVE NewLine(Len(out) + k)
      <4>1. out'[Len(out) + k] = c[k]
        BY <2>1, <3>4, <3>5
      <4>2. CASE k \in 1..Len(b)
        BY <2>8, <3>1, <3>4, <4>1, <4>2 DEF NewLine
      <4>3. CASE k = Len(b) + 1
        <5>1. Len(out') = Len(out) + k
          BY <1>0, <3>4, <3>5, <4>3, Appended
        <5> QED BY <2>8, <3>2, <3>4, <4>1, <4>3, <5>1 DEF NewLine
      <4> QED BY <3>4, <4>2, <4>3
    <3>7. Len(c) > 0 /\ c[Len(c)].what = "syntax" /\ c[Len(c)].at = at
      BY <3>2, <3>4
    <3> QED BY <3>3, <3>4, <3>5, <3>6, <3>7
  <2> QED BY <1>3, <2>2, <2>5, <2>6, <2>7, <2>8
<1>4. (List \/ NotFound \/ PrintTree \/ Parses \/ Cancels \/ Reparse) \/ out' = out
  BY DEF Next, Program, Others, Ended, Expand, Found, Load, LoadThrows, PrintNothing, Exit,
         Delete, Save, vars
<1> QED BY <1>1, <1>2, <1>3, <1>4

-----------------------------------------------------------------------------
(* Where the loop is *)
(* What the steps do to the loop's variables. *)
Moves ==
  \/ /\ UNCHANGED <<at, read, input>>
     /\ \/ UNCHANGED pc
        \/ pc \in {"expand", "list"} /\ pc' \in {"expand", "list", "open"}
        \/ pc = "open" /\ pc' \in {"load", "exit"}
        \/ pc = "parse" /\ pc' \in {"again", "print"}
        \/ pc = "again" /\ pc' \in {"print", "dead"}
        \/ pc = "print" /\ pc' = "dead"
  \/ /\ UNCHANGED read /\ at' = at /\ pc = "load" /\ pc' = "dead"
  \/ /\ UNCHANGED <<read, input>> /\ at' = at + 1 /\ pc \in {"open", "print"} /\ pc' = "open"
  \/ /\ read' = Append(read, [at |-> at, text |-> input']) /\ at' = at
     /\ pc = "load" /\ pc' = "parse"

LEMMA StepMoves ==
  ASSUME [Next]_vars
  PROVE  Moves
<1>1. CASE Expand \/ List \/ Found \/ Exit \/ Parses \/ Cancels \/ Reparse
  BY <1>1 DEF Moves, Expand, List, Found, Exit, Parses, Cancels, Reparse
<1>2. CASE NotFound \/ PrintTree \/ PrintNothing
  BY <1>2 DEF Moves, NotFound, PrintTree, PrintNothing, NextPath
<1>3. CASE Load \/ LoadThrows
  BY <1>3 DEF Moves, Load, LoadThrows
<1>4. CASE Others \/ Ended \/ UNCHANGED vars
  BY <1>4 DEF Moves, Others, Delete, Save, Ended, vars
<1> QED BY <1>1, <1>2, <1>3, <1>4 DEF Next, Program

LEMMA Ranges ==
  ASSUME Typed
  PROVE  /\ at \in Nat /\ read \in Seq(Reads) /\ Len(read) \in Nat
         /\ \A k \in 1..Len(read) :
              read[k] \in Reads /\ read[k].at \in Nat /\ read[k].text \in Texts \union {Blank}
         /\ out \in Seq(Lines) /\ Len(out) \in Nat
         /\ \A l \in 1..Len(out) : out[l] \in Lines /\ out[l].at \in Nat /\ out[l].n \in Int
<1>1. at \in Nat /\ read \in Seq(Reads) /\ out \in Seq(Lines)
  BY DEF Typed, TypeOK
<1>2. \A k \in 1..Len(read) : read[k] \in Reads
  BY <1>1
<1>3. \A l \in 1..Len(out) : out[l] \in Lines
  BY <1>1
<1>4. \A r \in Reads : r.at \in Nat /\ r.text \in Texts \union {Blank}
  BY DEF Reads
<1>5. \A l \in Lines : l.at \in Nat /\ l.n \in Int
  BY DEF Lines
<1> QED BY <1>1, <1>2, <1>3, <1>4, <1>5

LEMMA BehindStep ==
  ASSUME Typed, Behind, [Next]_vars
  PROVE  Behind'
<1>0. /\ at \in Nat /\ read \in Seq(Reads) /\ Len(read) \in Nat
      /\ \A k \in 1..Len(read) : read[k].at \in Nat
      /\ out \in Seq(Lines) /\ \A l \in 1..Len(out) : out[l].at \in Nat
  BY Ranges
<1>1. /\ at' \in {at, at + 1} /\ at' \in Nat
  BY <1>0, StepMoves DEF Moves
<1>2. /\ \A k \in 1..Len(read') :
           read'[k].at < at' \/ (read'[k].at = at' /\ k = Len(read')
                                 /\ pc' \in {"parse", "again", "print", "dead"})
      /\ InFile' => Len(read') > 0 /\ read'[Len(read')] = [at |-> at', text |-> input']
  <2>1. CASE UNCHANGED read /\ at' = at + 1 /\ pc' = "open"
    BY <1>0, <2>1 DEF Behind, InFile
  <2>2. CASE UNCHANGED read /\ at' = at /\ pc = "load" /\ pc' = "dead"
    BY <2>2 DEF Behind, InFile
  <2>3. CASE /\ UNCHANGED <<at, read, input>>
             /\ \/ UNCHANGED pc
                \/ pc \in {"expand", "list"} /\ pc' \in {"expand", "list", "open"}
                \/ pc = "open" /\ pc' \in {"load", "exit"}
                \/ pc = "parse" /\ pc' \in {"again", "print"}
                \/ pc = "again" /\ pc' \in {"print", "dead"}
                \/ pc = "print" /\ pc' = "dead"
    BY <2>3 DEF Behind, InFile
  <2>4. CASE read' = Append(read, [at |-> at, text |-> input']) /\ at' = at
             /\ pc = "load" /\ pc' = "parse"
    <3>1. /\ Len(read') = Len(read) + 1 /\ read'[Len(read) + 1] = [at |-> at, text |-> input']
          /\ \A k \in 1..Len(read) : read'[k] = read[k]
          /\ \A k \in 1..Len(read') : k \in 1..Len(read) \/ k = Len(read')
      BY <1>0, <2>4
    <3>2. \A k \in 1..Len(read) : read[k].at < at
      BY <2>4 DEF Behind
    <3> QED BY <1>0, <2>4, <3>1, <3>2
  <2> QED BY <2>1, <2>2, <2>3, <2>4, StepMoves DEF Moves
<1>3. ASSUME NEW l \in 1..Len(out'), out'[l].what # "path"
      PROVE  out'[l].at < at' \/ (out'[l].at = at' /\ out'[l].what # "missing"
                                  /\ pc' \in {"again", "print", "dead"})
  <2>1. CASE l \in 1..Len(out)
    <3>1. out'[l] = out[l] /\ out[l].at \in Nat
      BY <1>0, <2>1, NewLines
    <3>2. out[l].at < at \/ (out[l].at = at /\ out[l].what # "missing"
                             /\ pc \in {"again", "print", "dead"})
      BY <1>3, <2>1, <3>1 DEF Behind
    <3> QED BY <1>0, <1>1, <3>1, <3>2, StepMoves DEF Moves
  <2>2. CASE l \notin 1..Len(out)
    <3>1. NewLine(l)
      BY <2>2, NewLines DEF IsNew
    <3>2. CASE NotFound
      <4>1. at' = at + 1 /\ out'[l].at = at
        BY <1>3, <3>1, <3>2 DEF NewLine, NotFound, NextPath, List, PrintTree, Parses, Cancels, Reparse
      <4> QED BY <1>0, <4>1
    <3>3. CASE PrintTree
      <4>1. (at' = at + 1 \/ (at' = at /\ pc' = "dead")) /\ out'[l].at = at
            /\ out'[l].what # "missing"
        BY <1>3, <3>1, <3>3 DEF NewLine, NotFound, NextPath, List, PrintTree, Parses, Cancels, Reparse
      <4> QED BY <1>0, <4>1
    <3>4. CASE Parses \/ Cancels \/ Reparse
      <4>1. at' = at /\ pc' \in {"again", "print", "dead"} /\ out'[l].at = at
            /\ out'[l].what # "missing"
        BY <1>3, <3>1, <3>4 DEF NewLine, NotFound, NextPath, List, PrintTree, Parses, Cancels, Reparse
      <4> QED BY <1>0, <4>1
    <3> QED BY <1>3, <3>1, <3>2, <3>3, <3>4 DEF NewLine
  <2> QED BY <2>1, <2>2
<1> QED BY <1>2, <1>3 DEF Behind

LEMMA TreeStep ==
  ASSUME Typed, TreeOf, [Next]_vars
  PROVE  TreeOf' /\ (DiesOfKnownCauses => DiesOfKnownCauses')
<1> USE DEF TreeOf, DiesOfKnownCauses
<1>1. CASE Expand \/ List \/ NotFound \/ PrintNothing \/ Found \/ Exit
  BY <1>1 DEF Expand, List, NotFound, PrintNothing, NextPath, Found, Exit
<1>2. CASE Load \/ LoadThrows
  BY <1>2 DEF Load, LoadThrows
<1>3. CASE Parses \/ Cancels
  <2>1. config.no_lint \in BOOLEAN
    BY ConfigAssumption DEF Typed, TypeOK
  <2> QED BY <1>3, <2>1 DEF Parses, Cancels, world
<1>4. CASE Reparse
  BY <1>4 DEF Reparse, world
<1>5. CASE PrintTree
  <2>1. tree # at => tree = JUNK /\ input.fails # 0 /\ config.no_lint
    BY <1>5 DEF PrintTree, Prints
  <2> QED BY <1>5, <2>1 DEF PrintTree, Prints, NextPath, world
<1>6. CASE Others \/ Ended \/ UNCHANGED vars
  BY <1>6 DEF Others, Delete, Save, Ended, vars
<1> QED BY <1>1, <1>2, <1>3, <1>4, <1>5, <1>6 DEF Next, Program

(* The program ends early of a text that is not UTF-8, of an error at an   *)
(* EOF on a line to itself, or of printing a tree nothing was assigned to. *)
THEOREM DriverDiesOfKnownCauses == Spec => []DiesOfKnownCauses
<1>1. Init => TreeOf /\ DiesOfKnownCauses
  BY DEF Init, TreeOf, DiesOfKnownCauses
<1> QED BY <1>1, TypedInit, TypedStep, TreeStep, PTL DEF Spec

-----------------------------------------------------------------------------
(* NoneSkipped *)
(* What was written of a file stays, while nothing more is.                *)
LEMMA WroteKept ==
  ASSUME Typed, [Next]_vars, NEW what, NEW i,
         \A l : IsNew(l) => ~(out'[l].what = what /\ out'[l].at = i)
  PROVE  Wrote(what, i)' = Wrote(what, i)
<1>1. /\ Len(out) \in Nat /\ Len(out') \in Nat
      /\ \A l \in 1..Len(out) : l \in 1..Len(out') /\ out'[l] = out[l]
  BY NewLines
<1>2. \A l \in 1..Len(out') : l \in 1..Len(out) \/ IsNew(l)
  BY DEF IsNew
<1> QED BY <1>1, <1>2 DEF Wrote

LEMMA SkippedStep ==
  ASSUME Typed, Behind, NoneSkipped, [Next]_vars
  PROVE  NoneSkipped'
<1> DEFINE done == {read[k].at : k \in 1..Len(read)}
<1>0. /\ at \in Nat /\ at >= 1 /\ read \in Seq(Reads) /\ Len(read) \in Nat
      /\ \A k \in 1..Len(read) : read[k].at \in Nat
  BY Ranges DEF Typed, TypeOK
<1>1. ASSUME NEW i \in 1..(at - 1) PROVE Wrote("missing", i)' = Wrote("missing", i)
  <2>1. i # at
    BY <1>0, <1>1
  <2>2. \A l : IsNew(l) => ~(out'[l].what = "missing" /\ out'[l].at = i)
    BY <2>1, NewLines DEF NewLine
  <2> QED BY <2>2, WroteKept
<1>2. /\ \A i \in 1..(at - 1) : i \in done <=> Wrote("missing", i) = {}
      /\ \A k, l \in 1..Len(read) : k < l => read[k].at < read[l].at
  BY DEF NoneSkipped
<1>3. CASE UNCHANGED <<read, at>>
  BY <1>1, <1>2, <1>3 DEF NoneSkipped
<1>4. CASE UNCHANGED read /\ at' = at + 1
  <2>1. ASSUME NEW i, i = at PROVE i \in done <=> Wrote("missing", i)' = {}
    <3>1. CASE NotFound
      <4>1. Len(out) + 1 \in Wrote("missing", i)'
        <5>1. IsNew(Len(out) + 1) /\ NewLine(Len(out) + 1)
          BY <3>1, NewLines
        <5>2. ~List /\ ~PrintTree /\ ~(Parses \/ Cancels \/ Reparse)
          BY <3>1 DEF NotFound, List, PrintTree, Parses, Cancels, Reparse
        <5>3. out'[Len(out) + 1].what = "missing" /\ out'[Len(out) + 1].at = at
          BY <5>1, <5>2 DEF NewLine
        <5> QED BY <2>1, <5>1, <5>3 DEF IsNew, Wrote
      <4>2. \A k \in 1..Len(read) : read[k].at < at
        BY <3>1 DEF NotFound, Behind
      <4> QED BY <1>0, <2>1, <4>1, <4>2
    <3>2. CASE PrintTree \/ PrintNothing
      <4>1. Len(read) > 0 /\ read[Len(read)].at = at
        BY <3>2 DEF PrintTree, PrintNothing, Behind, InFile
      <4>2. Wrote("missing", i) = {}
        <5>1. \A l \in 1..Len(out) : out[l].what = "missing" => out[l].at < at
          BY DEF Behind
        <5> QED BY <1>0, <2>1, <5>1 DEF Wrote
      <4>3. \A l : IsNew(l) => ~(out'[l].what = "missing" /\ out'[l].at = i)
        BY <2>1, <3>2, NewLines DEF NewLine, NotFound, PrintTree, PrintNothing
      <4>4. Wrote("missing", i)' = {}
        BY <4>2, <4>3, WroteKept
      <4>5. Len(read) \in 1..Len(read)
        BY <1>0, <4>1
      <4> QED BY <2>1, <4>1, <4>4, <4>5
    <3>3. NotFound \/ PrintTree \/ PrintNothing
      BY <1>0, <1>4 DEF Next, Program, Others, Ended, Delete, Save, Expand, List, Found, Load,
                  LoadThrows, Parses, Cancels, Reparse, Exit, vars
    <3> QED BY <3>1, <3>2, <3>3
  <2>2. \A i \in 1..(at' - 1) : i \in 1..(at - 1) \/ i = at
    BY <1>0, <1>4
  <2>3. \A i \in 1..(at' - 1) : i \in done <=> Wrote("missing", i)' = {}
    <3> HIDE DEF done
    <3> QED BY <1>1, <1>2, <2>1, <2>2
  <2> QED BY <1>2, <1>4, <2>3 DEF NoneSkipped
<1>5. CASE read' = Append(read, [at |-> at, text |-> input']) /\ at' = at /\ pc = "load"
  <2>1. /\ Len(read') = Len(read) + 1 /\ read'[Len(read) + 1].at = at
        /\ \A k \in 1..Len(read) : k \in 1..Len(read') /\ read'[k] = read[k]
        /\ \A k \in 1..Len(read') : k \in 1..Len(read) \/ k = Len(read) + 1
        /\ Len(read) + 1 \in 1..Len(read')
    BY <1>0, <1>5
  <2>2. \A k \in 1..Len(read) : read[k].at < at
    BY <1>5 DEF Behind
  <2>3. \A i \in 1..(at - 1) : i \in {read'[k].at : k \in 1..Len(read')} <=> i \in done
    BY <1>0, <2>1
  <2>4. ASSUME NEW k \in 1..Len(read'), NEW l \in 1..Len(read'), k < l
        PROVE  read'[k].at < read'[l].at
    <3>1. k \in 1..Len(read)
      BY <1>0, <2>1, <2>4
    <3> QED BY <1>2, <2>1, <2>2, <2>4, <3>1
  <2> QED BY <1>1, <1>2, <1>5, <2>3, <2>4 DEF NoneSkipped
<1> QED BY <1>3, <1>4, <1>5, StepMoves DEF Moves

(* Whatever becomes of one file, each file of the list up to there is read *)
(* or said not to be found, once and in order.                             *)
THEOREM DriverNoneSkipped == Spec => []NoneSkipped
<1>1. Init => Behind /\ NoneSkipped
  BY DEF Init, Behind, InFile, NoneSkipped
<1> QED BY <1>1, TypedInit, TypedStep, BehindStep, SkippedStep, PTL DEF Spec

-----------------------------------------------------------------------------
(* SteadyFilesLinted *)
LEMMA AwayStep ==
  ASSUME Typed, AwayNoted, [Next]_vars
  PROVE  AwayNoted'
<1>1. \A path \in Paths : file_exists(path)' \/ path \in away'
  <2>1. CASE Others
    <3>1. PICK path \in Paths : Delete(path) \/ \E text \in Texts : Save(path, text)
      BY <2>1 DEF Others
    <3>2. disk \in [Paths -> Texts \union {ABSENT}]
      BY DEF Typed, TypeOK
    <3>3. CASE Delete(path)
      <4>1. away' = away \union {path} /\ \A q \in Paths \ {path} : disk'[q] = disk[q]
        BY <3>2, <3>3 DEF Delete
      <4> QED BY <4>1 DEF AwayNoted, file_exists, OnDisk
    <3>4. ASSUME NEW text \in Texts, Save(path, text)
          PROVE  \A q \in Paths : file_exists(q)' \/ q \in away'
      <4>1. /\ away' = IF text.opens THEN away ELSE away \union {path}
            /\ disk'[path] = text /\ \A q \in Paths \ {path} : disk'[q] = disk[q]
        BY <3>2, <3>4 DEF Save
      <4>2. text # ABSENT
        BY TextFacts
      <4> QED BY <4>1, <4>2 DEF AwayNoted, file_exists, OnDisk
    <3> QED BY <3>1, <3>3, <3>4
  <2>2. CASE ~Others
    <3>1. UNCHANGED <<disk, away>>
      BY <2>2 DEF Next, Program, Ended, Expand, List, NotFound, Found, Load, LoadThrows, Parses,
                  Cancels, Reparse, PrintTree, PrintNothing, Exit, vars, world
    <3> QED BY <3>1 DEF AwayNoted, file_exists, OnDisk
  <2> QED BY <2>1, <2>2
<1>2. \A l \in 1..Len(out') : out'[l].what = "missing" => paths'[out'[l].at] \in away'
  <2>1. CASE Expand
    <3>1. out' = << >>
      BY <2>1 DEF Expand, Typed
    <3> QED BY <3>1
  <2>2. CASE ~Expand
    <3>1. paths' = paths /\ away \subseteq away'
      BY <2>2 DEF Next, Program, Others, Ended, Delete, Save, List, NotFound, Found, Load,
                  LoadThrows, Parses, Cancels, Reparse, PrintTree, PrintNothing, Exit, vars, world
    <3>2. SUFFICES ASSUME NEW l \in 1..Len(out'), out'[l].what = "missing"
                   PROVE  paths[out'[l].at] \in away
      BY <3>1
    <3>3. CASE l \in 1..Len(out)
      BY <3>2, <3>3, NewLines DEF AwayNoted
    <3>4. CASE l \notin 1..Len(out)
      <4>1. NotFound /\ out'[l].at = at
        BY <3>2, <3>4, NewLines DEF IsNew, NewLine
      <4>2. paths[at] \in Paths
        BY <4>1 DEF NotFound, Typed, TypeOK
      <4> QED BY <4>1, <4>2 DEF NotFound, AwayNoted
    <3> QED BY <3>3, <3>4
  <2> QED BY <2>1, <2>2
<1> QED BY <1>1, <1>2 DEF AwayNoted

(* A longer list lists no less. *)
LEMMA ListedMore ==
  ASSUME NEW path, Listed(path), away \subseteq away', NEW more \in Seq(Paths),
         paths \in Seq(Paths), paths' = paths \o more
  PROVE  Listed(path)'
<1>1. /\ Len(paths) \in Nat /\ Len(more) \in Nat /\ Len(paths') = Len(paths) + Len(more)
      /\ \A i \in 1..Len(paths) : paths'[i] = paths[i]
  OBVIOUS
<1>2. \A i \in 1..Len(paths) : i \in 1..Len(paths')
  BY <1>1
<1> QED BY <1>1, <1>2 DEF Listed

(* Glob finds what there is. *)
LEMMA ListedFound ==
  ASSUME AwayNoted, UNCHANGED <<disk, away>>, paths \in Seq(Paths),
         NEW names \in Seq(Paths), paths' = paths \o Matches(names), NEW j \in DOMAIN names
  PROVE  Listed(names[j])'
<1> DEFINE more == Matches(names)
           path == names[j]
<1>1. path \in Paths /\ more \in Seq(Paths)
  BY MatchesFacts
<1>2. OnDisk(path) => \E k \in 1..Len(more) : more[k] = path
  BY MatchesFacts
<1>3. paths' = paths \o more
  OBVIOUS
<1> HIDE DEF more, path
<1>4. CASE ~OnDisk(path)
  <2>1. path \in away
    BY <1>1, <1>4 DEF AwayNoted, file_exists
  <2>2. Listed(path)'
    BY <2>1 DEF Listed
  <2> QED BY <2>2 DEF path
<1>5. CASE OnDisk(path)
  <2>1. PICK k \in 1..Len(more) : more[k] = path
    BY <1>2, <1>5
  <2>2. /\ Len(paths) \in Nat /\ Len(more) \in Nat /\ Len(paths') = Len(paths) + Len(more)
        /\ \A m \in 1..Len(more) : paths'[Len(paths) + m] = more[m]
    BY <1>1, <1>3
  <2>3. Len(paths) + k \in 1..Len(paths')
    BY <2>2
  <2>4. Listed(path)'
    BY <2>1, <2>2, <2>3 DEF Listed
  <2> QED BY <2>4 DEF path
<1> QED BY <1>4, <1>5

LEMMA ListedStep ==
  ASSUME Typed, AwayNoted, ArgsListed, [Next]_vars
  PROVE  ArgsListed'
<1>0. /\ paths \in Seq(Paths) /\ Len(paths) \in Nat /\ at \in 1..(Len(paths) + 1)
      /\ Len(Args) \in Nat /\ DOMAIN Args = 1..Len(Args) /\ arg \in 1..(Len(Args) + 1)
      /\ \A a \in DOMAIN Args : Args[a] \in Seq(Paths)
  BY ArgsAssumption DEF Typed, TypeOK
<1>1. CASE Expand
  <2>1. /\ pc = "expand" /\ arg <= Len(Args) /\ paths' = paths \o Matches(Args[arg])
        /\ arg' = arg + 1 /\ pc' = IF arg = Len(Args) THEN "list" ELSE "expand"
        /\ UNCHANGED <<disk, away>>
    BY <1>1 DEF Expand, world, Typed
  <2>0. \A n \in Nat : \A a \in 1..(n + 1) : \A b \in 1..n :
          /\ a <= n => a \in 1..n
          /\ b < a + 1 => b < a \/ b = a
    OBVIOUS
  <2>2. arg \in DOMAIN Args /\ Matches(Args[arg]) \in Seq(Paths)
    <3>0. arg <= Len(Args)
      BY <2>1
    <3>1. Len(Args) \in Nat /\ arg \in 1..(Len(Args) + 1) /\ DOMAIN Args = 1..Len(Args)
      BY <1>0
    <3> DEFINE n == Len(Args)
    <3>2. n \in Nat /\ arg \in 1..(n + 1) /\ DOMAIN Args = 1..n /\ arg <= n
      BY <3>0, <3>1
    <3> HIDE DEF n
    <3>3. arg \in 1..n
      BY <2>0, <3>2
    <3>4. arg \in DOMAIN Args
      BY <3>2, <3>3
    <3> QED BY <1>0, <3>4, MatchesFacts
  <2>3. ASSUME NEW a \in DOMAIN Args, a < arg', NEW j \in DOMAIN Args[a]
        PROVE  Listed(Args[a][j])'
    <3> DEFINE names == Args[a]
    <3>1. names \in Seq(Paths) /\ j \in DOMAIN names
      BY <1>0
    <3>2. CASE a < arg
      <4>1. Listed(names[j])
        BY <3>2 DEF ArgsListed
      <4> QED BY <1>0, <2>1, <2>2, <4>1, ListedMore
    <3>3. CASE a = arg
      <4>1. paths' = paths \o Matches(names)
        BY <2>1, <3>3
      <4> HIDE DEF names
      <4>2. Listed(names[j])'
        BY <1>0, <2>1, <3>1, <4>1, ListedFound
      <4> QED BY <4>2 DEF names
    <3>4. a < arg \/ a = arg
      <4>1. a < arg + 1
        BY <2>1, <2>3
      <4> DEFINE n == Len(Args)
      <4>2. n \in Nat /\ arg \in 1..(n + 1) /\ a \in 1..n
        BY <1>0
      <4> HIDE DEF n
      <4> QED BY <2>0, <4>1, <4>2
    <3> QED BY <3>2, <3>3, <3>4
  <2>4. (pc' # "expand" => arg' = Len(Args) + 1) /\ pc' # "exit"
    BY <2>1
  <2> QED BY <2>3, <2>4 DEF ArgsListed
<1>2. CASE ~Expand
  <2>1. /\ UNCHANGED <<paths, arg>> /\ away \subseteq away'
        /\ pc' = "expand" <=> pc = "expand"
        /\ pc' = "exit" => at' = at /\ (pc = "exit" \/ at > Len(paths))
    BY <1>2 DEF Next, Program, Others, Ended, Delete, Save, List, NotFound, Found, Load, NextPath,
                LoadThrows, Parses, Cancels, Reparse, PrintTree, PrintNothing, Exit, vars, world
  <2>2. \A path : Listed(path) => Listed(path)'
    BY <2>1 DEF Listed
  <2>3. pc' = "exit" => at' = Len(paths) + 1
    BY <1>0, <2>1 DEF ArgsListed
  <2> QED BY <2>1, <2>2, <2>3 DEF ArgsListed
<1> QED BY <1>1, <1>2

(* At the end each path of the list was read, or said to be missing.       *)
LEMMA ListedIsLinted ==
  ASSUME Typed, NoneSkipped, AwayNoted, ArgsListed
  PROVE  SteadyFilesLinted
<1> SUFFICES ASSUME pc = "exit", NEW a \in DOMAIN Args, NEW j \in DOMAIN Args[a],
                    Args[a][j] \notin away
             PROVE  \E k \in 1..Len(read) : paths[read[k].at] = Args[a][j]
  BY DEF SteadyFilesLinted, AwayNoted
<1>1. arg = Len(Args) + 1 /\ at = Len(paths) + 1 /\ a < arg /\ Len(paths) \in Nat
  BY ArgsAssumption DEF ArgsListed, Typed, TypeOK
<1>2. PICK i \in 1..Len(paths) : paths[i] = Args[a][j]
  BY <1>1 DEF ArgsListed, Listed
<1>3. i \in 1..(at - 1)
  BY <1>1
<1>4. Wrote("missing", i) = {}
  BY <1>2 DEF Wrote, AwayNoted
<1>5. i \in {read[k].at : k \in 1..Len(read)}
  BY <1>3, <1>4 DEF NoneSkipped
<1> QED BY <1>2, <1>5

(* A file that can be opened all the while is found and linted, whatever   *)
(* is done to others; only one that once could not be is said to be none.  *)
THEOREM DriverSteadyFilesLinted == Spec => []SteadyFilesLinted
<1>1. Init => AwayNoted /\ ArgsListed
  BY ArgsAssumption DEF Init, AwayNoted, ArgsListed
<1> QED BY <1>1, TypedInit, TypedStep, AwayStep, ListedStep, ListedIsLinted,
           DriverNoneSkipped, PTL DEF Spec

-----------------------------------------------------------------------------
(* VerdictOfTextRead *)
Settled(k) == read[k].at < at \/ pc = "print"
Verdict(i, t) ==
  IF t.fails # 0 /\ ~config.no_lint THEN \E l : Wrote("syntax", i) = {l}
                                    ELSE Wrote("syntax", i) = {}
SyntaxInv ==
  /\ \A k \in 1..Len(read) : Settled(k) => Verdict(read[k].at, read[k].text)
  /\ pc = "again" => Wrote("syntax", at) = {}

(* A file is settled by the step that leaves its parses behind. *)
LEMMA Settles ==
  ASSUME Typed, Behind, [Next]_vars, NEW k \in 1..Len(read'), Settled(k)'
  PROVE  \/ k \in 1..Len(read) /\ read'[k] = read[k] /\ Settled(k)
         \/ /\ Parses \/ Cancels \/ Reparse
            /\ k = Len(read) /\ read'[k] = [at |-> at, text |-> input] /\ read' = read
            /\ at' = at /\ pc' = "print"
<1>0. /\ at \in Nat /\ read \in Seq(Reads) /\ Len(read) \in Nat
      /\ \A l \in 1..Len(read) : read[l].at \in Nat
  BY Ranges
<1>1. \A l \in 1..Len(read) : read[l].at < at \/ (read[l].at = at /\ l = Len(read)
                                        /\ pc \in {"parse", "again", "print", "dead"})
  BY DEF Behind
<1>2. read'[k].at < at' \/ pc' = "print"
  BY DEF Settled
<1>3. CASE read' = read /\ at' = at /\ pc \in {"parse", "again"} /\ pc' = "print"
  <2>1. Parses \/ Cancels \/ Reparse
    BY <1>3 DEF Next, Program, Others, Ended, Delete, Save, Expand, List, NotFound, Found, Load,
                LoadThrows, PrintTree, PrintNothing, Exit, Over, vars
  <2>2. read[Len(read)] = [at |-> at, text |-> input]
    BY <1>3 DEF Behind, InFile
  <2> QED BY <1>1, <1>3, <2>1, <2>2 DEF Settled
<1>4. CASE read' = read /\ at' = at /\ (pc' # "print" \/ pc = "print")
  BY <1>2, <1>4 DEF Settled
<1>5. CASE read' = read /\ at' = at + 1 /\ pc \in {"open", "print"} /\ pc' = "open"
  BY <1>0, <1>1, <1>2, <1>5 DEF Settled
<1>6. CASE read' = Append(read, [at |-> at, text |-> input']) /\ at' = at /\ pc' = "parse"
  <2>1. /\ Len(read') = Len(read) + 1 /\ read'[Len(read) + 1].at = at
        /\ \A l \in 1..Len(read) : read'[l] = read[l]
        /\ \A l \in 1..Len(read') : l \in 1..Len(read) \/ l = Len(read) + 1
    BY <1>0, <1>6
  <2> QED BY <1>0, <1>2, <1>6, <2>1 DEF Settled
<1> QED BY <1>3, <1>4, <1>5, <1>6, StepMoves DEF Moves

LEMMA SameConfig ==
  ASSUME [Next]_vars
  PROVE  config' = config
BY DEF Next, Program, Others, Ended, Delete, Save, Expand, List, NotFound, Found, Load,
       LoadThrows, Parses, Cancels, Reparse, PrintTree, PrintNothing, Exit, vars, world

LEMMA SyntaxStep ==
  ASSUME Typed, Behind, TreeOf, SyntaxInv, [Next]_vars
  PROVE  SyntaxInv'
<1>0. at \in Nat
  BY Ranges
<1>1. ASSUME NEW i, ~Reparse \/ i # at
      PROVE  Wrote("syntax", i)' = Wrote("syntax", i)
  BY <1>1, NewLines, WroteKept DEF NewLine
<1>2. pc = "parse" => Wrote("syntax", at) = {}
  <2>1. pc = "parse" => \A l \in 1..Len(out) : out[l].what = "syntax" => out[l].at < at
    BY DEF Behind
  <2> QED BY <1>0, <2>1 DEF Wrote
<1>3. ASSUME NEW k \in 1..Len(read'), Settled(k)'
      PROVE  Verdict(read[k].at, read[k].text)'
  <2>1. CASE k \in 1..Len(read) /\ read'[k] = read[k] /\ Settled(k)
    <3>1. ~Reparse \/ read[k].at # at
      BY <1>0, <2>1, Ranges DEF Reparse, Settled
    <3>2. Wrote("syntax", read[k].at)' = Wrote("syntax", read[k].at)
      BY <1>1, <2>1, <3>1
    <3> QED BY <2>1, <3>2, SameConfig DEF Verdict, SyntaxInv
  <2>2. CASE /\ Parses \/ Cancels \/ Reparse
             /\ k = Len(read) /\ read'[k] = [at |-> at, text |-> input] /\ read' = read
             /\ at' = at /\ pc' = "print"
    <3>1. CASE Parses \/ Cancels
      <4>1. Wrote("syntax", at)' = {}
        BY <1>1, <1>2, <3>1 DEF Parses, Cancels, Reparse
      <4>2. ~(input.fails # 0 /\ ~config.no_lint)
        BY <2>2, <3>1 DEF Parses, Cancels
      <4> QED BY <2>2, <4>1, <4>2, SameConfig DEF Verdict
    <3>2. CASE Reparse
      <4>1. Wrote("syntax", at) = {} /\ input.fails # 0 /\ ~config.no_lint
        BY <3>2 DEF Reparse, SyntaxInv, TreeOf
      <4>2. /\ Len(out) \in Nat /\ Len(out') \in Nat
            /\ \A l \in 1..Len(out) : out'[l] = out[l]
            /\ \A l : IsNew(l) => NewLine(l)
            /\ IsNew(Len(out')) /\ out'[Len(out')].what = "syntax" /\ out'[Len(out')].at = at
        BY <3>2, NewLines
      <4>3. \A l \in 1..Len(out') :
              out'[l].what = "syntax" /\ out'[l].at = at <=> l = Len(out')
        <5>1. \A l \in 1..Len(out) : ~(out[l].what = "syntax" /\ out[l].at = at)
          BY <4>1 DEF Wrote
        <5>2. \A l : IsNew(l) => (out'[l].what = "syntax" <=> l = Len(out'))
          BY <3>2, <4>2 DEF NewLine, Reparse, List, NotFound, PrintTree, Parses, Cancels
        <5> QED BY <4>2, <5>1, <5>2 DEF IsNew
      <4>4. Wrote("syntax", at)' = {Len(out')}
        BY <2>2, <4>2, <4>3 DEF Wrote, IsNew
      <4>5. Wrote("syntax", read[k].at)' = {Len(out')}
        BY <2>2, <4>4 DEF Wrote
      <4>6. (\E l : Wrote("syntax", read[k].at) = {l})'
        BY <4>5
      <4>7. (read[k].text.fails # 0 /\ ~config.no_lint)'
        BY <2>2, <4>1, SameConfig
      <4> QED BY <4>6, <4>7 DEF Verdict
    <3> QED BY <2>2, <3>1, <3>2
  <2> QED BY <1>3, <2>1, <2>2, Settles
<1>4. ASSUME pc' = "again" PROVE Wrote("syntax", at)' = {}
  <2>1. pc \in {"parse", "again"} /\ at' = at /\ ~Reparse
    BY <1>4, StepMoves DEF Moves, Reparse
  <2>2. Wrote("syntax", at) = {}
    BY <1>2, <2>1 DEF SyntaxInv
  <2> QED BY <1>1, <2>1, <2>2 DEF Wrote
<1> QED BY <1>3, <1>4 DEF SyntaxInv

(* Of each file that was read a syntax error is written exactly once if    *)
(* the text read then does not parse and linting is on, and never if not.  *)
THEOREM DriverVerdictOfTextRead == Spec => []VerdictOfTextRead
<1>1. Init => Behind /\ TreeOf /\ SyntaxInv
  BY DEF Init, Behind, InFile, TreeOf, SyntaxInv
<1>2. SyntaxInv => VerdictOfTextRead
  <2> SUFFICES ASSUME SyntaxInv, NEW k \in 1..Len(read), read[k].at < at
               PROVE  Cardinality(Wrote("syntax", read[k].at))
                        = IF read[k].text.fails # 0 /\ ~config.no_lint THEN 1 ELSE 0
    BY DEF VerdictOfTextRead
  <2>1. Verdict(read[k].at, read[k].text)
    BY DEF SyntaxInv, Settled
  <2> QED BY <2>1, FS_Singleton, FS_EmptySet DEF Verdict
<1> QED BY <1>1, <1>2, TypedInit, TypedStep, BehindStep, TreeStep, SyntaxStep, PTL DEF Spec

-----------------------------------------------------------------------------
(* LexicalErrorsOnce *)
Upto(t) == IF t.fails # 0 /\ config.no_lint THEN t.fails ELSE t.size
Complained(i, S) ==
  /\ {out[l].n : l \in Wrote("lexical", i)} = S
  /\ \A l, m \in Wrote("lexical", i) : l < m => out[l].n < out[m].n
LexicalInv ==
  /\ \A k \in 1..Len(read) :
       Settled(k) => Complained(read[k].at, read[k].text.bad \cap 1..Upto(read[k].text))
  /\ pc = "again" => Complained(at, input.bad \cap 1..input.fails)

LEMMA ComplainedKept ==
  ASSUME Typed, [Next]_vars, NEW i, NEW S, Complained(i, S),
         \A l : IsNew(l) => ~(out'[l].what = "lexical" /\ out'[l].at = i)
  PROVE  Complained(i, S)'
<1>1. Wrote("lexical", i)' = Wrote("lexical", i)
  BY WroteKept
<1>2. \A l \in Wrote("lexical", i) : out'[l] = out[l]
  BY NewLines DEF Wrote
<1> QED BY <1>1, <1>2 DEF Complained

(* The lexer goes on where it was: what it then complains about comes      *)
(* after what it has.                                                      *)
LEMMA ComplainedMore ==
  ASSUME Typed, NEW from \in Nat, NEW to \in Nat, from <= to,
         Complained(at, input.bad \cap 1..from),
         NEW rest \in Seq(Lines), \A k \in 1..Len(rest) : rest[k].what # "lexical",
         out' = (out \o Complaints(from, to)) \o rest,
         NEW i, i = at, NEW S, S = input.bad \cap 1..to
  PROVE  Complained(i, S)'
<1> DEFINE c == Complaints(from, to)
           W == Wrote("lexical", i)
           N == Len(out)
           More == {l \in (N + 1)..(N + Len(c)) : TRUE}
           bad == input.bad
<1>1. /\ bad \subseteq 1..input.size /\ input.size \in Nat
      /\ out \in Seq(Lines) /\ N \in Nat
      /\ \A l \in 1..N : out[l].n \in Int
  BY Ranges, TextFacts DEF Typed, TypeOK
<1>2. c \in Seq(Lines) /\ InOrder(c, Bad(from, to))
  BY ComplaintsFacts
<1> HIDE DEF c
<1>3. /\ Len(c) \in Nat /\ Len(rest) \in Nat /\ Len(out') = N + Len(c) + Len(rest)
      /\ \A l \in 1..N : out'[l] = out[l]
      /\ \A l \in More : l - N \in 1..Len(c) /\ out'[l] = c[l - N]
      /\ \A k \in 1..Len(c) : N + k \in More /\ out'[N + k] = c[k]
      /\ \A l \in (N + Len(c) + 1)..(N + Len(c) + Len(rest)) : out'[l].what # "lexical"
  <2>1. /\ out \o c \in Seq(Lines) /\ Len(out \o c) = N + Len(c)
        /\ Len(c) \in Nat /\ Len(rest) \in Nat
    BY <1>1, <1>2
  <2>2. out' = (out \o c) \o rest
    BY DEF c
  <2>3. /\ Len(out') = N + Len(c) + Len(rest)
        /\ \A l \in 1..(N + Len(c)) : out'[l] = (out \o c)[l]
        /\ \A k \in 1..Len(rest) : out'[N + Len(c) + k] = rest[k]
    BY <2>1, <2>2, Appended
  <2>4. \A l \in 1..N : l \in 1..(N + Len(c)) /\ (out \o c)[l] = out[l]
    BY <1>1, <1>2, <2>1, Appended
  <2>5. \A k \in 1..Len(c) : N + k \in More /\ N + k \in 1..(N + Len(c)) /\ (out \o c)[N + k] = c[k]
    BY <1>1, <1>2, <2>1, Appended
  <2>6. \A l \in More : l - N \in 1..Len(c) /\ l = N + (l - N)
    BY <1>1, <2>1
  <2>7. \A l \in (N + Len(c) + 1)..(N + Len(c) + Len(rest)) :
          l - (N + Len(c)) \in 1..Len(rest) /\ l = N + Len(c) + (l - (N + Len(c)))
    BY <1>1, <2>1
  <2> HIDE DEF More, N
  <2>8. ASSUME NEW l \in More PROVE out'[l] = c[l - N]
    <3>1. out'[N + (l - N)] = c[l - N]
      BY <2>3, <2>5, <2>6
    <3> QED BY <2>6, <3>1
  <2>9. \A l \in (N + Len(c) + 1)..(N + Len(c) + Len(rest)) : out'[l].what # "lexical"
    BY <2>3, <2>7
  <2> QED BY <2>1, <2>3, <2>4, <2>5, <2>6, <2>8, <2>9
<1>4. Wrote("lexical", i)' = W \union More
  <2>1. ASSUME NEW l \in More PROVE out'[l].what = "lexical" /\ out'[l].at = i
    <3>1. l - N \in 1..Len(c) /\ out'[l] = c[l - N]
      BY <1>3
    <3> HIDE DEF More, N
    <3>2. \A k \in 1..Len(c) : c[k].what = "lexical" /\ c[k].at = at
      BY <1>2 DEF InOrder
    <3> QED BY <3>1, <3>2
  <2>2. \A l \in 1..Len(out') : \/ l \in 1..N \/ l \in More
                                \/ l \in (N + Len(c) + 1)..(N + Len(c) + Len(rest))
    BY <1>1, <1>3
  <2>3. \A l \in More : l \in 1..Len(out')
    BY <1>1, <1>3
  <2>4. \A l \in 1..N : l \in 1..Len(out')
    BY <1>1, <1>3
  <2> HIDE DEF More
  <2> QED BY <1>3, <2>1, <2>2, <2>3, <2>4 DEF Wrote
<1>5. /\ \A l \in W : l \in 1..N /\ out'[l] = out[l]
      /\ {out[l].n : l \in W} = bad \cap 1..from
      /\ \A l, m \in W : l < m => out[l].n < out[m].n
  BY <1>3 DEF Wrote, Complained
<1>6. /\ \A l \in More : out'[l].n \in bad \cap (from + 1)..to
      /\ \A n \in bad \cap (from + 1)..to : \E l \in More : out'[l].n = n
      /\ \A l, m \in More : l < m => out'[l].n < out'[m].n
  <2>1. /\ \A k \in 1..Len(c) : c[k].n \in bad \cap (from + 1)..to
        /\ \A n \in bad \cap (from + 1)..to : \E k \in 1..Len(c) : c[k].n = n
        /\ \A k, l \in 1..Len(c) : k < l => c[k].n < c[l].n
    BY <1>2 DEF InOrder, Bad
  <2>2. \A l, m \in More : l < m => l - N < m - N
    BY <1>1, <1>3
  <2>3. /\ \A l \in More : l - N \in 1..Len(c) /\ out'[l] = c[l - N]
        /\ \A k \in 1..Len(c) : N + k \in More /\ out'[N + k] = c[k]
    BY <1>3
  <2> HIDE DEF More, N, bad
  <2>4. \A l \in More : out'[l].n \in bad \cap (from + 1)..to
    BY <2>1, <2>3
  <2>5. ASSUME NEW n \in bad \cap (from + 1)..to PROVE \E l \in More : out'[l].n = n
    <3>1. PICK k \in 1..Len(c) : c[k].n = n
      BY <2>1
    <3> QED BY <2>3, <3>1
  <2>6. \A l, m \in More : l < m => out'[l].n < out'[m].n
    BY <2>1, <2>2, <2>3
  <2> QED BY <2>4, <2>5, <2>6
<1>7. {out'[l].n : l \in W \union More} = bad \cap 1..to
  <2>1. \A n \in bad : n \in Int
    BY <1>1
  <2>2. \A l \in W : out'[l].n \in bad \cap 1..from
    BY <1>5
  <2>3. \A n \in bad \cap 1..from : \E l \in W : out'[l].n = n
    BY <1>5
  <2>4. bad \cap 1..to = (bad \cap 1..from) \union (bad \cap (from + 1)..to)
    BY <2>1
  <2> HIDE DEF More, W, bad
  <2>5. \A l \in W \union More : out'[l].n \in bad \cap 1..to
    BY <1>6, <2>2, <2>4
  <2>6. \A n \in bad \cap 1..to : \E l \in W \union More : out'[l].n = n
    BY <1>6, <2>3, <2>4
  <2> QED BY <2>5, <2>6
<1>8. ASSUME NEW l \in W \union More, NEW m \in W \union More, l < m
      PROVE  out'[l].n < out'[m].n
  <2>1. CASE l \in W /\ m \in W
    BY <1>5, <1>8, <2>1
  <2>2. CASE l \in W /\ m \in More
    <3>1. out'[l].n \in 1..from /\ out'[m].n \in (from + 1)..to
      BY <1>5, <1>6, <2>2
    <3>2. \A n \in 1..from, o \in (from + 1)..to : n < o
      OBVIOUS
    <3> QED BY <3>1, <3>2
  <2>3. CASE l \in More /\ m \in W
    BY <1>1, <1>5, <1>8, <2>3
  <2>4. CASE l \in More /\ m \in More
    BY <1>6, <1>8, <2>4
  <2> QED BY <2>1, <2>2, <2>3, <2>4
<1> HIDE DEF W, More
<1> QED BY <1>4, <1>7, <1>8 DEF Complained

LEMMA LexicalStep ==
  ASSUME Typed, Behind, TreeOf, LexicalInv, [Next]_vars
  PROVE  LexicalInv'
<1>0. /\ at \in Nat /\ input.size \in Nat /\ input.fails \in 0..input.size
      /\ config.no_lint \in BOOLEAN /\ << >> \in Seq(Lines)
      /\ <<Line("syntax", at, 0)>> \in Seq(Lines)
      /\ \A k \in 1..Len(<<Line("syntax", at, 0)>>) :
           <<Line("syntax", at, 0)>>[k].what # "lexical"
  <2>1. at \in Nat /\ input \in Texts \union {Blank} /\ config.no_lint \in BOOLEAN
    BY ConfigAssumption DEF Typed, TypeOK
  <2>2. Line("syntax", at, 0) \in Lines /\ Line("syntax", at, 0).what = "syntax"
    BY <2>1, LineType DEF Kinds
  <2> QED BY <2>1, <2>2, TextFacts
<1>1. pc = "parse" => Complained(at, input.bad \cap 1..0)
  <2>1. pc = "parse" => \A l \in 1..Len(out) : out[l].what = "lexical" => out[l].at < at
    BY DEF Behind
  <2>2. pc = "parse" => Wrote("lexical", at) = {}
    BY <1>0, <2>1 DEF Wrote
  <2> QED BY <2>2 DEF Complained
<1>2. ASSUME NEW i, NEW S, Complained(i, S), i # at \/ ~(Parses \/ Cancels \/ Reparse)
      PROVE  Complained(i, S)'
  BY <1>2, NewLines, ComplainedKept DEF NewLine
<1>3. ASSUME NEW i, i = at, Parses \/ Cancels \/ Reparse,
             NEW S, S = input.bad \cap 1..(IF Cancels THEN input.fails ELSE input.size)
      PROVE  Complained(i, S)'
  <2>1. CASE Parses \/ Cancels
    <3> DEFINE to == IF Cancels THEN input.fails ELSE input.size
    <3>1. pc = "parse" /\ out' = out \o Complaints(0, to)
      BY <2>1 DEF Parses, Cancels
    <3>2. to \in Nat /\ 0 <= to
      BY <1>0
    <3> HIDE DEF to
    <3>3. out' = (out \o Complaints(0, to)) \o << >>
      <4>1. Complaints(0, to) \in Seq(Lines) /\ out \in Seq(Lines)
        BY <3>2, ComplaintsFacts, Ranges
      <4> QED BY <3>1, <4>1
    <3>4. 0 \in Nat /\ \A k \in 1..Len(<< >>) : << >>[k].what # "lexical"
      OBVIOUS
    <3>5. S = input.bad \cap 1..to
      BY <1>3 DEF to
    <3> QED BY <1>0, <1>1, <1>3, <3>1, <3>2, <3>3, <3>4, <3>5, ComplainedMore
  <2>2. CASE Reparse
    <3>1. /\ out' = (out \o Complaints(input.fails, input.size)) \o <<Line("syntax", at, 0)>>
          /\ Complained(at, input.bad \cap 1..input.fails)
      BY <2>2 DEF Reparse, Kept, TreeOf, LexicalInv
    <3>2. input.fails \in Nat /\ input.fails <= input.size
      BY <1>0
    <3>3. S = input.bad \cap 1..input.size
      BY <1>3, <2>2 DEF Reparse, Cancels
    <3> QED BY <1>0, <1>3, <3>1, <3>2, <3>3, ComplainedMore
  <2> QED BY <1>3, <2>1, <2>2
<1>4. ASSUME NEW k \in 1..Len(read'), Settled(k)'
      PROVE  Complained(read[k].at, read[k].text.bad \cap 1..Upto(read[k].text))'
  <2>1. CASE k \in 1..Len(read) /\ read'[k] = read[k] /\ Settled(k)
    <3> DEFINE i == read[k].at
               S == read[k].text.bad \cap 1..Upto(read[k].text)
    <3>1. i # at \/ ~(Parses \/ Cancels \/ Reparse)
      BY <1>0, <2>1, Ranges DEF Parses, Cancels, Reparse, Settled
    <3>2. Complained(i, S)
      BY <2>1 DEF LexicalInv
    <3>3. i' = i /\ S' = S
      BY <2>1, SameConfig DEF Upto
    <3>4. \A j, T : j = i /\ T = S => Complained(j, T)'
      <4> HIDE DEF i, S
      <4> QED BY <1>2, <3>1, <3>2
    <3> QED BY <3>3, <3>4 DEF Complained, Wrote
  <2>2. CASE /\ Parses \/ Cancels \/ Reparse
             /\ k = Len(read) /\ read'[k] = [at |-> at, text |-> input] /\ read' = read
             /\ at' = at /\ pc' = "print"
    <3> DEFINE S == input.bad \cap 1..(IF Cancels THEN input.fails ELSE input.size)
    <3>1. (read[k].text.bad \cap 1..Upto(read[k].text))' = S
      <4>1. (read[k].text)' = input /\ config' = config
        BY <2>2, SameConfig
      <4>2. Upto(read[k].text)' = IF Cancels THEN input.fails ELSE input.size
        BY <1>0, <2>2, <4>1 DEF Upto, Parses, Cancels, Reparse, TreeOf
      <4> QED BY <4>1, <4>2
    <3>2. \A j, T : j = at /\ T = S => Complained(j, T)'
      BY <1>3, <2>2
    <3>3. (read[k].at)' = at
      BY <2>2
    <3> HIDE DEF S
    <3> QED BY <3>1, <3>2, <3>3 DEF Complained, Wrote
  <2> QED BY <1>4, <2>1, <2>2, Settles
<1>5. ASSUME pc' = "again" PROVE Complained(at, input.bad \cap 1..input.fails)'
  <2> DEFINE S == input.bad \cap 1..input.fails
  <2>1. UNCHANGED <<at, input>> /\ pc \in {"parse", "again"}
    BY <1>5, StepMoves DEF Moves
  <2>2. CASE pc = "parse"
    <3>1. Cancels
      BY <1>5, <2>2 DEF Next, Program, Others, Ended, Delete, Save, Expand, List, NotFound, Found,
             Load, LoadThrows, Parses, Reparse, PrintTree, PrintNothing, NextPath, Exit, Over, vars
    <3>2. \A j, T : j = at /\ T = S => Complained(j, T)'
      BY <1>3, <3>1
    <3> QED BY <2>1, <3>2 DEF Complained, Wrote
  <2>3. CASE pc = "again"
    <3>1. ~(Parses \/ Cancels \/ Reparse)
      BY <1>5, <2>3 DEF Parses, Cancels, Reparse
    <3>2. \A j, T : j = at /\ T = S => Complained(j, T)'
      BY <1>2, <2>3, <3>1 DEF LexicalInv
    <3> QED BY <2>1, <3>2 DEF Complained, Wrote
  <2> QED BY <2>1, <2>2, <2>3
<1> QED BY <1>4, <1>5 DEF LexicalInv

(* Of each file that was read every lexeme no rule matches is written of   *)
(* exactly once and in order, though it may have been parsed twice.        *)
THEOREM DriverLexicalErrorsOnce == Spec => []LexicalErrorsOnce
<1>1. Init => Behind /\ TreeOf /\ LexicalInv
  BY DEF Init, Behind, InFile, TreeOf, LexicalInv
<1>2. LexicalInv => LexicalErrorsOnce
  BY DEF LexicalInv, Settled, LexicalErrorsOnce, Complained, Upto
<1> QED BY <1>1, <1>2, TypedInit, TypedStep, BehindStep, TreeStep, LexicalStep, PTL DEF Spec
=============================================================================
