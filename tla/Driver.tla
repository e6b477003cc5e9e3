------------------------------- MODULE Driver -------------------------------
(***************************************************************************)
(* The program around the parser: src/bin/src/main.cpp.  The source        *)
(* arguments are globbed, then every file found is read, parsed and, if it *)
(* does not parse, parsed again for its errors, one after the other, while *)
(* somebody else may delete or save files.                                 *)
(*                                                                         *)
(* A text is what the driver can tell of a file: whether it opens (not if  *)
(* it may not be read or is a link to nothing, nor while there are too     *)
(* many open files), whether it reads (a directory opens, too), whether it *)
(* is UTF-8, how many lexemes it has, which of them no lexer rule matches, *)
(* where the parser fails first (0: it does not), and whether an error is  *)
(* reported at an EOF that has a line to itself.  What a parse of it does  *)
(* is Parser's business; here it reads lexemes, and succeeds or not.       *)
(***************************************************************************)
EXTENDS Integers, Sequences, FiniteSets

CONSTANTS
  Paths,     (* file names                                                  *)
  Texts,     (* what may be in a file                                       *)
  Args,      (* the source arguments: the paths each pattern is about       *)
  Configs    (* the options given                                           *)

ABSENT == [size |-> 0]
Text == [opens : BOOLEAN, reads : BOOLEAN, utf8 : BOOLEAN,
         size : Nat, bad : SUBSET Nat, fails : Nat, atEOF : BOOLEAN]

ASSUME TextAssumption ==
  \A t \in Texts : /\ t \in Text
                   /\ t.bad \subseteq 1..t.size
                   /\ t.fails \in 0..t.size
                   /\ t.atEOF => t.fails # 0
ASSUME ArgsAssumption == Args \in Seq(Seq(Paths)) /\ Args # << >>
ASSUME ConfigAssumption ==
  Configs \subseteq [print_parse_tree : BOOLEAN, verbose : BOOLEAN, no_lint : BOOLEAN]

VARIABLES
  disk,    (* path -> text, or ABSENT                                       *)
  away,    (* (history) what could not be opened, some time since the start *)
  config,
  pc,      (* expand, list, open, load, parse, again, print, exit, dead *)
  arg,     (* the pattern being expanded                                    *)
  paths,   (* file_list                                                     *)
  at,      (* the path of the loop in parseFiles                            *)
  input,   (* the text of the ANTLRFileStream                               *)
  fetched, (* how many lexemes the token stream has asked the lexer for     *)
  tree,    (* whose parse tree: a position in paths, NULL or JUNK           *)
  out,     (* what was written, in order                                    *)
  read     (* (history) the text each position in paths was linted from     *)

vars == <<disk, away, config, pc, arg, paths, at, input, fetched, tree, out, read>>
world == <<disk, away, config>>

NULL == 0
JUNK == -1
Blank == [opens |-> TRUE, reads |-> TRUE, utf8 |-> TRUE,
          size |-> 0, bad |-> {}, fails |-> 0, atEOF |-> FALSE]

OnDisk(path) == disk[path] # ABSENT                   (* to be found by glob *)
file_exists(path) == OnDisk(path) /\ disk[path].opens   (* to fopen and ifstream *)
Line(what, i, n) == [what |-> what, at |-> i, n |-> n]

(* A finite set of numbers, in order. *)
Ascending(S) ==
  CHOOSE f \in [1..Cardinality(S) -> S] :
    /\ \A n \in S : \E k \in DOMAIN f : f[k] = n
    /\ \A k, l \in DOMAIN f : k < l => f[k] < f[l]

-----------------------------------------------------------------------------
(* expand_paths: glob sorts its matches; no match adds nothing. *)
Matches(names) ==
  LET found == {j \in DOMAIN names : OnDisk(names[j])}
  IN [k \in 1..Cardinality(found) |-> names[Ascending(found)[k]]]

(* Mutant: a pattern without a match is the last to be looked at. *)
ExpandGivesUp ==
  /\ pc = "expand"
  /\ paths' = paths \o Matches(Args[arg])
  /\ arg' = arg + 1
  /\ pc' = IF arg = Len(Args) \/ paths' = paths THEN "list" ELSE "expand"
  /\ UNCHANGED <<world, at, input, fetched, tree, out, read>>

Expand ==
  /\ pc = "expand"
  /\ paths' = paths \o Matches(Args[arg])
  /\ arg' = arg + 1
  /\ pc' = IF arg = Len(Args) THEN "list" ELSE "expand"
  /\ UNCHANGED <<world, at, input, fetched, tree, out, read>>

List ==
  /\ pc = "list"
  /\ out' = IF config.verbose
            THEN out \o [i \in 1..Len(paths) |-> Line("path", i, 0)] ELSE out
  /\ pc' = "open"
  /\ UNCHANGED <<world, arg, paths, at, input, fetched, tree, read>>

(* Mutant: two steps of the loop at once. *)
SkipPath == at' = at + 2 /\ pc' = "open"

NextPath == at' = at + 1 /\ pc' = "open"

(* Mutant: break for continue. *)
NotFoundBreaks ==
  /\ pc = "open" /\ at <= Len(paths)
  /\ ~file_exists(paths[at])
  /\ out' = Append(out, Line("missing", at, 0))
  /\ at' = Len(paths) + 1 /\ UNCHANGED pc
  /\ UNCHANGED <<world, arg, paths, input, fetched, tree, read>>

(* file_exists asks if it opens: what glob found may be gone, or may not.  *)
NotFound ==
  /\ pc = "open" /\ at <= Len(paths)
  /\ ~file_exists(paths[at])
  /\ out' = Append(out, Line("missing", at, 0))
  /\ NextPath
  /\ UNCHANGED <<world, arg, paths, input, fetched, tree, read>>

Found ==
  /\ pc = "open" /\ at <= Len(paths)
  /\ file_exists(paths[at])
  /\ pc' = "load"
  /\ UNCHANGED <<world, arg, paths, at, input, fetched, tree, out, read>>

(* ANTLRFileStream opens it anew, and stays empty if it is gone by then.   *)
(* A directory is one more empty file, where an error of the streambuf is  *)
(* the end of the stream (libc++).  tree is declared and not initialised.  *)
Content == IF file_exists(paths[at]) /\ disk[paths[at]].reads THEN disk[paths[at]] ELSE Blank

Load ==
  /\ pc = "load" /\ Content.utf8
  /\ input' = Content
  /\ fetched' = 0
  /\ tree' \in {NULL, JUNK}
  /\ read' = Append(read, [at |-> at, text |-> Content])
  /\ pc' = "parse"
  /\ UNCHANGED <<world, arg, paths, at, out>>

(* Where the streambuf throws instead (libstdc++), nobody catches it; nor  *)
(* what utf8_to_utf32 throws.                                              *)
LoadThrows ==
  /\ pc = "load" /\ file_exists(paths[at])
  /\ ~(disk[paths[at]].reads /\ disk[paths[at]].utf8)
  /\ input' = disk[paths[at]]
  /\ fetched' = 0
  /\ pc' = "dead"
  /\ UNCHANGED <<world, arg, paths, at, tree, out, read>>

-----------------------------------------------------------------------------
(* The lexer writes about each lexeme it cannot match as it is asked for   *)
(* it: its ConsoleErrorListener is never removed.                          *)
Complaints(from, to) ==
  LET bad == input.bad \cap (from + 1)..to
  IN [k \in 1..Cardinality(bad) |-> Line("lexical", at, Ascending(bad)[k])]

(* The first pass reads up to where it fails. *)
Parses ==
  /\ pc = "parse" /\ input.fails = 0
  /\ out' = out \o Complaints(0, input.size)
  /\ fetched' = input.size
  /\ tree' = at
  /\ pc' = "print"
  /\ UNCHANGED <<world, arg, paths, at, input, read>>

(* Mutant: --no-lint forgotten. *)
CancelsLinting ==
  /\ pc = "parse" /\ input.fails # 0
  /\ out' = out \o Complaints(0, input.fails)
  /\ pc' = "again"
  /\ fetched' = input.fails
  /\ UNCHANGED <<world, arg, paths, at, input, tree, read>>

Cancels ==
  /\ pc = "parse" /\ input.fails # 0
  /\ out' = out \o Complaints(0, input.fails)
  /\ pc' = IF config.no_lint THEN "print" ELSE "again"
  /\ fetched' = input.fails
  /\ UNCHANGED <<world, arg, paths, at, input, tree, read>>

(* Mutant: reset drops the tokens too. *)
KeptNothing(n) == 0

Kept(n) == n

(* tokens.reset() rewinds the cursor; what was fetched stays fetched.  The *)
(* listener reads lines[line - 1], one past the end for an EOF on a line   *)
(* to itself: nothing, junk, or the end of the program.                    *)

Reparse ==
  /\ pc = "again"
  /\ out' = out \o Complaints(Kept(fetched), input.size) \o <<Line("syntax", at, 0)>>
  /\ fetched' = input.size
  /\ tree' = at
  /\ \/ pc' = "print"
     \/ input.atEOF /\ pc' = "dead"
  /\ UNCHANGED <<world, arg, paths, at, input, read>>

(* Mutant: no test of tree. *)
PrintsAnyway == config.print_parse_tree

Prints == config.print_parse_tree /\ tree # NULL
PrintTree ==
  /\ pc = "print" /\ Prints
  /\ out' = Append(out, Line("tree", at, tree))
  /\ \/ NextPath
     \/ tree # at /\ pc' = "dead" /\ UNCHANGED at
  /\ UNCHANGED <<world, arg, paths, input, fetched, tree, read>>

PrintNothing ==
  /\ pc = "print" /\ ~Prints
  /\ NextPath
  /\ UNCHANGED <<world, arg, paths, input, fetched, tree, out, read>>

(* Mutant: the loop waits for one path more. *)
ExitTooLate ==
  /\ pc = "open" /\ at > Len(paths) + 1
  /\ pc' = "exit"
  /\ UNCHANGED <<world, arg, paths, at, input, fetched, tree, out, read>>

Exit ==
  /\ pc = "open" /\ at > Len(paths)
  /\ pc' = "exit"
  /\ UNCHANGED <<world, arg, paths, at, input, fetched, tree, out, read>>

-----------------------------------------------------------------------------
(* Somebody else's doing, as long as the program runs. *)
Over == pc \in {"exit", "dead"}

Delete(path) ==
  /\ ~Over /\ OnDisk(path)
  /\ disk' = [disk EXCEPT ![path] = ABSENT]
  /\ away' = away \union {path}
  /\ UNCHANGED <<config, pc, arg, paths, at, input, fetched, tree, out, read>>

Save(path, text) ==
  /\ ~Over
  /\ disk' = [disk EXCEPT ![path] = text]
  /\ away' = IF text.opens THEN away ELSE away \union {path}
  /\ UNCHANGED <<config, pc, arg, paths, at, input, fetched, tree, out, read>>

Init ==
  /\ disk \in [Paths -> Texts \union {ABSENT}]
  /\ away = {path \in Paths : ~file_exists(path)}
  /\ config \in Configs
  /\ pc = "expand"
  /\ arg = 1
  /\ paths = << >>
  /\ at = 1
  /\ input = Blank
  /\ fetched = 0
  /\ tree = NULL
  /\ out = << >>
  /\ read = << >>

Program ==
  \/ Expand \/ List \/ NotFound \/ Found \/ Load \/ LoadThrows
  \/ Parses \/ Cancels \/ Reparse \/ PrintTree \/ PrintNothing \/ Exit
Others == \E path \in Paths : Delete(path) \/ \E text \in Texts : Save(path, text)
Ended == Over /\ UNCHANGED vars

Next == Program \/ Others \/ Ended

(* The program runs on, whatever the others do. *)
Spec == Init /\ [][Next]_vars /\ WF_vars(Program)

-----------------------------------------------------------------------------
Wrote(what, i) == {k \in 1..Len(out) : out[k].what = what /\ out[k].at = i}

(* The loops stay inside their vectors. *)
TypeOK ==
  /\ disk \in [Paths -> Texts \union {ABSENT}]
  /\ away \subseteq Paths
  /\ config \in Configs
  /\ pc \in {"expand", "list", "open", "load", "parse", "again", "print", "exit", "dead"}
  /\ arg \in 1..(Len(Args) + 1)
  /\ paths \in Seq(Paths)
  /\ at \in 1..(Len(paths) + 1)
  /\ input \in Texts \union {Blank}
  /\ fetched \in 0..input.size
  /\ tree \in {NULL, JUNK} \union 1..Len(paths)

(* Every occurrence of a file that was found is linted or said not to be   *)
(* there, in order, whatever became of the files before it: nothing that   *)
(* happens to one of them, short of the end of the program, skips another. *)
NoneSkipped ==
  LET done == {read[k].at : k \in 1..Len(read)} IN
  /\ \A i \in 1..(at - 1) : i \in done <=> Wrote("missing", i) = {}
  /\ \A k, l \in 1..Len(read) : k < l => read[k].at < read[l].at

(* What is said of a file is about the text that was read for it, however  *)
(* often it is saved meanwhile: a syntax error, once, exactly if it fails  *)
(* to parse and linting is on.                                             *)
VerdictOfTextRead ==
  \A k \in 1..Len(read) : read[k].at < at =>
    Cardinality(Wrote("syntax", read[k].at))
      = IF read[k].text.fails # 0 /\ ~config.no_lint THEN 1 ELSE 0

(* Parsed once or twice, a file has each of its lexical errors written     *)
(* once, in order.  (Without the second pass, those up to the failure.)    *)
LexicalErrorsOnce ==
  \A k \in 1..Len(read) : read[k].at < at =>
    LET t == read[k].text
        upto == IF t.fails # 0 /\ config.no_lint THEN t.fails ELSE t.size
        lines == Wrote("lexical", read[k].at)
    IN /\ {out[l].n : l \in lines} = t.bad \cap 1..upto
       /\ \A l, m \in lines : l < m => out[l].n < out[m].n

(* A file that can be opened all the time is never said not to be found,   *)
(* and when the program is through each argument it is one of has led to   *)
(* it, whatever became of the other files.                                 *)
SteadyFilesLinted ==
  /\ \A k \in 1..Len(out) : out[k].what = "missing" => paths[out[k].at] \in away
  /\ pc = "exit" =>
       \A a \in DOMAIN Args : \A j \in DOMAIN Args[a] :
         Args[a][j] \in away \/ \E k \in 1..Len(read) : paths[read[k].at] = Args[a][j]

(* The program ends early for four reasons only. *)
DiesOfKnownCauses ==
  pc = "dead" => \/ ~input.reads
                 \/ ~input.utf8
                 \/ input.atEOF /\ ~config.no_lint
                 \/ tree = JUNK /\ input.fails # 0 /\ config.no_lint /\ config.print_parse_tree

(* It always ends, whatever happens to the files. *)
Finishes == <>Over

(* main.cpp:119: "Print parse tree as JSON".  It is that of the file.      *)
PrintsOwnTree == \A k \in 1..Len(out) : out[k].what = "tree" => out[k].n = out[k].at
=============================================================================
