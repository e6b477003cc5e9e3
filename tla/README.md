# A TLA+ model of bbsl

`bbsl` is a linter for BrightScript. It globs its arguments, parses each file
with an ANTLR 4 parser and writes what is wrong with it; with `--print-tree` it
writes the parse tree as JSON. The program is 157 lines of `src/bin/src/main.cpp`,
five headers and a grammar; what makes it right or wrong is the ANTLR 4 C++ runtime
in `src/antlr`, which is built with it and which its own error strategy extends.
The specifications here model that path from the command line down to prediction.

The program has one thread and keeps nothing between runs. Its hard parts are
long call sequences over mutable state (a lazily filled token buffer, an error
strategy with a mode and a memory, a parser used for two passes), recovery that
must make progress, lookahead computed by walks with stop conditions, automata that
are built while they are used and outlive whoever built them, and a disk that
somebody else changes.

## The system

| part | source | state | operations | talks to |
|---|---|---|---|---|
| driver | `main.cpp`, `file_utils.hpp` | `paths`, the loop, `tree` | `expand_paths`, `parseFiles` | file system, all below |
| character stream | `ANTLRFileStream`, `ANTLRInputStream` | decoded text, index | `loadFromFile`, `LA`, `consume`, `seek` | file system |
| lexer | `Lexer`, `LexerATNSimulator`, `LexerActionExecutor` | modes, token in the making, `hitEOF`, `_prevAccept`, a DFA per mode | `nextToken`, `match`, `failOrAccept`, `recover` | character stream; called by the token stream |
| token stream | `BufferedTokenStream`, `CommonTokenStream` | `_tokens`, `_p`, `_fetchedEOF`, `_needSetup` | `consume`, `LT`, `LB`, `seek`, `reset`, `fill`, hidden-token queries, `setTokenSource` | lexer; called by parser, strategy and prediction |
| parser | `Parser`, generated `BrightScriptParser` | `_ctx`, `_stateNumber`, `_matchedEOF`, tree | `match`, `enterRule`, `exitRule`, `consume`, `reset` | token stream, strategy, prediction |
| error strategies | `DefaultErrorStrategy`, `BailErrorStrategy`, `TerminalErrorStrategy` | `errorRecoveryMode`, `lastErrorIndex`, `lastErrorStates` | `sync`, `recoverInline`, `recover`, reports | parser, lookahead, listeners |
| lookahead | `LL1Analyzer`, `ATN` | the cached set of each state | `LOOK`, `nextTokens`, `getExpectedTokens` | the ATN |
| prediction | `ParserATNSimulator`, `PredictionMode`, `ATNConfigSet`, `PredictionContext`, `DFA` | a DFA per decision, `mergeCache` | `adaptivePredict` | token stream, the ATN |
| grammar | `BrightScript.g4` | none | 60 rules | becomes the ATN |
| listeners | `TerminalErrorListener`, `ConsoleErrorListener` | none | `syntaxError` | the terminal |

What each has to get right:

* *Driver*: every file found gets one verdict, about the text that was read for it,
  whatever happens to the files before it or on the disk.
* *Token stream*: laziness and comments are invisible; the lexer is asked for each
  token once.
* *Parser and strategies*: a parse ends, keeps every token, and complains exactly
  about the invalid files; nothing of the first pass survives into the second.
* *Lookahead and prediction*: the sets are exact, SLL never silently takes another
  alternative than LL, and never gives up a valid file; what was predicted before,
  for whichever file and in whichever mode, changes no answer.
* *Lexer*: every character ends up in one token, one skipped stretch or one error
  message; the longest match of the first rule wins, whatever the DFA remembers; it
  ends, with one EOF.

## The modules

**`Tokens`, `TokenStream`, `MCTokenStream`, `TokenCursor`, `TokenStreamProofs`,
`TokenStreamAnswersProofs`.** `source` is all the lexer will ever deliver, `buffer` holds `_tokens`, `_fetchedEOF`
and how often the lexer was asked, `p` and `needSetup` are the fields of that name,
`ret` is the last call and what it returned. Each public operation is an action;
each begins with `Ready`, which is `lazyInit`. Indices are the code's, from 0, and
`Wrap` is `size_t` arithmetic. `TokenCursor` is what the stream promises: the whole
input is there and a cursor stands on one of its visible tokens; `C!Cursor` in
`TokenStream` instantiates it.

**`Grammar`, `BrightScript`.** The ATN with chains of epsilon states collapsed:
token, call, decision and stop nodes. `BrightScript` is a fragment of the grammar,
twelve rules and 72 nodes, in which an expression is an identifier and line ends and
types are left out (the real `expression` stands beside it, below). It keeps what makes the grammar hard to predict: `END` is a
statement, and also begins `END SUB`, `END WHILE` and `END FOR`; `NEXT` and
`END FOR` are optional ends of a loop, and `NEXT` is a statement. The left-recursive
rule `expression` is there as the generator turns it into a loop, for prediction: a
prefix operator, parentheses, a call, `.`, a postfix operator and three infix ones,
with the levels they have in the grammar. `prec` nodes are its
`PrecedencePredicateTransition`s, and a call of it carries the precedence it is entered
with; `Precedence(stack)` is the top of the parser's `_precedenceStack`.

**`Lookahead`.** `LL1Analyzer::_LOOK` with both of its stop conditions, `lookBusy`
and `calledRuleStack`, for a null, an empty and a given context.

**`Prediction`.** What `adaptivePredict` decides: sets of configurations (node,
alternative, one stack), closure, reach, SLL conflict detection and the switch to
full context, with nothing cached. A precedence predicate is evaluated where it is met,
in the rule that asks.

**`PredictionContexts`, `CachedPrediction`, `MCPrediction`.** How it decides it.
`PredictionContexts` has the graph-structured stacks and `merge` with its root,
singleton and array cases and the `mergeCache`. `CachedPrediction` runs predictions
about one decision one after the other, a token a step: `dfa` is the decision's `DFA`
with its states in the order they were added and its edges (`0` is `ERROR`), `at` is
`previousD` and `D` of `execATN`, `configs` is `previous` of `execATNWithFullContext`,
`memo` is `mergeCache`, which `Return` (the `finally`) clears. Configuration sets are
in insertion order, `ATNConfigSet::add` looks up by the hash alone and merges, and
`closure_` goes depth first with `closureBusy`. `asks` are the questions a parser
really puts on its way through a file; `INSTANCE Prediction` is the reference. For the
loop of `expression`, `sem` holds the levels a configuration still depends on, the top
bit of `outer` says that the precedence filter does not apply, the start state is
filtered and kept for each precedence (`dfa.s0`), an accepting state may be left to its
`predicates`, and `CanDropLoopEntryEdge` spares the closure the loop under a caller that
goes on with the same loop.

**`Parser`, `MCParser`, `ParserProofs`, `ParserReportProofs`, `ParserLanguageProofs`.** One
file through the generated parser and its error strategy. `node` is where the generated code stands,
`state` is `_stateNumber`, `ctx` the chain of `_ctx`, `eh` the strategy's fields,
`mark` is `_matchedEOF`, the stop token and the offending token of the exception thrown
last, `out` the reports and the leaves of the tree. A report is about the offending token,
which for a prediction that failed is where it failed and may lie ahead (`visitDecision`
answers with the alternative and that place); `from` notes where the parser was. `Plans` says which passes there may be, each with its handler and prediction
mode; `MCParser` has the three uses the repository makes of the parser: `bbsl` (SLL
and bail out, then LL and report), `bbsl --no-lint` (the first of these only), and the
repository's tests (LL with the default strategy). Lookahead and prediction are
parameters. The tokens come from a cursor, which is what `TokenStream` is shown to
implement. The proofs are about types, the call stack, the tree, what was read and
reported, and which files are.

**`Language`, `Linting`.** The language of a grammar as a pushdown automaton accepts
it, with no lookahead, prediction or recovery, and the properties of the parser that
mention it. `AdvisedWell` is what the parser needs of lookahead and prediction to report
exactly the invalid files: wherever the rest of the file can still be parsed, `sync` finds
nothing wrong and the alternative taken is one to parse it by.

**`Asking`, `MCAsking`.** The walk of the parser over the grammar without input, to
compare lookahead with the language under every call stack.

**`Driver`, `MCDriver`, `DriverProofs`.** `main.cpp`. A text stands for what the driver can tell of a
file: whether it opens (`file_exists` is an `fopen`, which fails for a file without
permission or a dangling link that glob has found), whether it reads (a directory opens,
too), whether it is UTF-8, how many lexemes it has and which of them match nothing, where
the parse fails first, whether an error lies at an EOF with a line to itself. What a
directory comes to depends on the library the program is built with: a streambuf that
throws (libstdc++) ends the program, with nobody to catch it; one that does not (libc++)
leaves an empty file; the model allows both. `Delete` and `Save` are anybody else with the
directory open; `away` remembers which files could not be opened at some time.

**`Lexer`, `LexerATN`, `Lexing`, `MCLexer`, `LexerProofs`, `LexerMatchProofs`.** `Lexer` is `Lexer::nextToken` over the
loop of `execATN`, a character a step: `cursor` is the index with line and column,
`token` the token in the making, `modes` the mode and the mode stack, `prevAccept`
and `s` are the simulator's, `dfa` has a DFA for each mode and outlives the lexer,
`plan` are the texts that are lexed one after the other. What the rules are is a
parameter, of which `RulesAssumption` says what the lexer needs; TLC evaluates it over
all the sets of configurations that `MCLexer`'s rules can reach. `LexerATN` computes it as `LexerATNSimulator` does: configurations in
their order with their stacks and commands, closure, the rest of a rule dropped once
an alternative before it has accepted, non-greedy loops. `Lexing` compares what the lexer
finds with what the rules match one by one, by way of `Simulated`, which is the simulation
with nothing kept from earlier matches. `MCLexer` has fifteen rules of `BrightScript.g4`,
those that begin alike, refer to one another or have commands, and a small lexer for
what the grammar does not use: modes, `more`, `type`, a non-greedy loop, `EOF` in a
rule.

The generated `BrightScriptParser` is not in the repository: the build makes it. Its
control flow is read from `ParserInterpreter`, the runtime's interpreter of the same
ATN, and from how the runtime expects to be called; which decisions test a single
token is marked external in `PROJECT.json`.

## The runs

| run | asks |
|---|---|
| `token_stream` (`TokenStream.cfg`) | is the buffer a prefix of the lexer's tokens, the cursor on a visible token, are `LT`, `LB` and hidden-token queries right, is it a `TokenCursor` |
| `parse` (`Parse.cfg`) | the three uses of the parser on valid and broken files: call stack, tree, whole file read; reported exactly when invalid, gives up invalid files only, is advised well wherever the file can still be parsed, never survives an SLL decision LL would take otherwise; expected tokens exact; the parser moves on between reports, none of which is about a token already passed (default strategy); it ends |
| `lookahead` (`Lookahead.cfg`) | `LOOK` against a fixpoint, and in context against the language; single-token decisions against the language |
| `prediction` (`Prediction.cfg`) | is the cache transparent: is every answer the one computed from nothing with sets of stacks; is an LL answer the first alternative the rest of the file parses by; is every DFA edge the reach of its source; are contexts with the same stacks equal |
| `lexer` (`Lexer.cfg`) | is every token the longest match of the first rule, with that rule's commands, whatever the DFA holds already; do tokens, skipped text and errors tile the text, at the right lines and columns; is it what `Tokens` asks of a lexer; does it end |
| `driver` (`Driver.cfg`) | verdicts, order and causes of death under deletions and saves; a file that can be opened all the time is linted; ends |

Six more runs end in a counterexample; each checks one sentence of a comment, of a
test's data or of the documentation that the code does not keep:

| run | sentence | what happens |
|---|---|---|
| `stream_lookbehind` | previousTokenOnChannel "Return -1 if there are no tokens on channel" | the index is unsigned, it returns 0, and `LB` hands out the comment at index 0 (for the same reason `getHiddenTokensToLeft` loses it: `HiddenLeftCorrect` excepts that token) |
| `lint_repeats` | "If we've already reported an error ... don't report any errors" | `TerminalErrorStrategy` drops the test and the mode: `SUB` behind a statement is reported as extraneous input by the `sync` of the block loop, which skips nothing, and again as no viable alternative by the decision behind it (the parser has not moved, and both reports are about that token) |
| `failsafe` | "another error at same token index and previously-visited state" | `lastErrorStates` is never cleared: the state was visited elsewhere |
| `prediction_memo` | LL mode "will make correct decisions for all syntactically-correct grammar and input combinations" | the key of `mergeCache` leaves out `rootIsWildcard` and the cache lives through the switch to full context, where a merge of the SLL phase loses a stack; needs a start rule that calls itself, which `BrightScript.g4` has not |
| `bare_rem` | `test.brs` has a bare `REM` as a comment of one line | the `WS` of the `COMMENT` rule takes the line end, and the comment is the next line |
| `driver_tree` | `--print-tree`: "Print parse tree as JSON" | with `--no-lint`, `tree` is indeterminate for a file that does not parse |

Seen while modelling and not among the runs:

* `LL1Analyzer::_LOOK` frees, when it returns from a rule, the bit of the rule it
  returns *to* in `calledRuleStack` (`LL1Analyzer.cpp:107`); a rule that may be empty
  and is called twice in a row is then missed. `BrightScript.g4` has none.
* `--no-lint` ("Disable error reporting") removes the parser's listeners; the lexer
  keeps its `ConsoleErrorListener`.
* The lexer is case-insensitive, while the README of the repository says "Keywords
  must conform to all lower case".
* The binary operators of `expression` are alternatives of their own, so that each has
  a precedence of its own: `a - b + c` is parsed as `a - (b + c)`.

### Bounds

* `token_stream`: `MaxWords = 4` words and comments in every arrangement, then EOF,
  so that comments begin, end, fill and interleave a file; `MaxLook = 3` looks past
  either end of it. `WordSize = 16` stands for 2^64: indices stay below 6, so an
  arithmetic wrap is told from an index. Calls are unlimited.
* `parse`: five files of up to eleven tokens that between them use
  every rule of the fragment (one file is empty), and every file one deletion,
  insertion or replacement away, with three tokens to insert: `IDENTIFIER`, `END`,
  `EXIT`. One edit is where one-token repair is defined; the edited files include
  those with an unfinished loop, where errors follow one another. `parse` runs each
  file through all three uses. `lint_repeats` needs one deletion from the file with a
  `PRINT` (its sub then has no end); `failsafe` uses two equal mistakes in two subs, since
  the state has to be remembered from the first.
* `prediction`: `MaxCalls = 3` predictions in a row, so that the third meets edges
  that two others made, in either mode; ten files, valid and broken, every question a
  parser asks about them. Beside the fragment there is a two-rule grammar whose
  decision needs the parser's call stack, so that full context is really used, and two
  files of expressions: an operator that binds tighter than the one before it, a prefix
  operator, a call that is not closed, so that the loop is decided under the
  precedences 0, 13, 17 and 23 on one DFA.
* `lexer`: every text of two lexemes out of fourteen (keywords, literals begun or
  complete, comment signs, blanks, a character above 127, one that matches nothing),
  of three out of the eight that overlap most, and longer ones for what takes more
  (`#END IF`, exponents, escaped quotes); every two texts of one lexeme and some
  longer ones in turn on one DFA; for the lexer with modes every text of three
  characters and some longer ones. A wrong fallback needs an accepted prefix, a
  failing rest, and a DFA that has or has not seen them, which two lexemes give.
* `lookahead`: `MaxDepth = 8` calls. The fragment nests two rules a loop, so this is
  three loops inside a sub; deeper stacks repeat those. The deadlock check is off
  there, since the walk ends at the end of `startRule`.
* `driver`: two paths, two arguments (one file is found by both, the other by the second
  only, which matters when the first finds nothing), six kinds of text (clean with a
  lexical error; a syntax error before a lexical one; an error at EOF; not UTF-8; one that
  does not open; a directory), options on and off. Saves are unlimited; a deleted file
  may come back.

### Fairness

The parser is one thread that runs while it can, so `Parser` assumes weak fairness of
`Next` as a whole and no more; termination then rests on progress alone. `Fairness`
is written out as "it is over infinitely often or it steps infinitely often", which
is what `WF_vars(Next)` comes to, `Next` without its final stutter being enabled
exactly until the parser is done or canceled. `Lexer` assumes the same of its one thread.
`Driver` assumes weak fairness of the program's own steps and nothing of those who
change files. `TokenStream`, `Asking` and `CachedPrediction` have no liveness: they
serve calls.

## What is proved

`TokenStreamProofs` proves, for every set of well-formed sources, every channel,
every `MaxLook` and every `WordSize` the sources fit into
(`SourcesAssumption`, `BoundsAssumption`):

| theorem | |
|---|---|
| `StreamInvariant` | `Spec => []IInv`, with `IInv == TypeOK /\ BufferIsPrefix /\ CursorOnChannel` |
| `StreamTypeOK`, `StreamBufferIsPrefix`, `StreamCursorOnChannel` | each of the three |
| `StreamImplementsCursor` | `Spec => ImplementsCursor`, the refinement of `TokenCursor` |

None of the three parts is inductive alone. Where the cursor lands depends on what
the buffer holds, and that the buffer stays a prefix depends on `delivered` being its
size. The argument turns the buffer into a number. `Prefix(n)` is the buffer that
holds the first `n` tokens; `BufferIsPrefix` says it is one; each helper (`Fetch`,
`Sync`, `NextOnChannel`, `At`, `Skip`) maps prefixes to prefixes that are no
shorter, and `NextOnChannel` finds the first visible token of the *source*, fetched
or not. Those are the lemmas `FetchOfPrefix` to `AheadOfStream`. Then `...Step`
lemmas, one per action, and `NextCases` put the invariant together. The refinement
uses that a set-up cursor is a function of the source: `FirstIsFirst` for the state
before the first call, `StepImplements` for the actions. The assumption
`Len(src) + 1 < WordSize` is what the `size_t` arithmetic of `sync` needs.

`TokenStreamAnswersProofs` proves, under the same assumptions, what the four queries
return:

| theorem | |
|---|---|
| `StreamLookaheadCorrect` | `Spec => []LookaheadCorrect` |
| `StreamLookbehindCorrect` | `Spec => []LookbehindCorrect` |
| `StreamHiddenRightCorrect` | `Spec => []HiddenRightCorrect` |
| `StreamHiddenLeftCorrect` | `Spec => []HiddenLeftCorrect` |

An answer lasts for one step, so each follows from `IInv` and the step that gave it; no
further invariant is needed. `LT` and `LB` walk from token to token, the properties count
the visible ones: `AheadCounts` and `BehindCounts` relate the two by induction on the
length of the walk (`UpTo`), each step of which adds one token to the count (`ShownNext`,
`ShownBefore`). For the hidden tokens, `HiddenOfPrefix` says that a scan of the buffer is
one of the source, `NextOnChannel` having fetched as far as it has to.

`ParserProofs` proves, for every grammar of the shape
`GrammarAssumption` asks, every set of files that end in their one EOF
(`InputAssumption`), every sequence of passes (`PassAssumption`), and *whatever*
`nextTokens`, `nextTokensIn` and `visitDecision` answer, so for right and wrong
lookahead alike:

| theorem | |
|---|---|
| `ParserInvariant` | `Spec => []IInv`, with `IInv == TypeOK /\ StackFollowsAtn /\ StateFollowsStack` |
| `ParserTypeOK`, `ParserStackFollowsAtn` | two of the three |
| `ParserTreeKeepsTokens` | `Spec => []TreeKeepsTokens` |

`StackFollowsAtn` is not inductive: `startRule` records as its invoking state
whatever `_stateNumber` is, so that the second pass begins like the first rests on
every `exitRule` of the unwinding having restored the state below. That is
`StateFollowsStack`: a state of the ATN while there is a context, the invalid one
when there is none. `ExitFacts` and `LeaveStack` carry it through returning,
recovering and bailing out; `SameStack` serves the actions that leave the contexts
alone. The tree needs the types only: `KeepsStretch` says what leaves for a stretch
of the file add to a tree that keeps the file so far, with the exception that EOF is
consumed without moving on, and every action that touches the tree is one or two
such stretches.

`ParserReportProofs` proves three properties that do depend on what lookahead answers,
under two more assumptions. `EOFAssumption` is about the grammar: nothing calls
`startRule`, it asks for `EOF` as its last token, and no other rule does
(`BrightScript.g4:3`). `LookAssumption` is about `LL1Analyzer`, and little of it: where a
token is asked for, `nextTokens` is that token, and at the end of `startRule`, with no
context left, `EOF` is expected. What lookahead says at decisions and what prediction
answers stays arbitrary.

| theorem | |
|---|---|
| `ParserWholeFileRead` | `Spec => []WholeFileRead` |
| `ParserDefaultReportsMoveOn` | `Spec => []DefaultReportsMoveOn` |
| `ParserCleanTreeSpansFile` | `Spec => []CleanTreeSpansFile` |

Each rests on an invariant of its own beside `IInv`. `EndInv` says that the end of
`startRule` is only reached with the cursor at `EOF`: `match` gets there over it, one-token
deletion does too, since what is deleted is not `EOF` (`DeletedIsNotEOF`), insertion leaves
the cursor there, and `recover` at the outermost level skips to it. `ReportInv` orders the
reports by where the parser was: all were made at or before the cursor, and before it
whenever the strategy is neither recovering nor at the end of the file, which is when it
may report again; and the exception under way is about the cursor or a token ahead. What it
does not say is that no token is reported twice: a prediction may fail at a token ahead, the
parser match its way there and fail at it again. `CleanInv` says
what the tree is while nothing is reported: one leaf for each token passed, and that of
`EOF` exactly when it was matched; the second pass begins with an empty tree
again.

`ParserLanguageProofs` compares the parser with `Language`, for the same grammars, files
and passes (`NoRecursionAssumption` too):

| theorem | |
|---|---|
| `ParserCleanOnlyIfValid` | `Spec => []CleanOnlyIfValid` |
| `ParserReportedIffInvalid` | `Spec /\ []AdvisedWell => []ReportedIffInvalid` |
| `ParserBailsOnlyIfInvalid` | `Spec /\ []AdvisedWell => []BailsOnlyIfInvalid` |

The first needs nothing of prediction: a wrong choice can only lead to a complaint, or to a
way the language has as well. The other two need that lookahead and prediction advise well,
and say that this is all they need: what the parser, its strategies and the second pass do
on top of it neither adds a complaint nor loses one. `AdvisedWell` is not assumed away: it
is an invariant of the run `parse`, for the lookahead and the prediction modelled after the
code, in both modes, and it speaks of the configurations from which the rest of the file
can be parsed, at which the parser then stands all along a valid file.

The language is a recursive function over configurations, `Accepts`, of which the prover
knows nothing: that there is such a function at all has to be shown. `LeastIsFixed` takes
the least of all the functions that are closed under a step of the automaton backwards and
shows that a step leaves it as it is; `AcceptsIsClosed` gets from there that `Accepts` is
one of them. `SoundInv` then says, of the place `Here` the parser has reached: each function
that is closed and true here is true at the start. `BackToHere` shows it for each
action that reports nothing, since each is a move of the automaton; at the end of
`startRule` behind `EOF` (`CleanInv`) all of them are true. `ValidInv` goes the other way:
as long as a file of the language is parsed, the rest is accepted from `Here`, so that a
token that is asked for matches, a rule that ends returns, and where there is a choice
`AdvisedWell` applies.

`DriverProofs` proves all the invariants of the driver, for any arguments, any texts and
any setting of the options (`ArgsAssumption`, `TextAssumption`, `ConfigAssumption`),
whatever is deleted and saved meanwhile:

| theorem | |
|---|---|
| `DriverTypeOK` | `Spec => []TypeOK` |
| `DriverSteadyFilesLinted` | `Spec => []SteadyFilesLinted` |
| `DriverDiesOfKnownCauses` | `Spec => []DiesOfKnownCauses` |
| `DriverNoneSkipped` | `Spec => []NoneSkipped` |
| `DriverVerdictOfTextRead` | `Spec => []VerdictOfTextRead` |
| `DriverLexicalErrorsOnce` | `Spec => []LexicalErrorsOnce` |

These speak of files the loop has left, and none is inductive, since a file is left only
after several steps. `Behind` says that only the file under way is still written about,
so the lines of those before it are kept (`WroteKept`), and `TreeOf` what `tree` and the
text are at each point of the loop's body. `AwayNoted` says that what cannot be opened, and what was said to be missing, is in `away`;
`ArgsListed` that every other name of an argument already looked at is in the list, and that
the loop, when it is over, has gone to the end of the list; with `NoneSkipped` that gives
`SteadyFilesLinted`. `SyntaxInv` and `LexicalInv` say what has been written of the file under
way; after a first pass that gave up, these are the lexical errors up to where it gave
up, from which the second pass goes on. `AscendingFacts` proves that a finite set of
numbers can be put in order, by induction on a bound; `MatchesFacts` and
`ComplaintsFacts` rest on it.

`LexerProofs` proves, for every set of modes and texts without `EOF` in them
(`LexerAssumption`), and *whatever* `computeStartState`, `getReachableConfigSet` and
`addDFAState` answer, so for every set of rules, commands and states the DFA already
holds (`RulesAssumption` is not used):

| theorem | |
|---|---|
| `LexerInvariant` | `Spec => []IInv` |
| `LexerTokensTile` | `Spec => []TokensTile` |

`TokensTile` is not inductive: `failOrAccept` puts the cursor back to where a rule ended
some characters ago, and nothing in the property speaks of that place. `IInv` adds that
it is a place consume has been at (`Place`: its line and column are those of its index),
not before the start of the token in the making and, with it, that this start is where
the pieces end. `ConsumedIsNext` is the one lemma about lines and columns (one more line
feed in a finite set, a new greatest one); `ConcludeKeeps` serves the three ways a match
ends; `NoViableAltStep` shows that what `recover` skips is what the message quotes.

`LexerProofs` goes on with the rest of the lexer's invariants that do not say which
rules there are. They need what `RulesAssumption` says of the rules: a mode has some, what is reached
from their configurations is among them again, and no accepting one is of type `EOF` or
`MORE`, has a `type` command to these, a command to a mode that there is not, or both
`more` and `channel`. `BrightScript.g4` has neither `more`, `type` nor modes. The last
condition is needed: `nextToken` sets the channel once and not for each round of its inner
loop, so that a text ending behind such a rule would have its `EOF` on that channel.

| theorem | |
|---|---|
| `LexerDeliveryInvariant` | `Spec => []DInv` |
| `LexerTypeOK` | `Spec => []TypeOK` |
| `LexerDeliversWellFormed` | `Spec => []DeliversWellFormed` |

`DInv` is inductive relative to `IInv`. Once the end has been seen (`hitEOF`), the cursor
stays there, which needs that a match begun there ends there: the place that is kept is
not before `startIndex` (`StatesKnown`, `EndSeen`). The type and the channel are still as
`nextToken` set them when the commands of a rule run (`Unset`); `ExecutedFacts` says
what a list of commands can make of them and of the modes. A token of type `EOF` then is
made at the end only, and as the last (`OneEOF`). The states of the DFA grow and keep their
numbers (`Grown`), so that the match under way and the end it has kept stay valid
while states and edges are added. With this, what the proofs about the token stream take
for granted (`SourcesAssumption`, the same `WellFormed`) is a theorem about the lexer.

`LexerMatchProofs` is about the loop of `execATN` and its DFA, which is shared by all
texts and grows while they are matched:

| theorem | |
|---|---|
| `LexerFindsLastEnd` | `Spec => []FindsLastEnd` |
| `LexerLongestMatch` | `Spec => []LongestMatch` |

The first holds for all rules that `RulesAssumption` allows. With all the states and edges
earlier matches have left, a match stops after as many characters as one that has only its
start state to go by, and keeps the same last end of a rule, with the same configurations.
Nothing of that is in the loop, which sees numbers of DFA states. `AllFaithful` says of the
DFA of each mode what these stand for: `s0` was made of the start of the mode, and an edge
leads to the set that is reached from its source, or nowhere when that is empty, whichever
text it was added for. `Under` says that the loop is in the state
the simulation has reached after as many characters, that it has not been over before,
and that what `prevAccept` holds is the last end so far (`Kept`); at the end of the text the
cursor stays where it is and only the count goes on. `ExistingTargetStateFinds` and
`ComputeTargetStateFinds` are the two ways of the loop, by an edge and by a new reach,
`FollowFinds` what they share. Edges are kept for characters up to `MAX_DFA_EDGE`
only and not for `EOF`, so that both ways alternate in one match. `Simulated` is a recursive
function; that there is one is shown by `EndlessRun`.

The second adds `SimulationAssumption`: for the texts that are lexed, and all that can be
left of them, and for each mode, the last end of a rule the simulation from nothing meets is
that of the longest match of the first rule, with that rule's commands. It speaks of the
rules and the texts, and of no state of the lexer; TLC evaluates it for the rules and the
texts of `MCLexer`. That the lexer then finds the same, whatever it has lexed before and
however far it read on behind the end of a rule, is what is proved.

These stay with TLC:

* `Terminates`, `SLLSafe`, `Ends` and `Finishes`, which are liveness.
* `AdvisedWell`, `ExpectedExact`, `LookIsComplete`, `LookIsExactInContext` and `LL1Sound`:
  they say what `LL1Analyzer::LOOK` and `adaptivePredict` return. These are walks of a graph
  with a set of places already seen, written with recursive operators; what they return
  for every grammar would be proved by induction over data.
* `CachedPrediction`'s `TypeOK`, `CacheIsTransparent`, `LLDecidesCorrectly`,
  `EdgesAreReaches` and `ContextsCanonical`, for the same reason: closure, merge and reach
  recurse over graph-structured stacks.
* `SimulationAssumption`: what `closure` and `getReachableConfigSet` compute from the
  lexer's ATN is written with recursive operators (`LexerATN`), as are these two in the code.

## What is not modelled

* Left recursion in the parser: `enterRecursionRule`, `pushNewRecursionContext` and
  `unrollRecursionContexts` rebuild the tree around the loop of `expression`. `Parser`
  runs on the fragment, where an expression is an identifier, and says so in
  `NoRecursionAssumption`; only prediction and lookahead meet `expression`. Semantic
  predicates other than those of precedence, which the grammar has none of.
* `LL_EXACT_AMBIG_DETECTION` and the ambiguity reports, which bbsl turns on nowhere.
* Hash collisions. `ATNConfigSet::add` looks up by the hash alone; the hash is modelled
  with its arithmetic, but the decisions of the run are too small for two configurations to
  collide, so nothing is shown about that. Contexts and DFA states are compared by content
  after the hash.
* `mergeArrays` with two arrays that both end in the empty stack (`PredictionContext.cpp:281`
  merges two null parents): the model follows the code there, but no grammar of the runs
  comes to it.
* Lexer predicates and custom actions, which the grammar has none of. The case of
  letters is collapsed: the fragments `[aA]` stand for one letter.
* Message wording, underlining, colours, JSON.
* Parts of the runtime bbsl does not call: rewriter, tree patterns, XPath, unbuffered
  streams, profiling, serialization, parse listeners.

## Plan

Done, in this order: token stream, its abstract cursor and proofs; grammar, lookahead,
prediction; parser with its strategies and passes, and proofs of its invariants;
driver; prediction contexts and the cached simulator; the lexer; prediction for the
left-recursive `expression`; proofs of the answers of the token stream, of the driver, of
what the parser reads and reports and that it is exact, of what the lexer delivers and that
it finds the longest match. To come:

1. Recursion contexts in the parser, and `expression` in its files.
2. `Parser` composed with `TokenStream` in one run, and with `Lexer` under it.
3. `CachedPrediction` with its prediction contexts as parameters, so that the invariants
   that do not depend on how they are merged (`TypeOK`, `EdgesAreReaches`) can be proved.
