-------------------------------- MODULE Lexer --------------------------------
(***************************************************************************)
(* Lexer::nextToken and the loop of LexerATNSimulator::execATN under it    *)
(* (src/antlr/src): a text is cut into tokens by following a DFA that is   *)
(* built on the way and shared by all lexers of the process, remembering   *)
(* the last place where a rule had ended, and falling back to it.          *)
(*                                                                         *)
(* What the rules are is a parameter, so that nothing here depends on it.  *)
(* Indices count from 0, as in the code; a text is a sequence.             *)
(***************************************************************************)
EXTENDS Integers, Sequences, SequencesExt

CONSTANTS
  Char,
  Plans,                    (* sequences of texts, each with the mode it begins in  *)
  ModeNames,
  Wide,                     (* characters above MAX_DFA_EDGE: their edges are not kept *)
  Configs,                  (* the sets of configurations, ordered, that occur      *)
  StartConfigs(_),          (* computeStartState(mode)                              *)
  Reach(_, _),              (* getReachableConfigSet(configs, t), empty if nowhere  *)
  IsAccepting(_), TypeOf(_), ActionsOf(_)   (* what addDFAState makes of configurations *)

EOF == "EOF"

Source == [mode : ModeNames, text : Seq(Char)]
ASSUME LexerAssumption ==
  EOF \notin Char /\ \A p \in Plans : p \in Seq(Source) /\ p # << >>

INVALID_TYPE == "INVALID_TYPE"
SKIP == "SKIP"
MORE == "MORE"
DEFAULT_CHANNEL == 0
LineFeed == "\n"

(* LexerActionType, without the custom actions. No command makes a token   *)
(* of type EOF or MORE, which mean something else to nextToken.            *)
IsCommand(action) ==
  \/ action.do \in {"skip", "more", "channel", "popMode"}
  \/ action.do = "type" /\ action.to \notin {EOF, MORE}
  \/ action.do \in {"mode", "pushMode"} /\ action.to \in ModeNames

(* The commands of a rule. nextToken goes on with the channel as it is     *)
(* after more: a rule with both would hide the token behind it, even EOF.  *)
AreCommands(actions) ==
  /\ Len(actions) \in Nat /\ \A k \in 1..Len(actions) : IsCommand(actions[k])
  /\ \A k, l \in 1..Len(actions) : ~(actions[k].do = "more" /\ actions[l].do = "channel")

(* A mode has rules, none of type EOF or MORE, and with such commands.     *)
ASSUME RulesAssumption ==
  /\ << >> \notin Configs
  /\ \A m \in ModeNames : StartConfigs(m) \in Configs
  /\ \A c \in Configs, char \in Char \union {EOF} : Reach(c, char) \in Configs \union {<< >>}
  /\ \A c \in Configs : IsAccepting(c) => TypeOf(c) \notin {EOF, MORE} /\ AreCommands(ActionsOf(c))

NOSTATE == 0        (* nullptr, and the state ERROR of the DFA *)
NewDFA == [s0 |-> NOSTATE, states |-> << >>, edges |-> [e \in {} |-> NOSTATE]]

VARIABLES
  plan,        (* the texts left, the one being lexed first                *)
  cursor,      (* input->index() with _line and _charPositionInLine        *)
  token,       (* the token in the making: where it started, type, channel *)
  hitEOF,
  modes,       (* mode and modeStack, the mode first                       *)
  startIndex,  (* _startIndex, where the rule being matched began          *)
  prevAccept,  (* _prevAccept: a state and the cursor it was reached with  *)
  s,           (* the DFA state execATN is in                              *)
  dfa,         (* mode -> its DFA: it outlives the lexer                   *)
  phase,       (* next, match, exec, fail (failOrAccept), done             *)
  pieces       (* history: what became of the text, piece by piece         *)

vars == <<plan, cursor, token, hitEOF, modes, startIndex, prevAccept, s, dfa, phase, pieces>>

-----------------------------------------------------------------------------
(* ANTLRInputStream *)
Text == Head(plan).text
LAat(index) == IF index < Len(Text) THEN Text[index + 1] ELSE EOF
t == LAat(cursor.index)

Beginning == [index |-> 0, line |-> 1, column |-> 0]

(* LexerATNSimulator::consume *)
Consumed(c) ==
  IF LAat(c.index) = LineFeed THEN [index |-> c.index + 1, line |-> c.line + 1, column |-> 0]
  ELSE [index |-> c.index + 1, line |-> c.line, column |-> c.column + 1]

(* Mutant: the end of the text is consumed, too. *)
ConsumedAlways(c) == Consumed(c)

Onward(c) == IF LAat(c.index) = EOF THEN c ELSE Consumed(c)

NoAccept == [state |-> NOSTATE, at |-> Beginning]

(* Mutant: the first end of a rule is kept, not the last. *)
CapturedFirst(state, c) ==
  IF prevAccept.state # NOSTATE THEN prevAccept ELSE [state |-> state, at |-> c]

(* captureSimState *)
Captured(state, c) == [state |-> state, at |-> c]

-----------------------------------------------------------------------------
(* Mutant: a token begins where the text skipped before it did. *)
BegunWithSkipped ==
  [start |-> IF pieces # << >> /\ Last(pieces).kind = "skipped" THEN token.start ELSE cursor,
   type |-> INVALID_TYPE, channel |-> DEFAULT_CHANNEL]

(* outerContinue *)
Begun == [start |-> cursor, type |-> INVALID_TYPE, channel |-> DEFAULT_CHANNEL]

Piece(kind, type, channel, start, last) ==
  [kind |-> kind, type |-> type, channel |-> channel, start |-> start, last |-> last]

(* The same piece is noted once, or a lexer that got nowhere would never   *)
(* be seen to come back to where it was.                                   *)
Noted(piece) == IF pieces # << >> /\ Last(pieces) = piece THEN pieces ELSE Append(pieces, piece)

NextToken ==
  /\ phase = "next" /\ ~hitEOF
  /\ token' = Begun
  /\ phase' = "match"
  /\ UNCHANGED <<plan, cursor, hitEOF, modes, startIndex, prevAccept, s, dfa, pieces>>

(* Mutant: the token made at the end is on the channel of the last one. *)
EOFOnLastChannel == Piece("token", EOF, token.channel, cursor, cursor.index - 1)

EOFToken == Piece("token", EOF, DEFAULT_CHANNEL, cursor, cursor.index - 1)

EmitEOF ==
  /\ phase = "next" /\ hitEOF
  /\ pieces' = Noted(EOFToken)
  /\ phase' = "done"
  /\ UNCHANGED <<plan, cursor, token, hitEOF, modes, startIndex, prevAccept, s, dfa>>

-----------------------------------------------------------------------------
(* addDFAState: the number of the state and the DFA with it. *)
WithState(d, configs) ==
  IF Contains(d.states, configs)
  THEN [number |-> CHOOSE k \in DOMAIN d.states : d.states[k] = configs, dfa |-> d]
  ELSE [number |-> Len(d.states) + 1, dfa |-> [d EXCEPT !.states = Append(@, configs)]]

Mode == Head(modes)

(* match, matchATN and the beginning of execATN *)
Match ==
  /\ phase = "match"
  /\ \E start \in {IF dfa[Mode].s0 # NOSTATE THEN [number |-> dfa[Mode].s0, dfa |-> dfa[Mode]]
                   ELSE WithState(dfa[Mode], StartConfigs(Mode))} :
       /\ dfa' = [dfa EXCEPT ![Mode] = [start.dfa EXCEPT !.s0 = start.number]]
       /\ s' = start.number
       /\ prevAccept' = IF IsAccepting(start.dfa.states[start.number])
                        THEN Captured(start.number, cursor) ELSE NoAccept
  /\ startIndex' = cursor.index
  /\ token' = [start |-> token.start, type |-> INVALID_TYPE, channel |-> token.channel]
  /\ phase' = "exec"
  /\ UNCHANGED <<plan, cursor, hitEOF, modes, pieces>>

(* The rest of a round of execATN, with target for the state reached. *)
Follow(target, states) ==
  IF target = NOSTATE
  THEN phase' = "fail" /\ UNCHANGED <<cursor, prevAccept, s>>
  ELSE LET accepts == IsAccepting(states[target])
           break == accepts /\ t = EOF
       IN /\ cursor' = Onward(cursor)
          /\ prevAccept' = IF accepts THEN Captured(target, cursor') ELSE prevAccept
          /\ s' = IF break THEN s ELSE target
          /\ phase' = IF break THEN "fail" ELSE "exec"

Edge == <<s, t>>

(* getExistingTargetState *)
ExistingTargetState ==
  /\ phase = "exec" /\ Edge \in DOMAIN dfa[Mode].edges
  /\ Follow(dfa[Mode].edges[Edge], dfa[Mode].states)
  /\ UNCHANGED <<plan, token, hitEOF, modes, startIndex, dfa, pieces>>

(* addDFAEdge *)
WithEdge(d, target) ==
  IF t \in Wide \union {EOF} THEN d
  ELSE [d EXCEPT !.edges = [e \in DOMAIN @ \union {Edge} |-> IF e = Edge THEN target ELSE @[e]]]

ComputeTargetState ==
  /\ phase = "exec" /\ Edge \notin DOMAIN dfa[Mode].edges
  /\ \E reach \in {Reach(dfa[Mode].states[s], t)} :
       LET added == IF reach = << >> THEN [number |-> NOSTATE, dfa |-> dfa[Mode]]
                    ELSE WithState(dfa[Mode], reach)
       IN /\ dfa' = [dfa EXCEPT ![Mode] = WithEdge(added.dfa, added.number)]
          /\ Follow(added.number, added.dfa.states)
  /\ UNCHANGED <<plan, token, hitEOF, modes, startIndex, pieces>>

-----------------------------------------------------------------------------
(* LexerActionExecutor::execute: l is what the actions change, which stop  *)
(* where popMode finds no mode to go back to.                              *)
Execute(l, action) ==
  CASE l.threw -> l
    [] ~l.threw /\ action.do = "skip" -> [l EXCEPT !.type = SKIP]
    [] ~l.threw /\ action.do = "more" -> [l EXCEPT !.type = MORE]
    [] ~l.threw /\ action.do = "type" -> [l EXCEPT !.type = action.to]
    [] ~l.threw /\ action.do = "channel" -> [l EXCEPT !.channel = action.to]
    [] ~l.threw /\ action.do = "mode" -> [l EXCEPT !.modes = <<action.to>> \o Tail(@)]
    [] ~l.threw /\ action.do = "pushMode" -> [l EXCEPT !.modes = <<action.to>> \o @]
    [] ~l.threw /\ action.do = "popMode" ->
         IF Len(l.modes) = 1 THEN [l EXCEPT !.threw = TRUE] ELSE [l EXCEPT !.modes = Tail(@)]

Executed(actions) ==
  LET l[k \in 0..Len(actions)] ==
        IF k = 0 THEN [type |-> token.type, channel |-> token.channel, modes |-> modes, threw |-> FALSE]
        ELSE Execute(l[k - 1], actions[k])
  IN l[Len(actions)]

(* The rest of nextToken after a match that left the cursor at now. *)
Conclude(now, type, channel, kind, last) ==
  /\ cursor' = now
  /\ hitEOF' = (hitEOF \/ LAat(now.index) = EOF)
  /\ token' = [start |-> token.start, type |-> type, channel |-> channel]
  /\ pieces' = IF type = MORE THEN pieces
               ELSE Noted(Piece(kind, type, channel, token.start, last))
  /\ phase' = IF type = MORE THEN "match" ELSE IF type = EOF THEN "done" ELSE "next"

AcceptedConfigs == dfa[Mode].states[prevAccept.state]

Accept ==
  /\ phase = "fail" /\ prevAccept.state # NOSTATE
  /\ LET l == Executed(ActionsOf(AcceptedConfigs))
         type == IF l.type = INVALID_TYPE THEN TypeOf(AcceptedConfigs) ELSE l.type
     IN /\ ~l.threw
        /\ modes' = l.modes
        /\ Conclude(prevAccept.at, type, l.channel, IF type = SKIP THEN "skipped" ELSE "token",
                    prevAccept.at.index - 1)
  /\ UNCHANGED <<plan, startIndex, prevAccept, s, dfa>>

(* EmptyStackException leaves nextToken; whoever called may call again. *)
PopModeThrows ==
  /\ phase = "fail" /\ prevAccept.state # NOSTATE
  /\ LET l == Executed(ActionsOf(AcceptedConfigs)) IN
       /\ l.threw
       /\ modes' = l.modes
       /\ token' = [start |-> token.start, type |-> l.type, channel |-> l.channel]
       /\ pieces' = Noted(Piece("thrown", l.type, l.channel, token.start,
                                prevAccept.at.index - 1))
  /\ cursor' = prevAccept.at
  /\ phase' = "next"
  /\ UNCHANGED <<plan, hitEOF, startIndex, prevAccept, s, dfa>>

NothingLeft == t = EOF /\ cursor.index = startIndex

EndOfText ==
  /\ phase = "fail" /\ prevAccept.state = NOSTATE /\ NothingLeft
  /\ Conclude(cursor, EOF, token.channel, "token", cursor.index - 1)
  /\ UNCHANGED <<plan, modes, startIndex, prevAccept, s, dfa>>

(* Mutant: what could not be matched is tried again. *)
RecoveredAtStart == token.start

(* recover skips one more character, *)
Recovered == IF t = EOF THEN cursor ELSE Consumed(cursor)

(* the one the message ends with, if the text does not. *)
Quoted == IF cursor.index >= Len(Text) THEN Len(Text) - 1 ELSE cursor.index

NoViableAlt ==
  /\ phase = "fail" /\ prevAccept.state = NOSTATE /\ ~NothingLeft
  /\ Conclude(Recovered, SKIP, token.channel, "error", Quoted)
  /\ UNCHANGED <<plan, modes, startIndex, prevAccept, s, dfa>>

-----------------------------------------------------------------------------
(* A new lexer for the next text. *)
Fresh ==
  /\ cursor' = Beginning
  /\ token' = [start |-> Beginning, type |-> INVALID_TYPE, channel |-> DEFAULT_CHANNEL]
  /\ hitEOF' = FALSE
  /\ modes' = <<Head(plan').mode>>
  /\ startIndex' = 0
  /\ prevAccept' = NoAccept
  /\ s' = NOSTATE
  /\ phase' = "next"
  /\ pieces' = << >>

NextText ==
  /\ phase = "done" /\ Len(plan) > 1
  /\ plan' = Tail(plan)
  /\ Fresh
  /\ UNCHANGED dfa

AllLexed == phase = "done" /\ Len(plan) = 1
Finished == AllLexed /\ UNCHANGED vars

Init ==
  /\ plan \in Plans
  /\ cursor = Beginning
  /\ token = [start |-> Beginning, type |-> INVALID_TYPE, channel |-> DEFAULT_CHANNEL]
  /\ hitEOF = FALSE
  /\ modes = <<Head(plan).mode>>
  /\ startIndex = 0
  /\ prevAccept = NoAccept
  /\ s = NOSTATE
  /\ dfa = [m \in ModeNames |-> NewDFA]
  /\ phase = "next"
  /\ pieces = << >>

Next ==
  \/ NextToken \/ EmitEOF \/ Match \/ ExistingTargetState \/ ComputeTargetState
  \/ Accept \/ PopModeThrows \/ EndOfText \/ NoViableAlt \/ NextText \/ Finished

(* One thread that runs while it can: WF_vars(Next), spelled out. *)
Fairness == []<>AllLexed \/ []<><<TRUE>>_vars

Spec == Init /\ [][Next]_vars /\ Fairness

-----------------------------------------------------------------------------
(* The ranges of the lexer's fields. *)
Cursor == [index : 0..Len(Text), line : 1..(Len(Text) + 1), column : 0..Len(Text)]
TypeOK ==
  /\ plan # << >>
  /\ cursor \in Cursor /\ token.start \in Cursor /\ prevAccept.at \in Cursor
  /\ hitEOF \in BOOLEAN
  /\ modes # << >> /\ Range(modes) \subseteq ModeNames
  /\ startIndex \in 0..cursor.index
  /\ phase \in {"next", "match", "exec", "fail", "done"}
  /\ \A m \in ModeNames :
       /\ dfa[m].s0 \in 0..Len(dfa[m].states)
       /\ \A e \in DOMAIN dfa[m].edges : dfa[m].edges[e] \in 0..Len(dfa[m].states)
  /\ phase \in {"exec", "fail"} => s \in DOMAIN dfa[Mode].states
  /\ phase \in {"exec", "fail"} => prevAccept.state \in 0..Len(dfa[Mode].states)

(* The line and column of an index, counted from the text. *)
LineFeeds(text, index) == {k \in 1..index : text[k] = LineFeed}
CursorAt(text, index) ==
  [index |-> index,
   line |-> 1 + Cardinality(LineFeeds(text, index)),
   column |-> index - Max(LineFeeds(text, index) \union {0})]

(* nextToken, accept and recover together: every character of the text is  *)
(* in one token, one skipped stretch, one error message or one stretch a   *)
(* failing popMode lost, in order, whatever was read ahead and given back; *)
(* each begins at the line and column its index has.                       *)
Reached == IF pieces = << >> THEN 0 ELSE Last(pieces).last + 1
TokensTile ==
  /\ cursor = CursorAt(Text, cursor.index)
  /\ \A k \in DOMAIN pieces :
       /\ pieces[k].start = CursorAt(Text, IF k = 1 THEN 0 ELSE pieces[k - 1].last + 1)
       /\ pieces[k].start.index <= pieces[k].last + 1
  /\ IF phase \in {"next", "done"} THEN cursor.index = Reached ELSE token.start.index = Reached

(* What the token stream is promised: tokens and one EOF, at the end of    *)
(* the text and on the channel every parser sees.                          *)
Stream == INSTANCE Tokens WITH Channel <- DEFAULT_CHANNEL
Delivered ==
  LET fetched[k \in 0..Len(pieces)] ==
        IF k = 0 THEN << >>
        ELSE IF pieces[k].kind = "token" THEN Append(fetched[k - 1], pieces[k]) ELSE fetched[k - 1]
  IN fetched[Len(pieces)]
DeliversWellFormed ==
  phase = "done" => cursor.index = Len(Text) /\ Stream!WellFormed(Delivered)

(* However the text begins and breaks off, lexing it ends. *)
Ends == <>AllLexed
=============================================================================
