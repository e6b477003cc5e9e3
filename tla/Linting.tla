------------------------------ MODULE Linting ------------------------------
(***************************************************************************)
(* The parser against the language of its grammar: what the lint tells.    *)
(***************************************************************************)
EXTENDS Parser, Language

(* A file parsed to the end is reported exactly when it is not in the      *)
(* language: nothing valid is complained about by a prediction, a sync or  *)
(* a leftover of the first pass, and nothing invalid slips through.        *)
ReportedIffInvalid ==
  pc = "done" => (out.reports = << >> <=> InLanguage(input))

(* The half that needs nothing of lookahead and prediction: a mistaken     *)
(* choice leads to a report or to an answer the language has as well.      *)
CleanOnlyIfValid == pc = "done" /\ out.reports = << >> => InLanguage(input)

(* main.cpp retries only what the SLL pass gives up: it never gives up a   *)
(* valid file (with --no-lint there is no second chance).                  *)
BailsOnlyIfInvalid == pc = "unwind" => ~InLanguage(input)

(* What the parser asks of lookahead and prediction for that: from where   *)
(* the rest of the file can be parsed, sync finds nothing wrong, and the   *)
(* alternative taken is one to parse it by.                                *)
Read == IF mark.matchedEOF THEN Len(input) + 1 ELSE cur
CanGoOn(s) == Accepts(input)[<<<<s, Stack>>, Read>>]
AdvisedWell ==
  pc \in {"run", "decide"} /\ Decision(node) /\ CanGoOn(node) =>
    IF pc = "run" THEN InSync
    ELSE \E a \in DOMAIN Atn[node].alts \ {INVALID} : Choice.alt = a /\ CanGoOn(Atn[node].alts[a])

(* PredictionMode.h:28-31: SLL gives "the same parse tree that would be    *)
(* returned with the LL prediction mode" or a syntax error.  So a decision *)
(* taken otherwise than LL would does not survive the pass.                *)
SLLSafe ==
  (pc = "decide" /\ mode = "SLL" /\ Choice.alt # visitDecision("LL", node, Stack, input, cur).alt)
    ~> pc = "unwind"

(* What the error messages list and the one-token repairs rely on is what  *)
(* may really come next under the calls made so far, no more and no less.  *)
ExpectedExact ==
  /\ pc = "run" /\ (Token(node) \/ Decision(node)) => Expected(node) = CanFollow(node, Stack)
  /\ pc = "run" /\ Token(node) =>
       nextTokensIn(Atn[node].next, Stack) = CanFollow(Atn[node].next, Stack)
=============================================================================
