---------------------------- MODULE TokenCursor ----------------------------
(***************************************************************************)
(* What a token stream promises the parser: the whole input is there from  *)
(* the start and a cursor stands on one of its visible tokens.  Laziness,  *)
(* the buffer and the comments are not seen.                               *)
(***************************************************************************)
EXTENDS Tokens

CONSTANT Sources

VARIABLES
  input,  (* the whole token sequence        *)
  pos,    (* the index the cursor stands on  *)
  call    (* the call just made              *)

Last == Len(input) - 1
Looks == {"LT", "LB", "fill", "hiddenRight", "hiddenLeft", "count"}

(* j is the first visible token of src at or after i, its EOF if there is none. *)
IsFirst(src, i, j) ==
  /\ j \in 0..(Len(src) - 1)
  /\ Visible(src[j + 1])
  /\ IF i < Len(src) THEN i <= j /\ \A m \in i..(j - 1) : ~Visible(src[m + 1])
                     ELSE j = Len(src) - 1

Start == input \in Sources /\ IsFirst(input, 0, pos) /\ call = [op |-> "new", arg |-> 0]

(* consume takes one token, and never EOF. *)
Advance ==
  /\ call' = [op |-> "consume", arg |-> 0]
  /\ IF pos = Last THEN UNCHANGED pos ELSE IsFirst(input, pos + 1, pos')
  /\ UNCHANGED input

Jump(i) ==
  /\ call' = [op |-> "seek", arg |-> i]
  /\ IsFirst(input, i, pos')
  /\ UNCHANGED input

(* Looking around never moves the cursor. *)
Look ==
  /\ call'.op \in Looks
  /\ UNCHANGED <<input, pos>>

Restart ==
  /\ call' = [op |-> "setTokenSource", arg |-> 0]
  /\ input' \in Sources
  /\ IsFirst(input', 0, pos')

Step ==
  \/ Advance
  \/ \E i \in 0..Len(input) : Jump(i)
  \/ Look
  \/ Restart

Cursor == Start /\ [][Step]_<<input, pos, call>>
=============================================================================
