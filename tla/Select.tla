-------------------------------- MODULE Select --------------------------------
(***************************************************************************)
(* src/select.c: head() and tail() of a list of arguments, which work on   *)
(* the Lua stack and return how many of its topmost values are results.    *)
(***************************************************************************)
EXTENDS Integers, Sequences, SequencesExt

\* The topmost n values of a stack.
Top(stack, n) == SubSeq(stack, Len(stack) - n + 1, Len(stack))

\* head_lua(): the index is removed, and the stack is cut after idx values.
head_lua(idx, args) ==
    LET narg == Len(args) IN
    IF idx > narg THEN Top(args, narg)
    ELSE IF idx <= 0 THEN Top(args, 0)
    ELSE Top(SubSeq(args, 1, idx), idx)

\* tail_lua(): the index stays below the arguments.
TailCount_short(idx, narg) == narg - idx \* mutant: one value is lost
TailCount(idx, narg) == narg - idx + 1

tail_lua(idx, args) ==
    LET narg == Len(args)
        stack == <<idx>> \o args
    IN  IF idx > narg THEN Top(stack, 0)
        ELSE IF idx <= 1 THEN Top(stack, narg)
        ELSE Top(stack, TailCount(idx, narg))

len_lua(args) == Len(args)
=============================================================================
