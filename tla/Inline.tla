------------------------------- MODULE Inline -------------------------------
(***************************************************************************)
(* The inline option of lib/eval.lua: a file that is not named _test.lua   *)
(* is run as a test file when a comment line "lua-testcase: true" is       *)
(* followed by the line of the placeholder "local testcase = {}".  The     *)
(* text is read line by line; a line is known by what the patterns of      *)
(* checkline() see in it.                                                  *)
(***************************************************************************)
EXTENDS Integers, Sequences

\* The option with the value true, false or another; the placeholder, alone or
\* with more code behind it; any other line.
TextLine == {"true", "false", "invalid", "placeholder", "placeholder_code", "code"}

\* find(line, PLACEHOLDER), find(line, INLINE_OPT)
IsPlaceholder(l) == l \in {"placeholder", "placeholder_code"}
IsOption(l) == l \in {"true", "false", "invalid"}

\* ctx of parse_inlineopt(); lineno is that of the last line read.
NoCtx == [ok |-> TRUE, lineno |-> 0, chknext |-> FALSE, defline |-> 0, decl |-> 0]

\* VALID_OPTVAL and the defline that is set already
Refused(ctx, l) == l = "invalid" \/ ctx.defline # 0

\* checkline() of the line after the option.
CheckNext_keep(ctx, l) == \* mutant: ctx.chknext is not reset
    IF IsPlaceholder(l) THEN [ctx EXCEPT !.decl = ctx.lineno]
    ELSE [ctx EXCEPT !.ok = FALSE]
CheckNext(ctx, l) ==
    IF IsPlaceholder(l) THEN [ctx EXCEPT !.chknext = FALSE, !.decl = ctx.lineno]
    ELSE [ctx EXCEPT !.ok = FALSE]

\* checkline() of any other line.
CheckOption(ctx, l) ==
    IF ~IsOption(l) THEN ctx
    ELSE IF Refused(ctx, l) THEN [ctx EXCEPT !.ok = FALSE]
    ELSE IF l = "true" THEN [ctx EXCEPT !.chknext = TRUE, !.defline = ctx.lineno]
    ELSE ctx

checkline(ctx, l) ==
    LET c == [ctx EXCEPT !.lineno = @ + 1] IN
    IF ~ctx.ok THEN ctx
    ELSE IF c.chknext THEN CheckNext(c, l) ELSE CheckOption(c, l)

\* parse_inlineopt(), and what eval() does with its results.
parse_inlineopt(text) ==
    LET ctx[n \in 0 .. Len(text)] ==
            IF n = 0 THEN NoCtx ELSE checkline(ctx[n - 1], text[n])
    IN  ctx[Len(text)]

Outcome(ctx) ==
    IF ~ctx.ok \/ (ctx.chknext /\ ctx.decl = 0) THEN "error"
    ELSE IF ctx.decl # 0 THEN "run" ELSE "skipped"
=============================================================================
