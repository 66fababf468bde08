----------------------------- MODULE CallProofs -----------------------------
(***************************************************************************)
(* Theorems about Call: the output of every call, whatever the user        *)
(* function does, and the time of a run of any length.                     *)
(***************************************************************************)
EXTENDS Call, FiniteSetTheorems, SequenceTheorems, TLAPS

Marks == {"start", "line", "end"}

\* The positions of the lines in what was printed.
LinesOf(s) == {i \in DOMAIN s : s[i] = "line"}

-----------------------------------------------------------------------------
(* Sequences of marks.                                                     *)

(* A mark is appended.                                                     *)
LEMMA AppendMark ==
    ASSUME NEW s \in Seq(Marks), NEW x \in Marks
    PROVE  /\ Append(s, x) \in Seq(Marks)
           /\ Append(s, x) # << >>
           /\ Cardinality(LinesOf(Append(s, x))) =
                  Cardinality(LinesOf(s)) + (IF x = "line" THEN 1 ELSE 0)
           /\ Cardinality(LinesOf(s)) \in Nat
<1> DEFINE k == Len(s) + 1
           t == Append(s, x)
<1>1. /\ Len(s) \in Nat /\ DOMAIN s = 1 .. Len(s) /\ DOMAIN t = 1 .. k
      /\ \A i \in 1 .. Len(s) : t[i] = s[i]
      /\ t[k] = x /\ t \in Seq(Marks) /\ t # << >>
  BY AppendProperties
<1>2. IsFiniteSet(DOMAIN s) /\ k \notin DOMAIN s
  BY <1>1, FS_Interval
<1>3. IsFiniteSet(LinesOf(s)) /\ k \notin LinesOf(s)
  BY <1>2, FS_Subset DEF LinesOf
<1>4. LinesOf(t) = IF x = "line" THEN LinesOf(s) \cup {k} ELSE LinesOf(s)
  BY <1>1 DEF LinesOf
<1>5. /\ Cardinality(LinesOf(s) \cup {k}) = Cardinality(LinesOf(s)) + 1
      /\ Cardinality(LinesOf(s)) \in Nat
  BY <1>3, FS_AddElement, FS_CardinalityType
<1> QED
  BY <1>1, <1>4, <1>5

\* One start mark, then lines up to the last mark, which is this one.
Runs(s, last) ==
    /\ s # << >>
    /\ s[1] = "start"
    /\ \A i \in 2 .. Len(s) - 1 : s[i] = "line"
    /\ s[Len(s)] = last

(* Behind a line there may be another mark.                                *)
LEMMA Continue ==
    ASSUME NEW s \in Seq(Marks), NEW x \in Marks, Runs(s, "line")
    PROVE  Runs(Append(s, x), x)
<1> DEFINE t == Append(s, x)
<1>1. /\ Len(s) \in Nat \ {0} /\ Len(t) = Len(s) + 1 /\ t # << >>
      /\ \A i \in 1 .. Len(s) : t[i] = s[i]
      /\ t[Len(s) + 1] = x
  BY AppendProperties, EmptySeq DEF Runs
<1>2. t[1] = "start"
  BY <1>1 DEF Runs
<1>3. ASSUME NEW i \in 2 .. Len(t) - 1 PROVE t[i] = "line"
  BY <1>1 DEF Runs
<1> QED
  BY <1>1, <1>2, <1>3 DEF Runs

(* The first line comes with the start mark.                               *)
LEMMA Opening ==
    LET s == << >> \o <<"start", "line">> IN
    /\ s \in Seq(Marks) /\ Runs(s, "line")
    /\ Cardinality(LinesOf(s)) = 1 /\ Cardinality(LinesOf(<< >>)) = 0
<1> DEFINE s == <<"start", "line">>
<1>1. << >> \o s = s /\ s \in Seq(Marks) /\ s # << >>
  BY ConcatEmptySeq DEF Marks
<1>2. Runs(s, "line")
  BY <1>1 DEF Runs
<1>3. LinesOf(s) = {2} /\ LinesOf(<< >>) = {}
  BY DEF LinesOf
<1> QED
  BY <1>1, <1>2, <1>3, FS_Singleton, FS_EmptySet

-----------------------------------------------------------------------------
(* The output hook.                                                        *)

(* No line is a number of lines.                                           *)
LEMMA NoLines == 0 \in 0 .. MaxLines
  BY BoundAssumption

\* In a call that did not hook by itself, output is open once a line is shown.
Opened == incall /\ ~nested => fns = "call" /\ (hooked <=> shown # << >>)

\* What the call wrote is part of what was written since it began.
Counted == incall => sent <= lines

HookInv ==
    TypeOK /\ CallLeavesNothing /\ Opened /\ Counted /\ Bracketed /\ LinesShown

(* Bracketed and LinesShown in terms of marks.                             *)
LEMMA Shape ==
    /\ Bracketed <=> ( ~nested => \/ shown = << >>
                                  \/ Runs(shown, IF incall THEN "line" ELSE "end") )
    /\ LinesShown <=> (~nested => Cardinality(LinesOf(shown)) = sent)
  BY DEF Bracketed, LinesShown, Runs, LinesOf

(* The hook begins silent.                                                 *)
LEMMA HookInit == Init => HookInv
<1> SUFFICES ASSUME Init PROVE HookInv
  OBVIOUS
<1>1. Cardinality(LinesOf(shown)) = 0 /\ shown \in Seq({"start", "line", "end"})
  BY Opening DEF Init
<1>2. TypeOK
  <2>1. sent \in 0 .. MaxLines /\ lines \in 0 .. MaxLines
    BY NoLines DEF Init
  <2> QED
    BY <1>1, <2>1, Zenon DEF Init, TypeOK
<1>3. CallLeavesNothing /\ Opened /\ Counted
  BY DEF Init, CallLeavesNothing, Opened, Counted
<1>4. Bracketed /\ LinesShown
  BY <1>1, Shape DEF Init
<1> QED
  BY <1>2, <1>3, <1>4 DEF HookInv

(* Every step of the hook and of user code keeps the output in order.      *)
LEMMA HookNext == HookInv /\ [Next]_vars => HookInv'
<1> SUFFICES ASSUME HookInv, [Next]_vars PROVE HookInv'
  OBVIOUS
<1>0. /\ TypeOK /\ CallLeavesNothing /\ Opened /\ Counted /\ Bracketed /\ LinesShown
      /\ shown \in Seq(Marks)
  BY DEF HookInv, TypeOK, Marks
<1>s. /\ Bracketed' <=> ( ~nested' => \/ shown' = << >>
                                      \/ Runs(shown', IF incall' THEN "line" ELSE "end") )
      /\ LinesShown' <=> (~nested' => Cardinality(LinesOf(shown')) = sent')
  BY DEF Bracketed, LinesShown, Runs, LinesOf
<1> USE DEF HookInv
<1>1. CASE CallHook
  <2>1. shown' = << >> /\ Cardinality(LinesOf(shown')) = 0 /\ shown' \in Seq(Marks)
    BY <1>1, Opening DEF CallHook
  <2>2. TypeOK'
    BY <1>0, <1>1, <2>1, NoLines, Zenon DEF CallHook, HookAs, TypeOK, Marks
  <2>3. CallLeavesNothing' /\ Opened' /\ Counted'
    BY <1>1, <2>1 DEF CallHook, HookAs, CallLeavesNothing, Opened, Counted
  <2>4. Bracketed' /\ LinesShown'
    BY <1>1, <1>s, <2>1 DEF CallHook
  <2> QED
    BY <2>2, <2>3, <2>4
<1>2. CASE CallUnhook
  <2>1. /\ shown' = IF hooked /\ fns = "call" THEN Append(shown, "end") ELSE shown
        /\ global' = "real" /\ fns' = "default" /\ hooked' = FALSE /\ incall' = FALSE
        /\ lines' = 0
        /\ incall /\ UNCHANGED <<blocked, stashed, nested, sent>>
    BY <1>0, <1>2 DEF CallUnhook, Unhook, Show, TypeOK
  <2>2. shown' \in Seq(Marks)
    BY <1>0, <2>1, AppendMark DEF Marks
  <2>3. TypeOK'
    BY <1>0, <2>1, <2>2, NoLines, Zenon DEF TypeOK, Marks
  <2>5. CallLeavesNothing' /\ Opened' /\ Counted'
    BY <2>1 DEF CallLeavesNothing, Opened, Counted
  <2>4. ASSUME ~nested PROVE Bracketed' /\ LinesShown'
    <3>1. CASE hooked
      <4>1. shown' = Append(shown, "end") /\ Runs(shown, "line")
        BY <1>0, <2>1, <2>4, <3>1, Shape DEF Opened
      <4>2. Runs(shown', "end") /\ Cardinality(LinesOf(shown')) = Cardinality(LinesOf(shown))
        BY <1>0, <4>1, Continue, AppendMark DEF Marks
      <4> QED
        BY <1>0, <1>s, <2>1, <2>4, <4>2, Shape
    <3>2. CASE ~hooked
      BY <1>0, <1>s, <2>1, <2>4, <3>2, Shape DEF Opened
    <3> QED
      BY <3>1, <3>2
  <2> QED
    BY <1>s, <2>1, <2>3, <2>4, <2>5
<1>3. CASE Printout
  <2>1. /\ lines < MaxLines /\ lines' = lines + 1 /\ hooked' = (hooked \/ ~blocked)
        /\ shown' = IF blocked \/ fns # "call" THEN shown ELSE Output
        /\ sent' = IF incall /\ ~blocked THEN sent + 1 ELSE sent
        /\ UNCHANGED <<global, fns, blocked, incall, stashed, nested>>
    BY <1>3 DEF Printout
  <2>2. /\ Output = IF hooked THEN Append(shown, "line") ELSE shown \o <<"start", "line">>
        /\ Output \in Seq(Marks)
    <3>1. <<"start", "line">> \in Seq(Marks)
      BY DEF Marks
    <3>2. shown \o <<"start", "line">> \in Seq(Marks)
      BY <1>0, <3>1, ConcatProperties
    <3>3. Append(shown, "line") \in Seq(Marks)
      BY <1>0, AppendMark DEF Marks
    <3> QED
      BY <3>2, <3>3 DEF Output
  <2>3. TypeOK'
    <3>1. shown' \in Seq(Marks) /\ hooked' \in BOOLEAN
      BY <1>0, <2>1, <2>2
    <3>2. lines' \in 0 .. MaxLines /\ sent' \in 0 .. MaxLines
      BY <1>0, <2>1, BoundAssumption DEF TypeOK, Counted
    <3> QED
      BY <1>0, <2>1, <3>1, <3>2 DEF TypeOK, Marks
  <2>4. CallLeavesNothing' /\ Counted'
    BY <1>0, <2>1, BoundAssumption DEF TypeOK, CallLeavesNothing, Counted
  <2>5. CASE nested
    BY <1>s, <2>1, <2>3, <2>4, <2>5 DEF Opened
  <2>6. CASE ~nested /\ (~incall \/ blocked)
    <3>1. shown' = shown /\ sent' = sent
      BY <1>0, <2>1, <2>6 DEF CallLeavesNothing
    <3>2. Opened'
      BY <1>0, <2>1, <2>6, <3>1 DEF Opened, TypeOK
    <3> QED
      BY <1>0, <1>s, <2>1, <2>3, <2>4, <3>1, <3>2, Shape
  <2>7. CASE ~nested /\ incall /\ ~blocked
    <3>1. /\ fns = "call" /\ (hooked <=> shown # << >>)
          /\ shown' = Output /\ sent' = sent + 1 /\ hooked'
      BY <1>0, <2>1, <2>7 DEF Opened
    <3>2. /\ Runs(shown', "line")
          /\ Cardinality(LinesOf(shown')) = sent'
      <4>1. CASE hooked
        <5>1. shown' = Append(shown, "line") /\ Runs(shown, "line")
          BY <1>0, <2>2, <2>7, <3>1, <4>1, Shape
        <5>2. Cardinality(LinesOf(shown)) = sent
          BY <1>0, <2>7, Shape
        <5>3. /\ Cardinality(LinesOf(shown')) = Cardinality(LinesOf(shown)) + 1
              /\ Runs(shown', "line")
          BY <1>0, <5>1, AppendMark, Continue DEF Marks
        <5> QED
          BY <3>1, <5>2, <5>3
      <4>2. CASE ~hooked
        <5>1. shown = << >> /\ shown' = << >> \o <<"start", "line">>
          BY <2>2, <3>1, <4>2
        <5>2. sent = 0
          BY <1>0, <2>7, <5>1, Shape, Opening
        <5> QED
          BY <3>1, <5>1, <5>2, Opening
      <4> QED
        BY <4>1, <4>2
    <3>3. shown' # << >>
      BY <3>2 DEF Runs
    <3> QED
      BY <1>s, <2>1, <2>3, <2>4, <2>7, <3>1, <3>2, <3>3 DEF Opened
  <2> QED
    BY <2>5, <2>6, <2>7
<1>4. ASSUME NEW b \in BOOLEAN, SetBlocked(b) PROVE HookInv'
  BY <1>0, <1>s, <1>4, Shape
  DEF SetBlocked, TypeOK, CallLeavesNothing, Opened, Counted
<1>5. CASE Stash
  BY <1>0, <1>s, <1>5, Shape
  DEF Stash, TypeOK, CallLeavesNothing, Opened, Counted
<1>6. CASE ReplaceGlobal
  BY <1>0, <1>s, <1>6, Shape
  DEF ReplaceGlobal, TypeOK, CallLeavesNothing, Opened, Counted
<1>7. CASE NestedHook
  BY <1>0, <1>s, <1>7
  DEF NestedHook, HookAs, TypeOK, CallLeavesNothing, Opened, Counted
<1>8. CASE NestedUnhook
  <2>1. /\ shown' \in Seq(Marks) /\ nested' /\ incall'
        /\ global' = "real" /\ fns' = "default" /\ ~hooked' /\ hooked' \in BOOLEAN
        /\ UNCHANGED <<blocked, incall, stashed, sent, lines>>
    BY <1>0, <1>8, AppendMark DEF NestedUnhook, Unhook, Show, Marks
  <2> QED
    BY <1>0, <1>s, <2>1 DEF TypeOK, CallLeavesNothing, Opened, Counted, Marks
<1>9. CASE UNCHANGED vars
  BY <1>0, <1>s, <1>9, Shape
  DEF vars, TypeOK, CallLeavesNothing, Opened, Counted
<1> QED
  BY <1>1, <1>2, <1>3, <1>4, <1>5, <1>6, <1>7, <1>8, <1>9 DEF Next

-----------------------------------------------------------------------------
(* The calls of a run.                                                     *)

(* What happens to the hook in a run of calls is what can happen to it.    *)
LEMMA CallIsHook == [CallNext]_cvars => [Next]_vars
<1> SUFFICES ASSUME [CallNext]_cvars PROVE [Next]_vars
  OBVIOUS
<1>1. CASE Enter
  BY <1>1 DEF Enter, Next
<1>2. CASE StartFunc
  BY <1>2 DEF StartFunc
<1>3. CASE EndFunc
  BY <1>3 DEF EndFunc
<1>4. CASE Leave
  BY <1>4 DEF Leave, Next
<1>5. CASE UserCode
  BY <1>5 DEF UserCode, Next
<1>6. CASE TimePasses
  BY <1>6 DEF TimePasses
<1>7. CASE UNCHANGED cvars
  BY <1>7 DEF cvars
<1> QED
  BY <1>1, <1>2, <1>3, <1>4, <1>5, <1>6, <1>7 DEF CallNext

\* The timer and the place in call().
TimeInv ==
    /\ at \in {"out", "hooked", "func", "stopped"}
    /\ incall <=> at # "out"
    /\ clock \in 1 .. MaxClock
    /\ start \in 0 .. clock /\ total \in 0 .. start
    /\ spent \in Nat
    /\ TotalIsCallTime

(* Every step of a run keeps the time.                                     *)
LEMMA TimeNext == TimeInv /\ [CallNext]_cvars => TimeInv'
<1> SUFFICES ASSUME TimeInv, [CallNext]_cvars PROVE TimeInv'
  OBVIOUS
<1> USE DEF TimeInv, TotalIsCallTime
<1>1. CASE Enter
  BY <1>1 DEF Enter, CallHook, timer
<1>2. CASE StartFunc
  BY <1>2 DEF StartFunc, T!Start, T!StartTime, vars
<1>3. CASE EndFunc
  BY <1>3 DEF EndFunc, T!Stop, T!Elapsed, vars
<1>4. CASE Leave
  BY <1>4 DEF Leave, CallUnhook, timer
<1>5. CASE UserCode
  <2>1. UNCHANGED <<incall, at, clock, total, start, spent>>
    BY <1>5 DEF UserCode, Printout, Stash, ReplaceGlobal, NestedHook, NestedUnhook,
                SetBlocked, timer
  <2> QED
    BY <2>1
<1>6. CASE TimePasses
  BY <1>6, ClockAssumption DEF TimePasses, T!Tick, vars
<1>7. CASE UNCHANGED cvars
  BY <1>7 DEF cvars, vars, timer
<1> QED
  BY <1>1, <1>2, <1>3, <1>4, <1>5, <1>6, <1>7 DEF CallNext

(* Both invariants hold in every state of a run.                           *)
THEOREM Invariant == CallSpec => [](HookInv /\ TimeInv)
<1>1. CallInit => HookInv /\ TimeInv
  <2> SUFFICES ASSUME CallInit PROVE HookInv /\ TimeInv
    OBVIOUS
  <2>1. HookInv
    BY HookInit DEF CallInit
  <2>2. TimeInv
    BY ClockAssumption DEF CallInit, Init, T!Init, TimeInv, TotalIsCallTime
  <2> QED
    BY <2>1, <2>2
<1>2. HookInv /\ TimeInv /\ [CallNext]_cvars => (HookInv /\ TimeInv)'
  BY HookNext, TimeNext, CallIsHook
<1> QED
  BY <1>1, <1>2, PTL DEF CallSpec

-----------------------------------------------------------------------------
(* Theorems.                                                               *)

(* call() uses the hook as any user of it may (lib/runner.lua:55-59): what *)
(* holds of IOHook holds in every run.                                     *)
THEOREM CallImplementsHook == CallSpec => Spec
<1>1. CallInit => Init
  BY DEF CallInit
<1> QED
  BY <1>1, CallIsHook, PTL DEF CallSpec, Spec

(* Whatever user code keeps, replaces and calls, the state keeps its type, *)
(* and the timer does not run ahead of the clock.                          *)
THEOREM CallTypeCorrect == CallSpec => []CallTypeOK
<1>1. HookInv /\ TimeInv => CallTypeOK
  BY DEF HookInv, TimeInv, CallTypeOK
<1> QED
  BY <1>1, Invariant, PTL

(* The output of a call that does not hook by itself is nothing, or stands *)
(* between one start mark and one end mark (lib/iohook.lua:53-61, 95-111). *)
THEOREM OutputBracketed == CallSpec => []Bracketed
<1>1. HookInv => Bracketed
  BY DEF HookInv
<1> QED
  BY <1>1, Invariant, PTL

(* Every line that such a call writes while output is not blocked is shown *)
(* once (lib/iohook.lua:53-61, 95-101).                                    *)
THEOREM EveryLineShown == CallSpec => []LinesShown
<1>1. HookInv => LinesShown
  BY DEF HookInv
<1> QED
  BY <1>1, Invariant, PTL

(* No call leaves its writers or functions behind, however user code used  *)
(* hook() and unhook() (lib/iohook.lua:79-114).                            *)
THEOREM NothingLeftBehind == CallSpec => []CallLeavesNothing
<1>1. HookInv => CallLeavesNothing
  BY DEF HookInv
<1> QED
  BY <1>1, Invariant, PTL

(* The time of the run is that of the user functions, after any number of  *)
(* calls and however long each step takes                                  *)
(* (src/timer.c:146-181, lib/runner.lua:56-58).                            *)
THEOREM TimeIsCallTime == CallSpec => []TotalIsCallTime
<1>1. TimeInv => TotalIsCallTime
  BY DEF TimeInv
<1> QED
  BY <1>1, Invariant, PTL
=============================================================================
