---------------------------- MODULE HelpersProofs ----------------------------
(***************************************************************************)
(* Theorems about Helpers: for arguments and texts of any length, any      *)
(* infinity, and any finite tree of files.                                 *)
(***************************************************************************)
EXTENDS Helpers, FiniteSetTheorems, SequenceTheorems, WellFoundedInduction, TLAPS

(* A set with 0 that has the successor of each of its numbers has them all.*)
LEMMA NatInd ==
    ASSUME NEW S, 0 \in S, \A n \in Nat : n \in S => n + 1 \in S
    PROVE  Nat \subseteq S
<1> DEFINE R == OpToRel(<, Nat)
           T == Nat \ S
<1> SUFFICES ASSUME T # {} PROVE FALSE
  OBVIOUS
<1>1. IsWellFoundedOn(R, Nat)
  BY NatLessThanWellFounded
<1>2. \A x, y \in Nat : x < y => <<x, y>> \in R
  BY DEF OpToRel
<1> HIDE DEF R
<1>3. PICK x \in T : \A y \in T : ~ (<<y, x>> \in R)
  BY <1>1, WFMin
<1>4. x \in Nat /\ x \notin S
  BY <1>3
<1>5. x # 0
  BY <1>4
<1>6. x - 1 \in Nat /\ x - 1 < x /\ (x - 1) + 1 = x
  BY <1>4, <1>5
<1>7. x - 1 \notin T
  BY <1>2, <1>3, <1>4, <1>6
<1> QED
  BY <1>4, <1>6, <1>7

-----------------------------------------------------------------------------
(* The questions.                                                          *)

\* An argument: the value of --testcase is what stands between its commas.
Part == Words \cup {""}
Argument ==
    [kind : {"path"}, value : Words]
    \cup [kind : Flags \cup {"--unknown"}, value : {""}]
    \cup [kind : {"--testcase"}, value : Seq(Part)]

\* The questions to each of them.
OfGetopts == [fn : {"getopts"}, args : Seq(Argument)]
OfInline == [fn : {"inline"}, text : Seq(TextLine)]
OfSelect == [fn : {"select"}, idx : Int, args : Seq(Words)]
OfLimit ==
    [fn : {"rlimit"}, old : Limits, cur : LimitArg, max : LimitArg,
     privileged : BOOLEAN]
OfStat == [fn : {"stat"}, tree : Tree, name : Entry, follow : BOOLEAN]

(* What is short is a sequence.                                            *)
LEMMA ShortSeq == \A S, n : SeqOf(S, n) \subseteq Seq(S)
  BY DEF SeqOf

(* A question is one of them.                                              *)
LEMMA Asking ==
    ASSUME ask \in Questions
    PROVE  /\ ask.fn = "getopts" => ask \in OfGetopts
           /\ ask.fn = "inline" => ask \in OfInline
           /\ ask.fn = "select" => ask \in OfSelect
           /\ ask.fn = "rlimit" => ask \in OfLimit
           /\ ask.fn = "stat" => ask \in OfStat
<1> DEFINE texts == SeqOf(TextLine, MaxLines)
           lists == SeqOf(Words, MaxArgs)
           lines == SeqOf(Arguments, MaxArgs)
           indexes == -MaxIndex .. MaxArgs + MaxIndex
<1>1. texts \subseteq Seq(TextLine) /\ lists \subseteq Seq(Words)
  BY ShortSeq
<1>2. indexes \subseteq Int
  OBVIOUS
<1>3. \/ ask \in [fn : {"getopts"}, args : lines]
      \/ ask \in [fn : {"inline"}, text : texts]
      \/ ask \in [fn : {"select"}, idx : indexes, args : lists]
      \/ ask \in [fn : {"signal"}, on : Platform, name : SignalName]
      \/ ask \in OfLimit
      \/ ask \in OfStat
  BY DEF Questions, OfLimit, OfStat
<1> HIDE DEF texts, lists, lines, indexes
<1>4. CASE ask \in [fn : {"getopts"}, args : lines]
  <2>1. lines \subseteq Seq(Argument)
    <3>1. Arguments \subseteq Argument
      BY ShortSeq DEF Arguments, Argument, Values, Part
    <3>2. lines \subseteq Seq(Arguments)
      BY ShortSeq DEF lines
    <3> QED
      BY <3>1, <3>2
  <2> QED
    BY <1>4, <2>1 DEF OfGetopts
<1>5. CASE ask \in [fn : {"inline"}, text : texts]
  BY <1>1, <1>5 DEF OfInline
<1>6. CASE ask \in [fn : {"select"}, idx : indexes, args : lists]
  BY <1>1, <1>2, <1>6 DEF OfSelect
<1>7. CASE ask \in [fn : {"signal"}, on : Platform, name : SignalName]
  BY <1>7
<1>8. CASE ask \in OfLimit
  BY <1>8 DEF OfLimit
<1>9. CASE ask \in OfStat
  BY <1>9 DEF OfStat
<1> QED
  BY <1>3, <1>4, <1>5, <1>6, <1>7, <1>8, <1>9

(* A question stays what it is.                                            *)
LEMMA AskingAlways == Spec => [](ask \in Questions)
<1>1. Init => ask \in Questions
  BY DEF Init
<1>2. ask \in Questions /\ [Next]_ask => (ask \in Questions)'
  BY DEF Next
<1> QED
  BY <1>1, <1>2, PTL DEF Spec

-----------------------------------------------------------------------------
(* Resource limits.                                                        *)

(* For any infinity: an error leaves the limits, and what a call shows     *)
(* brings the soft limit back (src/rlimit.c:153-255).                      *)
THEOREM LimitsRestoredHolds == Spec => []LimitsRestored
<1>1. ASSUME ask \in OfLimit PROVE LimitsRestored
  <2> DEFINE old == ask.old
             cur == ask.cur
             max == ask.max
             privileged == ask.privileged
  <2>1. /\ old.cur \in Nat /\ old.max \in Nat /\ old.cur <= old.max
        /\ old.max <= Infinity /\ Infinity \in Nat
        /\ old = [cur |-> old.cur, max |-> old.max]
    BY <1>1, InfinityAssumption DEF OfLimit, Limits, Limit
  <2>2. cur \in LimitArg /\ max \in LimitArg
    BY <1>1 DEF OfLimit
  <2>3. \A arg \in LimitArg : arg \in Int /\ arg >= -2 /\ arg < Infinity
    BY InfinityAssumption DEF LimitArg, Absent
  <2> DEFINE new == NewLimits(old, cur, max, privileged)
             asked == [cur |-> Wanted(cur, old.cur), max |-> Wanted(max, old.max)]
             failed == Fails(old, cur, max, privileged)
  <2>4. new = IF failed THEN old ELSE asked
    BY DEF NewLimits, Fails
  <2>5. /\ asked.cur \in Nat /\ asked.max \in Nat
        /\ asked.cur <= Infinity /\ asked.max <= Infinity
        /\ Shown(asked.cur) = IF cur = Absent THEN Shown(old.cur) ELSE cur
        /\ Shown(asked.max) = IF max = Absent THEN Shown(old.max) ELSE max
    BY <2>1, <2>2, <2>3 DEF Wanted, Shown, Absent
  <2>6. ~failed => asked.cur <= asked.max
    BY <2>5 DEF Fails, Inverted
  <2> HIDE DEF old, cur, max, privileged, failed, asked
  <2>7. /\ new \in [cur : Nat, max : Nat] /\ new.max <= Infinity
        /\ new.cur <= new.max
    BY <2>1, <2>4, <2>5, <2>6 DEF asked
  <2> HIDE DEF new
  <2>8. ASSUME new.max >= old.cur
        PROVE  NewLimits(new, Shown(old.cur), Absent, FALSE)
                   = [new EXCEPT !.cur = old.cur]
    <3>1. Wanted(Shown(old.cur), new.cur) = old.cur
      BY <2>1 DEF Wanted, Shown, Absent
    <3>2. Wanted(Absent, new.max) = new.max
      BY DEF Wanted
    <3>3. ~(old.cur > new.max) /\ ~(new.max > new.max)
      BY <2>1, <2>7, <2>8
    <3>4. [cur |-> old.cur, max |-> new.max] = [new EXCEPT !.cur = old.cur]
      BY <2>7
    <3> QED
      BY <3>1, <3>2, <3>3, <3>4 DEF NewLimits, Inverted, Raised
  <2>9. IF failed THEN new = old
        ELSE /\ Shown(new.cur) = IF cur = Absent THEN Shown(old.cur) ELSE cur
             /\ Shown(new.max) = IF max = Absent THEN Shown(old.max) ELSE max
    BY <2>4, <2>5
  <2> QED
    BY <2>8, <2>9
       DEF LimitsRestored, old, cur, max, privileged, new, failed
<1>2. ask \in Questions => LimitsRestored
  BY <1>1, Asking DEF LimitsRestored
<1> QED
  BY <1>2, AskingAlways, PTL

-----------------------------------------------------------------------------
(* The arguments that are cut in two.                                      *)

(* The results of head() are the first idx arguments, ...                  *)
LEMMA HeadIs ==
    ASSUME NEW args \in Seq(Words), NEW idx \in Int
    PROVE  /\ idx > Len(args) => head_lua(idx, args) = args
           /\ idx <= Len(args) => head_lua(idx, args) = SubSeq(args, 1, idx)
<1> DEFINE n == Len(args)
<1>1. n \in Nat
  BY LenProperties
<1>2. CASE idx > n
  <2>1. head_lua(idx, args) = SubSeq(args, n - n + 1, n)
    BY <1>2 DEF head_lua, Top
  <2>2. n - n + 1 = 1
    BY <1>1
  <2> QED
    BY <1>2, <2>1, <2>2, SubSeqFull
<1>3. CASE idx <= 0
  <2>1. head_lua(idx, args) = SubSeq(args, n - 0 + 1, n)
    BY <1>1, <1>3 DEF head_lua, Top
  <2>2. SubSeq(args, n - 0 + 1, n) = << >>
    BY <1>1, SubSeqEmpty
  <2>3. SubSeq(args, 1, idx) = << >>
    BY <1>3, SubSeqEmpty
  <2> QED
    BY <2>1, <2>2, <2>3
<1>4. CASE 1 <= idx /\ idx <= n
  <2> DEFINE s == SubSeq(args, 1, idx)
  <2>1. s \in Seq(Words) /\ Len(s) = idx
    <3>1. \A i \in 1 .. idx : args[i] \in Words
      BY <1>1, <1>4, ElementOfSeq
    <3>2. s \in Seq(Words) /\ Len(s) = IF 1 <= idx THEN idx - 1 + 1 ELSE 0
      BY <3>1, SubSeqProperties
    <3> QED
      BY <1>4, <3>2
  <2>2. head_lua(idx, args) = SubSeq(s, Len(s) - idx + 1, Len(s))
    BY <1>1, <1>4 DEF head_lua, Top
  <2> HIDE DEF s
  <2>3. Len(s) - idx + 1 = 1
    BY <2>1
  <2>4. head_lua(idx, args) = s
    BY <2>1, <2>2, <2>3, SubSeqFull
  <2> QED
    BY <1>1, <1>4, <2>4 DEF s
<1> QED
  BY <1>1, <1>2, <1>3, <1>4

(* ... and those of tail() are the arguments from idx on.                  *)
LEMMA TailIs ==
    ASSUME NEW args \in Seq(Words), NEW idx \in Int
    PROVE  /\ idx <= 1 => tail_lua(idx, args) = args
           /\ idx > 1 => tail_lua(idx, args) = SubSeq(args, idx, Len(args))
<1> DEFINE n == Len(args)
           S == Words \cup {idx}
           stack == <<idx>> \o args
<1>1. n \in Nat /\ args \in Seq(S) /\ <<idx>> \in Seq(S)
  BY LenProperties, SeqMonotonic
<1>2. /\ stack \in Seq(S) /\ Len(stack) = n + 1
      /\ \A i \in 1 .. n : stack[i + 1] = args[i]
  <2>1. /\ stack \in Seq(S) /\ Len(stack) = Len(<<idx>>) + Len(args)
        /\ \A i \in 1 .. Len(<<idx>>) + Len(args) :
               stack[i] = IF i <= Len(<<idx>>) THEN <<idx>>[i] ELSE args[i - Len(<<idx>>)]
    BY <1>1, ConcatProperties
  <2>2. Len(<<idx>>) = 1
    OBVIOUS
  <2> HIDE DEF stack
  <2>3. \A i \in 1 .. n : i + 1 \in 1 .. 1 + n /\ ~(i + 1 <= 1) /\ (i + 1) - 1 = i
    BY <1>1
  <2> QED
    BY <1>1, <2>1, <2>2, <2>3
<1>3. tail_lua(idx, args) =
          IF idx > n THEN Top(stack, 0)
          ELSE IF idx <= 1 THEN Top(stack, n)
          ELSE Top(stack, n - idx + 1)
  BY DEF tail_lua, TailCount
<1> HIDE DEF stack, S
(* The topmost k values of the stack are the arguments from n - k + 1 on.  *)
<1>4. ASSUME NEW k \in 0 .. n
      PROVE  Top(stack, k) = SubSeq(args, n - k + 1, n)
  <2> DEFINE a == SubSeq(stack, n + 1 - k + 1, n + 1)
             b == SubSeq(args, n - k + 1, n)
  <2>1. Top(stack, k) = a
    BY <1>2 DEF Top
  <2>2. /\ \A i \in n + 1 - k + 1 .. n + 1 : stack[i] \in S
        /\ \A i \in n - k + 1 .. n : args[i] \in S
    BY <1>1, <1>2, ElementOfSeq
  <2>3. /\ a \in Seq(S)
        /\ Len(a) = IF n + 1 - k + 1 <= n + 1 THEN (n + 1) - (n + 1 - k + 1) + 1 ELSE 0
        /\ \A i \in 1 .. (n + 1) - (n + 1 - k + 1) + 1 :
               a[i] = stack[(n + 1 - k + 1) + i - 1]
    BY <1>1, <2>2, SubSeqProperties
  <2>4. /\ b \in Seq(S)
        /\ Len(b) = IF n - k + 1 <= n THEN n - (n - k + 1) + 1 ELSE 0
        /\ \A i \in 1 .. n - (n - k + 1) + 1 : b[i] = args[(n - k + 1) + i - 1]
    BY <1>1, <2>2, SubSeqProperties
  <2> HIDE DEF a, b
  <2>5. Len(a) = k /\ Len(b) = k
    BY <1>1, <2>3, <2>4
  <2>6. ASSUME NEW i \in 1 .. k PROVE a[i] = b[i]
    <3>1. a[i] = stack[(n - k + i) + 1]
      <4>1. /\ i \in 1 .. (n + 1) - (n + 1 - k + 1) + 1
            /\ (n + 1 - k + 1) + i - 1 = (n - k + i) + 1
        BY <1>1
      <4> QED
        BY <2>3, <4>1
    <3>2. b[i] = args[n - k + i]
      <4>1. i \in 1 .. n - (n - k + 1) + 1 /\ (n - k + 1) + i - 1 = n - k + i
        BY <1>1
      <4> QED
        BY <2>4, <4>1
    <3>3. n - k + i \in 1 .. n
      BY <1>1
    <3> QED
      BY <1>2, <3>1, <3>2, <3>3
  <2>7. a = b
    BY <2>3, <2>4, <2>5, <2>6, SeqEqual
  <2> QED
    BY <2>1, <2>7 DEF b
<1>5. CASE idx > n
  <2>1. Top(stack, 0) = SubSeq(args, n - 0 + 1, n)
    BY <1>1, <1>4
  <2>2. SubSeq(args, n - 0 + 1, n) = << >>
    BY <1>1, SubSeqEmpty
  <2>3. idx > 1 => SubSeq(args, idx, n) = << >>
    BY <1>1, <1>5, SubSeqEmpty
  <2>4. idx <= 1 => args = << >>
    <3>1. idx <= 1 => n = 0
      BY <1>1, <1>5
    <3> QED
      BY <3>1, EmptySeq
  <2> QED
    BY <1>3, <1>5, <2>1, <2>2, <2>3, <2>4
<1>6. CASE idx <= n /\ idx <= 1
  <2>1. Top(stack, n) = SubSeq(args, n - n + 1, n)
    BY <1>1, <1>4
  <2>2. n - n + 1 = 1
    BY <1>1
  <2>3. Top(stack, n) = args
    BY <2>1, <2>2, SubSeqFull
  <2> QED
    BY <1>1, <1>3, <1>6, <2>3
<1>7. CASE idx <= n /\ idx > 1
  <2>1. n - idx + 1 \in 0 .. n /\ n - (n - idx + 1) + 1 = idx
    BY <1>1, <1>7
  <2>2. Top(stack, n - idx + 1) = SubSeq(args, idx, n)
    BY <1>4, <2>1
  <2> QED
    BY <1>1, <1>3, <1>7, <2>2
<1> QED
  BY <1>1, <1>5, <1>6, <1>7

(* For any arguments and any index, head(n) and tail(n + 1) lose nothing   *)
(* and repeat nothing (src/select.c:31-59).                                *)
THEOREM HeadAndTailHolds == Spec => []HeadAndTail
<1>1. ASSUME ask \in OfSelect PROVE HeadAndTail
  <2> DEFINE args == ask.args
             idx == ask.idx
             n == Len(args)
  <2>1. args \in Seq(Words) /\ idx \in Int /\ idx + 1 \in Int
    BY <1>1 DEF OfSelect
  <2> HIDE DEF args, idx
  <2>2. n \in Nat
    BY <2>1, LenProperties
  <2>3. /\ idx + 1 <= 1 => tail_lua(idx + 1, args) = args
        /\ idx + 1 > 1 => tail_lua(idx + 1, args) = SubSeq(args, idx + 1, n)
    BY <2>1, TailIs
  <2>4. /\ idx <= 1 => tail_lua(idx, args) = args
        /\ idx > 1 => tail_lua(idx, args) = SubSeq(args, idx, n)
    BY <2>1, TailIs
  <2>5. /\ idx > n => head_lua(idx, args) = args
        /\ idx <= n => head_lua(idx, args) = SubSeq(args, 1, idx)
    BY <2>1, HeadIs
  <2>6. head_lua(idx, args) \o tail_lua(idx + 1, args) = args
    <3>1. CASE idx <= 0
      <4>1. tail_lua(idx + 1, args) = args
        BY <2>1, <2>3, <3>1
      <4>2. head_lua(idx, args) = << >>
        BY <2>1, <2>2, <2>5, <3>1, SubSeqEmpty
      <4> QED
        BY <2>1, <4>1, <4>2, ConcatEmptySeq
    <3>2. CASE 1 <= idx /\ idx <= n
      <4>1. tail_lua(idx + 1, args) = SubSeq(args, idx + 1, n)
        BY <2>1, <2>3, <3>2
      <4>2. head_lua(idx, args) = SubSeq(args, 1, idx)
        BY <2>1, <2>2, <2>5, <3>2
      <4>3. SubSeq(args, 1, idx) \o SubSeq(args, idx + 1, n) = SubSeq(args, 1, n)
        BY <2>1, <2>2, <3>2, ConcatAdjacentSubSeq
      <4> QED
        BY <2>1, <4>1, <4>2, <4>3, SubSeqFull
    <3>3. CASE idx > n /\ idx >= 1
      <4>1. tail_lua(idx + 1, args) = << >>
        BY <2>1, <2>2, <2>3, <3>3, SubSeqEmpty
      <4>2. head_lua(idx, args) = args
        BY <2>5, <3>3
      <4> QED
        BY <2>1, <4>1, <4>2, ConcatEmptySeq
    <3> QED
      BY <2>1, <2>2, <3>1, <3>2, <3>3
  <2>7. Len(tail_lua(idx, args)) <= n
    <3>1. CASE idx <= 1
      BY <2>2, <2>4, <3>1
    <3>2. CASE idx > 1
      <4>1. ASSUME NEW i \in idx .. n PROVE args[i] \in Words
        BY <2>1, <2>2, <3>2, ElementOfSeq
      <4>2. Len(SubSeq(args, idx, n)) = IF idx <= n THEN n - idx + 1 ELSE 0
        BY <2>1, <2>2, <4>1, SubSeqProperties
      <4> QED
        BY <2>1, <2>2, <2>4, <3>2, <4>2
    <3> QED
      BY <2>1, <3>1, <3>2
  <2> QED
    BY <2>6, <2>7 DEF HeadAndTail, len_lua, args, idx
<1>2. ask \in Questions => HeadAndTail
  BY <1>1, Asking DEF HeadAndTail
<1> QED
  BY <1>2, AskingAlways, PTL

-----------------------------------------------------------------------------
(* What a pathname is.                                                     *)

\* One step of the kernel along the links from name.
Link(h, tree, name, i) ==
    IF i = 0 THEN name
    ELSE IF tree[h[i - 1]] \in Entry THEN tree[h[i - 1]] ELSE h[i - 1]

(* A name that is not a link is followed to itself.                        *)
LEMMA NoLink ==
    ASSUME NEW tree, NEW name, tree[name] \notin Entry
    PROVE  Target(tree, name) = name
<1> DEFINE n == Cardinality(Entry)
           at == CHOOSE h : h = [i \in 0 .. n |-> Link(h, tree, name, i)]
           same == [i \in 0 .. n |-> name]
           P == {i \in Nat : i <= n => at[i] = name}
<1>1. n \in Nat
  BY EntryAssumption, FS_CardinalityType
<1>2. Target(tree, name) = at[n]
  BY DEF Target, Link
<1>3. \E h : h = [i \in 0 .. n |-> Link(h, tree, name, i)]
  <2>1. ASSUME NEW i \in 0 .. n PROVE Link(same, tree, name, i) = name
    <3>1. CASE i = 0
      BY <3>1 DEF Link
    <3>2. CASE i # 0
      <4>1. i - 1 \in 0 .. n
        BY <1>1, <3>2
      <4>2. same[i - 1] = name
        BY <4>1
      <4> HIDE DEF same
      <4> QED
        BY <4>2 DEF Link
    <3> QED
      BY <3>1, <3>2
  <2>2. same = [i \in 0 .. n |-> same[i]] /\ \A i \in 0 .. n : same[i] = name
    OBVIOUS
  <2> HIDE DEF same
  <2>3. same = [i \in 0 .. n |-> Link(same, tree, name, i)]
    BY <2>1, <2>2
  <2> QED
    BY <2>3
<1>4. at = [i \in 0 .. n |-> Link(at, tree, name, i)]
  BY <1>3
<1> HIDE DEF at, n
<1>5. \A i \in 0 .. n : at[i] = Link(at, tree, name, i)
  BY <1>4
<1>6. 0 \in P
  BY <1>1, <1>5 DEF Link
<1>7. ASSUME NEW i \in Nat, i \in P PROVE i + 1 \in P
  <2> SUFFICES ASSUME i + 1 <= n PROVE at[i + 1] = name
    OBVIOUS
  <2>1. i + 1 \in 0 .. n /\ i + 1 # 0 /\ (i + 1) - 1 = i /\ at[i] = name
    BY <1>1, <1>7
  <2>2. Link(at, tree, name, i + 1) = name
    BY <2>1 DEF Link
  <2> QED
    BY <1>5, <2>1, <2>2
<1> HIDE DEF P
<1>8. n \in P
  BY <1>1, <1>6, <1>7, NatInd
<1> QED
  BY <1>1, <1>2, <1>8 DEF P

(* In any tree of files, whatever leads where: opening a pathname tells    *)
(* what looking at it tells, but for a socket and a link that must not be  *)
(* followed (src/stat.c:46-67, src/fstat.c:55-77).                         *)
THEOREM FstatAgreesHolds == Spec => []FstatAgrees
<1>1. ASSUME ask \in OfStat PROVE FstatAgrees
  <2> DEFINE tree == ask.tree
             name == ask.name
             follow == ask.follow
             s == stat_lua(tree, name, follow)
             f == fstat_lua(tree, name, follow)
  <2>1. follow \in BOOLEAN
    BY <1>1 DEF OfStat
  <2> HIDE DEF tree, name, follow
  <2>2. CASE follow
    <3>1. s = stat2(tree, name)
      BY <2>2 DEF stat_lua
    <3>2. f = IF s = "socket" THEN "ENXIO" ELSE s
      BY <2>2, <3>1 DEF fstat_lua, open2, NoFollow
    <3> HIDE DEF s, f
    <3>3. IF IsError(f) THEN IsError(s) \/ s = "socket" ELSE f = s
      BY <3>2 DEF IsError
    <3> QED
      BY <2>2, <3>3 DEF FstatAgrees, s, f, tree, name, follow
  <2>3. CASE ~follow /\ tree[name] \in Entry
    <3>1. s = "symlink"
      BY <2>3 DEF stat_lua, lstat2
    <3>2. f = "ELOOP"
      BY <2>3 DEF fstat_lua, open2, NoFollow
    <3> HIDE DEF s, f
    <3>3. IF IsError(f) THEN s = "symlink" /\ ~follow ELSE f = s
      BY <2>3, <3>1, <3>2 DEF IsError
    <3> QED
      BY <3>3 DEF FstatAgrees, s, f, tree, name, follow
  <2>4. CASE ~follow /\ tree[name] \notin Entry
    <3>1. stat2(tree, name) = IF tree[name] = "nothing" THEN "ENOENT" ELSE tree[name]
      BY <2>4, NoLink DEF stat2
    <3>2. s = stat2(tree, name)
      BY <2>4, <3>1 DEF stat_lua, lstat2
    <3>3. f = IF s = "socket" THEN "ENXIO" ELSE s
      BY <2>4, <3>2 DEF fstat_lua, open2, NoFollow
    <3> HIDE DEF s, f
    <3>4. IF IsError(f) THEN IsError(s) \/ s = "socket" ELSE f = s
      BY <3>3 DEF IsError
    <3> QED
      BY <3>4 DEF FstatAgrees, s, f, tree, name, follow
  <2> QED
    BY <2>1, <2>2, <2>3, <2>4
<1>2. ask \in Questions => FstatAgrees
  BY <1>1, Asking DEF FstatAgrees
<1> QED
  BY <1>2, AskingAlways, PTL

-----------------------------------------------------------------------------
(* The inline option.                                                      *)

Ctx == [ok : BOOLEAN, lineno : Nat, chknext : BOOLEAN, defline : Nat, decl : Nat]

\* The first n lines have an option that is refused, or a line behind a true
\* option that is not the placeholder.
Spoilt(text, n) ==
    \/ \E k \in 1 .. n : text[k] = "invalid"
    \/ \E i, k \in 1 .. n :
           /\ i < k /\ text[i] = "true"
           /\ IsOption(text[k]) \/ (k = i + 1 /\ ~IsPlaceholder(text[k]))

\* Among the first n lines no option is true, or just the one at line i, with
\* no option behind it.
Unmarked(text, n) == \A k \in 1 .. n : text[k] \notin {"true", "invalid"}
Marked(text, n, i) ==
    /\ i \in 1 .. n /\ text[i] = "true"
    /\ \A k \in 1 .. n : k # i => /\ text[k] \notin {"true", "invalid"}
                                  /\ text[k] = "false" => k < i

\* What the context says of the first n lines.
Says(c, text, n) ==
    /\ ~c.ok => Spoilt(text, n)
    /\ c.ok => /\ c.lineno = n
               /\ \/ /\ c.defline = 0 /\ ~c.chknext /\ c.decl = 0
                     /\ Unmarked(text, n)
                  \/ /\ c.defline = n /\ c.chknext /\ c.decl = 0
                     /\ Marked(text, n, n)
                  \/ /\ ~c.chknext /\ c.decl = c.defline + 1 /\ c.decl \in 2 .. n
                     /\ Marked(text, n, c.defline)
                     /\ IsPlaceholder(text[c.decl])

(* The assignments of checkline() to its context, what they leave and set. *)
Assigns(c, n) ==
    /\ \A d : d = [c EXCEPT !.lineno = n, !.ok = FALSE] => d \in Ctx /\ ~d.ok
    /\ \A d : d = [c EXCEPT !.lineno = n, !.chknext = FALSE, !.decl = n]
          => /\ d \in Ctx /\ d.ok = c.ok /\ ~d.chknext
             /\ d.lineno = n /\ d.defline = c.defline /\ d.decl = n
    /\ \A d : d = [c EXCEPT !.lineno = n, !.chknext = TRUE, !.defline = n]
          => /\ d \in Ctx /\ d.ok = c.ok /\ d.chknext
             /\ d.lineno = n /\ d.defline = n /\ d.decl = c.decl
    /\ \A d : d = [c EXCEPT !.lineno = n]
          => /\ d \in Ctx /\ d.ok = c.ok /\ d.chknext = c.chknext
             /\ d.lineno = n /\ d.defline = c.defline /\ d.decl = c.decl

(* They do so for any line.                                                *)
LEMMA Assigned ==
    ASSUME NEW c \in Ctx, NEW n \in Nat
    PROVE  Assigns(c, n)
<1>1. PICK B : B = BOOLEAN
  OBVIOUS
<1>2. PICK no : no = FALSE
  OBVIOUS
<1>3. PICK yes : yes = TRUE
  OBVIOUS
<1>4. /\ Ctx = [ok : B, lineno : Nat, chknext : B, defline : Nat, decl : Nat]
      /\ no \in B /\ yes \in B
  BY <1>1, <1>2, <1>3 DEF Ctx
<1>5. ASSUME NEW d, d = [c EXCEPT !.lineno = n, !.ok = no]
      PROVE  d \in Ctx /\ d.ok = no
  BY <1>4, <1>5
<1>6. ASSUME NEW d, d = [c EXCEPT !.lineno = n, !.chknext = no, !.decl = n]
      PROVE  /\ d \in Ctx /\ d.ok = c.ok /\ d.chknext = no
             /\ d.lineno = n /\ d.defline = c.defline /\ d.decl = n
  BY <1>4, <1>6
<1>7. ASSUME NEW d, d = [c EXCEPT !.lineno = n, !.chknext = yes, !.defline = n]
      PROVE  /\ d \in Ctx /\ d.ok = c.ok /\ d.chknext = yes
             /\ d.lineno = n /\ d.defline = n /\ d.decl = c.decl
  BY <1>4, <1>7
<1>8. ASSUME NEW d, d = [c EXCEPT !.lineno = n]
      PROVE  /\ d \in Ctx /\ d.ok = c.ok /\ d.chknext = c.chknext
             /\ d.lineno = n /\ d.defline = c.defline /\ d.decl = c.decl
  BY <1>4, <1>8
<1> QED
  BY <1>2, <1>3, <1>5, <1>6, <1>7, <1>8, Zenon DEF Assigns

(* checkline() keeps that true of one more line (lib/eval.lua:58-93).      *)
LEMMA SaysNext ==
    ASSUME NEW text \in Seq(TextLine), NEW n \in Nat, n + 1 <= Len(text),
           NEW c \in Ctx, Says(c, text, n)
    PROVE  LET d == checkline(c, text[n + 1])
           IN  d \in Ctx /\ Says(d, text, n + 1)
<1> DEFINE l == text[n + 1]
           d == checkline(c, l)
<1>1. l \in TextLine
  BY LenProperties, ElementOfSeq
<1>2. /\ 1 .. n + 1 = 1 .. n \cup {n + 1} /\ n + 1 \notin 1 .. n
      /\ n + 1 # 0 /\ \A k \in 1 .. n : k < n + 1
  OBVIOUS
<1>3. /\ \A e : e = [c EXCEPT !.lineno = n + 1, !.ok = FALSE] => e \in Ctx /\ ~e.ok
      /\ \A e : e = [c EXCEPT !.lineno = n + 1, !.chknext = FALSE, !.decl = n + 1]
            => /\ e \in Ctx /\ e.ok = c.ok /\ ~e.chknext
               /\ e.lineno = n + 1 /\ e.defline = c.defline /\ e.decl = n + 1
      /\ \A e : e = [c EXCEPT !.lineno = n + 1, !.chknext = TRUE, !.defline = n + 1]
            => /\ e \in Ctx /\ e.ok = c.ok /\ e.chknext
               /\ e.lineno = n + 1 /\ e.defline = n + 1 /\ e.decl = c.decl
      /\ \A e : e = [c EXCEPT !.lineno = n + 1]
            => /\ e \in Ctx /\ e.ok = c.ok /\ e.chknext = c.chknext
               /\ e.lineno = n + 1 /\ e.defline = c.defline /\ e.decl = c.decl
  <2>1. n + 1 \in Nat
    OBVIOUS
  <2>2. Assigns(c, n + 1)
    BY <2>1, Assigned
  <2> QED
    BY <2>2, Zenon DEF Assigns
<1>4. CASE ~c.ok
  <2>1. d = c
    BY <1>4 DEF checkline
  <2>2. Spoilt(text, n)
    BY <1>4 DEF Says
  <2>3. Spoilt(text, n + 1)
    BY <1>2, <2>2 DEF Spoilt
  <2> QED
    BY <1>4, <2>1, <2>3 DEF Says
<1>5. CASE c.ok /\ c.chknext
  <2>1. /\ c.lineno = n /\ c.defline = n /\ c.decl = 0 /\ Marked(text, n, n)
    BY <1>5 DEF Says
  <2>2. CASE IsPlaceholder(l)
    <3>1. d = [c EXCEPT !.lineno = n + 1, !.chknext = FALSE, !.decl = n + 1]
      BY <1>5, <2>1, <2>2 DEF checkline, CheckNext, Ctx
    <3> HIDE DEF d
    <3>2. /\ d \in Ctx /\ d.ok /\ d.lineno = n + 1 /\ ~d.chknext
          /\ d.defline = n /\ d.decl = n + 1
      BY <1>3, <1>5, <2>1, <3>1
    <3>3. Marked(text, n + 1, n) /\ n + 1 \in 2 .. n + 1
      BY <1>2, <2>1, <2>2 DEF Marked, IsPlaceholder
    <3> HIDE DEF d
    <3> QED
      BY <2>2, <3>2, <3>3 DEF Says, d
  <2>3. CASE ~IsPlaceholder(l)
    <3>1. d = [c EXCEPT !.lineno = n + 1, !.ok = FALSE]
      BY <1>5, <2>1, <2>3 DEF checkline, CheckNext, Ctx
    <3> HIDE DEF d
    <3>2. d \in Ctx /\ ~d.ok
      BY <1>3, <3>1
    <3>3. Spoilt(text, n + 1)
      BY <1>2, <2>1, <2>3 DEF Spoilt, Marked
    <3> HIDE DEF d
    <3> QED
      BY <3>2, <3>3 DEF Says, d
  <2> QED
    BY <2>2, <2>3
<1>6. CASE c.ok /\ ~c.chknext
  <2>1. /\ c.lineno = n
        /\ \/ c.defline = 0 /\ c.decl = 0 /\ Unmarked(text, n)
           \/ /\ c.decl = c.defline + 1 /\ c.decl \in 2 .. n
              /\ Marked(text, n, c.defline) /\ IsPlaceholder(text[c.decl])
    BY <1>6 DEF Says
  <2>2. CASE ~IsOption(l) \/ (l = "false" /\ c.defline = 0)
    <3>1. d = [c EXCEPT !.lineno = n + 1]
      BY <1>6, <2>1, <2>2 DEF checkline, CheckOption, Refused, Ctx
    <3>2. /\ d \in Ctx /\ d.ok /\ d.lineno = n + 1 /\ ~d.chknext
          /\ d.defline = c.defline /\ d.decl = c.decl
      BY <1>6, <2>1, <3>1 DEF Ctx
    <3> HIDE DEF d
    <3>3. CASE c.defline = 0
      <4>1. c.decl = 0 /\ Unmarked(text, n)
        BY <2>1, <3>3 DEF Marked
      <4>2. Unmarked(text, n + 1)
        BY <1>2, <2>2, <4>1 DEF Unmarked, IsOption
      <4> QED
        BY <3>2, <3>3, <4>1, <4>2 DEF Says, d
    <3>4. CASE c.defline # 0
      <4>1. /\ c.decl = c.defline + 1 /\ c.decl \in 2 .. n
            /\ Marked(text, n, c.defline) /\ IsPlaceholder(text[c.decl])
        BY <2>1, <3>4
      <4>2. Marked(text, n + 1, c.defline) /\ c.decl \in 2 .. n + 1
        BY <1>2, <2>2, <3>4, <4>1 DEF Marked, IsOption
      <4> QED
        BY <3>2, <4>1, <4>2 DEF Says, d
    <3> QED
      BY <3>3, <3>4
  <2>3. CASE l = "true" /\ c.defline = 0
    <3>1. d = [c EXCEPT !.lineno = n + 1, !.chknext = TRUE, !.defline = n + 1]
      BY <1>6, <2>1, <2>3 DEF checkline, CheckOption, Refused, IsOption, Ctx
    <3>2. c.decl = 0 /\ Unmarked(text, n)
      BY <2>1, <2>3 DEF Marked
    <3> HIDE DEF d
    <3>3. /\ d \in Ctx /\ d.ok /\ d.lineno = n + 1 /\ d.chknext
          /\ d.defline = n + 1 /\ d.decl = 0
      BY <1>3, <1>6, <3>1, <3>2
    <3>4. Marked(text, n + 1, n + 1)
      BY <1>2, <2>3, <3>2 DEF Marked, Unmarked
    <3> HIDE DEF d
    <3> QED
      BY <3>3, <3>4 DEF Says, d
  <2>4. CASE l = "invalid" \/ (IsOption(l) /\ c.defline # 0)
    <3>1. d = [c EXCEPT !.lineno = n + 1, !.ok = FALSE]
      BY <1>6, <2>1, <2>4 DEF checkline, CheckOption, Refused, IsOption, Ctx
    <3> HIDE DEF d
    <3>2. d \in Ctx /\ ~d.ok
      BY <1>3, <3>1
    <3>3. Spoilt(text, n + 1)
      BY <1>2, <2>1, <2>4 DEF Spoilt, Marked
    <3> HIDE DEF d
    <3> QED
      BY <3>2, <3>3 DEF Says, d
  <2> QED
    BY <2>2, <2>3, <2>4 DEF IsOption
<1> QED
  BY <1>4, <1>5, <1>6

\* One round of the loop of parse_inlineopt().
ReadLine(h, text, i) == IF i = 0 THEN NoCtx ELSE checkline(h[i - 1], text[i])

(* The loop is a function of the lines it has read.                        *)
LEMMA ReadingExists ==
    ASSUME NEW text, NEW n \in Nat
    PROVE  \E h : h = [i \in 0 .. n |-> ReadLine(h, text, i)]
<1> DEFINE P == {m \in Nat : \E h : h = [i \in 0 .. m |-> ReadLine(h, text, i)]}
<1>1. 0 \in P
  <2> DEFINE h == [i \in 0 .. 0 |-> NoCtx]
  <2>1. \A i \in 0 .. 0 : ReadLine(h, text, i) = NoCtx
    BY DEF ReadLine
  <2>2. h = [i \in 0 .. 0 |-> h[i]] /\ \A i \in 0 .. 0 : h[i] = NoCtx
    OBVIOUS
  <2> HIDE DEF h
  <2>3. h = [i \in 0 .. 0 |-> ReadLine(h, text, i)]
    BY <2>1, <2>2
  <2> QED
    BY <2>3
<1>2. ASSUME NEW m \in Nat, m \in P PROVE m + 1 \in P
  <2>1. PICK h : h = [i \in 0 .. m |-> ReadLine(h, text, i)]
    BY <1>2
  <2> DEFINE g == [i \in 0 .. m + 1 |-> IF i = m + 1 THEN ReadLine(h, text, i) ELSE h[i]]
  <2>2. ASSUME NEW i \in 0 .. m + 1 PROVE g[i] = ReadLine(h, text, i)
    BY <2>1
  <2>3. ASSUME NEW i \in 0 .. m + 1 PROVE ReadLine(g, text, i) = ReadLine(h, text, i)
    <3>1. CASE i = 0
      BY <3>1 DEF ReadLine
    <3>2. CASE i # 0
      <4>1. i - 1 \in 0 .. m + 1 /\ i - 1 # m + 1
        BY <3>2
      <4>2. g[i - 1] = h[i - 1]
        BY <4>1
      <4> HIDE DEF g
      <4> QED
        BY <4>2 DEF ReadLine
    <3> QED
      BY <3>1, <3>2
  <2>4. g = [i \in 0 .. m + 1 |-> g[i]]
    OBVIOUS
  <2> HIDE DEF g
  <2>5. g = [i \in 0 .. m + 1 |-> ReadLine(g, text, i)]
    BY <2>2, <2>3, <2>4
  <2> QED
    BY <2>5
<1> HIDE DEF P
<1>3. n \in P
  BY <1>1, <1>2, NatInd
<1> QED
  BY <1>3 DEF P

(* What the context says of the whole text (lib/eval.lua:96-126).          *)
LEMMA SaysAll ==
    ASSUME NEW text \in Seq(TextLine)
    PROVE  /\ parse_inlineopt(text) \in Ctx
           /\ Says(parse_inlineopt(text), text, Len(text))
<1> DEFINE N == Len(text)
           h == CHOOSE g : g = [i \in 0 .. N |-> ReadLine(g, text, i)]
           P == {n \in Nat : n <= N => h[n] \in Ctx /\ Says(h[n], text, n)}
<1>1. N \in Nat
  BY LenProperties
<1>2. parse_inlineopt(text) = h[N]
  BY DEF parse_inlineopt, ReadLine
<1>3. h = [i \in 0 .. N |-> ReadLine(h, text, i)]
  BY <1>1, ReadingExists
<1> HIDE DEF h
<1>4. \A i \in 0 .. N : h[i] = ReadLine(h, text, i)
  BY <1>3
<1>5. 0 \in P
  <2>1. h[0] = NoCtx
    BY <1>1, <1>4 DEF ReadLine
  <2>2. /\ NoCtx.ok /\ NoCtx.lineno = 0 /\ ~NoCtx.chknext
        /\ NoCtx.defline = 0 /\ NoCtx.decl = 0
    BY DEF NoCtx
  <2>3. NoCtx \in Ctx
    <3>1. PICK B : B = BOOLEAN
      OBVIOUS
    <3>2. PICK yes : yes = TRUE
      OBVIOUS
    <3>3. PICK no : no = FALSE
      OBVIOUS
    <3>4. NoCtx = [ok |-> yes, lineno |-> 0, chknext |-> no, defline |-> 0, decl |-> 0]
      BY <3>2, <3>3 DEF NoCtx
    <3>5. yes \in B /\ no \in B
      BY <3>1, <3>2, <3>3
    <3>6. Ctx = [ok : B, lineno : Nat, chknext : B, defline : Nat, decl : Nat]
      BY <3>1 DEF Ctx
    <3> QED
      BY <3>4, <3>5, <3>6
  <2>4. Unmarked(text, 0)
    BY DEF Unmarked
  <2>5. Says(NoCtx, text, 0)
    BY <2>2, <2>4 DEF Says
  <2> QED
    BY <2>1, <2>3, <2>5
<1>6. ASSUME NEW n \in Nat, n \in P PROVE n + 1 \in P
  <2> SUFFICES ASSUME n + 1 <= N PROVE h[n + 1] \in Ctx /\ Says(h[n + 1], text, n + 1)
    OBVIOUS
  <2>1. h[n] \in Ctx /\ Says(h[n], text, n)
    BY <1>1, <1>6
  <2>2. n + 1 \in 0 .. N /\ n + 1 # 0 /\ (n + 1) - 1 = n
    BY <1>1
  <2>3. h[n + 1] = checkline(h[n], text[n + 1])
    BY <1>4, <2>2 DEF ReadLine
  <2> QED
    BY <2>1, <2>3, SaysNext
<1> HIDE DEF P
<1>7. N \in P
  BY <1>1, <1>5, <1>6, NatInd
<1> QED
  BY <1>1, <1>2, <1>7 DEF P

(* In a text of any length: whatever options it has and wherever they      *)
(* stand, the file is run exactly when one is true, none is behind it and  *)
(* the placeholder is in the next line, and it is passed over in silence   *)
(* exactly when no option is true or invalid (README.md:924-926,           *)
(* lib/eval.lua:58-126).                                                   *)
THEOREM RunsOnlyMarkedHolds == Spec => []RunsOnlyMarked
<1>1. ASSUME ask \in OfInline PROVE RunsOnlyMarked
  <2> DEFINE text == ask.text
             c == parse_inlineopt(text)
             N == Len(text)
             runs == /\ Options({"invalid"}) = {}
                     /\ \E i \in Options({"true"}) :
                            /\ i + 1 \in DOMAIN text
                            /\ IsPlaceholder(text[i + 1])
                            /\ \A j \in Options({"true", "false"}) :
                                   j # i => j < i /\ text[j] = "false"
             passed == Options({"true", "invalid"}) = {}
  <2>1. text \in Seq(TextLine)
    BY <1>1 DEF OfInline
  <2>2. N \in Nat /\ DOMAIN text = 1 .. N
    BY <2>1, LenProperties
  <2>3. Says(c, text, N)
    BY <2>1, SaysAll
  <2>4. \A S : Options(S) = {i \in 1 .. N : text[i] \in S}
    BY <2>2 DEF Options
  <2> HIDE DEF text, c, N
  <2>5. runs <=> /\ \A i \in 1 .. N : text[i] # "invalid"
                 /\ \E i \in 1 .. N :
                        /\ text[i] = "true" /\ i + 1 \in 1 .. N
                        /\ IsPlaceholder(text[i + 1])
                        /\ \A j \in 1 .. N : j # i /\ text[j] \in {"true", "false"}
                                             => j < i /\ text[j] = "false"
    BY <2>2, <2>4
  <2>6. passed <=> \A i \in 1 .. N : text[i] \notin {"true", "invalid"}
    BY <2>4
  <2> HIDE DEF runs, passed
  <2>7. CASE ~c.ok
    <3>1. Spoilt(text, N)
      BY <2>3, <2>7 DEF Says
    <3>2. ~passed
      BY <2>6, <3>1 DEF Spoilt
    <3>3. ~runs
      <4> SUFFICES ASSUME runs PROVE FALSE
        OBVIOUS
      <4>1. \A k \in 1 .. N : text[k] # "invalid"
        BY <2>5
      <4>2. PICK i \in 1 .. N :
                /\ text[i] = "true" /\ i + 1 \in 1 .. N
                /\ IsPlaceholder(text[i + 1])
                /\ \A j \in 1 .. N : j # i /\ text[j] \in {"true", "false"}
                                     => j < i /\ text[j] = "false"
        BY <2>5
      <4>3. PICK m, k \in 1 .. N :
                /\ m < k /\ text[m] = "true"
                /\ IsOption(text[k]) \/ (k = m + 1 /\ ~IsPlaceholder(text[k]))
        BY <3>1, <4>1 DEF Spoilt
      <4>4. m = i
        BY <4>2, <4>3
      <4>5. IsOption(text[k])
        BY <4>2, <4>3, <4>4
      <4>6. text[k] \in {"true", "false"} /\ k # i
        BY <2>2, <4>1, <4>3, <4>4, <4>5 DEF IsOption
      <4> QED
        BY <2>2, <4>2, <4>3, <4>4, <4>6
    <3>4. Outcome(c) = "error"
      BY <2>7 DEF Outcome
    <3> QED
      BY <3>2, <3>3, <3>4 DEF RunsOnlyMarked, runs, passed, text, c
  <2>8. CASE c.ok /\ c.defline = 0 /\ ~c.chknext /\ c.decl = 0 /\ Unmarked(text, N)
    <3>1. passed /\ ~runs
      BY <2>5, <2>6, <2>8 DEF Unmarked
    <3>2. Outcome(c) = "skipped"
      BY <2>8 DEF Outcome
    <3> QED
      BY <3>1, <3>2 DEF RunsOnlyMarked, runs, passed, text, c
  <2>9. CASE c.ok /\ c.chknext /\ c.decl = 0 /\ Marked(text, N, N)
    <3>1. ~passed
      BY <2>6, <2>9 DEF Marked
    <3>2. ~runs
      <4> SUFFICES ASSUME runs PROVE FALSE
        OBVIOUS
      <4>1. PICK i \in 1 .. N : text[i] = "true" /\ i + 1 \in 1 .. N
        BY <2>5
      <4> QED
        BY <2>2, <2>9, <4>1 DEF Marked
    <3>3. Outcome(c) = "error"
      BY <2>9 DEF Outcome
    <3> QED
      BY <3>1, <3>2, <3>3 DEF RunsOnlyMarked, runs, passed, text, c
  <2>10. CASE /\ c.ok /\ ~c.chknext /\ c.decl = c.defline + 1 /\ c.decl \in 2 .. N
              /\ Marked(text, N, c.defline) /\ IsPlaceholder(text[c.decl])
    <3>1. ~passed
      BY <2>6, <2>10 DEF Marked
    <3>2. runs
      <4> DEFINE i == c.defline
      <4>1. /\ i \in 1 .. N /\ text[i] = "true" /\ i + 1 \in 1 .. N
            /\ IsPlaceholder(text[i + 1])
        BY <2>2, <2>10 DEF Marked
      <4>2. \A k \in 1 .. N : k # i => /\ text[k] \notin {"true", "invalid"}
                                       /\ text[k] = "false" => k < i
        BY <2>10 DEF Marked
      <4> HIDE DEF i
      <4>3. \A k \in 1 .. N : text[k] # "invalid"
        BY <4>1, <4>2
      <4>4. \A j \in 1 .. N : j # i /\ text[j] \in {"true", "false"}
                              => j < i /\ text[j] = "false"
        BY <4>2
      <4> QED
        BY <2>5, <4>1, <4>3, <4>4
    <3>3. Outcome(c) = "run"
      BY <2>10 DEF Outcome
    <3> QED
      BY <3>1, <3>2, <3>3 DEF RunsOnlyMarked, runs, passed, text, c
  <2> QED
    BY <2>3, <2>7, <2>8, <2>9, <2>10 DEF Says
<1>2. ask \in Questions => RunsOnlyMarked
  BY <1>1, Asking DEF RunsOnlyMarked
<1> QED
  BY <1>2, AskingAlways, PTL

-----------------------------------------------------------------------------
(* The arguments of the command.                                           *)

\* What a loop that begins with z has after each of n elements.
Loops(h, S, z, n, step) ==
    /\ h \in [0 .. n -> S] /\ h[0] = z
    /\ \A i \in 1 .. n : h[i] = step[<<h[i - 1], i>>]

(* A loop over n elements is a function of the elements behind it.         *)
LEMMA LoopExists ==
    ASSUME NEW S, NEW z \in S, NEW n \in Nat, NEW step \in [S \X (1 .. n) -> S]
    PROVE  \E h : Loops(h, S, z, n, step)
<1> DEFINE Is(h, m) == /\ h \in [0 .. m -> S] /\ h[0] = z
                       /\ \A i \in 1 .. m : h[i] = step[<<h[i - 1], i>>]
           P == {m \in Nat : m <= n => \E h : Is(h, m)}
<1>1. 0 \in P
  <2> DEFINE h == [i \in 0 .. 0 |-> z]
  <2>1. Is(h, 0)
    OBVIOUS
  <2> QED
    BY <2>1
<1>2. ASSUME NEW m \in Nat, m \in P PROVE m + 1 \in P
  <2> SUFFICES ASSUME m + 1 <= n PROVE \E h : Is(h, m + 1)
    OBVIOUS
  <2>1. PICK h : Is(h, m)
    BY <1>2
  <2> DEFINE x == step[<<h[m], m + 1>>]
             g == [i \in 0 .. m + 1 |-> IF i = m + 1 THEN x ELSE h[i]]
  <2>2. x \in S
    <3>1. h[m] \in S /\ m + 1 \in 1 .. n
      BY <2>1
    <3> QED
      BY <3>1
  <2>3. g \in [0 .. m + 1 -> S] /\ g[0] = z
    BY <2>1, <2>2
  <2>4. \A i \in 0 .. m : g[i] = h[i]
    OBVIOUS
  <2>5. g[m + 1] = x
    OBVIOUS
  <2> HIDE DEF g
  <2>6. ASSUME NEW i \in 1 .. m + 1 PROVE g[i] = step[<<g[i - 1], i>>]
    <3>1. CASE i = m + 1
      <4>1. g[i - 1] = h[m]
        BY <2>4, <3>1
      <4> QED
        BY <2>5, <3>1, <4>1
    <3>2. CASE i # m + 1
      <4>1. i \in 1 .. m /\ i \in 0 .. m /\ i - 1 \in 0 .. m
        BY <3>2
      <4>2. g[i] = h[i] /\ g[i - 1] = h[i - 1] /\ h[i] = step[<<h[i - 1], i>>]
        BY <2>1, <2>4, <4>1
      <4> QED
        BY <4>2
    <3> QED
      BY <3>1, <3>2
  <2> QED
    BY <2>3, <2>6
<1> HIDE DEF P
<1>3. n \in P
  BY <1>1, <1>2, NatInd
<1> QED
  BY <1>3 DEF P, Loops

(* Nothing is in order at no position, and one more element behind the     *)
(* others is.                                                              *)
LEMMA NoneInOrder == \A s : HasInOrder(<< >>, s, {})
  BY FS_EmptySet DEF HasInOrder

(* So an element that is appended is in its place.                         *)
LEMMA OneMoreInOrder ==
    ASSUME NEW S, NEW q \in Seq(S), NEW s, NEW n \in Nat, NEW P \in SUBSET (1 .. n),
           HasInOrder(q, s, P), NEW x \in S, s[n + 1] = x
    PROVE  HasInOrder(Append(q, x), s, P \cup {n + 1})
<1> DEFINE Q == P \cup {n + 1}
           rank(i) == Cardinality({j \in P : j <= i})
<1>1. IsFiniteSet(P) /\ Cardinality(P) \in Nat
  <2>1. IsFiniteSet(1 .. n)
    BY FS_Interval
  <2> QED
    BY <2>1, FS_Subset, FS_CardinalityType
<1>2. n + 1 \notin P
  OBVIOUS
<1>3. Cardinality(Q) = Cardinality(P) + 1
  BY <1>1, <1>2, FS_AddElement
<1>4. Len(q) = Cardinality(P) /\ \A i \in P : q[rank(i)] = s[i]
  BY DEF HasInOrder
<1>5. Len(Append(q, x)) = Cardinality(Q)
  BY <1>3, <1>4
<1>6. ASSUME NEW i \in P
      PROVE  Append(q, x)[Cardinality({j \in Q : j <= i})] = s[i]
  <2> DEFINE upto == {j \in P : j <= i}
  <2>1. {j \in Q : j <= i} = upto
    <3>1. i <= n /\ ~(n + 1 <= i)
      OBVIOUS
    <3> QED
      BY <3>1
  <2>2. upto \in SUBSET P /\ i \in upto
    <3>1. i <= i
      OBVIOUS
    <3> QED
      BY <3>1
  <2>3. Cardinality(upto) \in Nat /\ Cardinality(upto) <= Cardinality(P)
        /\ IsFiniteSet(upto)
    BY <1>1, <2>2, FS_Subset, FS_CardinalityType
  <2>4. Cardinality(upto) # 0
    BY <2>2, <2>3, FS_EmptySet
  <2>5. Cardinality(upto) \in 1 .. Len(q)
    BY <1>4, <2>3, <2>4
  <2>6. Append(q, x)[Cardinality(upto)] = q[Cardinality(upto)]
    BY <2>5
  <2> QED
    BY <1>4, <2>1, <2>6
<1>7. Append(q, x)[Cardinality({j \in Q : j <= n + 1})] = s[n + 1]
  <2>1. \A j \in Q : j <= n + 1
    OBVIOUS
  <2>2. {j \in Q : j <= n + 1} = Q
    BY <2>1, Zenon
  <2>3. Append(q, x)[Len(q) + 1] = x
    OBVIOUS
  <2> HIDE DEF Q
  <2> QED
    BY <1>3, <1>4, <2>2, <2>3
<1> QED
  BY <1>5, <1>6, <1>7 DEF HasInOrder

\* What the loop of parse_testcase() has made of the first n names.
CaseCtx == [ok : BOOLEAN, names : Seq(Words)]
NamesSay(r, v, n) ==
    /\ ~r.ok => \E i \in 1 .. n : v[i] = ""
    /\ r.ok => /\ \A i \in 1 .. n : v[i] # ""
               /\ HasInOrder(r.names, v, FirstOnly(v) \cap (1 .. n))
               /\ ToSet(r.names) = {v[i] : i \in 1 .. n}

(* Its context, and the one it has after an empty name.                    *)
LEMMA CaseTyped ==
    /\ NoCases \in CaseCtx /\ NoCases.ok /\ NoCases.names = << >>
    /\ Rejected \in CaseCtx /\ ~Rejected.ok
    /\ \A r \in CaseCtx, x \in Words :
           \A d : d = [r EXCEPT !.names = Append(@, x)]
                  => d \in CaseCtx /\ d.ok = r.ok /\ d.names = Append(r.names, x)
<1>1. PICK B : B = BOOLEAN
  OBVIOUS
<1>2. PICK yes : yes = TRUE
  OBVIOUS
<1>3. PICK no : no = FALSE
  OBVIOUS
<1>4. CaseCtx = [ok : B, names : Seq(Words)] /\ yes \in B /\ no \in B
  BY <1>1, <1>2, <1>3 DEF CaseCtx
<1>5. << >> \in Seq(Words)
  OBVIOUS
<1>6. /\ NoCases = [ok |-> yes, names |-> << >>]
      /\ Rejected = [ok |-> no, names |-> << >>]
  BY <1>2, <1>3 DEF NoCases, Rejected
<1>7. /\ NoCases \in CaseCtx /\ NoCases.ok = yes /\ NoCases.names = << >>
      /\ Rejected \in CaseCtx /\ Rejected.ok = no
  BY <1>4, <1>5, <1>6
<1>8. ASSUME NEW r \in CaseCtx, NEW x \in Words, NEW d,
             d = [r EXCEPT !.names = Append(@, x)]
      PROVE  d \in CaseCtx /\ d.ok = r.ok /\ d.names = Append(r.names, x)
  <2>1. r.names \in Seq(Words) /\ r.ok \in B
    BY <1>4
  <2>2. Append(r.names, x) \in Seq(Words)
    BY <2>1
  <2> QED
    BY <1>4, <1>8, <2>1, <2>2
<1> QED
  BY <1>2, <1>3, <1>7, <1>8, Zenon

(* Where names occur first among the first n + 1 of them.                  *)
LEMMA FirstUpTo ==
    ASSUME NEW T, NEW v \in Seq(T), NEW n \in Nat, n + 1 <= Len(v)
    PROVE  /\ FirstOnly(v) \cap (1 .. n) \in SUBSET (1 .. n)
           /\ (\E i \in 1 .. n : v[i] = v[n + 1])
              => FirstOnly(v) \cap (1 .. n + 1) = FirstOnly(v) \cap (1 .. n)
           /\ ~(\E i \in 1 .. n : v[i] = v[n + 1])
              => FirstOnly(v) \cap (1 .. n + 1)
                 = (FirstOnly(v) \cap (1 .. n)) \cup {n + 1}
<1>1. DOMAIN v = 1 .. Len(v) /\ Len(v) \in Nat
  BY LenProperties
<1>2. 1 .. n + 1 = 1 .. n \cup {n + 1} /\ n + 1 \in 1 .. Len(v) /\ (n + 1) - 1 = n
  BY <1>1
<1>3. n + 1 \in FirstOnly(v) <=> ~(\E i \in 1 .. n : v[i] = v[n + 1])
  BY <1>1, <1>2 DEF FirstOnly
<1> QED
  BY <1>2, <1>3

(* What is appended is the only new element.                               *)
LEMMA ToSetAppend ==
    ASSUME NEW S, NEW q \in Seq(S), NEW x \in S
    PROVE  ToSet(Append(q, x)) = ToSet(q) \cup {x}
<1>1. /\ DOMAIN q = 1 .. Len(q) /\ Len(q) \in Nat
      /\ DOMAIN Append(q, x) = 1 .. Len(q) + 1
      /\ \A i \in 1 .. Len(q) : Append(q, x)[i] = q[i]
      /\ Append(q, x)[Len(q) + 1] = x
  OBVIOUS
<1>2. 1 .. Len(q) + 1 = 1 .. Len(q) \cup {Len(q) + 1}
  BY <1>1
<1> QED
  BY <1>1, <1>2 DEF ToSet

(* One more name (lib/getopts.lua:37-62).                                  *)
LEMMA NamesNext ==
    ASSUME NEW v \in Seq(Part), NEW n \in Nat, n + 1 <= Len(v),
           NEW r \in CaseCtx, NamesSay(r, v, n)
    PROVE  LET d == AddCase(r, v[n + 1])
           IN  d \in CaseCtx /\ NamesSay(d, v, n + 1)
<1> DEFINE x == v[n + 1]
           d == AddCase(r, x)
<1>1. x \in Part
  BY LenProperties, ElementOfSeq
<1>2. 1 .. n + 1 = 1 .. n \cup {n + 1} /\ n + 1 \in 1 .. n + 1
  OBVIOUS
<1>3. {v[i] : i \in 1 .. n + 1} = {v[i] : i \in 1 .. n} \cup {x}
  BY <1>2
<1>4. CASE ~r.ok \/ x = ""
  <2>1. d = Rejected
    BY <1>4 DEF AddCase
  <2>2. \E i \in 1 .. n + 1 : v[i] = ""
    BY <1>2, <1>4 DEF NamesSay
  <2> QED
    BY <2>1, <2>2, CaseTyped DEF NamesSay
<1>5. CASE r.ok /\ x # ""
  <2>1. /\ \A i \in 1 .. n : v[i] # ""
        /\ HasInOrder(r.names, v, FirstOnly(v) \cap (1 .. n))
        /\ ToSet(r.names) = {v[i] : i \in 1 .. n}
    BY <1>5 DEF NamesSay
  <2>2. \A i \in 1 .. n + 1 : v[i] # ""
    BY <1>2, <1>5, <2>1
  <2>3. r.names \in Seq(Words) /\ x \in Words
    BY <1>1, <1>5 DEF CaseCtx, Part
  <2>4. CASE x \in ToSet(r.names)
    <3>1. d = r
      BY <1>5, <2>4 DEF AddCase
    <3>2. \E i \in 1 .. n : v[i] = v[n + 1]
      BY <2>1, <2>4
    <3>3. HasInOrder(r.names, v, FirstOnly(v) \cap (1 .. n + 1))
      BY <2>1, <3>2, FirstUpTo
    <3>4. ToSet(r.names) = {v[i] : i \in 1 .. n + 1}
      BY <1>3, <2>1, <2>4
    <3> QED
      BY <1>5, <2>2, <3>1, <3>3, <3>4 DEF NamesSay
  <2>5. CASE x \notin ToSet(r.names)
    <3>1. d = [r EXCEPT !.names = Append(@, x)]
      BY <1>5, <2>5 DEF AddCase
    <3>2. ~(\E i \in 1 .. n : v[i] = v[n + 1])
      BY <2>1, <2>5
    <3> HIDE DEF d
    <3>3. d \in CaseCtx /\ d.ok = r.ok /\ d.names = Append(r.names, x)
      <4> HIDE DEF x
      <4>1. \A e : e = [r EXCEPT !.names = Append(@, x)]
                   => e \in CaseCtx /\ e.ok = r.ok /\ e.names = Append(r.names, x)
        BY <2>3, CaseTyped, Zenon
      <4> QED
        BY <3>1, <4>1, Zenon
    <3>4. HasInOrder(d.names, v, FirstOnly(v) \cap (1 .. n + 1))
      <4>1. FirstOnly(v) \cap (1 .. n + 1) = (FirstOnly(v) \cap (1 .. n)) \cup {n + 1}
        BY <3>2, FirstUpTo
      <4>2. FirstOnly(v) \cap (1 .. n) \in SUBSET (1 .. n)
        OBVIOUS
      <4> HIDE DEF x
      <4>3. v[n + 1] = x
        BY DEF x
      <4>4. HasInOrder(Append(r.names, x), v,
                       (FirstOnly(v) \cap (1 .. n)) \cup {n + 1})
        BY <2>1, <2>3, <4>2, <4>3, OneMoreInOrder
      <4> QED
        BY <3>3, <4>1, <4>4
    <3>5. ToSet(d.names) = {v[i] : i \in 1 .. n + 1}
      <4>1. ToSet(Append(r.names, x)) = ToSet(r.names) \cup {x}
        BY <2>3, ToSetAppend
      <4> QED
        BY <1>3, <2>1, <3>3, <4>1
    <3> QED
      BY <1>5, <2>2, <3>3, <3>4, <3>5 DEF NamesSay, d
  <2> QED
    BY <2>4, <2>5
<1> QED
  BY <1>4, <1>5

(* The context keeps its type.                                             *)
LEMMA AddCaseTyped ==
    \A r \in CaseCtx, x \in Part : AddCase(r, x) \in CaseCtx
<1> SUFFICES ASSUME NEW r \in CaseCtx, NEW x \in Part
             PROVE  AddCase(r, x) \in CaseCtx
  OBVIOUS
<1>1. CASE ~r.ok \/ x = ""
  <2>1. AddCase(r, x) = Rejected
    BY <1>1 DEF AddCase
  <2> QED
    BY <2>1, CaseTyped
<1>2. CASE r.ok /\ x # "" /\ x \in ToSet(r.names)
  <2>1. AddCase(r, x) = r
    BY <1>2 DEF AddCase
  <2> QED
    BY <2>1
<1>3. CASE r.ok /\ x # "" /\ x \notin ToSet(r.names)
  <2>1. AddCase(r, x) = [r EXCEPT !.names = Append(@, x)]
    BY <1>3 DEF AddCase
  <2>2. x \in Words
    BY <1>3 DEF Part
  <2>3. \A e : e = [r EXCEPT !.names = Append(@, x)] => e \in CaseCtx
    BY <2>2, CaseTyped, Zenon
  <2> QED
    BY <2>1, <2>3, Zenon
<1> QED
  BY <1>1, <1>2, <1>3

\* One round of the loop of parse_testcase().
OneName(h, v, i) == IF i = 0 THEN NoCases ELSE AddCase(h[i - 1], v[i])

(* What parse_testcase() makes of a value (lib/getopts.lua:37-62).         *)
LEMMA NamesSayAll ==
    ASSUME NEW v \in Seq(Part)
    PROVE  /\ parse_testcase(v) \in CaseCtx
           /\ NamesSay(parse_testcase(v), v, Len(v))
<1> DEFINE N == Len(v)
           h == CHOOSE g : g = [i \in 0 .. N |-> OneName(g, v, i)]
           P == {n \in Nat : n <= N => h[n] \in CaseCtx /\ NamesSay(h[n], v, n)}
<1>1. N \in Nat /\ \A i \in 1 .. N : v[i] \in Part
  BY LenProperties, ElementOfSeq
<1>2. parse_testcase(v) = h[N]
  BY DEF parse_testcase, OneName
<1> HIDE DEF N
<1>3. h = [i \in 0 .. N |-> OneName(h, v, i)]
  <2> SUFFICES \E g : g = [i \in 0 .. N |-> OneName(g, v, i)]
    OBVIOUS
  <2> DEFINE step == [p \in CaseCtx \X (1 .. N) |-> AddCase(p[1], v[p[2]])]
  <2>1. step \in [CaseCtx \X (1 .. N) -> CaseCtx]
    BY <1>1, AddCaseTyped
  <2>2. \A r \in CaseCtx, i \in 1 .. N : step[<<r, i>>] = AddCase(r, v[i])
    OBVIOUS
  <2> HIDE DEF step
  <2>3. PICK g : Loops(g, CaseCtx, NoCases, N, step)
    <3>1. NoCases \in CaseCtx
      BY CaseTyped
    <3>2. N \in Nat
      BY <1>1
    <3> QED
      BY <2>1, <3>1, <3>2, LoopExists, Zenon
  <2>4. ASSUME NEW i \in 0 .. N PROVE g[i] = OneName(g, v, i)
    <3>1. CASE i = 0
      BY <2>3, <3>1 DEF OneName, Loops
    <3>2. CASE i # 0
      <4>1. i \in 1 .. N /\ i - 1 \in 0 .. N
        BY <1>1, <3>2
      <4> QED
        BY <2>2, <2>3, <3>2, <4>1 DEF OneName, Loops
    <3> QED
      BY <3>1, <3>2
  <2>5. g = [i \in 0 .. N |-> g[i]]
    BY <2>3 DEF Loops
  <2>6. g = [i \in 0 .. N |-> OneName(g, v, i)]
    BY <2>4, <2>5
  <2> QED
    BY <2>6, Zenon
<1> HIDE DEF h
<1>4. \A i \in 0 .. N : h[i] = OneName(h, v, i)
  BY <1>3
<1>5. 0 \in P
  <2>1. h[0] = NoCases
    BY <1>1, <1>4 DEF OneName
  <2>2. FirstOnly(v) \cap (1 .. 0) = {} /\ {v[i] : i \in 1 .. 0} = {} /\ 1 .. 0 = {}
    OBVIOUS
  <2>3. ToSet(<< >>) = {}
    BY DEF ToSet
  <2>4. NamesSay(NoCases, v, 0)
    BY <2>2, <2>3, CaseTyped, NoneInOrder DEF NamesSay
  <2> QED
    BY <2>1, <2>4, CaseTyped
<1>6. ASSUME NEW n \in Nat, n \in P PROVE n + 1 \in P
  <2> SUFFICES ASSUME n + 1 <= N
               PROVE  h[n + 1] \in CaseCtx /\ NamesSay(h[n + 1], v, n + 1)
    OBVIOUS
  <2>1. h[n] \in CaseCtx /\ NamesSay(h[n], v, n)
    BY <1>1, <1>6
  <2>2. n + 1 \in 0 .. N /\ n + 1 # 0 /\ (n + 1) - 1 = n
    BY <1>1
  <2>3. h[n + 1] = AddCase(h[n], v[n + 1])
    BY <1>4, <2>2 DEF OneName
  <2> QED
    BY <2>1, <2>3, NamesNext DEF N
<1> HIDE DEF P
<1>7. N \in P
  BY <1>1, <1>5, <1>6, NatInd
<1> QED
  BY <1>1, <1>2, <1>7 DEF P, N

\* What the loop of getopts() has made of the first n arguments.
Opts == [ok : BOOLEAN, flags : SUBSET Flags, has_testcase : BOOLEAN,
         testcase : Seq(Words), paths : Seq(Words)]
UpTo(args, kind, n) == {i \in 1 .. n : args[i].kind = kind}
ValuesOf(args) == [i \in DOMAIN args |-> args[i].value]
Accepted(args, n) ==
    /\ \A i, j \in UpTo(args, "--testcase", n) : i = j
    /\ \A i \in UpTo(args, "--testcase", n) : "" \notin ToSet(args[i].value)
OptsSay(o, args, n) ==
    /\ ~o.ok => ~Accepted(args, n)
    /\ o.ok =>
         /\ Accepted(args, n)
         /\ o.has_testcase <=> UpTo(args, "--testcase", n) # {}
         /\ HasInOrder(o.paths, ValuesOf(args), UpTo(args, "path", n))
         /\ o.flags = {f \in Flags : UpTo(args, f, n) # {}}
         /\ UpTo(args, "--testcase", n) = {} => o.testcase = << >>
         /\ \A i \in UpTo(args, "--testcase", n) :
                HasInOrder(o.testcase, args[i].value, FirstOnly(args[i].value))

(* The options before the first argument, and those of an error.           *)
LEMMA OptsTyped ==
    /\ NoOpts \in Opts /\ NoOpts.ok /\ ~NoOpts.has_testcase /\ NoOpts.flags = {}
    /\ NoOpts.testcase = << >> /\ NoOpts.paths = << >>
    /\ BadOpts \in Opts /\ ~BadOpts.ok
<1>1. PICK B : B = BOOLEAN
  OBVIOUS
<1>2. PICK yes : yes = TRUE
  OBVIOUS
<1>3. PICK no : no = FALSE
  OBVIOUS
<1>4. /\ Opts = [ok : B, flags : SUBSET Flags, has_testcase : B,
                 testcase : Seq(Words), paths : Seq(Words)]
      /\ yes \in B /\ no \in B
  BY <1>1, <1>2, <1>3 DEF Opts
<1>5. << >> \in Seq(Words) /\ {} \in SUBSET Flags
  OBVIOUS
<1>6. NoOpts = [ok |-> yes, flags |-> {}, has_testcase |-> no, testcase |-> << >>,
                paths |-> << >>]
  BY <1>2, <1>3 DEF NoOpts
<1>7. BadOpts = [NoOpts EXCEPT !.ok = no]
  BY <1>3 DEF BadOpts
<1>8. /\ NoOpts \in Opts /\ NoOpts.ok = yes /\ NoOpts.has_testcase = no
      /\ NoOpts.flags = {} /\ NoOpts.testcase = << >> /\ NoOpts.paths = << >>
  BY <1>4, <1>5, <1>6
<1>9. BadOpts \in Opts /\ BadOpts.ok = no
  BY <1>4, <1>5, <1>6, <1>7
<1> QED
  BY <1>2, <1>3, <1>8, <1>9, Zenon

\* The assignments of getopts() to its options, what they leave and set.
AddsPath(o, w) ==
    \A d : d = [o EXCEPT !.paths = Append(@, w)]
           => /\ d \in Opts /\ d.ok = o.ok /\ d.flags = o.flags
              /\ d.has_testcase = o.has_testcase /\ d.testcase = o.testcase
              /\ d.paths = Append(o.paths, w)
AddsFlag(o, f) ==
    \A d : d = [o EXCEPT !.flags = @ \cup {f}]
           => /\ d \in Opts /\ d.ok = o.ok /\ d.flags = o.flags \cup {f}
              /\ d.has_testcase = o.has_testcase /\ d.testcase = o.testcase
              /\ d.paths = o.paths
AddsCases(o, names) ==
    \A d : d = [o EXCEPT !.has_testcase = TRUE, !.testcase = names]
           => /\ d \in Opts /\ d.ok = o.ok /\ d.flags = o.flags
              /\ d.has_testcase /\ d.testcase = names /\ d.paths = o.paths

(* They keep the type.                                                     *)
LEMMA OptsAssigned ==
    ASSUME NEW o \in Opts
    PROVE  /\ \A w \in Words : AddsPath(o, w)
           /\ \A f \in Flags : AddsFlag(o, f)
           /\ \A names \in Seq(Words) : AddsCases(o, names)
<1>1. PICK B : B = BOOLEAN
  OBVIOUS
<1>2. PICK yes : yes = TRUE
  OBVIOUS
<1>3. Opts = [ok : B, flags : SUBSET Flags, has_testcase : B,
              testcase : Seq(Words), paths : Seq(Words)] /\ yes \in B
  BY <1>1, <1>2 DEF Opts
<1>4. /\ o.ok \in B /\ o.has_testcase \in B /\ o.flags \in SUBSET Flags
      /\ o.testcase \in Seq(Words) /\ o.paths \in Seq(Words)
  BY <1>3
<1>5. ASSUME NEW w \in Words, NEW d, d = [o EXCEPT !.paths = Append(@, w)]
      PROVE  /\ d \in Opts /\ d.ok = o.ok /\ d.flags = o.flags
             /\ d.has_testcase = o.has_testcase /\ d.testcase = o.testcase
             /\ d.paths = Append(o.paths, w)
  <2>1. Append(o.paths, w) \in Seq(Words)
    BY <1>4
  <2> QED
    BY <1>3, <1>4, <1>5, <2>1
<1>6. ASSUME NEW f \in Flags, NEW d, d = [o EXCEPT !.flags = @ \cup {f}]
      PROVE  /\ d \in Opts /\ d.ok = o.ok /\ d.flags = o.flags \cup {f}
             /\ d.has_testcase = o.has_testcase /\ d.testcase = o.testcase
             /\ d.paths = o.paths
  <2>1. o.flags \cup {f} \in SUBSET Flags
    BY <1>4
  <2> QED
    BY <1>3, <1>4, <1>6, <2>1
<1>7. ASSUME NEW names \in Seq(Words), NEW d,
             d = [o EXCEPT !.has_testcase = yes, !.testcase = names]
      PROVE  /\ d \in Opts /\ d.ok = o.ok /\ d.flags = o.flags
             /\ d.has_testcase = yes /\ d.testcase = names /\ d.paths = o.paths
  BY <1>3, <1>4, <1>7
<1>8. \A w \in Words : AddsPath(o, w)
  BY <1>5, Zenon DEF AddsPath
<1>9. \A f \in Flags : AddsFlag(o, f)
  BY <1>6, Zenon DEF AddsFlag
<1>10. ASSUME NEW names \in Seq(Words) PROVE AddsCases(o, names)
  <2>1. \A d : d = [o EXCEPT !.has_testcase = yes, !.testcase = names]
               => /\ d \in Opts /\ d.ok = o.ok /\ d.flags = o.flags
                  /\ d.has_testcase = yes /\ d.testcase = names /\ d.paths = o.paths
    BY <1>7, Zenon
  <2> QED
    BY <1>2, <2>1, Zenon DEF AddsCases
<1> QED
  BY <1>8, <1>9, <1>10

(* One more argument (lib/getopts.lua:68-105).                             *)
LEMMA OptsNext ==
    ASSUME NEW args \in Seq(Argument), NEW n \in Nat, n + 1 <= Len(args),
           NEW o \in Opts, OptsSay(o, args, n)
    PROVE  LET d == AddArg(o, args[n + 1])
           IN  d \in Opts /\ OptsSay(d, args, n + 1)
<1> DEFINE a == args[n + 1]
           d == AddArg(o, a)
           cases == UpTo(args, "--testcase", n)
           vals == ValuesOf(args)
<1>1. a \in Argument /\ n + 1 \in DOMAIN args
  BY LenProperties, ElementOfSeq
<1>2. /\ a.kind = "path" => a.value \in Words
      /\ a.kind = "--testcase" => a.value \in Seq(Part)
      /\ a.kind \in {"path", "--testcase", "--unknown"} \cup Flags
  BY <1>1 DEF Argument, Flags
<1>3. /\ 1 .. n + 1 = 1 .. n \cup {n + 1} /\ n + 1 \notin 1 .. n
      /\ n + 1 \in 1 .. n + 1
  OBVIOUS
<1>4. /\ \A k : UpTo(args, k, n) \in SUBSET (1 .. n)
      /\ \A k : a.kind = k => UpTo(args, k, n + 1) = UpTo(args, k, n) \cup {n + 1}
      /\ \A k : a.kind # k => UpTo(args, k, n + 1) = UpTo(args, k, n)
  BY <1>3 DEF UpTo
<1>5. vals[n + 1] = a.value
  BY <1>1 DEF ValuesOf
<1>6. /\ "path" \notin Flags /\ "--testcase" \notin Flags /\ "--unknown" \notin Flags
  BY DEF Flags
<1> HIDE DEF a, vals
<1>7. a.kind # "--testcase" => (Accepted(args, n + 1) <=> Accepted(args, n))
  BY <1>4 DEF Accepted
<1>8. CASE ~o.ok
  <2>1. d = o
    BY <1>8 DEF AddArg
  <2>2. ~Accepted(args, n)
    BY <1>8 DEF OptsSay
  <2>3. cases \subseteq UpTo(args, "--testcase", n + 1)
    BY <1>4
  <2>4. ~Accepted(args, n + 1)
    BY <2>2, <2>3 DEF Accepted
  <2> QED
    BY <1>8, <2>1, <2>4 DEF OptsSay, a
<1>9. CASE o.ok /\ a.kind = "path"
  <2>1. d = [o EXCEPT !.paths = Append(@, a.value)]
    BY <1>9 DEF AddArg
  <2>2. AddsPath(o, a.value)
    BY <1>2, <1>9, OptsAssigned
  <2> HIDE DEF d
  <2>3. /\ d \in Opts /\ d.ok = o.ok /\ d.flags = o.flags
        /\ d.has_testcase = o.has_testcase /\ d.testcase = o.testcase
        /\ d.paths = Append(o.paths, a.value)
    BY <2>1, <2>2, Zenon DEF AddsPath
  <2>4. o.paths \in Seq(Words) /\ a.value \in Words
    BY <1>2, <1>9 DEF Opts
  <2>5. HasInOrder(o.paths, vals, UpTo(args, "path", n))
    BY <1>9 DEF OptsSay, vals
  <2>6. HasInOrder(Append(o.paths, a.value), vals, UpTo(args, "path", n) \cup {n + 1})
    BY <1>4, <1>5, <2>4, <2>5, OneMoreInOrder
  <2>7. HasInOrder(d.paths, vals, UpTo(args, "path", n + 1))
    BY <1>4, <1>9, <2>3, <2>6
  <2>8. d.flags = {f \in Flags : UpTo(args, f, n + 1) # {}}
    BY <1>4, <1>6, <1>9, <2>3 DEF OptsSay
  <2>9. UpTo(args, "--testcase", n + 1) = cases /\ a.kind # "--testcase"
    BY <1>4, <1>9
  <2> QED
    BY <1>7, <1>9, <2>3, <2>7, <2>8, <2>9 DEF OptsSay, vals, d, a
<1>10. CASE o.ok /\ a.kind = "--testcase"
  <2> DEFINE v == a.value
             r == parse_testcase(v)
  <2>1. d = AddTestcase(o, v)
    BY <1>10 DEF AddArg
  <2>2. v \in Seq(Part)
    BY <1>2, <1>10
  <2>3. r \in CaseCtx /\ NamesSay(r, v, Len(v))
    BY <2>2, NamesSayAll
  <2>4. DOMAIN v = 1 .. Len(v) /\ v = args[n + 1].value
    BY <2>2, LenProperties DEF a
  <2>5. UpTo(args, "--testcase", n + 1) = cases \cup {n + 1} /\ n + 1 \notin cases
    BY <1>3, <1>4, <1>10
  <2>6. CASE o.has_testcase
    <3>1. d = BadOpts
      BY <2>1, <2>6 DEF AddTestcase
    <3>2. cases # {}
      BY <1>10, <2>6 DEF OptsSay
    <3>3. ~Accepted(args, n + 1)
      BY <2>5, <3>2 DEF Accepted
    <3> QED
      BY <3>1, <3>3, OptsTyped DEF OptsSay, a
  <2>7. CASE ~r.ok
    <3>1. d = BadOpts
      BY <2>1, <2>7 DEF AddTestcase
    <3>2. "" \in ToSet(v)
      BY <2>3, <2>4, <2>7 DEF NamesSay, ToSet
    <3>3. ~Accepted(args, n + 1)
      <4> HIDE DEF v
      <4> QED
        BY <2>4, <2>5, <3>2 DEF Accepted
    <3> QED
      BY <3>1, <3>3, OptsTyped DEF OptsSay, a
  <2>8. CASE ~o.has_testcase /\ r.ok
    <3>1. d = [o EXCEPT !.has_testcase = TRUE, !.testcase = r.names]
      BY <2>1, <2>8 DEF AddTestcase
    <3>2. AddsCases(o, r.names)
      BY <2>3, OptsAssigned DEF CaseCtx
    <3>3. cases = {}
      BY <1>10, <2>8 DEF OptsSay
    <3>4. HasInOrder(r.names, v, FirstOnly(v))
      <4>1. FirstOnly(v) \cap (1 .. Len(v)) = FirstOnly(v)
        BY <2>4 DEF FirstOnly
      <4> QED
        BY <2>3, <2>8, <4>1 DEF NamesSay
    <3>5. "" \notin ToSet(v)
      BY <2>3, <2>4, <2>8 DEF NamesSay, ToSet
    <3> HIDE DEF d, r, v
    <3>6. /\ d \in Opts /\ d.ok = o.ok /\ d.flags = o.flags
          /\ d.has_testcase /\ d.testcase = r.names /\ d.paths = o.paths
      BY <3>1, <3>2, Zenon DEF AddsCases
    <3>7. UpTo(args, "--testcase", n + 1) = {n + 1}
      BY <2>5, <3>3
    <3>8. Accepted(args, n + 1)
      BY <2>4, <3>5, <3>7 DEF Accepted
    <3>9. UpTo(args, "path", n + 1) = UpTo(args, "path", n)
      BY <1>4, <1>10
    <3>10. d.flags = {f \in Flags : UpTo(args, f, n + 1) # {}}
      BY <1>4, <1>6, <1>10, <3>6 DEF OptsSay
    <3>11. HasInOrder(d.paths, ValuesOf(args), UpTo(args, "path", n + 1))
      BY <1>10, <3>6, <3>9 DEF OptsSay
    <3>12. \A i \in UpTo(args, "--testcase", n + 1) :
               HasInOrder(d.testcase, args[i].value, FirstOnly(args[i].value))
      BY <2>4, <3>4, <3>6, <3>7
    <3> QED
      BY <1>10, <3>6, <3>7, <3>8, <3>10, <3>11, <3>12 DEF OptsSay, d, a
  <2> QED
    BY <2>6, <2>7, <2>8
<1>11. CASE o.ok /\ a.kind \in Flags
  <2>1. d = [o EXCEPT !.flags = @ \cup {a.kind}]
    BY <1>6, <1>11 DEF AddArg
  <2>2. AddsFlag(o, a.kind)
    BY <1>11, OptsAssigned
  <2> HIDE DEF d
  <2>3. /\ d \in Opts /\ d.ok = o.ok /\ d.flags = o.flags \cup {a.kind}
        /\ d.has_testcase = o.has_testcase /\ d.testcase = o.testcase
        /\ d.paths = o.paths
    BY <2>1, <2>2, Zenon DEF AddsFlag
  <2>4. /\ UpTo(args, "path", n + 1) = UpTo(args, "path", n)
        /\ UpTo(args, "--testcase", n + 1) = cases
        /\ a.kind # "--testcase"
    BY <1>4, <1>6, <1>11
  <2>5. d.flags = {f \in Flags : UpTo(args, f, n + 1) # {}}
    <3>1. o.flags = {f \in Flags : UpTo(args, f, n) # {}}
      BY <1>11 DEF OptsSay
    <3>2. \A f \in Flags : UpTo(args, f, n + 1) # {}
                           <=> UpTo(args, f, n) # {} \/ f = a.kind
      BY <1>4
    <3> QED
      BY <1>11, <2>3, <3>1, <3>2
  <2> QED
    BY <1>7, <1>11, <2>3, <2>4, <2>5 DEF OptsSay, d, a
<1>12. CASE o.ok /\ a.kind = "--unknown"
  <2>1. d = o
    BY <1>6, <1>12 DEF AddArg
  <2>2. /\ \A k \in Flags \cup {"path", "--testcase"} :
               UpTo(args, k, n + 1) = UpTo(args, k, n)
        /\ a.kind # "--testcase"
    BY <1>4, <1>6, <1>12
  <2>3. o.flags = {f \in Flags : UpTo(args, f, n + 1) # {}}
    BY <1>12, <2>2 DEF OptsSay
  <2> QED
    BY <1>7, <1>12, <2>1, <2>2, <2>3 DEF OptsSay, a
<1> QED
  BY <1>2, <1>8, <1>9, <1>10, <1>11, <1>12 DEF a

(* The options keep their type.                                            *)
LEMMA AddArgTyped ==
    \A o \in Opts, a \in Argument : AddArg(o, a) \in Opts
<1> SUFFICES ASSUME NEW o \in Opts, NEW a \in Argument
             PROVE  AddArg(o, a) \in Opts
  OBVIOUS
<1>1. /\ a.kind = "path" => a.value \in Words
      /\ a.kind = "--testcase" => a.value \in Seq(Part)
  BY DEF Argument, Flags
<1>2. CASE o.ok /\ a.kind = "path"
  <2>1. AddArg(o, a) = [o EXCEPT !.paths = Append(@, a.value)]
    BY <1>2 DEF AddArg
  <2>2. AddsPath(o, a.value)
    BY <1>1, <1>2, OptsAssigned
  <2> QED
    BY <2>1, <2>2, Zenon DEF AddsPath
<1>3. CASE o.ok /\ a.kind = "--testcase"
  <2> DEFINE r == parse_testcase(a.value)
  <2>1. AddArg(o, a) = AddTestcase(o, a.value)
    BY <1>3 DEF AddArg
  <2>2. r \in CaseCtx
    BY <1>1, <1>3, NamesSayAll
  <2>3. CASE o.has_testcase \/ ~r.ok
    <3>1. AddArg(o, a) = BadOpts
      BY <2>1, <2>3 DEF AddTestcase
    <3> QED
      BY <3>1, OptsTyped
  <2>4. CASE ~o.has_testcase /\ r.ok
    <3>1. AddArg(o, a) = [o EXCEPT !.has_testcase = TRUE, !.testcase = r.names]
      BY <2>1, <2>4 DEF AddTestcase
    <3>2. AddsCases(o, r.names)
      BY <2>2, OptsAssigned DEF CaseCtx
    <3> HIDE DEF r
    <3> QED
      BY <3>1, <3>2, Zenon DEF AddsCases
  <2> QED
    BY <2>3, <2>4
<1>4. CASE o.ok /\ a.kind \in Flags
  <2>1. AddArg(o, a) = [o EXCEPT !.flags = @ \cup {a.kind}]
    BY <1>4 DEF AddArg, Flags
  <2>2. AddsFlag(o, a.kind)
    BY <1>4, OptsAssigned
  <2> QED
    BY <2>1, <2>2, Zenon DEF AddsFlag
<1>5. CASE ~o.ok \/ a.kind \notin {"path", "--testcase"} \cup Flags
  <2>1. AddArg(o, a) = o
    BY <1>5 DEF AddArg
  <2> QED
    BY <2>1
<1> QED
  BY <1>2, <1>3, <1>4, <1>5

\* One round of the loop of getopts().
OneArg(h, args, i) == IF i = 0 THEN NoOpts ELSE AddArg(h[i - 1], args[i])

(* What getopts() makes of the arguments (lib/getopts.lua:68-105).         *)
LEMMA OptsSayAll ==
    ASSUME NEW args \in Seq(Argument)
    PROVE  /\ getopts(args) \in Opts
           /\ OptsSay(getopts(args), args, Len(args))
<1> DEFINE N == Len(args)
           h == CHOOSE g : g = [i \in 0 .. N |-> OneArg(g, args, i)]
           P == {n \in Nat : n <= N => h[n] \in Opts /\ OptsSay(h[n], args, n)}
<1>1. N \in Nat /\ \A i \in 1 .. N : args[i] \in Argument
  BY LenProperties, ElementOfSeq
<1>2. getopts(args) = h[N]
  BY DEF getopts, OneArg
<1> HIDE DEF N
<1>3. h = [i \in 0 .. N |-> OneArg(h, args, i)]
  <2> SUFFICES \E g : g = [i \in 0 .. N |-> OneArg(g, args, i)]
    OBVIOUS
  <2> DEFINE step == [p \in Opts \X (1 .. N) |-> AddArg(p[1], args[p[2]])]
  <2>1. step \in [Opts \X (1 .. N) -> Opts]
    BY <1>1, AddArgTyped
  <2>2. \A o \in Opts, i \in 1 .. N : step[<<o, i>>] = AddArg(o, args[i])
    OBVIOUS
  <2> HIDE DEF step
  <2>3. PICK g : Loops(g, Opts, NoOpts, N, step)
    <3>1. NoOpts \in Opts
      BY OptsTyped
    <3>2. N \in Nat
      BY <1>1
    <3> QED
      BY <2>1, <3>1, <3>2, LoopExists, Zenon
  <2>4. ASSUME NEW i \in 0 .. N PROVE g[i] = OneArg(g, args, i)
    <3>1. CASE i = 0
      BY <2>3, <3>1 DEF OneArg, Loops
    <3>2. CASE i # 0
      <4>1. i \in 1 .. N /\ i - 1 \in 0 .. N
        BY <1>1, <3>2
      <4> QED
        BY <2>2, <2>3, <3>2, <4>1 DEF OneArg, Loops
    <3> QED
      BY <3>1, <3>2
  <2>5. g = [i \in 0 .. N |-> g[i]]
    BY <2>3 DEF Loops
  <2>6. g = [i \in 0 .. N |-> OneArg(g, args, i)]
    BY <2>4, <2>5
  <2> QED
    BY <2>6, Zenon
<1> HIDE DEF h
<1>4. \A i \in 0 .. N : h[i] = OneArg(h, args, i)
  BY <1>3
<1>5. 0 \in P
  <2>1. h[0] = NoOpts
    BY <1>1, <1>4 DEF OneArg
  <2>2. \A k : UpTo(args, k, 0) = {}
    BY DEF UpTo
  <2>3. Accepted(args, 0)
    BY <2>2 DEF Accepted
  <2>4. OptsSay(NoOpts, args, 0)
    BY <2>2, <2>3, OptsTyped, NoneInOrder DEF OptsSay
  <2> QED
    BY <2>1, <2>4, OptsTyped
<1>6. ASSUME NEW n \in Nat, n \in P PROVE n + 1 \in P
  <2> SUFFICES ASSUME n + 1 <= N
               PROVE  h[n + 1] \in Opts /\ OptsSay(h[n + 1], args, n + 1)
    OBVIOUS
  <2>1. h[n] \in Opts /\ OptsSay(h[n], args, n)
    BY <1>1, <1>6
  <2>2. n + 1 \in 0 .. N /\ n + 1 # 0 /\ (n + 1) - 1 = n
    BY <1>1
  <2>3. h[n + 1] = AddArg(h[n], args[n + 1])
    BY <1>4, <2>2 DEF OneArg
  <2> QED
    BY <2>1, <2>3, OptsNext DEF N
<1> HIDE DEF P
<1>7. N \in P
  BY <1>1, <1>5, <1>6, NatInd
<1> QED
  BY <1>1, <1>2, <1>7 DEF P, N

(* For any number of arguments and names: they are refused exactly for a   *)
(* second --testcase or an empty name, and otherwise every pathname, flag  *)
(* and name is kept, in order (lib/getopts.lua:37-105).                    *)
THEOREM ArgumentsKeptHolds == Spec => []ArgumentsKept
<1>1. ASSUME ask \in OfGetopts PROVE ArgumentsKept
  <2> DEFINE args == ask.args
             o == getopts(args)
             cases == Given(args, "--testcase")
  <2>1. args \in Seq(Argument)
    BY <1>1 DEF OfGetopts
  <2>2. OptsSay(o, args, Len(args))
    BY <2>1, OptsSayAll
  <2>3. DOMAIN args = 1 .. Len(args)
    BY <2>1, LenProperties
  <2>4. \A k : Given(args, k) = UpTo(args, k, Len(args))
    BY <2>3 DEF Given, UpTo
  <2> HIDE DEF args, o
  <2>5. Accepted(args, Len(args))
        <=> /\ \A i, j \in cases : i = j
            /\ \A i \in cases : "" \notin ToSet(args[i].value)
    BY <2>4 DEF Accepted
  <2>6. o.ok <=> Accepted(args, Len(args))
    BY <2>2 DEF OptsSay
  <2>7. ASSUME o.ok
        PROVE  /\ HasInOrder(o.paths, [i \in DOMAIN args |-> args[i].value],
                             Given(args, "path"))
               /\ o.flags = {f \in Flags : Given(args, f) # {}}
               /\ cases = {} => o.testcase = << >>
               /\ \A i \in cases :
                      HasInOrder(o.testcase, args[i].value, FirstOnly(args[i].value))
    BY <2>2, <2>4, <2>7 DEF OptsSay, ValuesOf
  <2> QED
    BY <2>5, <2>6, <2>7 DEF ArgumentsKept, args, o
<1>2. ask \in Questions => ArgumentsKept
  BY <1>1, Asking DEF ArgumentsKept
<1> QED
  BY <1>2, AskingAlways, PTL
===============================================================================
