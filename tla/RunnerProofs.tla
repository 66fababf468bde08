---------------------------- MODULE RunnerProofs ----------------------------
(***************************************************************************)
(* Theorems about Runner, for every list of files, every set of processes  *)
(* and every directory.                                                    *)
(***************************************************************************)
EXTENDS Runner, FiniteSetTheorems, SequenceTheorems, WellFoundedInduction, TLAPS

-----------------------------------------------------------------------------
(* Recursion over the naturals, and the selection of tests.                *)

(* A set with 0 that has the successor of each of its numbers has them all.*)
LEMMA NatInd ==
    ASSUME NEW S, 0 \in S, \A n \in Nat : n \in S => n + 1 \in S
    PROVE  Nat \subseteq S
<1> DEFINE R == OpToRel(<, Nat)
           T == Nat \ S
<1> SUFFICES ASSUME T # {} PROVE FALSE
  OBVIOUS
<1>1. IsWellFoundedOn(R, Nat)
  BY NatLessThanWellFounded
<1>2. \A x, y \in Nat : x < y => <<x, y>> \in R
  BY DEF OpToRel
<1> HIDE DEF R
<1>3. PICK x \in T : \A y \in T : ~ (<<y, x>> \in R)
  BY <1>1, WFMin
<1>4. x \in Nat /\ x \notin S
  BY <1>3
<1>5. x # 0
  BY <1>4
<1>6. x - 1 \in Nat /\ x - 1 < x /\ (x - 1) + 1 = x
  BY <1>4, <1>5
<1>7. x - 1 \notin T
  BY <1>2, <1>3, <1>4, <1>6
<1> QED
  BY <1>4, <1>6, <1>7

\* One round of the loop that copies the tests of select_testcases().
Round(f, s, S, i) ==
    IF i = 0 THEN << >>
    ELSE IF s[i] \in S THEN Append(f[i - 1], s[i]) ELSE f[i - 1]

(* The loop is a function of the rounds it has made.                       *)
LEMMA RoundsExist ==
    ASSUME NEW s, NEW S, NEW n \in Nat
    PROVE  \E f : f = [i \in 0 .. n |-> Round(f, s, S, i)]
<1> DEFINE P == {m \in Nat : \E f : f = [i \in 0 .. m |-> Round(f, s, S, i)]}
<1>1. 0 \in P
  <2> DEFINE f == [i \in 0 .. 0 |-> << >>]
  <2>1. f = [i \in 0 .. 0 |-> Round(f, s, S, i)]
    <3>1. \A i \in 0 .. 0 : Round(f, s, S, i) = << >>
      BY DEF Round
    <3> HIDE DEF f
    <3> QED
      BY <3>1 DEF f
  <2> HIDE DEF f
  <2> QED
    BY <2>1
<1>2. ASSUME NEW m \in Nat, m \in P PROVE m + 1 \in P
  <2>1. PICK f : f = [i \in 0 .. m |-> Round(f, s, S, i)]
    BY <1>2
  <2> DEFINE g == [i \in 0 .. m + 1 |-> IF i = m + 1 THEN Round(f, s, S, i) ELSE f[i]]
  <2>2. ASSUME NEW i \in 0 .. m + 1 PROVE g[i] = Round(f, s, S, i)
    BY <2>1
  <2>3. ASSUME NEW i \in 0 .. m + 1 PROVE Round(g, s, S, i) = Round(f, s, S, i)
    <3>1. CASE i = 0
      BY <3>1 DEF Round
    <3>2. CASE i # 0
      <4>1. i - 1 \in 0 .. m + 1 /\ i - 1 # m + 1
        BY <3>2
      <4>2. g[i - 1] = f[i - 1]
        BY <4>1
      <4> HIDE DEF g
      <4> QED
        BY <4>2 DEF Round
    <3> QED
      BY <3>1, <3>2
  <2>4. g = [i \in 0 .. m + 1 |-> g[i]]
    OBVIOUS
  <2> HIDE DEF g
  <2>5. g = [i \in 0 .. m + 1 |-> Round(g, s, S, i)]
    BY <2>2, <2>3, <2>4
  <2> QED
    BY <2>5
<1> HIDE DEF P
<1>3. n \in P
  BY <1>1, <1>2, NatInd
<1> QED
  BY <1>3 DEF P

(* What is kept of a sequence: its elements that are in S, and no other    *)
(* (lib/runner.lua:228-240).                                               *)
LEMMA KeptOK ==
    ASSUME NEW T, NEW s \in Seq(T), NEW S
    PROVE  /\ Kept(s, S) \in Seq(T \cap S)
           /\ \A k \in DOMAIN Kept(s, S) : \E j \in DOMAIN s : s[j] = Kept(s, S)[k]
           /\ \A j \in DOMAIN s :
                  s[j] \in S => \E k \in DOMAIN Kept(s, S) : Kept(s, S)[k] = s[j]
<1> DEFINE f == CHOOSE h : h = [i \in 0 .. Len(s) |-> Round(h, s, S, i)]
           Good(n, q) ==
               /\ q \in Seq(T \cap S)
               /\ \A k \in DOMAIN q : \E j \in 1 .. n : s[j] = q[k]
               /\ \A j \in 1 .. n : s[j] \in S => \E k \in DOMAIN q : q[k] = s[j]
           P == {n \in Nat : n <= Len(s) => Good(n, f[n])}
<1>1. Len(s) \in Nat /\ DOMAIN s = 1 .. Len(s)
  OBVIOUS
<1>2. f = [i \in 0 .. Len(s) |-> Round(f, s, S, i)]
  BY <1>1, RoundsExist
<1>3. Kept(s, S) = f[Len(s)]
  BY DEF Kept, Round
<1> HIDE DEF f
<1>4. \A n \in 0 .. Len(s) : f[n] = Round(f, s, S, n)
  BY <1>2
<1>5. 0 \in P
  <2>1. f[0] = << >>
    BY <1>1, <1>4 DEF Round
  <2>2. << >> \in Seq(T \cap S) /\ DOMAIN << >> = {} /\ 1 .. 0 = {}
    OBVIOUS
  <2>3. Good(0, << >>)
    BY <2>2
  <2> HIDE DEF Good
  <2> QED
    BY <2>1, <2>3
<1>6. ASSUME NEW n \in Nat, n \in P, n + 1 <= Len(s) PROVE Good(n + 1, f[n + 1])
  <2> DEFINE q == f[n]
  <2>1. Good(n, q)
    BY <1>1, <1>6
  <2>2. n + 1 \in DOMAIN s /\ s[n + 1] \in T
    BY <1>1, <1>6
  <2>3. f[n + 1] = IF s[n + 1] \in S THEN Append(q, s[n + 1]) ELSE q
    <3>1. n + 1 \in 0 .. Len(s) /\ n + 1 # 0 /\ (n + 1) - 1 = n
      BY <1>1, <1>6
    <3> QED
      BY <1>4, <3>1 DEF Round
  <2> HIDE DEF q
  <2>4. CASE s[n + 1] \notin S
    <3>1. f[n + 1] = q
      BY <2>3, <2>4
    <3>2. \A j \in 1 .. n + 1 : j \in 1 .. n \/ j = n + 1
      OBVIOUS
    <3>3. \A j \in 1 .. n : j \in 1 .. n + 1
      OBVIOUS
    <3> QED
      BY <2>1, <2>4, <3>1, <3>2, <3>3
  <2>5. CASE s[n + 1] \in S
    <3> DEFINE r == Append(q, s[n + 1])
    <3>1. q \in Seq(T \cap S) /\ s[n + 1] \in T \cap S
      BY <2>1, <2>2, <2>5
    <3>2. /\ r \in Seq(T \cap S) /\ Len(q) + 1 \in DOMAIN r
          /\ r[Len(q) + 1] = s[n + 1]
          /\ \A k \in DOMAIN q : k \in DOMAIN r /\ r[k] = q[k]
          /\ \A k \in DOMAIN r : k \in DOMAIN q \/ k = Len(q) + 1
      BY <3>1
    <3>3. f[n + 1] = r
      BY <2>3, <2>5
    <3> HIDE DEF r
    <3>4. \A j \in 1 .. n + 1 : j \in 1 .. n \/ j = n + 1
      OBVIOUS
    <3>5. n + 1 \in 1 .. n + 1 /\ \A j \in 1 .. n : j \in 1 .. n + 1
      OBVIOUS
    <3>6. \A k \in DOMAIN r : \E j \in 1 .. n + 1 : s[j] = r[k]
      BY <2>1, <3>2, <3>5
    <3>7. \A j \in 1 .. n + 1 : s[j] \in S => \E k \in DOMAIN r : r[k] = s[j]
      BY <2>1, <3>2, <3>4
    <3> QED
      BY <3>2, <3>3, <3>6, <3>7
  <2> QED
    BY <2>4, <2>5
<1> HIDE DEF Good
<1>7. \A n \in Nat : n \in P => n + 1 \in P
  BY <1>6
<1> HIDE DEF P
<1>8. Len(s) \in P
  BY <1>1, <1>5, <1>7, NatInd
<1>9. Good(Len(s), Kept(s, S))
  BY <1>1, <1>3, <1>8 DEF P
<1> QED
  BY <1>1, <1>9 DEF Good

(* What is kept does not depend on what follows, and an element at the end *)
(* is kept at the end (lib/runner.lua:228-233).                            *)
LEMMA KeptAppend ==
    ASSUME NEW T, NEW s \in Seq(T), NEW x \in T, NEW S
    PROVE  Kept(Append(s, x), S) = IF x \in S THEN Append(Kept(s, S), x) ELSE Kept(s, S)
<1> DEFINE t == Append(s, x)
           f == CHOOSE h : h = [i \in 0 .. Len(s) |-> Round(h, s, S, i)]
           g == CHOOSE h : h = [i \in 0 .. Len(t) |-> Round(h, t, S, i)]
           P == {n \in Nat : n <= Len(s) => g[n] = f[n]}
<1>1. Kept(s, S) = f[Len(s)] /\ Kept(t, S) = g[Len(t)]
  BY DEF Kept, Round
<1>2. /\ Len(s) \in Nat /\ Len(t) = Len(s) + 1 /\ t[Len(s) + 1] = x
      /\ \A i \in 1 .. Len(s) : t[i] = s[i]
  OBVIOUS
<1> HIDE DEF t
<1>3. f = [i \in 0 .. Len(s) |-> Round(f, s, S, i)]
  <2>1. Len(s) \in Nat
    BY <1>2
  <2> QED
    BY <2>1, RoundsExist
<1>4. g = [i \in 0 .. Len(t) |-> Round(g, t, S, i)]
  <2>1. Len(t) \in Nat
    BY <1>2
  <2> QED
    BY <2>1, RoundsExist
<1> HIDE DEF f, g
<1>5. \A n \in 0 .. Len(s) : f[n] = Round(f, s, S, n)
  BY <1>3
<1>6. \A n \in 0 .. Len(s) + 1 : g[n] = Round(g, t, S, n)
  BY <1>2, <1>4
<1>7. 0 \in P
  BY <1>2, <1>5, <1>6 DEF Round
<1>8. ASSUME NEW n \in Nat, n \in P PROVE n + 1 \in P
  <2> SUFFICES ASSUME n + 1 <= Len(s) PROVE g[n + 1] = f[n + 1]
    OBVIOUS
  <2>1. g[n] = f[n] /\ n + 1 \in 1 .. Len(s) /\ t[n + 1] = s[n + 1]
    BY <1>2, <1>8
  <2>2. n + 1 # 0 /\ (n + 1) - 1 = n /\ n + 1 \in 0 .. Len(s) /\ n + 1 \in 0 .. Len(s) + 1
    BY <1>2, <2>1
  <2>3. Round(g, t, S, n + 1) = Round(f, s, S, n + 1)
    BY <2>1, <2>2 DEF Round
  <2> QED
    BY <1>5, <1>6, <2>2, <2>3
<1> HIDE DEF P
<1>9. Len(s) \in P
  BY <1>2, <1>7, <1>8, NatInd
<1>10. g[Len(s)] = f[Len(s)]
  BY <1>2, <1>9 DEF P
<1>11. g[Len(s) + 1] = IF x \in S THEN Append(g[Len(s)], x) ELSE g[Len(s)]
  <2>1. /\ Len(s) + 1 \in 0 .. Len(s) + 1 /\ Len(s) + 1 # 0
        /\ (Len(s) + 1) - 1 = Len(s)
    BY <1>2
  <2> QED
    BY <1>2, <1>6, <2>1 DEF Round
<1> QED
  BY <1>1, <1>2, <1>10, <1>11 DEF t

(* The files that are left, each with the named ones of its tests, and all *)
(* of them (lib/runner.lua:219-255).                                       *)
LEMMA SelectedOK ==
    ASSUME NEW l \in Seq(Source), NEW names
    PROVE  /\ Selected(l, names) \in Seq(Source)
           /\ \A k \in DOMAIN Selected(l, names) :
                  \E j \in DOMAIN l :
                      /\ Selected(l, names)[k] =
                             [l[j] EXCEPT !.tests = Kept(l[j].tests, names)]
                      /\ Selected(l, names)[k].tests # << >>
           /\ \A j \in DOMAIN l :
                  Kept(l[j].tests, names) # << >>
                  => \E k \in DOMAIN Selected(l, names) :
                         Selected(l, names)[k] =
                             [l[j] EXCEPT !.tests = Kept(l[j].tests, names)]
<1> DEFINE picked == [i \in DOMAIN l |-> [l[i] EXCEPT !.tests = Kept(@, names)]]
           full == {s \in Source : s.tests # << >>}
           q == Selected(l, names)
<1>1. q = Kept(picked, full)
  BY DEF Selected
<1>2. ASSUME NEW i \in DOMAIN l
      PROVE  /\ picked[i] \in Source
             /\ picked[i] = [l[i] EXCEPT !.tests = Kept(l[i].tests, names)]
             /\ picked[i].tests = Kept(l[i].tests, names)
  <2>1. l[i] \in Source /\ l[i].tests \in Seq(TestName)
    <3>1. l[i] \in Source
      OBVIOUS
    <3> QED
      BY <3>1 DEF Source
  <2>2. Kept(l[i].tests, names) \in Seq(TestName \cap names)
    BY <2>1, KeptOK
  <2>3. Kept(l[i].tests, names) \in Seq(TestName)
    BY <2>2
  <2> QED
    BY <2>1, <2>3 DEF Source
<1>3. picked \in Seq(Source) /\ DOMAIN picked = DOMAIN l
  <2>1. DOMAIN l = 1 .. Len(l) /\ Len(l) \in Nat
    OBVIOUS
  <2>2. picked \in [1 .. Len(l) -> Source]
    BY <1>2, <2>1
  <2> QED
    BY <2>1, <2>2
<1> HIDE DEF picked, q, full
<1>4. /\ q \in Seq(Source \cap full)
      /\ \A k \in DOMAIN q : \E j \in DOMAIN picked : picked[j] = q[k]
      /\ \A j \in DOMAIN picked :
             picked[j] \in full => \E k \in DOMAIN q : q[k] = picked[j]
  BY <1>1, <1>3, KeptOK
<1>5. q \in Seq(Source) /\ \A k \in DOMAIN q : q[k] \in full
  BY <1>4
<1>6. \A k \in DOMAIN q : q[k].tests # << >>
  BY <1>5 DEF full
<1>7. \A k \in DOMAIN q : \E j \in DOMAIN l :
          q[k] = [l[j] EXCEPT !.tests = Kept(l[j].tests, names)]
  BY <1>2, <1>3, <1>4
<1>8. \A j \in DOMAIN l : Kept(l[j].tests, names) # << >> => picked[j] \in full
  BY <1>2 DEF full
<1>9. \A j \in DOMAIN l :
          Kept(l[j].tests, names) # << >>
          => \E k \in DOMAIN q :
                 q[k] = [l[j] EXCEPT !.tests = Kept(l[j].tests, names)]
  BY <1>2, <1>3, <1>4, <1>8
<1> QED
  BY <1>5, <1>6, <1>7, <1>9 DEF q

(* No test that was named is lost, and it stays in the directory of its    *)
(* file (lib/runner.lua:219-255).                                          *)
LEMMA SelectedHas ==
    ASSUME NEW l \in Seq(Source), NEW names, NEW j \in DOMAIN l,
           NEW t \in DOMAIN l[j].tests, l[j].tests[t] \in names
    PROVE  \E k \in DOMAIN Selected(l, names) :
               /\ Selected(l, names)[k].dir = l[j].dir
               /\ \E n \in DOMAIN Selected(l, names)[k].tests :
                      Selected(l, names)[k].tests[n] = l[j].tests[t]
<1> DEFINE s == l[j].tests
           q == Kept(s, names)
           c == Selected(l, names)
<1>1. l[j] \in Source /\ s \in Seq(TestName)
  <2>1. l[j] \in Source
    OBVIOUS
  <2> QED
    BY <2>1 DEF Source
<1>0. q = Kept(s, names)
  OBVIOUS
<1> HIDE DEF s, q
<1>2. /\ q \in Seq(TestName \cap names)
      /\ \A n \in DOMAIN q : \E i \in DOMAIN s : s[i] = q[n]
      /\ \A i \in DOMAIN s : s[i] \in names => \E n \in DOMAIN q : q[n] = s[i]
  BY <1>0, <1>1, KeptOK
<1>3. PICK n \in DOMAIN q : q[n] = s[t]
  BY <1>2 DEF s
<1>4. q # << >>
  BY <1>3
<1>5. PICK k \in DOMAIN c : c[k] = [l[j] EXCEPT !.tests = q]
  <2>1. Kept(l[j].tests, names) = q
    BY <1>0 DEF s
  <2>2. \A i \in DOMAIN l :
            Kept(l[i].tests, names) # << >>
            => \E k \in DOMAIN Selected(l, names) :
                   Selected(l, names)[k] =
                       [l[i] EXCEPT !.tests = Kept(l[i].tests, names)]
    BY SelectedOK
  <2> QED
    BY <1>4, <2>1, <2>2
<1> HIDE DEF c
<1>6. c[k].dir = l[j].dir /\ c[k].tests = q
  <2> DEFINE r == l[j]
  <2>1. r \in [dir : Dirs, hooks : SUBSET HookNames, tests : Seq(TestName)]
    BY <1>1 DEF Source
  <2> HIDE DEF r
  <2>2. [r EXCEPT !.tests = q].dir = r.dir /\ [r EXCEPT !.tests = q].tests = q
    BY <2>1
  <2> QED
    BY <1>5, <2>2 DEF r
<1>7. \E i \in DOMAIN c[k].tests : c[k].tests[i] = s[t]
  BY <1>3, <1>6
<1> QED
  BY <1>6, <1>7 DEF c, s

-----------------------------------------------------------------------------
(* Type correctness.                                                       *)

(* The position of run() in the list is one the list has.                  *)
Located(m) ==
    /\ m.stage \in FileStages => m.fi \in DOMAIN m.list
    /\ m.stage = "test" => m.ti \in DOMAIN Src(m).tests
    /\ m.infn => Due(m)

TypeInv == TypeOK /\ \A p \in Proc : Located(mem[p])

(* The memory of a process that has not begun is well formed.              *)
LEMMA BootOK == Boot \in Memory /\ Located(Boot)
<1>1. Root \in Dirs
  BY DirAssumption
<1>2. Boot \in Memory
  BY <1>1 DEF Boot, Memory, Stages, FileStages, CallStages, HookNames
<1> QED
  BY <1>2 DEF Boot, Located, FileStages, CallStages, HookNames

(* The numbers and lists among the variables of run().                     *)
LEMMA Fields ==
    ASSUME NEW m \in Memory
    PROVE  /\ m.fi \in Nat /\ m.fi # 0 /\ m.ti \in Nat /\ m.ti # 0
           /\ m.n \in Nat /\ m.nsuccess \in Nat /\ m.ntest \in Nat
           /\ m.count \in Nat /\ m.errs \in Seq(ErrName) /\ m.list \in Seq(Source)
  BY DEF Memory

(* What run_file() changes when it records an outcome.                     *)
LEMMA SettleFields ==
    ASSUME NEW m \in Memory, NEW ok \in BOOLEAN
    PROVE  LET s == Settle(m, ok)
           IN  /\ s.nsuccess = m.nsuccess /\ s.ntest = m.ntest /\ s.count = m.count
               /\ s.list = m.list /\ s.fi = m.fi /\ s.infn = m.infn
               /\ s.saved = m.saved /\ Src(s) = Src(m)
               /\ s.stage = IF ok THEN OnSuccess[m.stage] ELSE OnFailure[m.stage]
               /\ s.ti = IF ok /\ m.stage = "after_each" THEN m.ti + 1 ELSE m.ti
               /\ s.n = IF ok /\ m.stage = "test" THEN m.n + 1 ELSE m.n
               /\ s.errs = IF ok THEN m.errs ELSE Append(m.errs, CallName(m))
               /\ s.errors = m.errors
  BY DEF Settle, Memory, Src

(* What passing over a hook that is not defined changes.                   *)
LEMMA PassFields ==
    ASSUME NEW m \in Memory
    PROVE  /\ Settle(m, TRUE).list = m.list
           /\ Settle(m, TRUE).fi = m.fi
           /\ Settle(m, TRUE).ntest = m.ntest
           /\ Settle(m, TRUE).errs = m.errs
           /\ Settle(m, TRUE).errors = m.errors
           /\ m.stage # "test" => Settle(m, TRUE).n = m.n
           /\ Settle(m, TRUE).stage = OnSuccess[m.stage]
           /\ Settle(m, TRUE).ti = IF m.stage = "after_each" THEN m.ti + 1 ELSE m.ti
<1>1. TRUE \in BOOLEAN
  OBVIOUS
<1> QED
  BY <1>1, SettleFields

(* Recording an outcome stays inside run_file().                           *)
LEMMA SettleStage ==
    ASSUME NEW stage \in CallStages
    PROVE  OnSuccess[stage] \in FileStages /\ OnFailure[stage] \in FileStages
  BY DEF OnSuccess, OnFailure, FileStages, CallStages, HookNames

(* An error is filed under the name of a hook or of a test.                *)
LEMMA CallNameOK ==
    ASSUME NEW m \in Memory, Located(m), m.stage \in CallStages
    PROVE  CallName(m) \in ErrName
<1>1. m.fi \in DOMAIN m.list /\ Src(m) \in Source
  BY DEF Located, FileStages, Src, Memory
<1> QED
  BY <1>1 DEF Located, CallName, Source, ErrName, CallStages

(* A hook that is passed over does not lead to the end of a test.          *)
LEMMA SkipStage ==
    ASSUME NEW stage \in HookNames
    PROVE  /\ OnSuccess[stage] \in {"before_each", "test", "tally"}
           /\ OnSuccess[stage] = "tally" => stage = "after_all"
  BY DEF OnSuccess, HookNames

(* run_file() leaves its memory well formed when it records an outcome     *)
(* (lib/runner.lua:138-212).                                               *)
LEMMA SettleOK ==
    ASSUME NEW m \in Memory, Located(m), NEW ok \in BOOLEAN,
           m.stage \in CallStages, ~LoopEnds(m)
    PROVE  LET s == [Settle(m, ok) EXCEPT !.infn = FALSE]
           IN  s \in Memory /\ Located(s)
<1> DEFINE s == [Settle(m, ok) EXCEPT !.infn = FALSE]
<1>1. m.fi \in DOMAIN m.list /\ Src(m) \in Source
  BY DEF Located, FileStages, Src, Memory
<1>2. CallName(m) \in ErrName
  BY CallNameOK
<1>3. m.stage \in {"before_all", "before_each", "test", "after_each", "after_all"}
  BY DEF CallStages, HookNames
<1>4. s.stage \in FileStages
  BY <1>3 DEF Settle, OnSuccess, OnFailure, FileStages, CallStages, HookNames, Memory
<1>5. Append(m.errs, CallName(m)) \in Seq(ErrName)
  BY <1>2 DEF Memory
<1>6. s \in Memory
  <2> DEFINE stage == IF ok THEN OnSuccess[m.stage] ELSE OnFailure[m.stage]
             ti == IF ok /\ m.stage = "after_each" THEN m.ti + 1 ELSE m.ti
             n == IF ok /\ m.stage = "test" THEN m.n + 1 ELSE m.n
             errs == IF ok THEN m.errs ELSE Append(m.errs, CallName(m))
  <2>1. s = [m EXCEPT !.stage = stage, !.ti = ti, !.n = n, !.errs = errs,
                      !.infn = FALSE]
    BY DEF Settle
  <2>2. stage \in Stages
    BY <1>3 DEF OnSuccess, OnFailure, Stages, FileStages, CallStages, HookNames
  <2>3. ti \in Nat \ {0} /\ n \in Nat
    BY DEF Memory
  <2>4. errs \in Seq(ErrName)
    BY <1>5 DEF Memory
  <2> HIDE DEF s, stage, ti, n, errs
  <2> QED
    BY <2>1, <2>2, <2>3, <2>4 DEF Memory
<1>7. s.list = m.list /\ s.fi = m.fi /\ s.infn = FALSE /\ Src(s) = Src(m)
  BY DEF Settle, Memory, Src
<1>8. ASSUME s.stage = "test" PROVE s.ti \in DOMAIN Src(s).tests
  <2>1. m.stage = "before_each" /\ s.ti = m.ti
    BY <1>3, <1>8 DEF Settle, OnSuccess, OnFailure, Memory
  <2>2. m.ti \in Nat \ {0} /\ Src(m).tests \in Seq(TestName)
    BY <1>1 DEF Memory, Source
  <2> QED
    BY <1>7, <2>1, <2>2 DEF LoopEnds
<1> QED
  BY <1>1, <1>4, <1>6, <1>7, <1>8 DEF Located

(* The flag of no_run() and the result of run() have no part in where      *)
(* run() stands (lib/runner.lua:241-251).                                  *)
LEMMA SamePlace ==
    ASSUME NEW m \in Memory, Located(m), NEW s \in Memory,
           s.stage = m.stage, s.infn = m.infn, s.list = m.list,
           s.fi = m.fi, s.ti = m.ti
    PROVE  Located(s)
<1>1. Src(s) = Src(m)
  BY DEF Src
<1>2. LoopEnds(s) = LoopEnds(m)
  BY <1>1 DEF LoopEnds
<1>3. Due(s) = Due(m)
  BY <1>1, <1>2 DEF Due
<1> QED
  BY <1>1, <1>3 DEF Located

LEMMA BlockedOK ==
    ASSUME NEW m \in Memory, Located(m), NEW b \in BOOLEAN
    PROVE  LET s == [m EXCEPT !.blocked = b] IN s \in Memory /\ Located(s)
<1> DEFINE s == [m EXCEPT !.blocked = b]
<1>1. s \in Memory
  BY DEF Memory
<1>2. /\ s.stage = m.stage /\ s.infn = m.infn /\ s.list = m.list
      /\ s.fi = m.fi /\ s.ti = m.ti
  BY DEF Memory
<1>3. Located(s)
  <2> HIDE DEF s
  <2> QED
    BY <1>1, <1>2, SamePlace
<1> QED
  BY <1>1, <1>3

LEMMA ResultOK ==
    ASSUME NEW m \in Memory, Located(m), NEW r \in {"blocked", "notfound"}
    PROVE  LET s == [m EXCEPT !.result = r] IN s \in Memory /\ Located(s)
<1> DEFINE s == [m EXCEPT !.result = r]
<1>1. s \in Memory
  BY DEF Memory
<1>2. /\ s.stage = m.stage /\ s.infn = m.infn /\ s.list = m.list
      /\ s.fi = m.fi /\ s.ti = m.ti
  BY DEF Memory
<1>3. Located(s)
  <2> HIDE DEF s
  <2> QED
    BY <1>1, <1>2, SamePlace
<1> QED
  BY <1>1, <1>3

(* Only the memory of the acting process changes.                          *)
LEMMA StoreOK ==
    ASSUME TypeInv, NEW p \in Proc, NEW m \in Memory, Located(m),
           mem' = [mem EXCEPT ![p] = m]
    PROVE  mem' \in [Proc -> Memory] /\ \A q \in Proc : Located(mem'[q])
  BY DEF TypeInv, TypeOK

(* The initial state is well formed.                                       *)
LEMMA TypeInit == Init => TypeInv
<1> SUFFICES ASSUME Init PROVE TypeInv
  OBVIOUS
<1>1. Main \in Proc /\ Root \in Dirs
  BY DirAssumption DEF Proc
<1> QED
  BY <1>1, BootOK DEF Init, TypeInv, TypeOK

(* Every step of run() keeps the memory, the directories and the record of *)
(* the calls well formed.                                                  *)
LEMMA TypeNext == TypeInv /\ [Next]_vars => TypeInv'
<1> SUFFICES ASSUME TypeInv, [Next]_vars PROVE TypeInv'
  OBVIOUS
<1> USE DEF Live, Idle
<1>1. ASSUME UNCHANGED vars PROVE TypeInv'
  BY <1>1 DEF vars, TypeInv, TypeOK
<1>2. ASSUME NEW p \in Proc, NEW b \in BOOLEAN, SetBlocked(p, b) PROVE TypeInv'
  <2> DEFINE m == [mem[p] EXCEPT !.blocked = b]
  <2>1. m \in Memory /\ Located(m)
    <3>1. mem[p] \in Memory /\ Located(mem[p])
      BY DEF TypeInv, TypeOK
    <3> QED
      BY <3>1, BlockedOK
  <2>2. mem' = [mem EXCEPT ![p] = m]
    BY <1>2 DEF SetBlocked
  <2> QED
    BY <1>2, <2>1, <2>2, StoreOK DEF SetBlocked, TypeInv, TypeOK
<1>3. ASSUME NEW p \in Proc, RunBlocked(p) PROVE TypeInv'
  <2> DEFINE m == [mem[p] EXCEPT !.result = "blocked"]
  <2>1. m \in Memory /\ Located(m)
    <3>1. mem[p] \in Memory /\ Located(mem[p])
      BY DEF TypeInv, TypeOK
    <3> QED
      BY <3>1, ResultOK
  <2>2. mem' = [mem EXCEPT ![p] = m]
    BY <1>3 DEF RunBlocked
  <2> QED
    BY <1>3, <2>1, <2>2, StoreOK DEF RunBlocked, TypeInv, TypeOK
<1>4. ASSUME NEW p \in Proc, NEW l \in Lists, NEW names \in SUBSET TestName,
             RunNotFound(p, l, names)
      PROVE TypeInv'
  <2> DEFINE m == [mem[p] EXCEPT !.result = "notfound"]
  <2>1. m \in Memory /\ Located(m)
    <3>1. mem[p] \in Memory /\ Located(mem[p])
      BY DEF TypeInv, TypeOK
    <3> QED
      BY <3>1, ResultOK
  <2>2. mem' = [mem EXCEPT ![p] = m]
    BY <1>4 DEF RunNotFound
  <2> QED
    BY <1>4, <2>1, <2>2, StoreOK DEF RunNotFound, TypeInv, TypeOK
<1>5. ASSUME NEW p \in Proc, NEW l \in Lists, NEW names \in SUBSET TestName,
             RunStart(p, l, names)
      PROVE TypeInv'
  <2> DEFINE run == IF names = {} THEN l ELSE Selected(l, names)
             m == [Boot EXCEPT !.stage = "file", !.list = run]
  <2>1. run \in Seq(Source)
    BY ListAssumption, SelectedOK
  <2>2. m \in Memory /\ Located(m)
    <3> HIDE DEF run
    <3> QED
      BY <2>1, BootOK DEF Boot, Memory, Located, Stages, FileStages,
                          CallStages, HookNames
  <2>3. mem' = [mem EXCEPT ![p] = m]
    BY <1>5 DEF RunStart
  <2> HIDE DEF m
  <2> QED
    BY <1>5, <2>2, <2>3, StoreOK DEF RunStart, TypeInv, TypeOK
<1>6. ASSUME NEW p \in Proc, NextFile(p) PROVE TypeInv'
  <2> DEFINE m == [mem[p] EXCEPT !.stage = "before_all",
                                 !.ntest = @ + Len(Src(mem[p]).tests)]
  <2>1. mem[p] \in Memory /\ Src(mem[p]) \in Source /\ mem[p].fi \in DOMAIN mem[p].list
    <3>1. mem[p] \in Memory /\ mem[p].fi <= Len(mem[p].list)
      BY <1>6 DEF NextFile, TypeInv, TypeOK
    <3> QED
      BY <3>1, Fields DEF Src
  <2>2. Len(Src(mem[p]).tests) \in Nat
    BY <2>1 DEF Source
  <2>3. m \in Memory /\ m.stage = "before_all" /\ ~m.infn /\ m.fi = mem[p].fi
           /\ m.list = mem[p].list
    <3>1. mem[p].infn = FALSE
      BY <1>6, <2>1 DEF NextFile, TypeInv, Located, Due, CallStages, HookNames, Memory
    <3>2. mem[p].ntest + Len(Src(mem[p]).tests) \in Nat
      BY <2>1, <2>2, Fields
    <3>3. "before_all" \in Stages
      BY DEF Stages, FileStages, CallStages, HookNames
    <3> QED
      BY <2>1, <3>1, <3>2, <3>3 DEF Memory
  <2>4. Located(m)
    BY <2>1, <2>3 DEF Located
  <2>5. CASE Src(mem[p]).dir \in dirs
    <3>1. mem' = [mem EXCEPT ![p] = m]
      BY <1>6, <2>5 DEF NextFile
    <3>2. cwd' \in [Proc -> Dirs]
      BY <1>6, <2>1, <2>5 DEF NextFile, TypeInv, TypeOK, Source
    <3> HIDE DEF m
    <3> QED
      BY <1>6, <2>3, <2>4, <2>5, <3>1, <3>2, StoreOK DEF NextFile, TypeInv, TypeOK
  <2>6. CASE Src(mem[p]).dir \notin dirs
    BY <1>6, <2>6, DirAssumption DEF NextFile, Abort, TypeInv, TypeOK
  <2> QED
    BY <2>5, <2>6
<1>7. ASSUME NEW p \in Proc, SkipHook(p) PROVE TypeInv'
  <2> DEFINE m == Settle(mem[p], TRUE)
  <2>1. mem[p] \in Memory /\ Located(mem[p])
    BY DEF TypeInv, TypeOK
  <2>2. mem[p].stage \in CallStages /\ ~mem[p].infn
    BY <1>7, <2>1 DEF SkipHook, CallStages, HookNames, Located, Due
  <2>3. m = [m EXCEPT !.infn = FALSE]
    BY <2>1, <2>2 DEF Settle, Memory
  <2>4. m \in Memory /\ Located(m)
    BY <1>7, <2>1, <2>2, <2>3, SettleOK DEF SkipHook
  <2>5. mem' = [mem EXCEPT ![p] = m]
    BY <1>7 DEF SkipHook
  <2> HIDE DEF m
  <2> QED
    BY <1>7, <2>4, <2>5, StoreOK DEF SkipHook, TypeInv, TypeOK
<1>8. ASSUME NEW p \in Proc, LeaveLoop(p) PROVE TypeInv'
  <2> DEFINE m == [mem[p] EXCEPT !.stage = "after_all"]
  <2>1. mem[p] \in Memory /\ Located(mem[p])
    BY DEF TypeInv, TypeOK
  <2>2. m \in Memory /\ Located(m)
    BY <1>8, <2>1 DEF LeaveLoop, LoopEnds, Memory, Located, Stages, FileStages,
                      CallStages, HookNames
  <2>3. mem' = [mem EXCEPT ![p] = m]
    BY <1>8 DEF LeaveLoop
  <2> HIDE DEF m
  <2> QED
    BY <1>8, <2>2, <2>3, StoreOK DEF LeaveLoop, TypeInv, TypeOK
<1>9. ASSUME NEW p \in Proc, BeginCall(p) PROVE TypeInv'
  <2> DEFINE m == [mem[p] EXCEPT !.infn = TRUE, !.saved = cwd[p]]
  <2>1. mem[p] \in Memory /\ Located(mem[p])
    BY DEF TypeInv, TypeOK
  <2>2. m \in Memory /\ Located(m)
    BY <1>9, <2>1 DEF BeginCall, Memory, Located, Due, LoopEnds, Src, TypeInv, TypeOK
  <2>3. CASE cwd[p] \in dirs
    <3>1. mem' = [mem EXCEPT ![p] = m]
      BY <1>9, <2>3 DEF BeginCall
    <3> HIDE DEF m
    <3> QED
      BY <1>9, <2>2, <2>3, <3>1, StoreOK DEF BeginCall, TypeInv, TypeOK
  <2>4. CASE cwd[p] \notin dirs
    BY <1>9, <2>4 DEF BeginCall, Abort, TypeInv, TypeOK
  <2> QED
    BY <2>3, <2>4
<1>10. ASSUME NEW p \in Proc, NEW ok \in BOOLEAN, EndCall(p, ok) PROVE TypeInv'
  <2>1. mem[p] \in Memory /\ Located(mem[p]) /\ mem[p].infn
    BY <1>10 DEF TypeInv, TypeOK, EndCall
  <2>2. CASE UNCHANGED <<mem, cwd, dirs, log>>
                /\ \E s \in {"exited", "aborted"} : life' = [life EXCEPT ![p] = s]
    BY <2>2 DEF TypeInv, TypeOK
  <2>3. CASE Resume(p, ok)
    <3> DEFINE m == [Settle(mem[p], ok) EXCEPT !.infn = FALSE]
               e == [proc |-> p, fi |-> mem[p].fi, stage |-> mem[p].stage,
                     ti |-> mem[p].ti, ok |-> ok, dir |-> mem[p].saved]
    <3>1. m \in Memory /\ Located(m)
      BY <2>1, SettleOK DEF Located, Due
    <3>2. e \in Entry
      BY <2>1 DEF Entry, Memory, Located, Due
    <3>3. mem' = [mem EXCEPT ![p] = m] /\ log' = Append(log, e)
             /\ cwd' = [cwd EXCEPT ![p] = mem[p].saved] /\ UNCHANGED <<life, dirs>>
      BY <2>3 DEF Resume, ReturnDir
    <3>4. cwd' \in [Proc -> Dirs]
      BY <2>1, <3>3 DEF TypeInv, TypeOK, Memory
    <3> HIDE DEF m, e
    <3>5. log' \in Seq(Entry)
      BY <3>2, <3>3 DEF TypeInv, TypeOK
    <3> QED
      BY <3>1, <3>3, <3>4, <3>5, StoreOK DEF TypeInv, TypeOK
  <2> QED
    BY <1>10, <2>2, <2>3 DEF EndCall, Abort
<1>11. ASSUME NEW p \in Proc, Tally(p) PROVE TypeInv'
  <2> DEFINE o == mem[p]
             errors == IF o.errs = << >> THEN o.errors
                       ELSE Append(o.errors, [src |-> o.fi, errs |-> o.errs])
             count == o.count + Len(o.errs)
             m == [o EXCEPT !.stage = "file", !.fi = o.fi + 1,
                            !.nsuccess = o.nsuccess + o.n, !.errors = errors,
                            !.count = count, !.ti = 1, !.n = 0, !.errs = << >>]
  <2>1. o \in Memory /\ Located(o)
    BY DEF TypeInv, TypeOK
  <2>2. ~o.infn
    BY <1>11, <2>1 DEF Tally, Located, Due, CallStages, HookNames
  <2>3. o.fi + 1 \in Nat \ {0} /\ o.nsuccess + o.n \in Nat /\ count \in Nat
    <3>1. /\ o.fi \in Nat /\ o.nsuccess \in Nat /\ o.n \in Nat
          /\ o.count \in Nat /\ o.errs \in Seq(ErrName)
      BY <2>1, Fields
    <3> HIDE DEF o
    <3>2. Len(o.errs) \in Nat
      BY <3>1
    <3> QED
      BY <3>1, <3>2
  <2>4. errors \in Seq([src : Nat \ {0}, errs : Seq(ErrName)])
    <3> DEFINE R == [src : Nat \ {0}, errs : Seq(ErrName)]
               x == [src |-> o.fi, errs |-> o.errs]
    <3>1. x \in R /\ o.errors \in Seq(R)
      BY <2>1 DEF Memory
    <3> HIDE DEF R, x
    <3>2. Append(o.errors, x) \in Seq(R)
      BY <3>1
    <3> QED
      BY <3>1, <3>2 DEF R, x
  <2>5. mem' = [mem EXCEPT ![p] = m]
    BY <1>11 DEF Tally, Fresh
  <2>6. m \in Memory /\ m.stage = "file" /\ m.infn = o.infn
    <3>1. "file" \in Stages /\ << >> \in Seq(ErrName)
      BY DEF Stages
    <3> DEFINE a == [o EXCEPT !.stage = "file", !.fi = o.fi + 1, !.errors = errors]
               b == [a EXCEPT !.nsuccess = o.nsuccess + o.n, !.count = count]
    <3>2. m = [b EXCEPT !.ti = 1, !.n = 0, !.errs = << >>]
      OBVIOUS
    <3> HIDE DEF errors, count, o, m
    <3>3. a \in Memory /\ a.stage = "file" /\ a.infn = o.infn
      BY <2>1, <2>3, <2>4, <3>1 DEF Memory
    <3> HIDE DEF a
    <3>4. b \in Memory /\ b.stage = "file" /\ b.infn = o.infn
      BY <2>3, <3>3 DEF Memory
    <3> HIDE DEF b
    <3>5. [b EXCEPT !.ti = 1, !.n = 0] \in Memory
      <4>1. \A i \in Nat \ {0}, j \in Nat : [b EXCEPT !.ti = i, !.n = j] \in Memory
        BY <3>4 DEF Memory
      <4>2. 1 \in Nat \ {0} /\ 0 \in Nat
        OBVIOUS
      <4> QED
        BY <4>1, <4>2, Zenon
    <3>6. m \in Memory
      BY <3>1, <3>2, <3>5 DEF Memory
    <3> QED
      BY <3>2, <3>4, <3>6 DEF Memory
  <2> HIDE DEF m, o
  <2>7. Located(m)
    BY <2>2, <2>6 DEF Located, FileStages, CallStages, HookNames
  <2> QED
    BY <1>11, <2>5, <2>6, <2>7, StoreOK DEF Tally, TypeInv, TypeOK
<1>12. ASSUME NEW p \in Proc, ReturnRun(p) PROVE TypeInv'
  <2> DEFINE m == [mem[p] EXCEPT !.stage = "returned", !.result = "done"]
  <2>1. mem[p] \in Memory /\ Located(mem[p])
    BY DEF TypeInv, TypeOK
  <2>2. m \in Memory /\ Located(m)
    BY <1>12, <2>1 DEF ReturnRun, Memory, Located, Stages, FileStages, Due,
                       CallStages, HookNames
  <2>3. mem' = [mem EXCEPT ![p] = m]
    BY <1>12 DEF ReturnRun
  <2> HIDE DEF m
  <2> QED
    BY <1>12, <2>2, <2>3, StoreOK, DirAssumption DEF ReturnRun, TypeInv, TypeOK
<1>13. ASSUME NEW p \in Proc, UserStep(p) PROVE TypeInv'
  <2>1. ASSUME NEW d \in Dirs, UserChdir(p, d) PROVE TypeInv'
    BY <2>1 DEF UserChdir, TypeInv, TypeOK
  <2>2. ASSUME NEW d \in Removable, UserRmdir(p, d) PROVE TypeInv'
    BY <2>2 DEF UserRmdir, TypeInv, TypeOK
  <2>3. ASSUME NEW k \in Kids, UserFork(p, k) PROVE TypeInv'
    <3>1. k \in Proc /\ mem[p] \in Memory /\ Located(mem[p])
      BY DEF Proc, TypeInv, TypeOK
    <3> QED
      BY <2>3, <3>1, StoreOK DEF UserFork, TypeInv, TypeOK
  <2> QED
    BY <1>13, <2>1, <2>2, <2>3 DEF UserStep
<1> QED
  BY <1>1, <1>2, <1>3, <1>4, <1>5, <1>6, <1>7, <1>8, <1>9, <1>10, <1>11,
     <1>12, <1>13 DEF Next, RunStep, IdleStep, Finished

(* run() and the functions it calls keep well-formed data, in every        *)
(* process (lib/runner.lua).                                               *)
THEOREM TypeCorrect == Spec => []TypeOK
<1>1. TypeInv => TypeOK
  BY DEF TypeInv
<1> QED
  BY TypeInit, TypeNext, <1>1, PTL DEF Spec

-----------------------------------------------------------------------------
(* The figures of the report.                                              *)

(* Before the run nothing is recorded.                                     *)
CountInv == Accounting /\ (M.stage = "idle" => log = << >>)

(* One more recorded call is one more call of its kind.                    *)
LEMMA CountAppend ==
    ASSUME log \in Seq(Entry), NEW e \in Entry, log' = Append(log, e)
    PROVE  /\ Cardinality(Passed') = Cardinality(Passed)
                  + (IF e.stage = "test" /\ e.ok THEN 1 ELSE 0)
           /\ Cardinality(Failed') = Cardinality(Failed) + (IF e.ok THEN 0 ELSE 1)
           /\ Cardinality(Passed) \in Nat /\ Cardinality(Failed) \in Nat
<1> DEFINE k == Len(log) + 1
<1>1. /\ Len(log) \in Nat /\ DOMAIN log = 1 .. Len(log) /\ DOMAIN log' = 1 .. k
      /\ \A i \in DOMAIN log : log'[i] = log[i]
      /\ log'[k] = e
  BY AppendProperties
<1>2. IsFiniteSet(DOMAIN log) /\ k \notin DOMAIN log
  BY <1>1, FS_Interval
<1>3. IsFiniteSet(Passed) /\ IsFiniteSet(Failed)
  BY <1>2, FS_Subset DEF Passed, Failed
<1>4. k \notin Passed /\ k \notin Failed
  BY <1>2 DEF Passed, Failed
<1>5. Passed' = IF e.stage = "test" /\ e.ok THEN Passed \cup {k} ELSE Passed
  BY <1>1 DEF Passed
<1>6. Failed' = IF e.ok THEN Failed ELSE Failed \cup {k}
  BY <1>1 DEF Failed
<1>7. /\ Cardinality(Passed \cup {k}) = Cardinality(Passed) + 1
      /\ Cardinality(Failed \cup {k}) = Cardinality(Failed) + 1
      /\ Cardinality(Passed) \in Nat /\ Cardinality(Failed) \in Nat
  BY <1>3, <1>4, FS_AddElement, FS_CardinalityType
<1> QED
  BY <1>5, <1>6, <1>7

(* A step that records nothing and leaves the figures of the reporting     *)
(* process alone keeps the accounts.                                       *)
LEMMA CountStutter ==
    ASSUME CountInv, log' = log,
           M'.nsuccess + M'.n = M.nsuccess + M.n,
           M'.count + Len(M'.errs) = M.count + Len(M.errs),
           M'.stage = "idle" => M.stage = "idle"
    PROVE  CountInv'
  BY DEF CountInv, Accounting, Passed, Failed

(* Every step keeps the accounts.                                          *)
LEMMA CountNext == TypeInv /\ CountInv /\ [Next]_vars => CountInv'
<1> SUFFICES ASSUME TypeInv, CountInv, [Next]_vars PROVE CountInv'
  OBVIOUS
<1> USE DEF Live, Idle
<1>0. /\ mem \in [Proc -> Memory] /\ Main \in Proc /\ M \in Memory /\ log \in Seq(Entry)
      /\ M.nsuccess \in Nat /\ M.n \in Nat /\ M.count \in Nat /\ M.errs \in Seq(ErrName)
  BY Fields DEF TypeInv, TypeOK, Proc, M
<1>1. ASSUME UNCHANGED mem, UNCHANGED log PROVE CountInv'
  BY <1>1, CountStutter DEF M
<1>2. ASSUME NEW p \in Proc, p # Main, NEW m \in Memory,
             mem' = [mem EXCEPT ![p] = m], UNCHANGED log
      PROVE CountInv'
  BY <1>0, <1>2, CountStutter DEF M
<1>3. ASSUME NEW m \in Memory, mem' = [mem EXCEPT ![Main] = m], UNCHANGED log,
             m.nsuccess + m.n = M.nsuccess + M.n,
             m.count + Len(m.errs) = M.count + Len(M.errs),
             m.stage = "idle" => M.stage = "idle"
      PROVE CountInv'
  BY <1>0, <1>3, CountStutter DEF M
<1>4. ASSUME NEW p \in Proc, RunStep(p) PROVE CountInv'
  <2>1. CASE NextFile(p)
    <3>1. CASE UNCHANGED mem
      BY <1>1, <2>1, <3>1 DEF NextFile, Abort
    <3>2. CASE ~UNCHANGED mem
      <4> DEFINE m == [mem[p] EXCEPT !.stage = "before_all",
                                     !.ntest = @ + Len(Src(mem[p]).tests)]
      <4>1. mem' = [mem EXCEPT ![p] = m] /\ log' = log
        BY <2>1, <3>2 DEF NextFile, Abort
      <4>2. /\ m.nsuccess = mem[p].nsuccess /\ m.n = mem[p].n /\ m.count = mem[p].count
            /\ m.errs = mem[p].errs /\ m.stage = "before_all"
        BY <1>0 DEF Memory
      <4> HIDE DEF m
      <4> QED
        BY <1>0, <4>1, <4>2, CountStutter DEF M
    <3> QED
      BY <3>1, <3>2
  <2>2. CASE SkipHook(p)
    <3> DEFINE m == Settle(mem[p], TRUE)
    <3>1. mem[p] \in Memory /\ mem[p].stage \in HookNames /\ mem[p].stage \in CallStages
             /\ mem' = [mem EXCEPT ![p] = m] /\ log' = log
      BY <1>0, <2>2 DEF SkipHook, CallStages
    <3>2. m.stage \in FileStages
      BY <3>1, SettleFields, SettleStage
    <3>3. /\ m.nsuccess = mem[p].nsuccess /\ m.n = mem[p].n /\ m.count = mem[p].count
          /\ m.errs = mem[p].errs /\ m.stage # "idle"
      BY <3>1, <3>2, SettleFields DEF HookNames, FileStages, CallStages
    <3> HIDE DEF m
    <3> QED
      BY <1>0, <3>1, <3>3, CountStutter DEF M
  <2>3. CASE LeaveLoop(p)
    BY <1>0, <2>3, CountStutter DEF LeaveLoop, M, Memory
  <2>4. CASE BeginCall(p)
    <3>1. CASE UNCHANGED mem
      BY <1>1, <2>4, <3>1 DEF BeginCall, Abort
    <3>2. CASE ~UNCHANGED mem
      <4> DEFINE m == [mem[p] EXCEPT !.infn = TRUE, !.saved = cwd[p]]
      <4>1. mem' = [mem EXCEPT ![p] = m] /\ log' = log
        BY <2>4, <3>2 DEF BeginCall, Abort
      <4>2. /\ m.nsuccess = mem[p].nsuccess /\ m.n = mem[p].n /\ m.count = mem[p].count
            /\ m.errs = mem[p].errs /\ m.stage = mem[p].stage
        BY <1>0 DEF Memory
      <4> HIDE DEF m
      <4> QED
        BY <1>0, <4>1, <4>2, CountStutter DEF M
    <3> QED
      BY <3>1, <3>2
  <2>5. ASSUME NEW ok \in BOOLEAN, EndCall(p, ok) PROVE CountInv'
    <3>1. CASE ~Resume(p, ok) \/ p # Main
      BY <1>1, <2>5, <3>1 DEF EndCall, Abort, Forked
    <3>2. CASE Resume(p, ok) /\ p = Main
      <4> DEFINE e == [proc |-> p, fi |-> M.fi, stage |-> M.stage,
                       ti |-> M.ti, ok |-> ok, dir |-> M.saved]
      <4>1. M.stage \in CallStages
        BY <2>5, <3>2 DEF EndCall, TypeInv, Located, Due, M
      <4>2. e \in Entry
        BY <1>0, <4>1 DEF Entry, Memory
      <4>3. log' = Append(log, e) /\ M' = [Settle(M, ok) EXCEPT !.infn = FALSE]
        BY <1>0, <3>2 DEF Resume, M
      <4>4. /\ M'.nsuccess = Settle(M, ok).nsuccess /\ M'.count = Settle(M, ok).count
            /\ M'.n = Settle(M, ok).n /\ M'.errs = Settle(M, ok).errs
            /\ M'.stage = Settle(M, ok).stage
        BY <4>3 DEF Settle, Memory
      <4>5. /\ M'.nsuccess = M.nsuccess /\ M'.count = M.count
            /\ M'.n = IF ok /\ M.stage = "test" THEN M.n + 1 ELSE M.n
            /\ M'.errs = IF ok THEN M.errs ELSE Append(M.errs, CallName(M))
        BY <1>0, <4>4, SettleFields
      <4>6. M'.stage # "idle"
        BY <1>0, <4>1, <4>4, SettleFields, SettleStage DEF FileStages, CallStages, HookNames
      <4>7. Len(M'.errs) = Len(M.errs) + (IF ok THEN 0 ELSE 1) /\ Len(M.errs) \in Nat
        <5>1. CallName(M) \in ErrName
          BY <1>0, <4>1, CallNameOK DEF TypeInv, M
        <5>2. Len(Append(M.errs, CallName(M))) = Len(M.errs) + 1 /\ Len(M.errs) \in Nat
          BY <1>0, <5>1, AppendProperties
        <5>3. CASE ok
          BY <4>5, <5>2, <5>3
        <5>4. CASE ~ok
          <6>1. M'.errs = Append(M.errs, CallName(M))
            BY <4>5, <5>4
          <6> QED
            BY <5>2, <5>4, <6>1
        <5> QED
          BY <5>3, <5>4
      <4>8. e.stage = M.stage /\ e.ok = ok
        OBVIOUS
      <4> HIDE DEF e
      <4>9. /\ Cardinality(Passed') = Cardinality(Passed)
                    + (IF e.stage = "test" /\ e.ok THEN 1 ELSE 0)
            /\ Cardinality(Failed') = Cardinality(Failed) + (IF e.ok THEN 0 ELSE 1)
        BY <1>0, <4>2, <4>3, CountAppend
      <4> QED
        BY <1>0, <4>5, <4>6, <4>7, <4>8, <4>9 DEF CountInv, Accounting
    <3> QED
      BY <3>1, <3>2
  <2>6. CASE Tally(p)
    <3>1. CASE p # Main
      BY <1>0, <2>6, <3>1, CountStutter DEF Tally, M
    <3>2. CASE p = Main
      <4>1. /\ M'.nsuccess = M.nsuccess + M.n /\ M'.n = 0 /\ M'.errs = << >>
            /\ M'.count = M.count + Len(M.errs) /\ M'.stage = "file" /\ log' = log
        BY <1>0, <2>6, <3>2 DEF Tally, Fresh, M, Memory
      <4>2. Len(M.errs) \in Nat
        BY <1>0
      <4> QED
        BY <1>0, <4>1, <4>2, CountStutter
    <3> QED
      BY <3>1, <3>2
  <2>7. CASE ReturnRun(p)
    BY <1>0, <2>7, CountStutter DEF ReturnRun, M, Memory
  <2> QED
    BY <1>4, <2>1, <2>2, <2>3, <2>4, <2>5, <2>6, <2>7 DEF RunStep
<1>5. ASSUME NEW p \in Proc, IdleStep(p) PROVE CountInv'
  <2>1. ASSUME NEW b \in BOOLEAN, SetBlocked(p, b) PROVE CountInv'
    BY <1>0, <2>1, CountStutter DEF SetBlocked, M, Memory
  <2>2. CASE RunBlocked(p)
    BY <1>0, <2>2, CountStutter DEF RunBlocked, M, Memory
  <2>3. ASSUME NEW l \in Lists, NEW names \in SUBSET TestName,
               RunNotFound(p, l, names)
        PROVE CountInv'
    BY <1>0, <2>3, CountStutter DEF RunNotFound, M, Memory
  <2>4. ASSUME NEW l \in Lists, NEW names \in SUBSET TestName, RunStart(p, l, names)
        PROVE CountInv'
    <3>1. CASE p # Main
      BY <1>0, <2>4, <3>1, CountStutter DEF RunStart, M
    <3>2. CASE p = Main
      <4>1. /\ M'.nsuccess = 0 /\ M'.n = 0 /\ M'.count = 0 /\ M'.errs = << >>
            /\ M'.stage = "file" /\ log' = log /\ log = << >>
        BY <1>0, <2>4, <3>2 DEF RunStart, M, Boot, CountInv
      <4>2. Passed' = {} /\ Failed' = {}
        BY <4>1 DEF Passed, Failed
      <4> QED
        BY <4>1, <4>2, FS_EmptySet DEF CountInv, Accounting
    <3> QED
      BY <3>1, <3>2
  <2> QED
    BY <1>5, <2>1, <2>2, <2>3, <2>4 DEF IdleStep
<1>6. ASSUME NEW p \in Proc, UserStep(p) PROVE CountInv'
  BY <1>0, <1>1, <1>2, <1>6, ProcAssumption
     DEF UserStep, UserChdir, UserRmdir, UserFork, Proc
<1> QED
  BY <1>1, <1>4, <1>5, <1>6 DEF Next, Finished, vars

(* Nothing was counted before the first step.                              *)
LEMMA CountInit == Init => CountInv
<1> SUFFICES ASSUME Init PROVE CountInv
  OBVIOUS
<1>1. log = << >> /\ M = Boot
  BY DEF Init, M, Proc
<1>2. Passed = {} /\ Failed = {}
  BY <1>1 DEF Passed, Failed
<1> QED
  BY <1>1, <1>2, FS_EmptySet DEF CountInv, Accounting, Boot

(* No outcome is lost or counted twice: at every moment the figures of the *)
(* report are the numbers of passed tests and of failed calls recorded so  *)
(* far (lib/runner.lua:161-207, 310-320).                                  *)
THEOREM AccountingHolds == Spec => []Accounting
<1>1. CountInv => Accounting
  BY DEF CountInv
<1> QED
  BY TypeInit, TypeNext, CountInit, CountNext, <1>1, PTL DEF Spec

-----------------------------------------------------------------------------
(* The working directory.                                                  *)

(* Between the calls of a file the process is in the directory of the      *)
(* file, and a call remembers that directory while user code runs.         *)
DirInv ==
    /\ M.stage = "idle" => log = << >>
    /\ \A i \in DOMAIN log : log[i].fi \in DOMAIN M.list
    /\ OwnDirectory
    /\ M.infn => M.saved = Src(M).dir
    /\ ~M.infn /\ M.stage \in FileStages /\ Live(Main) => cwd[Main] = Src(M).dir
    /\ AbortOnlyOnLostDir

(* What the other processes do, and stuttering.                            *)
LEMMA DirStutter ==
    ASSUME DirInv, M' = M, cwd'[Main] = cwd[Main], life'[Main] = life[Main],
           log' = log, dirs' \subseteq dirs
    PROVE  DirInv'
  BY DEF DirInv, OwnDirectory, AbortOnlyOnLostDir, Live, Src

(* A step of the reporting process that stays in its file.                 *)
LEMMA DirSameFile ==
    ASSUME DirInv, M'.list = M.list, M'.fi = M.fi, UNCHANGED <<dirs, log, life>>,
           M'.stage = "idle" => M.stage = "idle",
           M'.infn => M'.saved = Src(M).dir,
           ~M'.infn /\ M'.stage \in FileStages /\ Live(Main) => cwd'[Main] = Src(M).dir
    PROVE  DirInv'
  BY DEF DirInv, OwnDirectory, AbortOnlyOnLostDir, Live, Src

(* Every step keeps the working directory as the runner needs it.          *)
LEMMA DirNext == TypeInv /\ DirInv /\ [Next]_vars => DirInv'
<1> SUFFICES ASSUME TypeInv, DirInv, [Next]_vars PROVE DirInv'
  OBVIOUS
<1> USE DEF Live, Idle
<1>0. /\ mem \in [Proc -> Memory] /\ Main \in Proc /\ M \in Memory /\ log \in Seq(Entry)
      /\ life \in [Proc -> {"unborn", "live", "exited", "aborted"}]
      /\ cwd \in [Proc -> Dirs] /\ Located(M) /\ M = mem[Main]
  BY DEF TypeInv, TypeOK, Proc, M
<1>1. CASE UNCHANGED vars
  BY <1>1, DirStutter DEF vars, M
<1>2. ASSUME NEW p \in Proc, p # Main, RunStep(p) \/ IdleStep(p) \/ UserStep(p)
      PROVE DirInv'
  <2>1. log' = log /\ dirs' \subseteq dirs
    BY <1>0, <1>2 DEF RunStep, IdleStep, UserStep, NextFile, SkipHook, LeaveLoop,
          BeginCall, EndCall, Forked, Tally, ReturnRun, SetBlocked, RunBlocked,
          RunNotFound, RunStart, UserChdir, UserRmdir, UserFork, Abort
  <2>2. mem'[Main] = mem[Main] /\ cwd'[Main] = cwd[Main] /\ life'[Main] = life[Main]
    BY <1>0, <1>2, ProcAssumption
       DEF RunStep, IdleStep, UserStep, NextFile, SkipHook, LeaveLoop,
          BeginCall, EndCall, Forked, Tally, ReturnRun, SetBlocked, RunBlocked,
          RunNotFound, RunStart, UserChdir, UserRmdir, UserFork, Abort
  <2> QED
    BY <2>1, <2>2, DirStutter DEF M
<1>3. ASSUME RunStep(Main) PROVE DirInv'
  <2>1. CASE NextFile(Main)
    <3>1. M.fi \in DOMAIN M.list /\ ~M.infn
      BY <1>0, <2>1, Fields DEF NextFile, Located, Due, CallStages, HookNames
    <3>2. CASE Src(M).dir \in dirs
      <4>1. /\ cwd'[Main] = Src(M).dir /\ UNCHANGED <<dirs, log, life>>
            /\ M'.list = M.list /\ M'.fi = M.fi /\ M'.stage = "before_all"
            /\ M'.infn = M.infn
        <5> DEFINE m == [M EXCEPT !.stage = "before_all",
                                  !.ntest = @ + Len(Src(M).tests)]
        <5>1. mem' = [mem EXCEPT ![Main] = m] /\ cwd' = [cwd EXCEPT ![Main] = Src(M).dir]
                 /\ UNCHANGED <<dirs, log, life>>
          BY <1>0, <2>1, <3>2 DEF NextFile
        <5>2. /\ m.list = M.list /\ m.fi = M.fi /\ m.stage = "before_all"
              /\ m.infn = M.infn
          BY <1>0 DEF Memory
        <5> HIDE DEF m
        <5> QED
          BY <1>0, <5>1, <5>2 DEF M
      <4> QED
        BY <3>1, <4>1, DirSameFile
    <3>3. CASE Src(M).dir \notin dirs
      <4>1. M' = M /\ life'[Main] = "aborted" /\ UNCHANGED <<dirs, log>>
        BY <1>0, <2>1, <3>3 DEF NextFile, Abort, M
      <4> QED
        BY <3>1, <3>3, <4>1 DEF DirInv, OwnDirectory, AbortOnlyOnLostDir, Src
    <3> QED
      BY <3>2, <3>3
  <2>2. CASE SkipHook(Main)
    <3>1. M.stage \in CallStages /\ M.stage \in FileStages /\ ~M.infn
      BY <1>0, <2>2 DEF SkipHook, CallStages, FileStages, Located, Due, HookNames
    <3>2. M' = Settle(M, TRUE) /\ UNCHANGED <<life, cwd, dirs, log>>
      BY <1>0, <2>2 DEF SkipHook, M
    <3>3. M'.list = M.list /\ M'.fi = M.fi /\ M'.infn = M.infn /\ M'.stage \in FileStages
      BY <1>0, <3>1, <3>2, SettleFields, SettleStage
    <3>4. M'.stage # "idle" /\ cwd'[Main] = Src(M).dir
      BY <2>2, <3>1, <3>2, <3>3 DEF SkipHook, FileStages, CallStages, HookNames, DirInv
    <3> QED
      BY <3>1, <3>2, <3>3, <3>4, DirSameFile
  <2>3. CASE LeaveLoop(Main)
    <3>1. /\ M'.list = M.list /\ M'.fi = M.fi /\ M'.infn = M.infn
          /\ M'.stage = "after_all" /\ UNCHANGED <<life, cwd, dirs, log>>
      BY <1>0, <2>3 DEF LeaveLoop, M, Memory
    <3>2. ~M.infn /\ M.stage \in FileStages /\ Live(Main)
      BY <2>3, <1>0 DEF LeaveLoop, LoopEnds, FileStages, CallStages, HookNames
    <3>3. cwd'[Main] = Src(M).dir
      BY <3>1, <3>2 DEF DirInv
    <3> QED
      BY <3>1, <3>2, <3>3, DirSameFile
  <2>4. CASE BeginCall(Main)
    <3>1. ~M.infn /\ M.stage \in FileStages /\ Live(Main) /\ cwd[Main] = Src(M).dir
      BY <2>4, <1>0 DEF BeginCall, Due, FileStages, DirInv
    <3>2. CASE cwd[Main] \in dirs
      <4>1. /\ M'.list = M.list /\ M'.fi = M.fi /\ M'.infn /\ M'.saved = cwd[Main]
            /\ M'.stage = M.stage /\ UNCHANGED <<life, dirs, log>>
        BY <1>0, <2>4, <3>2 DEF BeginCall, M, Memory
      <4> QED
        BY <3>1, <4>1, DirSameFile
    <3>3. CASE cwd[Main] \notin dirs
      <4>1. M' = M /\ life'[Main] = "aborted" /\ UNCHANGED <<dirs, log>>
        BY <1>0, <2>4, <3>3 DEF BeginCall, Abort, M
      <4>2. M.fi \in DOMAIN M.list
        BY <1>0, <3>1 DEF Located
      <4> QED
        BY <3>1, <3>3, <4>1, <4>2 DEF DirInv, OwnDirectory, AbortOnlyOnLostDir, Src
    <3> QED
      BY <3>2, <3>3
  <2>5. ASSUME NEW ok \in BOOLEAN, EndCall(Main, ok) PROVE DirInv'
    <3>1. M.infn /\ M.saved = Src(M).dir /\ M.stage \in CallStages
             /\ M.fi \in DOMAIN M.list
      BY <1>0, <2>5 DEF EndCall, DirInv, Located, Due, FileStages
    <3>2. CASE M.saved \notin dirs
      <4>1. M' = M /\ life'[Main] = "aborted" /\ UNCHANGED <<dirs, log>>
        BY <1>0, <2>5, <3>2 DEF EndCall, Forked, ReturnDir, Abort, M
      <4> QED
        BY <3>1, <3>2, <4>1 DEF DirInv, OwnDirectory, AbortOnlyOnLostDir, Src
    <3>3. CASE M.saved \in dirs
      <4> DEFINE e == [proc |-> Main, fi |-> M.fi, stage |-> M.stage,
                       ti |-> M.ti, ok |-> ok, dir |-> M.saved]
      <4>1. /\ M' = [Settle(M, ok) EXCEPT !.infn = FALSE]
            /\ log' = Append(log, e) /\ cwd'[Main] = M.saved
            /\ UNCHANGED <<life, dirs>> /\ Live(Main)
        BY <1>0, <2>5, <3>3 DEF EndCall, Forked, Resume, ReturnDir, M
      <4>2. /\ M'.list = Settle(M, ok).list /\ M'.fi = Settle(M, ok).fi
            /\ M'.stage = Settle(M, ok).stage /\ M'.infn = FALSE
        BY <1>0, <4>1 DEF Settle, Memory
      <4>3. M'.list = M.list /\ M'.fi = M.fi /\ M'.stage \in FileStages
        BY <1>0, <3>1, <4>2, SettleFields, SettleStage
      <4>4. M'.stage # "idle" /\ cwd'[Main] = Src(M').dir /\ ~M'.infn
        BY <3>1, <4>1, <4>2, <4>3 DEF FileStages, CallStages, HookNames, Src
      <4>5. e \in Entry /\ e.fi = M.fi /\ e.dir = Src(M).dir
        BY <1>0, <3>1 DEF Entry, Memory
      <4> HIDE DEF e
      <4>6. \A i \in DOMAIN log' :
               log'[i].fi \in DOMAIN M.list /\ log'[i].dir = M.list[log'[i].fi].dir
        <5>1. /\ DOMAIN log' = 1 .. Len(log) + 1 /\ DOMAIN log = 1 .. Len(log)
              /\ Len(log) \in Nat /\ log'[Len(log) + 1] = e
              /\ \A i \in DOMAIN log : log'[i] = log[i]
          BY <1>0, <4>1, <4>5, AppendProperties
        <5>2. \A i \in DOMAIN log :
                 log[i].fi \in DOMAIN M.list /\ log[i].dir = M.list[log[i].fi].dir
          BY DEF DirInv, OwnDirectory
        <5> QED
          BY <3>1, <4>5, <5>1, <5>2 DEF Src
      <4> QED
        BY <4>1, <4>3, <4>4, <4>6 DEF DirInv, OwnDirectory, AbortOnlyOnLostDir
    <3> QED
      BY <3>2, <3>3
  <2>6. CASE Tally(Main)
    <3>1. /\ M'.list = M.list /\ M'.infn = M.infn /\ M'.stage = "file"
          /\ UNCHANGED <<life, cwd, dirs, log>> /\ Live(Main)
      BY <1>0, <2>6 DEF Tally, Fresh, M, Memory
    <3>2. ~M.infn
      BY <1>0, <2>6 DEF Tally, Located, Due, CallStages, HookNames
    <3> QED
      BY <3>1, <3>2 DEF DirInv, OwnDirectory, AbortOnlyOnLostDir, FileStages,
                        CallStages, HookNames
  <2>7. CASE ReturnRun(Main)
    <3>1. /\ M'.list = M.list /\ M'.infn = M.infn /\ M'.stage = "returned"
          /\ UNCHANGED <<life, dirs, log>> /\ Live(Main)
      BY <1>0, <2>7 DEF ReturnRun, M, Memory
    <3>2. ~M.infn
      BY <1>0, <2>7 DEF ReturnRun, Located, Due, CallStages, HookNames
    <3> QED
      BY <3>1, <3>2 DEF DirInv, OwnDirectory, AbortOnlyOnLostDir, FileStages,
                        CallStages, HookNames
  <2> QED
    BY <1>3, <2>1, <2>2, <2>3, <2>4, <2>5, <2>6, <2>7 DEF RunStep
<1>4. ASSUME IdleStep(Main) PROVE DirInv'
  <2>1. /\ M.stage = "idle" /\ log = << >> /\ log' = log /\ life' = life /\ Live(Main)
        /\ ~M.infn
    BY <1>0, <1>4 DEF IdleStep, SetBlocked, RunBlocked, RunNotFound, RunStart,
                      DirInv, Located, Due, CallStages, HookNames
  <2>2. M'.infn = FALSE /\ M'.stage \in {"idle", "file"}
    <3>1. ASSUME NEW b \in BOOLEAN, SetBlocked(Main, b)
          PROVE M'.infn = FALSE /\ M'.stage \in {"idle", "file"}
      BY <1>0, <2>1, <3>1 DEF SetBlocked, M, Memory
    <3>2. CASE RunBlocked(Main)
      BY <1>0, <2>1, <3>2 DEF RunBlocked, M, Memory
    <3>3. ASSUME NEW l \in Lists, NEW names \in SUBSET TestName,
                 RunNotFound(Main, l, names)
          PROVE M'.infn = FALSE /\ M'.stage \in {"idle", "file"}
      BY <1>0, <2>1, <3>3 DEF RunNotFound, M, Memory
    <3>4. ASSUME NEW l \in Lists, NEW names \in SUBSET TestName,
                 RunStart(Main, l, names)
          PROVE M'.infn = FALSE /\ M'.stage \in {"idle", "file"}
      BY <1>0, <3>4 DEF RunStart, M, Boot
    <3> QED
      BY <1>4, <3>1, <3>2, <3>3, <3>4 DEF IdleStep
  <2>3. M'.stage \notin FileStages
    BY <2>2 DEF FileStages, CallStages, HookNames
  <2> QED
    BY <2>1, <2>2, <2>3 DEF DirInv, OwnDirectory, AbortOnlyOnLostDir
<1>5. ASSUME UserStep(Main) PROVE DirInv'
  <2>1. /\ M' = M /\ life'[Main] = life[Main] /\ log' = log /\ dirs' \subseteq dirs
        /\ M.stage = "idle" \/ M.infn
    BY <1>0, <1>5, ProcAssumption
       DEF UserStep, UserChdir, UserRmdir, UserFork, InUserCode, M
  <2> QED
    BY <2>1 DEF DirInv, OwnDirectory, AbortOnlyOnLostDir, Src, FileStages,
                CallStages, HookNames
<1> QED
  BY <1>1, <1>2, <1>3, <1>4, <1>5 DEF Next, Finished

(* The invariant holds before the run.                                     *)
LEMMA DirInit == Init => DirInv
<1> SUFFICES ASSUME Init PROVE DirInv
  OBVIOUS
<1>1. log = << >> /\ M = Boot /\ life[Main] = "live"
  BY DEF Init, M, Proc
<1> QED
  BY <1>1 DEF DirInv, OwnDirectory, AbortOnlyOnLostDir, Boot, FileStages,
              CallStages, HookNames

(* Whatever directories user code moves to, every function is called in    *)
(* the directory of its file (lib/runner.lua:52, 67, 305-308).             *)
THEOREM OwnDirectoryHolds == Spec => []OwnDirectory
<1>1. DirInv => OwnDirectory
  BY DEF DirInv
<1> QED
  BY TypeInit, TypeNext, DirInit, DirNext, <1>1, PTL DEF Spec

(* The run dies without a report only in a file whose directory was        *)
(* removed (lib/runner.lua:52, 67-68, 305-308).                            *)
THEOREM AbortOnlyOnLostDirHolds == Spec => []AbortOnlyOnLostDir
<1>1. DirInv => AbortOnlyOnLostDir
  BY DEF DirInv
<1> QED
  BY TypeInit, TypeNext, DirInit, DirNext, <1>1, PTL DEF Spec

-----------------------------------------------------------------------------
(* Forked children.                                                        *)

(* A process outside user functions that has come to no function yet: it   *)
(* has entered at most files without tests and recorded nothing.           *)
Quiet(m) ==
    /\ m.infn = FALSE /\ m.count = 0 /\ m.errs = << >> /\ m.ti = 1
    /\ m.stage # "after_each"
    /\ m.stage \in FileStages => m.ntest = Len(Src(m).tests)
    /\ m.stage \notin FileStages => m.ntest = 0
    /\ m.stage \in {"after_all", "tally"} => Len(Src(m).tests) = 0

(* A child is inside the function it was forked in, or has called none.    *)
ChildInv ==
    \A p \in Proc : p # Main \/ mem[p].stage = "idle" => mem[p].infn \/ Quiet(mem[p])

(* A process that does not step, or forks, keeps the invariant.            *)
LEMMA ChildStore ==
    ASSUME TypeInv, ChildInv, NEW p \in Proc, NEW m, mem' = [mem EXCEPT ![p] = m],
           p # Main \/ m.stage = "idle" => m.infn \/ Quiet(m)
    PROVE  ChildInv'
  BY DEF ChildInv, TypeInv, TypeOK

(* Every step keeps children inside the function they were forked in.      *)
LEMMA ChildNext == TypeInv /\ ChildInv /\ [Next]_vars => ChildInv'
<1> SUFFICES ASSUME TypeInv, ChildInv, [Next]_vars PROVE ChildInv'
  OBVIOUS
<1> USE DEF Live, Idle
<1>1. ASSUME UNCHANGED mem PROVE ChildInv'
  BY <1>1 DEF ChildInv
<1>2. ASSUME NEW p \in Proc, RunStep(p) PROVE ChildInv'
  <2> DEFINE o == mem[p]
  <2>0. o \in Memory /\ Located(o) /\ (p # Main => o.infn \/ Quiet(o))
    BY DEF TypeInv, TypeOK, ChildInv
  <2>1. CASE NextFile(p)
    <3> DEFINE m == [o EXCEPT !.stage = "before_all",
                              !.ntest = @ + Len(Src(o).tests)]
    <3>1. CASE UNCHANGED mem
      BY <1>1, <3>1
    <3>2. CASE mem' = [mem EXCEPT ![p] = m]
      <4>1. ~o.infn /\ o.stage = "file" /\ Len(Src(o).tests) \in Nat
        <5>1. o.stage = "file" /\ o.fi <= Len(o.list)
          BY <2>1 DEF NextFile
        <5>2. ~o.infn
          BY <2>0, <5>1 DEF Located, Due, CallStages, HookNames
        <5>3. Src(o) \in Source
          BY <2>0, <5>1, Fields DEF Src
        <5> QED
          BY <5>1, <5>2, <5>3 DEF Source
      <4>2. /\ m.infn = o.infn /\ m.count = o.count /\ m.errs = o.errs /\ m.ti = o.ti
            /\ m.stage = "before_all" /\ Src(m) = Src(o)
            /\ m.ntest = o.ntest + Len(Src(o).tests)
        BY <2>0 DEF Memory, Src
      <4>3. p # Main => Quiet(m)
        BY <2>0, <4>1, <4>2 DEF Quiet, FileStages, CallStages, HookNames
      <4> HIDE DEF m
      <4> QED
        BY <3>2, <4>2, <4>3, ChildStore
    <3> QED
      BY <2>1, <3>1, <3>2 DEF NextFile, Abort
  <2>2. CASE SkipHook(p)
    <3> DEFINE m == Settle(o, TRUE)
    <3>1. o.stage \in HookNames /\ o.stage \in CallStages /\ ~LoopEnds(o) /\ ~o.infn
      BY <2>0, <2>2 DEF SkipHook, CallStages, HookNames, Located, Due
    <3>2. m.stage = OnSuccess[o.stage] /\ m.stage \in FileStages /\ m.stage # "idle"
      BY <2>0, <3>1, SettleFields, SettleStage DEF FileStages, CallStages, HookNames
    <3>3. /\ m.infn = o.infn /\ m.count = o.count /\ m.errs = o.errs
          /\ m.ntest = o.ntest /\ Src(m) = Src(o)
          /\ m.ti = IF o.stage = "after_each" THEN o.ti + 1 ELSE o.ti
      BY <2>0, SettleFields
    <3>4. ASSUME p # Main PROVE Quiet(m)
      <4>1. Quiet(o)
        BY <2>0, <3>1, <3>4
      <4>2. m.stage # "after_each" /\ m.stage # "after_all"
        BY <3>1, <3>2, SkipStage
      <4>3. m.stage = "tally" => o.stage = "after_all"
        BY <3>1, <3>2, SkipStage
      <4>4. o.stage \in FileStages
        BY <3>1 DEF FileStages
      <4>5. m.infn = FALSE /\ m.count = 0 /\ m.errs = << >> /\ m.ti = 1
        BY <3>3, <4>1 DEF Quiet
      <4>6. m.ntest = Len(Src(m).tests)
        BY <3>3, <4>1, <4>4 DEF Quiet
      <4>7. m.stage = "tally" => Len(Src(m).tests) = 0
        BY <3>3, <4>1, <4>3 DEF Quiet
      <4> HIDE DEF m
      <4> QED
        BY <3>2, <4>2, <4>5, <4>6, <4>7 DEF Quiet
    <3>5. mem' = [mem EXCEPT ![p] = m]
      BY <2>2 DEF SkipHook
    <3> HIDE DEF m
    <3> QED
      BY <3>2, <3>4, <3>5, ChildStore
  <2>3. CASE LeaveLoop(p)
    <3> DEFINE m == [o EXCEPT !.stage = "after_all"]
    <3>1. mem' = [mem EXCEPT ![p] = m]
      BY <2>3 DEF LeaveLoop
    <3>2. o.stage \in FileStages /\ ~o.infn /\ o.ti > Len(Src(o).tests)
      BY <2>3 DEF LeaveLoop, LoopEnds, FileStages, CallStages, HookNames
    <3>3. Len(Src(o).tests) \in Nat
      <4>1. o.list \in Seq(Source) /\ o.fi \in DOMAIN o.list
        BY <2>0, <3>2, Fields DEF Located
      <4>2. Src(o) \in Source
        BY <4>1 DEF Src
      <4> QED
        BY <4>2 DEF Source
    <3>4. /\ m.infn = o.infn /\ m.count = o.count /\ m.errs = o.errs /\ m.ti = o.ti
          /\ m.ntest = o.ntest /\ m.stage = "after_all" /\ Src(m) = Src(o)
      BY <2>0 DEF Memory, Src
    <3>5. "after_all" \in FileStages
      BY DEF FileStages, CallStages, HookNames
    <3> HIDE DEF m
    <3>6. ASSUME p # Main PROVE Quiet(m)
      <4>1. /\ o.infn = FALSE /\ o.count = 0 /\ o.errs = << >> /\ o.ti = 1
            /\ o.ntest = Len(Src(o).tests)
        BY <2>0, <3>2, <3>6 DEF Quiet
      <4>2. Len(Src(o).tests) = 0
        BY <3>2, <3>3, <4>1
      <4> QED
        BY <3>4, <3>5, <4>1, <4>2 DEF Quiet
    <3> QED
      BY <3>1, <3>4, <3>6, ChildStore
  <2>4. CASE BeginCall(p)
    <3> DEFINE m == [o EXCEPT !.infn = TRUE, !.saved = cwd[p]]
    <3>1. CASE UNCHANGED mem
      BY <1>1, <3>1
    <3>2. CASE mem' = [mem EXCEPT ![p] = m]
      <4>1. m.infn
        BY <2>0 DEF Memory
      <4> HIDE DEF m
      <4> QED
        BY <3>2, <4>1, ChildStore
    <3> QED
      BY <2>4, <3>1, <3>2 DEF BeginCall, Abort
  <2>5. ASSUME NEW ok \in BOOLEAN, EndCall(p, ok) PROVE ChildInv'
    <3>1. CASE UNCHANGED mem
      BY <1>1, <3>1
    <3>2. CASE p = Main /\ Resume(p, ok)
      <4> DEFINE m == [Settle(o, ok) EXCEPT !.infn = FALSE]
      <4>1. o.stage \in CallStages
        BY <2>0, <2>5 DEF EndCall, Located, Due
      <4>2. m.stage = Settle(o, ok).stage
        BY <2>0 DEF Settle, Memory
      <4>3. m.stage # "idle"
        BY <2>0, <4>1, <4>2, SettleFields, SettleStage
           DEF FileStages, CallStages, HookNames
      <4>4. mem' = [mem EXCEPT ![p] = m]
        BY <3>2 DEF Resume
      <4> HIDE DEF m
      <4> QED
        BY <3>2, <4>3, <4>4, ChildStore
    <3> QED
      BY <2>5, <3>1, <3>2 DEF EndCall, Forked, Abort
  <2>6. CASE Tally(p)
    <3>1. o.stage = "tally" /\ ~o.infn /\ o.stage \in FileStages
      BY <2>0, <2>6 DEF Tally, Located, Due, CallStages, HookNames, FileStages
    <3> DEFINE m == mem'[p]
    <3>2. /\ m.infn = o.infn /\ m.count = o.count + Len(o.errs) /\ m.errs = << >>
          /\ m.ti = 1 /\ m.ntest = o.ntest /\ m.stage = "file"
          /\ mem' = [mem EXCEPT ![p] = m]
      BY <2>0, <2>6 DEF Tally, Fresh, Memory, TypeInv, TypeOK
    <3>3. p # Main => Quiet(m)
      <4>1. Len(<< >>) = 0
        OBVIOUS
      <4> HIDE DEF m
      <4> QED
        BY <2>0, <3>1, <3>2, <4>1 DEF Quiet, FileStages, CallStages, HookNames
    <3> HIDE DEF m
    <3> QED
      BY <3>2, <3>3, ChildStore
  <2>7. CASE ReturnRun(p)
    <3> DEFINE m == [o EXCEPT !.stage = "returned", !.result = "done"]
    <3>1. mem' = [mem EXCEPT ![p] = m] /\ o.stage = "file"
      BY <2>7 DEF ReturnRun
    <3>2. /\ m.infn = o.infn /\ m.count = o.count /\ m.errs = o.errs /\ m.ti = o.ti
          /\ m.ntest = o.ntest /\ m.stage = "returned"
      BY <2>0 DEF Memory
    <3>3. ~o.infn
      BY <2>0, <3>1 DEF Located, Due, CallStages, HookNames
    <3>4. p # Main => Quiet(m)
      BY <2>0, <3>1, <3>2, <3>3 DEF Quiet, FileStages, CallStages, HookNames
    <3> HIDE DEF m
    <3> QED
      BY <3>1, <3>2, <3>4, ChildStore
  <2> QED
    BY <1>2, <2>1, <2>2, <2>3, <2>4, <2>5, <2>6, <2>7 DEF RunStep
<1>3. ASSUME NEW p \in Proc, IdleStep(p) PROVE ChildInv'
  <2>1. mem[p] \in Memory /\ mem[p].stage = "idle" /\ ~mem[p].infn /\ Quiet(mem[p])
    BY <1>3 DEF IdleStep, SetBlocked, RunBlocked, RunNotFound, RunStart, TypeInv,
                TypeOK, ChildInv, Located, Due, CallStages, HookNames
  <2>2. ASSUME NEW m \in Memory, mem' = [mem EXCEPT ![p] = m],
               m.stage = "idle", m.infn = mem[p].infn, m.count = mem[p].count,
               m.errs = mem[p].errs, m.ti = mem[p].ti, m.ntest = mem[p].ntest
        PROVE ChildInv'
    <3>1. Quiet(m)
      BY <2>1, <2>2 DEF Quiet, FileStages, CallStages, HookNames
    <3> QED
      BY <2>2, <3>1, ChildStore
  <2>3. ASSUME NEW b \in BOOLEAN, SetBlocked(p, b) PROVE ChildInv'
    BY <2>1, <2>2, <2>3 DEF SetBlocked, Memory
  <2>4. CASE RunBlocked(p)
    BY <2>1, <2>2, <2>4 DEF RunBlocked, Memory
  <2>5. ASSUME NEW l \in Lists, NEW names \in SUBSET TestName, RunNotFound(p, l, names)
        PROVE ChildInv'
    BY <2>1, <2>2, <2>5 DEF RunNotFound, Memory
  <2>6. ASSUME NEW l \in Lists, NEW names \in SUBSET TestName, RunStart(p, l, names)
        PROVE ChildInv'
    <3> DEFINE m == mem'[p]
    <3>1. /\ m.infn = FALSE /\ m.count = 0 /\ m.errs = << >> /\ m.ti = 1
          /\ m.ntest = 0 /\ m.stage = "file" /\ mem' = [mem EXCEPT ![p] = m]
      BY <2>6 DEF RunStart, Boot, TypeInv, TypeOK
    <3> HIDE DEF m
    <3>2. Quiet(m)
      BY <3>1 DEF Quiet, FileStages, CallStages, HookNames
    <3> QED
      BY <3>1, <3>2, ChildStore
  <2> QED
    BY <1>3, <2>3, <2>4, <2>5, <2>6 DEF IdleStep
<1>4. ASSUME NEW p \in Proc, UserStep(p) PROVE ChildInv'
  <2>1. ASSUME NEW k \in Kids, UserFork(p, k) PROVE ChildInv'
    <3>1. k \in Proc /\ mem' = [mem EXCEPT ![k] = mem[p]]
             /\ (mem[p].infn \/ Quiet(mem[p]))
      BY <2>1 DEF UserFork, InUserCode, ChildInv, Proc
    <3> QED
      BY <3>1, ChildStore
  <2>2. CASE UNCHANGED mem
    BY <1>1, <2>2
  <2> QED
    BY <1>4, <2>1, <2>2 DEF UserStep, UserChdir, UserRmdir
<1> QED
  BY <1>1, <1>2, <1>3, <1>4 DEF Next, Finished, vars

(* A child that user code forked, in a test or while a file was loaded,    *)
(* never reports a test or an error (lib/runner.lua:62-64).                *)
THEOREM ChildReportsNothingHolds == Spec => []ChildReportsNothing
<1>1. Init => ChildInv
  BY DEF Init, ChildInv, Quiet, Boot, FileStages, CallStages, HookNames
<1>2. TypeInv /\ ChildInv => ChildReportsNothing
  BY ProcAssumption DEF TypeInv, Located, ChildInv, Quiet, ChildReportsNothing,
     Proc, Due, FileStages, CallStages, HookNames
<1> QED
  BY TypeInit, TypeNext, ChildNext, <1>1, <1>2, PTL DEF Spec

=============================================================================
