----------------------------- MODULE FinderProofs -----------------------------
(***************************************************************************)
(* Theorems about Finder, for any tree, any links, any arguments and any   *)
(* removals.                                                               *)
(***************************************************************************)
EXTENDS Finder, SequenceTheorems, FiniteSetTheorems, WellFoundedInduction, TLAPS

\* The list of get_files() is a sequence that has no file twice.
ListInv == (\E S : files \in Seq(S)) /\ EachOnce

(* get_files() begins with an empty list (bin/testcase.lua:122-123).       *)
LEMMA ListInit == Init => ListInv
<1> SUFFICES ASSUME Init PROVE ListInv
  OBVIOUS
<1>1. files \in Seq({}) /\ DOMAIN files = {}
  BY DEF Init
<1> QED
  BY <1>1 DEF ListInv, EachOnce

(* A file that is taken was taken under none of its names                  *)
(* (bin/testcase.lua:131-137).                                             *)
LEMMA TakenOnce ==
    ASSUME ListInv, NEW name, CheckFile(name)
    PROVE  ListInv'
<1> DEFINE new == [name |-> name, real |-> Follow(name)]
<1>1. PICK S : files \in Seq(S)
  BY DEF ListInv
<1>2. CASE files' = files
  BY <1>2 DEF ListInv, EachOnce
<1>3. CASE ~Seen(name) /\ files' = Append(files, new)
  <2>1. new.real = Follow(name)
    OBVIOUS
  <2> HIDE DEF new
  <2>2. files \in Seq(S \cup {new})
    BY <1>1
  <2>3. files' \in Seq(S \cup {new})
    BY <1>3, <2>2
  <2>4. /\ DOMAIN files = 1 .. Len(files) /\ Len(files) \in Nat
        /\ DOMAIN files' = 1 .. Len(files) + 1
        /\ \A i \in 1 .. Len(files) : files'[i] = files[i]
        /\ files'[Len(files) + 1] = new
    BY <1>3, <2>2
  <2>5. \A i \in 1 .. Len(files) : files[i].real # new.real
    BY <1>3, <2>1, <2>4 DEF Seen
  <2>6. ASSUME NEW i \in DOMAIN files', NEW j \in DOMAIN files',
               files'[i].real = files'[j].real
        PROVE  i = j
    <3>1. i \in DOMAIN files \/ i = Len(files) + 1
      BY <2>4
    <3>2. j \in DOMAIN files \/ j = Len(files) + 1
      BY <2>4
    <3>3. CASE i \in DOMAIN files /\ j \in DOMAIN files
      BY <2>4, <2>6, <3>3 DEF ListInv, EachOnce
    <3> QED
      BY <2>4, <2>5, <2>6, <3>1, <3>2, <3>3
  <2> QED
    BY <2>3, <2>6 DEF ListInv, EachOnce
<1> QED
  BY <1>2, <1>3 DEF CheckFile, Fail

(* Nothing else adds to the list (bin/testcase.lua:101-142).               *)
LEMMA ListNext == ListInv /\ [Next]_vars => ListInv'
<1> SUFFICES ASSUME ListInv, [Next]_vars PROVE ListInv'
  OBVIOUS
<1>1. CASE files' = files
  BY <1>1 DEF ListInv, EachOnce
<1>2. ASSUME NEW name, CheckFile(name) PROVE ListInv'
  BY <1>2, TakenOnce
<1>3. ASSUME NEW name, StatEntry(name) PROVE files' = files
  BY <1>3 DEF StatEntry, Fail
<1>4. CASE TakeArg \/ ArgsTaken \/ GetFiles
  BY <1>1, <1>4 DEF TakeArg, ArgsTaken, GetFiles, Fail
<1>5. CASE OpenDir \/ CloseDir \/ WalkDone
  BY <1>1, <1>5 DEF OpenDir, CloseDir, WalkDone, Fail
<1>6. CASE NextPath \/ Done
  BY <1>1, <1>6 DEF NextPath, Done
<1>7. ASSUME NEW p, Vanish(p) PROVE files' = files
  BY <1>7 DEF Vanish
<1>8. CASE UNCHANGED vars
  BY <1>1, <1>8 DEF vars
<1> QED
  BY <1>1, <1>2, <1>3, <1>4, <1>5, <1>6, <1>7, <1>8 DEF Next, Search

(* One file is taken once, whatever arguments, links and suffixes lead to  *)
(* it (README.md:42, bin/testcase.lua:131-137).                            *)
THEOREM EachOnceHolds == Spec => []EachOnce
<1>1. ListInv => EachOnce
  BY DEF ListInv
<1> QED
  BY <1>1, ListInit, ListNext, PTL DEF Spec

-----------------------------------------------------------------------------
(* Pathnames.                                                              *)

(* A set with 0 that has the successor of each of its numbers has them all.*)
LEMMA NatInd ==
    ASSUME NEW S, 0 \in S, \A n \in Nat : n \in S => n + 1 \in S
    PROVE  Nat \subseteq S
<1> DEFINE R == OpToRel(<, Nat)
           T == Nat \ S
<1> SUFFICES ASSUME T # {} PROVE FALSE
  OBVIOUS
<1>1. IsWellFoundedOn(R, Nat)
  BY NatLessThanWellFounded
<1>2. \A x, y \in Nat : x < y => <<x, y>> \in R
  BY DEF OpToRel
<1> HIDE DEF R
<1>3. PICK x \in T : \A y \in T : ~ (<<y, x>> \in R)
  BY <1>1, WFMin
<1>4. x \in Nat /\ x \notin S
  BY <1>3
<1>5. x # 0
  BY <1>4
<1>6. x - 1 \in Nat /\ x - 1 < x /\ (x - 1) + 1 = x
  BY <1>4, <1>5
<1>7. x - 1 \notin T
  BY <1>2, <1>3, <1>4, <1>6
<1> QED
  BY <1>4, <1>6, <1>7

(* The links of a pathname are followed one after the other: there is a    *)
(* pathname after each of them.                                            *)
LEMMA HopsStep ==
    ASSUME NEW p
    PROVE  /\ Hops(p)[0] = Abs(p)
           /\ \A n \in 1 .. MaxLinks : Hops(p)[n] = FollowOne[Hops(p)[n - 1]]
<1> DEFINE Is(h, m) == /\ h = [i \in 0 .. m |-> h[i]] /\ h[0] = Abs(p)
                       /\ \A i \in 1 .. m : h[i] = FollowOne[h[i - 1]]
           P == {m \in Nat : \E h : Is(h, m)}
           F(h) == [n \in 0 .. MaxLinks |->
                       IF n = 0 THEN Abs(p) ELSE FollowOne[h[n - 1]]]
<1>1. 0 \in P
  <2> DEFINE h == [i \in 0 .. 0 |-> Abs(p)]
  <2>1. Is(h, 0)
    OBVIOUS
  <2> QED
    BY <2>1
<1>2. ASSUME NEW m \in Nat, m \in P PROVE m + 1 \in P
  <2>1. PICK h : Is(h, m)
    BY <1>2
  <2> DEFINE x == FollowOne[h[m]]
             g == [i \in 0 .. m + 1 |-> IF i = m + 1 THEN x ELSE h[i]]
  <2>2. \A i \in 0 .. m : g[i] = h[i]
    OBVIOUS
  <2>3. g[m + 1] = x /\ g = [i \in 0 .. m + 1 |-> g[i]]
    OBVIOUS
  <2> HIDE DEF g
  <2>4. g[0] = Abs(p)
    BY <2>1, <2>2
  <2>5. ASSUME NEW i \in 1 .. m + 1 PROVE g[i] = FollowOne[g[i - 1]]
    <3>1. CASE i = m + 1
      BY <2>2, <2>3, <3>1
    <3>2. CASE i # m + 1
      <4>1. i \in 1 .. m /\ i \in 0 .. m /\ i - 1 \in 0 .. m
        BY <3>2
      <4> QED
        BY <2>1, <2>2, <4>1
    <3> QED
      BY <3>1, <3>2
  <2>6. Is(g, m + 1)
    BY <2>3, <2>4, <2>5
  <2> HIDE DEF Is
  <2>7. \E k : Is(k, m + 1)
    BY <2>6
  <2> QED
    BY <2>7
<1> HIDE DEF P
<1>3. MaxLinks \in P
  BY <1>1, <1>2, NatInd, TreeAssumption
<1>4. PICK h : Is(h, MaxLinks)
  BY <1>3 DEF P
<1>5. h = F(h)
  <2>1. MaxLinks \in Nat
    BY TreeAssumption
  <2>2. \A i \in 0 .. MaxLinks :
          h[i] = IF i = 0 THEN Abs(p) ELSE FollowOne[h[i - 1]]
    <3>1. h[0] = Abs(p) /\ \A i \in 1 .. MaxLinks : h[i] = FollowOne[h[i - 1]]
      BY <1>4
    <3>2. \A i \in 0 .. MaxLinks : i = 0 \/ i \in 1 .. MaxLinks
      BY <2>1
    <3> QED
      BY <3>1, <3>2
  <2>3. [i \in 0 .. MaxLinks |-> h[i]] = F(h)
    BY <2>2
  <2>4. h = [i \in 0 .. MaxLinks |-> h[i]]
    BY <1>4
  <2> QED
    BY <2>3, <2>4
<1>6. Hops(p) = CHOOSE f : f = F(f)
  BY DEF Hops
<1> HIDE DEF F
<1>7. Hops(p) = F(Hops(p))
  BY <1>5, <1>6
<1>8. \A n \in 0 .. MaxLinks :
        Hops(p)[n] = IF n = 0 THEN Abs(p) ELSE FollowOne[Hops(p)[n - 1]]
  <2>1. \A g : F(g) = [n \in 0 .. MaxLinks |->
                          IF n = 0 THEN Abs(p) ELSE FollowOne[g[n - 1]]]
    BY DEF F
  <2> DEFINE H == Hops(p)
  <2> HIDE DEF H
  <2>2. \A n \in 0 .. MaxLinks :
          F(H)[n] = IF n = 0 THEN Abs(p) ELSE FollowOne[H[n - 1]]
    BY <2>1
  <2>3. F(H) = H
    BY <1>7 DEF H
  <2> QED
    BY <2>2, <2>3 DEF H
<1> QED
  BY <1>8, TreeAssumption

LEMMA SlashIsASymbol == "/" \in STRING
<1>1. PathName(Cwd)
  BY TreeAssumption
<1>2. Cwd \in Seq(STRING) /\ 1 \in 1 .. Len(Cwd) /\ Cwd[1] = "/"
  BY <1>1 DEF PathName
<1> QED
  BY <1>2

(* A pathname in a directory: its symbols.                                 *)
LEMMA ChildIs ==
    ASSUME NEW a \in Seq(STRING), NEW b \in Seq(STRING)
    PROVE  /\ Child(a, b) \in Seq(STRING)
           /\ Len(Child(a, b)) = Len(a) + 1 + Len(b)
           /\ \A i \in 1 .. Len(a) : Child(a, b)[i] = a[i]
           /\ Child(a, b)[Len(a) + 1] = "/"
           /\ \A i \in 1 .. Len(b) : Child(a, b)[Len(a) + 1 + i] = b[i]
<1>1. <<"/">> \in Seq(STRING) /\ Len(<<"/">>) = 1 /\ <<"/">>[1] = "/"
  <2>1. "/" \in STRING
    BY SlashIsASymbol
  <2> QED
    BY <2>1
<1> DEFINE c == a \o <<"/">>
<1>2. /\ c \in Seq(STRING) /\ Len(c) = Len(a) + 1
      /\ \A i \in 1 .. Len(a) : c[i] = a[i]
      /\ c[Len(a) + 1] = "/"
  BY <1>1
<1> HIDE DEF c
<1>3. Child(a, b) = c \o b
  BY DEF Child, c
<1>4. /\ c \o b \in Seq(STRING) /\ Len(c \o b) = Len(c) + Len(b)
      /\ \A i \in 1 .. Len(c) + Len(b) :
             (c \o b)[i] = IF i <= Len(c) THEN c[i] ELSE b[i - Len(c)]
  BY <1>2, ConcatProperties
<1> QED
  BY <1>2, <1>3, <1>4

LEMMA ChildOfChild ==
    ASSUME NEW a \in Seq(STRING), NEW b \in Seq(STRING), NEW c \in Seq(STRING)
    PROVE  Child(Child(a, b), c) = Child(a, Child(b, c))
<1> DEFINE s == <<"/">>
<1>1. s \in Seq(STRING)
  <2>1. "/" \in STRING
    BY SlashIsASymbol
  <2> QED
    BY <2>1
<1> HIDE DEF s
<1>2. ((a \o s) \o b) \o (s \o c) = (a \o s) \o (b \o (s \o c))
  BY <1>1
<1>3. (((a \o s) \o b) \o s) \o c = ((a \o s) \o b) \o (s \o c)
  BY <1>1
<1>4. (b \o s) \o c = b \o (s \o c)
  BY <1>1
<1> QED
  BY <1>2, <1>3, <1>4 DEF Child, s

\* The name of an entry of a directory.
Name(n) == n \in Seq(STRING) /\ n # << >> /\ "/" \notin ToSet(n)

LEMMA SamePrefix ==
    ASSUME NEW a \in Seq(STRING), NEW c \in Seq(STRING), Len(a) <= Len(c),
           \A i \in 1 .. Len(a) : c[i] = a[i],
           NEW m \in 0 .. Len(a)
    PROVE  SubSeq(c, 1, m) = SubSeq(a, 1, m)
<1> DEFINE u == SubSeq(c, 1, m)
           v == SubSeq(a, 1, m)
<1>1. m \in Int /\ \A i \in 1 .. m : c[i] \in STRING /\ a[i] \in STRING
  OBVIOUS
<1>2. /\ u \in Seq(STRING) /\ Len(u) = m
      /\ \A i \in 1 .. m : u[i] = c[i]
  BY <1>1
<1>3. /\ v \in Seq(STRING) /\ Len(v) = m
      /\ \A i \in 1 .. m : v[i] = a[i]
  BY <1>1
<1> HIDE DEF u, v
<1>4. \A i \in 1 .. Len(u) : u[i] = v[i]
  BY <1>2, <1>3
<1>5. u = v
  BY <1>2, <1>3, <1>4, SeqEqual
<1> QED
  BY <1>5 DEF u, v

(* What IsPrefix says of the symbols.                                      *)
LEMMA PrefixIs ==
    ASSUME NEW a \in Seq(STRING), NEW c \in Seq(STRING)
    PROVE  IsPrefix(a, c) <=>
             Len(a) <= Len(c) /\ \A i \in 1 .. Len(a) : c[i] = a[i]
<1>1. ASSUME Len(a) <= Len(c), \A i \in 1 .. Len(a) : c[i] = a[i]
      PROVE  IsPrefix(a, c)
  <2>1. Len(a) \in 0 .. Len(a)
    OBVIOUS
  <2> QED
    BY <1>1, <2>1, SamePrefix DEF IsPrefix
<1>2. ASSUME IsPrefix(a, c)
      PROVE  Len(a) <= Len(c) /\ \A i \in 1 .. Len(a) : c[i] = a[i]
  <2> DEFINE u == SubSeq(c, 1, Len(a))
             v == SubSeq(a, 1, Len(a))
  <2>1. Len(a) <= Len(c) /\ u = v
    BY <1>2 DEF IsPrefix
  <2>2. \A i \in 1 .. Len(a) : u[i] = c[i]
    BY <2>1
  <2>3. \A i \in 1 .. Len(a) : v[i] = a[i]
    OBVIOUS
  <2> HIDE DEF u, v
  <2> QED
    BY <2>1, <2>2, <2>3
<1> QED
  BY <1>1, <1>2

(* A link in the front of a pathname is one of the front.                  *)
LEMMA EndInFront ==
    ASSUME NEW a \in Seq(STRING), NEW c \in Seq(STRING), Len(a) <= Len(c),
           \A i \in 1 .. Len(a) : c[i] = a[i],
           NEW m \in LinkEnds(c), m <= Len(a)
    PROVE  m \in LinkEnds(a)
<1>1. /\ m \in 1 .. Len(a) /\ m \in 0 .. Len(a)
      /\ SubSeq(c, 1, m) \in DOMAIN Links
      /\ m = Len(c) \/ c[m + 1] = "/"
  BY DEF LinkEnds
<1>2. SubSeq(a, 1, m) \in DOMAIN Links
  BY <1>1, SamePrefix
<1>3. m = Len(a) \/ a[m + 1] = "/"
  <2>1. CASE m = Len(a)
    BY <2>1
  <2>2. CASE m # Len(a)
    <3>1. m + 1 \in 1 .. Len(a) /\ m # Len(c)
      BY <1>1, <2>2
    <3> QED
      BY <1>1, <3>1
  <2> QED
    BY <2>1, <2>2
<1> QED
  BY <1>1, <1>2, <1>3 DEF LinkEnds

(* Below a directory without links only the last name can be a link.       *)
LEMMA NamedEnds ==
    ASSUME NEW d \in Seq(STRING), LinkEnds(d) = {}, NEW n, Name(n)
    PROVE  LinkEnds(Child(d, n)) =
             IF Child(d, n) \in DOMAIN Links THEN {Len(Child(d, n))} ELSE {}
<1> DEFINE c == Child(d, n)
           l == Len(c)
<1>1. n \in Seq(STRING) /\ n # << >> /\ \A i \in 1 .. Len(n) : n[i] # "/"
  BY DEF Name, ToSet
<1>2. /\ c \in Seq(STRING) /\ l = Len(d) + 1 + Len(n)
      /\ \A i \in 1 .. Len(d) : c[i] = d[i]
      /\ \A i \in 1 .. Len(n) : c[Len(d) + 1 + i] = n[i]
  BY <1>1, ChildIs
<1>3. Len(d) \in Nat /\ Len(n) \in Nat /\ Len(n) > 0
  BY <1>1
<1> HIDE DEF c
<1>4. SubSeq(c, 1, l) = c
  BY <1>2, SubSeqFull
<1>5. ASSUME NEW m \in LinkEnds(c) PROVE m = l
  <2>1. m \in 1 .. l /\ (m = l \/ c[m + 1] = "/")
    BY DEF LinkEnds
  <2>2. CASE m <= Len(d)
    BY <1>2, <1>3, <2>2, EndInFront
  <2>3. CASE m > Len(d) /\ m # l
    <3>1. m - Len(d) \in 1 .. Len(n) /\ m + 1 = Len(d) + 1 + (m - Len(d))
      <4>1. l = Len(d) + 1 + Len(n) /\ m \in 1 .. l
        BY <1>2, <2>1
      <4> HIDE DEF l
      <4> QED
        BY <1>3, <2>3, <4>1
    <3>2. c[m + 1] = n[m - Len(d)]
      BY <1>2, <3>1
    <3> QED
      BY <1>1, <2>1, <2>3, <3>1, <3>2
  <2> QED
    BY <1>3, <2>1, <2>2, <2>3
<1>6. l \in LinkEnds(c) <=> c \in DOMAIN Links
  <2>1. l \in 1 .. l
    BY <1>2, <1>3
  <2> QED
    BY <1>4, <2>1 DEF LinkEnds
<1> QED
  BY <1>5, <1>6 DEF c

LEMMA MinIs ==
    ASSUME NEW S \in SUBSET Nat, NEW k \in S, \A y \in S : k <= y
    PROVE  Min(S) = k
<1>1. \E x \in S : \A y \in S : x =< y
  OBVIOUS
<1>2. Min(S) \in S /\ \A y \in S : Min(S) =< y
  BY <1>1 DEF Min
<1>3. Min(S) \in Nat /\ k \in Nat /\ k <= Min(S) /\ Min(S) <= k
  BY <1>2
<1> QED
  BY <1>3

(* What the kernel makes of a pathname through a link in a directory.      *)
LEMMA FollowsTheLink ==
    ASSUME NEW d \in Seq(STRING), LinkEnds(d) = {}, NEW n, Name(n),
           Child(d, n) \in DOMAIN Links, Links[Child(d, n)] \in Seq(STRING)
    PROVE  /\ FollowOne[Child(d, n)] = Links[Child(d, n)]
           /\ \A r \in Seq(STRING) :
                  FollowOne[Child(Child(d, n), r)] = Child(Links[Child(d, n)], r)
<1> DEFINE c == Child(d, n)
           l == Len(c)
           t == Links[c]
<1>1. c \in Seq(STRING) /\ l \in Nat /\ l > 0
  <2>1. n \in Seq(STRING)
    BY DEF Name
  <2>2. c \in Seq(STRING) /\ l = Len(d) + 1 + Len(n)
    BY <2>1, ChildIs
  <2>3. Len(d) \in Nat /\ Len(n) \in Nat
    BY <2>1
  <2> HIDE DEF c
  <2> QED
    BY <2>2, <2>3
<1>2. LinkEnds(c) = {l}
  BY NamedEnds
<1>3. t \in Seq(STRING) /\ c \in DOMAIN Links
  OBVIOUS
<1> HIDE DEF c
<1>4. SubSeq(c, 1, l) = c /\ SubSeq(c, l + 1, l) = << >> /\ t \o << >> = t
  <2>1. l + 1 \in Int /\ l \in Int /\ l < l + 1
    BY <1>1
  <2>2. SubSeq(c, l + 1, l) = << >>
    BY <2>1, SubSeqEmpty
  <2> QED
    BY <1>1, <1>3, <2>2, SubSeqFull, ConcatEmptySeq
<1>5. Min({l}) = l
  BY <1>1, MinIs
<1>6. FollowOne[c] = t
  <2>1. FollowOne[c] = LET m == Min(LinkEnds(c))
                       IN  Links[SubSeq(c, 1, m)] \o SubSeq(c, m + 1, Len(c))
    BY <1>1, <1>2 DEF FollowOne
  <2> QED
    BY <1>2, <1>4, <1>5, <2>1
<1>7. ASSUME NEW r \in Seq(STRING)
      PROVE  FollowOne[Child(c, r)] = Child(t, r)
  <2> DEFINE e == Child(c, r)
             s == <<"/">>
  <2>1. /\ e \in Seq(STRING) /\ Len(e) = l + 1 + Len(r) /\ Len(r) \in Nat
        /\ \A i \in 1 .. l : e[i] = c[i]
        /\ e[l + 1] = "/"
        /\ l <= Len(e)
    <3>1. /\ e \in Seq(STRING) /\ Len(e) = l + 1 + Len(r)
          /\ \A i \in 1 .. l : e[i] = c[i]
          /\ e[l + 1] = "/"
      BY <1>1, ChildIs
    <3>2. Len(r) \in Nat
      OBVIOUS
    <3> HIDE DEF e
    <3> QED
      BY <1>1, <3>1, <3>2
  <2>2. SubSeq(e, 1, l) = c
    <3>1. l \in 0 .. l /\ l <= Len(e)
      BY <1>1, <2>1
    <3>2. SubSeq(e, 1, l) = SubSeq(c, 1, l)
      <4> HIDE DEF e
      <4> QED
        BY <1>1, <2>1, <3>1, SamePrefix
    <3> QED
      BY <1>4, <3>2
  <2>3. s \in Seq(STRING)
    BY SlashIsASymbol
  <2>4. e = c \o (s \o r) /\ s \o r \in Seq(STRING) /\ Len(s \o r) = 1 + Len(r)
    <3>1. s \in Seq(STRING) /\ Len(s) = 1
      BY <2>3
    <3> HIDE DEF s
    <3>2. e = (c \o s) \o r
      BY DEF Child, s
    <3>3. (c \o s) \o r = c \o (s \o r)
      <4>1. c \in Seq(STRING)
        BY <1>1
      <4> HIDE DEF e
      <4> QED
        BY <3>1, <4>1, ConcatAssociative
    <3>4. s \o r \in Seq(STRING) /\ Len(s \o r) = Len(s) + Len(r)
      BY <2>1, <3>1, ConcatProperties
    <3> QED
      BY <3>1, <3>2, <3>3, <3>4
  <2>5. SubSeq(e, l + 1, Len(e)) = s \o r
    <3> DEFINE v == s \o r
    <3>1. e = c \o v /\ v \in Seq(STRING) /\ Len(v) = 1 + Len(r)
      BY <2>4
    <3> HIDE DEF v, e
    <3>2. Len(e) = l + Len(v) /\ Len(v) \in Nat /\ Len(v) > 0
      BY <2>1, <3>1
    <3>3. /\ l + 1 \in l + 1 .. l + Len(v)
          /\ l + Len(v) \in l + 1 .. l + Len(v)
          /\ (l + 1) - l = 1 /\ (l + Len(v)) - l = Len(v)
      BY <1>1, <3>2
    <3>4. SubSeq(c \o v, l + 1, l + Len(v)) = SubSeq(v, 1, Len(v))
      BY <1>1, <3>1, <3>3, SubSeqOfConcat2
    <3>5. SubSeq(v, 1, Len(v)) = v
      BY <3>1, SubSeqFull
    <3> QED
      BY <3>1, <3>2, <3>4, <3>5 DEF v
  <2>6. Min(LinkEnds(e)) = l /\ LinkEnds(e) # {}
    <3> HIDE DEF e
    <3>1. l \in LinkEnds(e)
      <4>1. l \in 1 .. Len(e)
        BY <1>1, <2>1
      <4> QED
        BY <1>3, <2>1, <2>2, <4>1 DEF LinkEnds
    <3>2. ASSUME NEW m \in LinkEnds(e) PROVE l <= m
      <4>1. m \in 1 .. Len(e)
        BY DEF LinkEnds
      <4>2. CASE m <= l
        <5>1. m \in LinkEnds(c)
          BY <1>1, <2>1, <4>2, EndInFront
        <5> QED
          BY <1>1, <1>2, <5>1
      <4> QED
        BY <1>1, <2>1, <4>1, <4>2
    <3>3. LinkEnds(e) \in SUBSET Nat
      BY <2>1 DEF LinkEnds
    <3> QED
      BY <3>1, <3>2, <3>3, MinIs
  <2>7. FollowOne[e] = LET m == Min(LinkEnds(e))
                       IN  Links[SubSeq(e, 1, m)] \o SubSeq(e, m + 1, Len(e))
    BY <2>1, <2>6 DEF FollowOne
  <2>8. FollowOne[e] = t \o (s \o r)
    <3> HIDE DEF e, s
    <3> QED
      BY <2>2, <2>5, <2>6, <2>7
  <2>9. t \o (s \o r) = Child(t, r)
    <3>1. Child(t, r) = (t \o s) \o r
      BY DEF Child
    <3> HIDE DEF e, s, t
    <3>2. (t \o s) \o r = t \o (s \o r)
      BY <1>3, <2>3, ConcatAssociative
    <3> QED
      BY <3>1, <3>2
  <2> QED
    BY <2>8, <2>9
<1> QED
  BY <1>6, <1>7 DEF c

\* The first k links of a walked directory w, and of whatever is looked up in
\* it, lead to directory d.
Leads(w, d, k) ==
    /\ k \in 0 .. MaxLinks /\ Hops(w)[k] = d
    /\ \A r \in Seq(STRING) : Hops(Child(w, r))[k] = Child(d, r)

(* The kernel stops at a pathname without links.                           *)
LEMMA StaysReal ==
    ASSUME NEW p, NEW d \in Seq(STRING), LinkEnds(d) = {},
           NEW k \in 0 .. MaxLinks, Hops(p)[k] = d
    PROVE  Follow(p) = d
<1> DEFINE P == {j \in Nat : k + j <= MaxLinks => Hops(p)[k + j] = d}
<1>1. MaxLinks \in Nat /\ k \in Nat
  BY TreeAssumption
<1>2. FollowOne[d] = d
  BY DEF FollowOne
<1>3. 0 \in P
  BY <1>1
<1>4. ASSUME NEW j \in Nat, j \in P PROVE j + 1 \in P
  <2> SUFFICES ASSUME k + (j + 1) <= MaxLinks PROVE Hops(p)[k + (j + 1)] = d
    OBVIOUS
  <2>1. /\ k + (j + 1) \in 1 .. MaxLinks /\ (k + (j + 1)) - 1 = k + j
        /\ k + j <= MaxLinks
    BY <1>1
  <2>2. Hops(p)[k + (j + 1)] = FollowOne[Hops(p)[(k + (j + 1)) - 1]]
    BY <2>1, HopsStep
  <2> QED
    BY <1>2, <1>4, <2>1, <2>2
<1> HIDE DEF P
<1>5. Nat \subseteq P
  BY <1>3, <1>4, NatInd
<1>6. MaxLinks - k \in P /\ k + (MaxLinks - k) = MaxLinks
  BY <1>1, <1>5
<1> QED
  BY <1>1, <1>6 DEF P, Follow

LEMMA AbsIs ==
    ASSUME NEW p \in Seq(STRING), p # << >>, p[1] = "/"
    PROVE  Abs(p) = p
<1>1. <<"/">> \in Seq(STRING) /\ Len(<<"/">>) = 1 /\ <<"/">>[1] = "/"
  BY SlashIsASymbol
<1>2. IsPrefix(<<"/">>, p)
  <2> DEFINE s == <<"/">>
  <2>1. s \in Seq(STRING) /\ Len(s) = 1 /\ s[1] = "/"
    BY <1>1
  <2> HIDE DEF s
  <2>2. Len(s) <= Len(p) /\ \A i \in 1 .. Len(s) : p[i] = s[i]
    BY <2>1
  <2>3. IsPrefix(s, p)
    BY <2>1, <2>2, PrefixIs
  <2> QED
    BY <2>3 DEF s
<1> QED
  BY <1>2 DEF Abs

(* A real pathname leads to itself.                                        *)
LEMMA LeadsSelf ==
    ASSUME NEW p, PathName(p), LinkEnds(p) = {}
    PROVE  Leads(p, p, 0)
<1>1. /\ p \in Seq(STRING) /\ p # << >> /\ p[1] = "/"
      /\ MaxLinks \in Nat /\ 0 \in 0 .. MaxLinks
  BY TreeAssumption DEF PathName
<1>2. Hops(p)[0] = p
  BY <1>1, AbsIs, HopsStep
<1>3. ASSUME NEW r \in Seq(STRING) PROVE Hops(Child(p, r))[0] = Child(p, r)
  <2>1. /\ Child(p, r) \in Seq(STRING) /\ Len(Child(p, r)) = Len(p) + 1 + Len(r)
        /\ \A i \in 1 .. Len(p) : Child(p, r)[i] = p[i]
    BY <1>1, ChildIs
  <2>2. 1 \in 1 .. Len(p) /\ Len(p) \in Nat /\ Len(r) \in Nat
    BY <1>1
  <2>3. Child(p, r) # << >> /\ Child(p, r)[1] = "/"
    BY <1>1, <2>1, <2>2
  <2> QED
    BY <2>1, <2>3, AbsIs, HopsStep
<1> QED
  BY <1>1, <1>2, <1>3 DEF Leads

LEMMA LeadsToReal ==
    ASSUME NEW w, NEW d \in Seq(STRING), LinkEnds(d) = {}, NEW k, Leads(w, d, k)
    PROVE  Follow(w) = d
BY StaysReal DEF Leads

LEMMA LeadsChild ==
    ASSUME NEW w \in Seq(STRING), NEW d \in Seq(STRING), NEW k, Leads(w, d, k),
           NEW n \in Seq(STRING)
    PROVE  Leads(Child(w, n), Child(d, n), k)
<1>1. k \in 0 .. MaxLinks /\ Hops(Child(w, n))[k] = Child(d, n)
  BY DEF Leads
<1>2. ASSUME NEW r \in Seq(STRING)
      PROVE  Hops(Child(Child(w, n), r))[k] = Child(Child(d, n), r)
  <2>1. Child(n, r) \in Seq(STRING)
    BY ChildIs
  <2>2. Hops(Child(w, Child(n, r)))[k] = Child(d, Child(n, r))
    BY <2>1 DEF Leads
  <2> QED
    BY <2>2, ChildOfChild
<1> QED
  BY <1>1, <1>2 DEF Leads

LEMMA LeadsThrough ==
    ASSUME NEW w \in Seq(STRING), NEW d \in Seq(STRING), LinkEnds(d) = {},
           NEW k, Leads(w, d, k), k < MaxLinks, NEW n, Name(n),
           Child(d, n) \in DOMAIN Links, Links[Child(d, n)] \in Seq(STRING)
    PROVE  Leads(Child(w, n), Links[Child(d, n)], k + 1)
<1> DEFINE c == Child(d, n)
           t == Links[c]
<1>1. /\ k \in 0 .. MaxLinks /\ MaxLinks \in Nat /\ n \in Seq(STRING)
      /\ k + 1 \in 1 .. MaxLinks /\ (k + 1) - 1 = k /\ k + 1 \in 0 .. MaxLinks
  BY TreeAssumption DEF Leads, Name
<1>2. Leads(Child(w, n), c, k)
  BY <1>1, LeadsChild
<1>3. FollowOne[c] = t /\ \A r \in Seq(STRING) : FollowOne[Child(c, r)] = Child(t, r)
  BY FollowsTheLink
<1> HIDE DEF c
<1>4. \A p : Hops(p)[k + 1] = FollowOne[Hops(p)[k]]
  BY <1>1, HopsStep
<1>5. Hops(Child(w, n))[k + 1] = t
  BY <1>2, <1>3, <1>4 DEF Leads
<1>6. \A r \in Seq(STRING) : Hops(Child(Child(w, n), r))[k + 1] = Child(t, r)
  BY <1>2, <1>3, <1>4 DEF Leads
<1> QED
  BY <1>1, <1>5, <1>6 DEF Leads, c

\* What an entry of directory d is: something of the tree, or a link.
Target(d, n) == IF Child(d, n) \in DOMAIN Links THEN Links[Child(d, n)] ELSE Child(d, n)

LEMMA TreeIs ==
    /\ \A p \in DOMAIN Type : p \in Seq(STRING) /\ LinkEnds(p) = {} /\ PathName(p)
    /\ \A l \in DOMAIN Links :
           /\ l \in Seq(STRING) /\ l \notin DOMAIN Type /\ LinkEnds(l) # {}
           /\ Links[l] \in Seq(STRING) /\ LinkEnds(Links[l]) = {} /\ PathName(Links[l])
<1>1. \A p : PathName(p) => p \in Seq(STRING)
  BY DEF PathName
<1>2. \A p \in DOMAIN Type : LinkEnds(p) = {} /\ PathName(p)
  BY TreeAssumption
<1>3. \A l \in DOMAIN Links : PathName(l) /\ PathName(Links[l]) /\ LinkEnds(Links[l]) = {}
  BY TreeAssumption
<1>4. \A l \in DOMAIN Links : LinkEnds(l) # {} /\ l \notin DOMAIN Type
  <2>1. \A l \in DOMAIN Links : LinkEnds(l) = {Len(l)}
    BY TreeAssumption
  <2> QED
    BY <1>2, <2>1
<1> QED
  BY <1>1, <1>2, <1>3, <1>4

(* An entry that is a link is one link more to follow, and one that is too *)
(* many keeps the pathname from being resolved (src/stat.c:46-111).        *)
LEMMA EntryLeads ==
    ASSUME NEW w \in Seq(STRING), NEW d \in DOMAIN Type, NEW k, Leads(w, d, k),
           NEW n, Name(n), Child(d, n) \in DOMAIN Type \cup DOMAIN Links
    PROVE  /\ Target(d, n) \in Seq(STRING) /\ LinkEnds(Target(d, n)) = {}
           /\ Child(d, n) \notin DOMAIN Links =>
                 Leads(Child(w, n), Target(d, n), k)
           /\ Child(d, n) \in DOMAIN Links /\ k < MaxLinks =>
                 Leads(Child(w, n), Target(d, n), k + 1)
           /\ Child(d, n) \in DOMAIN Links /\ k = MaxLinks =>
                 LinkEnds(Follow(Child(w, n))) # {}
           /\ LinkEnds(Follow(Child(w, n))) = {} =>
                 Follow(Child(w, n)) = Target(d, n)
<1>1. d \in Seq(STRING) /\ LinkEnds(d) = {} /\ n \in Seq(STRING)
  BY TreeIs DEF Name
<1>2. k \in 0 .. MaxLinks /\ MaxLinks \in Nat /\ (k < MaxLinks \/ k = MaxLinks)
  BY TreeAssumption DEF Leads
<1>3. CASE Child(d, n) \notin DOMAIN Links
  <2>1. Target(d, n) = Child(d, n) /\ Child(d, n) \in DOMAIN Type
    BY <1>3 DEF Target
  <2>2. Target(d, n) \in Seq(STRING) /\ LinkEnds(Target(d, n)) = {}
    BY <2>1, TreeIs
  <2>3. Leads(Child(w, n), Target(d, n), k)
    BY <1>1, <2>1, LeadsChild
  <2>4. Follow(Child(w, n)) = Target(d, n)
    BY <2>2, <2>3, LeadsToReal
  <2> QED
    BY <1>3, <2>2, <2>3, <2>4
<1>4. CASE Child(d, n) \in DOMAIN Links
  <2>1. Target(d, n) = Links[Child(d, n)]
    BY <1>4 DEF Target
  <2>2. Target(d, n) \in Seq(STRING) /\ LinkEnds(Target(d, n)) = {}
    BY <1>4, <2>1, TreeIs
  <2>3. CASE k < MaxLinks
    <3>1. Leads(Child(w, n), Target(d, n), k + 1)
      BY <1>1, <1>4, <2>1, <2>2, <2>3, LeadsThrough
    <3>2. Follow(Child(w, n)) = Target(d, n)
      BY <2>2, <3>1, LeadsToReal
    <3> QED
      BY <1>2, <1>4, <2>2, <2>3, <3>1, <3>2
  <2>4. CASE k = MaxLinks
    <3>1. Follow(Child(w, n)) = Child(d, n)
      BY <1>1, <2>4 DEF Leads, Follow
    <3>2. LinkEnds(Child(d, n)) # {}
      BY <1>4, TreeIs
    <3> QED
      BY <1>2, <1>4, <2>2, <2>4, <3>1, <3>2
  <2> QED
    BY <1>2, <2>3, <2>4
<1> QED
  BY <1>3, <1>4

(* The pathname of a directory with a slash behind it.                     *)
LEMMA SlashBehind ==
    ASSUME NEW a \in Seq(STRING)
    PROVE  /\ a \o <<"/">> \in Seq(STRING)
           /\ Len(a \o <<"/">>) = Len(a) + 1
           /\ \A i \in 1 .. Len(a) : (a \o <<"/">>)[i] = a[i]
           /\ (a \o <<"/">>)[Len(a) + 1] = "/"
<1> DEFINE s == <<"/">>
<1>1. s \in Seq(STRING) /\ Len(s) = 1 /\ s[1] = "/" /\ Len(a) \in Nat
  BY SlashIsASymbol
<1> HIDE DEF s
<1>2. a \o s \in Seq(STRING) /\ Len(a \o s) = Len(a) + 1
      /\ \A i \in 1 .. Len(a) + 1 :
             (a \o s)[i] = IF i <= Len(a) THEN a[i] ELSE s[i - Len(a)]
  BY <1>1, ConcatProperties
<1>3. (Len(a) + 1) - Len(a) = 1 /\ Len(a) + 1 \in 1 .. Len(a) + 1
  BY <1>1
<1>4. (a \o s)[Len(a) + 1] = s[1]
  BY <1>1, <1>2, <1>3
<1> QED
  BY <1>1, <1>2, <1>4 DEF s

(* What is in a directory is there under the name it has in it.            *)
LEMMA EntryOf ==
    ASSUME NEW d \in Seq(STRING), NEW p \in Seq(STRING),
           IsStrictPrefix(d \o <<"/">>, p)
    PROVE  /\ EntryName(d, p) \in Seq(STRING) /\ EntryName(d, p) # << >>
           /\ Child(d, EntryName(d, p)) = p
<1> DEFINE n == EntryName(d, p)
           c == d \o <<"/">>
<1>1. /\ c \in Seq(STRING) /\ Len(c) = Len(d) + 1
      /\ \A i \in 1 .. Len(d) : c[i] = d[i]
      /\ c[Len(d) + 1] = "/"
  BY SlashBehind
<1>2. IsPrefix(c, p) /\ c # p
  BY DEF IsStrictPrefix
<1> HIDE DEF c
<1>3. Len(c) <= Len(p) /\ \A i \in 1 .. Len(c) : p[i] = c[i]
  BY <1>1, <1>2, PrefixIs
<1>4. Len(c) # Len(p)
  <2> SUFFICES ASSUME Len(c) = Len(p) PROVE FALSE
    OBVIOUS
  <2> QED
    BY <1>1, <1>2, <1>3, SeqEqual
<1>5. Len(d) \in Nat /\ Len(p) \in Nat /\ Len(d) + 2 <= Len(p)
  BY <1>1, <1>3, <1>4
<1>6. /\ n \in Seq(STRING) /\ Len(n) = Len(p) - Len(d) - 1
      /\ \A i \in 1 .. Len(n) : n[i] = p[Len(d) + 1 + i]
  BY <1>5 DEF EntryName
<1> HIDE DEF n
<1>7. /\ Child(d, n) \in Seq(STRING) /\ Len(Child(d, n)) = Len(p)
      /\ \A i \in 1 .. Len(d) : Child(d, n)[i] = d[i]
      /\ Child(d, n)[Len(d) + 1] = "/"
      /\ \A i \in 1 .. Len(n) : Child(d, n)[Len(d) + 1 + i] = n[i]
  <2>1. /\ Child(d, n) \in Seq(STRING)
        /\ Len(Child(d, n)) = Len(d) + 1 + Len(n)
        /\ \A i \in 1 .. Len(d) : Child(d, n)[i] = d[i]
        /\ Child(d, n)[Len(d) + 1] = "/"
        /\ \A i \in 1 .. Len(n) : Child(d, n)[Len(d) + 1 + i] = n[i]
    BY <1>6, ChildIs
  <2>2. Len(d) + 1 + Len(n) = Len(p)
    BY <1>5, <1>6
  <2> QED
    BY <2>1, <2>2
<1>8. ASSUME NEW i \in 1 .. Len(p) PROVE Child(d, n)[i] = p[i]
  <2>1. CASE i <= Len(d)
    BY <1>1, <1>3, <1>5, <1>7, <2>1
  <2>2. CASE i = Len(d) + 1
    BY <1>1, <1>3, <1>5, <1>7, <2>2
  <2>3. CASE i > Len(d) + 1
    <3>1. i - Len(d) - 1 \in 1 .. Len(n) /\ i = Len(d) + 1 + (i - Len(d) - 1)
      BY <1>5, <1>6, <2>3
    <3> QED
      BY <1>6, <1>7, <3>1
  <2> QED
    BY <1>5, <2>1, <2>2, <2>3
<1>9. Child(d, n) = p
  BY <1>7, <1>8, SeqEqual
<1>10. n # << >>
  BY <1>5, <1>6
<1> QED
  BY <1>6, <1>9, <1>10 DEF n

LEMMA NameOf ==
    ASSUME NEW d \in Seq(STRING), NEW n \in Seq(STRING), n # << >>
    PROVE  /\ IsStrictPrefix(d \o <<"/">>, Child(d, n))
           /\ EntryName(d, Child(d, n)) = n
<1> DEFINE p == Child(d, n)
           c == d \o <<"/">>
<1>1. /\ c \in Seq(STRING) /\ Len(c) = Len(d) + 1
      /\ \A i \in 1 .. Len(d) : c[i] = d[i]
      /\ c[Len(d) + 1] = "/"
  BY SlashBehind
<1>2. /\ p \in Seq(STRING) /\ Len(p) = Len(d) + 1 + Len(n)
      /\ \A i \in 1 .. Len(d) : p[i] = d[i]
      /\ p[Len(d) + 1] = "/"
      /\ \A i \in 1 .. Len(n) : p[Len(d) + 1 + i] = n[i]
  BY ChildIs
<1>3. Len(d) \in Nat /\ Len(n) \in Nat /\ Len(n) > 0
  OBVIOUS
<1> HIDE DEF p, c
<1>4. Len(c) <= Len(p) /\ \A i \in 1 .. Len(c) : p[i] = c[i]
  BY <1>1, <1>2, <1>3
<1>5. IsPrefix(c, p) /\ c # p
  <2>1. IsPrefix(c, p)
    BY <1>1, <1>2, <1>4, PrefixIs
  <2>2. Len(c) # Len(p)
    BY <1>1, <1>2, <1>3
  <2> QED
    BY <2>1, <2>2
<1>6. EntryName(d, p) = n
  <2> DEFINE e == EntryName(d, p)
  <2>1. /\ e \in Seq(STRING) /\ Len(e) = Len(n)
        /\ \A i \in 1 .. Len(n) : e[i] = p[Len(d) + 1 + i]
    BY <1>2, <1>3 DEF EntryName
  <2> HIDE DEF e
  <2>2. \A i \in 1 .. Len(e) : e[i] = n[i]
    BY <1>2, <2>1
  <2>3. e = n
    BY <2>1, <2>2, SeqEqual
  <2> QED
    BY <2>3 DEF e
<1> QED
  BY <1>5, <1>6 DEF IsStrictPrefix, c, p

(* The entries of a directory that readdir() reports.                      *)
LEMMA ListingIs ==
    ASSUME NEW d \in Seq(STRING), present \subseteq DOMAIN Type
    PROVE  \A n : n \in Listing(d) <=>
                    Name(n) /\ Child(d, n) \in present \cup DOMAIN Links
<1> DEFINE P == {p \in present \cup DOMAIN Links :
                   /\ IsStrictPrefix(d \o <<"/">>, p)
                   /\ "/" \notin ToSet(EntryName(d, p))}
<1>1. \A p \in present \cup DOMAIN Links : p \in Seq(STRING)
  BY TreeIs
<1>2. Listing(d) = {EntryName(d, p) : p \in P}
  BY DEF Listing
<1>3. ASSUME NEW p \in P
      PROVE  Name(EntryName(d, p)) /\ Child(d, EntryName(d, p)) = p
  BY <1>1, EntryOf DEF Name
<1>4. ASSUME NEW n, Name(n), Child(d, n) \in present \cup DOMAIN Links
      PROVE  Child(d, n) \in P /\ EntryName(d, Child(d, n)) = n
  <2>1. n \in Seq(STRING) /\ n # << >> /\ "/" \notin ToSet(n)
    BY <1>4 DEF Name
  <2>2. /\ IsStrictPrefix(d \o <<"/">>, Child(d, n))
        /\ EntryName(d, Child(d, n)) = n
    BY <2>1, NameOf
  <2> QED
    BY <1>4, <2>1, <2>2
<1>5. \A p \in P : p \in present \cup DOMAIN Links
  OBVIOUS
<1> HIDE DEF P
<1>6. ASSUME NEW n \in Listing(d)
      PROVE  Name(n) /\ Child(d, n) \in present \cup DOMAIN Links
  <2>1. PICK p \in P : n = EntryName(d, p)
    BY <1>2, <1>6
  <2> QED
    BY <1>3, <1>5, <2>1
<1>7. ASSUME NEW n, Name(n), Child(d, n) \in present \cup DOMAIN Links
      PROVE  n \in Listing(d)
  <2>1. Child(d, n) \in P /\ EntryName(d, Child(d, n)) = n
    BY <1>4, <1>7
  <2> QED
    BY <1>2, <2>1
<1> QED
  BY <1>6, <1>7

-----------------------------------------------------------------------------
(* trim_cwd().                                                             *)

\* What begins like the working directory is in it.
Inside(p) ==
    IsPrefix(Cwd, p) =>
        \/ p = Cwd
        \/ /\ IsPrefix(Cwd \o <<"/">>, p)
           /\ Len(Cwd) + 2 <= Len(p)
           /\ p[Len(Cwd) + 2] # "/"

LEMMA CwdIs ==
    /\ Cwd \in Seq(STRING) /\ Cwd # << >> /\ Cwd[Len(Cwd)] # "/"
    /\ LinkEnds(Cwd) = {} /\ Cwd \in DOMAIN Type /\ Type[Cwd] = "dir"
BY TreeAssumption, TreeIs DEF PathName, Last

(* Nothing of the tree begins like the working directory by chance.        *)
LEMMA InsideTree ==
    ASSUME NothingBeside, NEW p \in DOMAIN Type \cup DOMAIN Links
    PROVE  Inside(p)
<1> DEFINE c == Cwd \o <<"/">>
           k == Len(Cwd)
<1> SUFFICES ASSUME IsPrefix(Cwd, p), p # Cwd
             PROVE  IsPrefix(c, p) /\ k + 2 <= Len(p) /\ p[k + 2] # "/"
  BY DEF Inside
<1>1. PathName(p)
  BY TreeIs, TreeAssumption
<1>2. /\ p \in Seq(STRING) /\ p[Len(p)] # "/"
      /\ \A i \in 1 .. Len(p) - 1 : p[i] = "/" => p[i + 1] # "/"
  BY <1>1 DEF PathName, Last
<1>3. IsPrefix(c, p)
  BY DEF NothingBeside
<1>4. /\ c \in Seq(STRING) /\ Len(c) = k + 1 /\ c[k + 1] = "/" /\ k \in Nat
  BY CwdIs, SlashBehind
<1> HIDE DEF c
<1>5. Len(c) <= Len(p) /\ \A i \in 1 .. Len(c) : p[i] = c[i]
  BY <1>2, <1>3, <1>4, PrefixIs
<1>6. p[k + 1] = "/" /\ k + 1 <= Len(p) /\ Len(p) \in Nat
  BY <1>2, <1>4, <1>5
<1>7. k + 1 # Len(p)
  BY <1>2, <1>6
<1>8. k + 1 \in 1 .. Len(p) - 1 /\ (k + 1) + 1 = k + 2
  BY <1>4, <1>6, <1>7
<1> QED
  BY <1>2, <1>3, <1>4, <1>6, <1>8 DEF c

(* What is looked up in a walked directory is inside when the directory is,*)
(* whichever links the walk has followed (lib/filesystem.lua:41-46).       *)
LEMMA InsideChild ==
    ASSUME NothingBeside, NEW w \in Seq(STRING), Inside(w),
           NEW d \in DOMAIN Type, NEW k, Leads(w, d, k), w # << >>, w[1] = "/",
           NEW n, Name(n), Child(d, n) \in DOMAIN Type \cup DOMAIN Links
    PROVE  Inside(Child(w, n))
<1> DEFINE c == Child(w, n)
           m == Len(Cwd)
           s == Cwd \o <<"/">>
<1> SUFFICES ASSUME IsPrefix(Cwd, c)
             PROVE  \/ c = Cwd
                    \/ IsPrefix(s, c) /\ m + 2 <= Len(c) /\ c[m + 2] # "/"
  BY DEF Inside
<1>1. /\ n \in Seq(STRING) /\ Len(n) \in Nat /\ Len(n) > 0
      /\ \A i \in 1 .. Len(n) : n[i] # "/"
  <2>1. n \in Seq(STRING) /\ n # << >> /\ \A i \in 1 .. Len(n) : n[i] # "/"
    BY DEF Name, ToSet
  <2> QED
    BY <2>1
<1>2. /\ c \in Seq(STRING) /\ Len(c) = Len(w) + 1 + Len(n)
      /\ \A i \in 1 .. Len(w) : c[i] = w[i]
      /\ c[Len(w) + 1] = "/"
      /\ \A i \in 1 .. Len(n) : c[Len(w) + 1 + i] = n[i]
  BY <1>1, ChildIs
<1>3. /\ Cwd \in Seq(STRING) /\ m \in Nat /\ Len(w) \in Nat
      /\ s \in Seq(STRING) /\ Len(s) = m + 1
      /\ \A i \in 1 .. m : s[i] = Cwd[i]
      /\ s[m + 1] = "/"
  BY CwdIs, SlashBehind
<1> HIDE DEF c, s
<1>4. m <= Len(c) /\ \A i \in 1 .. m : c[i] = Cwd[i]
  BY <1>2, <1>3, PrefixIs
<1>5. CASE IsPrefix(Cwd, w)
  <2>1. CASE w = Cwd
    <3>1. \A i \in 1 .. Len(s) : c[i] = s[i]
      <4> TAKE i \in 1 .. Len(s)
      <4>1. CASE i = m + 1
        BY <1>2, <1>3, <2>1, <4>1
      <4>2. CASE i # m + 1
        <5>1. i \in 1 .. m
          BY <1>3, <4>2
        <5> QED
          BY <1>3, <1>4, <5>1
      <4> QED
        BY <4>1, <4>2
    <3>2. Len(s) <= Len(c)
      BY <1>1, <1>2, <1>3, <2>1
    <3>3. IsPrefix(s, c)
      BY <1>2, <1>3, <3>1, <3>2, PrefixIs
    <3>4. 1 \in 1 .. Len(n) /\ Len(w) + 1 + 1 = m + 2 /\ m + 2 <= Len(c)
      BY <1>1, <1>2, <1>3, <2>1
    <3>5. c[m + 2] # "/"
      BY <1>1, <1>2, <3>4
    <3> QED
      BY <3>3, <3>4, <3>5
  <2>2. CASE w # Cwd
    <3>1. IsPrefix(s, w) /\ m + 2 <= Len(w) /\ w[m + 2] # "/"
      BY <1>5, <2>2 DEF Inside, s
    <3>2. Len(s) <= Len(w) /\ \A i \in 1 .. Len(s) : w[i] = s[i]
      BY <1>3, <3>1, PrefixIs
    <3>3. Len(s) <= Len(c) /\ \A i \in 1 .. Len(s) : c[i] = s[i]
      <4>1. Len(s) <= Len(c) /\ \A i \in 1 .. Len(s) : i \in 1 .. Len(w)
        BY <1>1, <1>2, <1>3, <3>2
      <4> QED
        BY <1>2, <3>2, <4>1
    <3>4. IsPrefix(s, c)
      BY <1>2, <1>3, <3>3, PrefixIs
    <3>5. m + 2 <= Len(c) /\ c[m + 2] = w[m + 2]
      BY <1>1, <1>2, <1>3, <3>1
    <3> QED
      BY <3>1, <3>4, <3>5
  <2> QED
    BY <2>1, <2>2
<1>6. CASE ~ IsPrefix(Cwd, w)
  <2>1. Len(w) < m
    <3> SUFFICES ASSUME m <= Len(w) PROVE FALSE
      BY <1>3
    <3>1. \A i \in 1 .. m : w[i] = Cwd[i]
      BY <1>2, <1>3, <1>4
    <3> QED
      BY <1>3, <1>6, <3>1, PrefixIs
  <2>2. /\ \A i \in 1 .. Len(w) : Cwd[i] = w[i]
        /\ Cwd[Len(w) + 1] = "/" /\ Len(w) <= Len(Cwd)
    <3>1. Len(w) + 1 \in 1 .. m /\ \A i \in 1 .. Len(w) : i \in 1 .. m
      BY <1>3, <2>1
    <3> QED
      BY <1>2, <1>4, <2>1, <3>1
  <2>3. LinkEnds(w) = {}
    <3> SUFFICES ASSUME NEW i \in LinkEnds(w) PROVE FALSE
      OBVIOUS
    <3>1. /\ i \in 1 .. Len(w) /\ i \in 0 .. Len(w) /\ SubSeq(w, 1, i) \in DOMAIN Links
          /\ i = Len(w) \/ w[i + 1] = "/"
      BY DEF LinkEnds
    <3>2. SubSeq(Cwd, 1, i) \in DOMAIN Links
      <4>1. SubSeq(Cwd, 1, i) = SubSeq(w, 1, i)
        BY <1>3, <2>2, <3>1, SamePrefix
      <4> QED
        BY <3>1, <4>1
    <3>3. Cwd[i + 1] = "/"
      <4>1. CASE i = Len(w)
        BY <2>2, <4>1
      <4>2. CASE i # Len(w)
        <5>1. i + 1 \in 1 .. Len(w)
          BY <1>3, <3>1, <4>2
        <5> QED
          BY <2>2, <3>1, <4>2, <5>1
      <4> QED
        BY <4>1, <4>2
    <3>4. i \in 1 .. Len(Cwd)
      BY <1>3, <2>1, <3>1
    <3>5. i \in LinkEnds(Cwd)
      BY <3>2, <3>3, <3>4 DEF LinkEnds
    <3> QED
      BY <3>5, CwdIs
  <2>4. Follow(w) = w
    <3>1. Hops(w)[0] = w /\ 0 \in 0 .. MaxLinks
      BY AbsIs, HopsStep, TreeAssumption
    <3> QED
      BY <2>3, <3>1, StaysReal
  <2>5. Follow(w) = d
    BY TreeIs, LeadsToReal
  <2>6. c \in DOMAIN Type \cup DOMAIN Links
    BY <2>4, <2>5 DEF c
  <2>7. Inside(c)
    BY <2>6, InsideTree
  <2> QED
    BY <2>7 DEF Inside, s
<1> QED
  BY <1>5, <1>6

(* Of what is inside trim_cwd() keeps what leads to the same file          *)
(* (lib/filesystem.lua:41-46).                                             *)
LEMMA TrimKeeps ==
    ASSUME NEW p \in Seq(STRING), p # << >>, p[1] = "/", Inside(p), p # Cwd
    PROVE  Follow(Trim(p)) = Follow(p)
<1> DEFINE m == Len(Cwd)
           s == Cwd \o <<"/">>
           rest == SubSeq(p, m + 1, Len(p))
           r == SubSeq(p, m + 2, Len(p))
<1>1. Abs(p) = p
  BY AbsIs
<1>2. \A q : Abs(q) = Abs(p) => Follow(q) = Follow(p)
  BY DEF Follow, Hops
<1>3. CASE ~ IsPrefix(Cwd, p)
  BY <1>3 DEF Trim
<1>4. CASE IsPrefix(Cwd, p)
  <2>1. IsPrefix(s, p) /\ m + 2 <= Len(p) /\ p[m + 2] # "/"
    BY <1>4 DEF Inside
  <2>2. /\ Cwd \in Seq(STRING) /\ m \in Nat /\ Len(p) \in Nat
        /\ s \in Seq(STRING) /\ Len(s) = m + 1
        /\ \A i \in 1 .. m : s[i] = Cwd[i]
        /\ s[m + 1] = "/"
    BY CwdIs, SlashBehind
  <2>3. \A i \in 1 .. m + 1 : p[i] = s[i]
    <3> HIDE DEF s
    <3> QED
      BY <2>1, <2>2, PrefixIs
  <2>4. /\ rest \in Seq(STRING) /\ Len(rest) = Len(p) - m
        /\ \A i \in 1 .. Len(p) - m : rest[i] = p[m + i]
    BY <2>1, <2>2
  <2>5. /\ r \in Seq(STRING) /\ Len(r) = Len(p) - m - 1
        /\ \A i \in 1 .. Len(p) - m - 1 : r[i] = p[m + 1 + i]
    BY <2>1, <2>2
  <2>6. Trim(p) = IF IsPrefix(<<"/">>, rest) THEN Tail(rest) ELSE rest
    BY <1>4 DEF Trim
  <2> HIDE DEF s, rest, r
  <2>7. IsPrefix(<<"/">>, rest) /\ ~ IsPrefix(<<"/">>, r)
    <3> DEFINE v == <<"/">>
    <3>1. v \in Seq(STRING) /\ Len(v) = 1 /\ v[1] = "/"
      BY SlashIsASymbol
    <3>2. /\ 1 \in 1 .. Len(p) - m /\ 1 \in 1 .. Len(p) - m - 1
          /\ m + 1 \in 1 .. m + 1 /\ m + 1 + 1 = m + 2
      BY <2>1, <2>2
    <3>3. rest[1] = "/" /\ r[1] # "/" /\ 1 <= Len(rest)
      <4>1. rest[1] = p[m + 1] /\ r[1] = p[m + 1 + 1] /\ p[m + 1] = s[m + 1]
        BY <2>3, <2>4, <2>5, <3>2
      <4>2. 1 <= Len(rest)
        BY <2>1, <2>2, <2>4
      <4> QED
        BY <2>1, <2>2, <3>2, <4>1, <4>2
    <3> HIDE DEF v
    <3>4. IsPrefix(v, rest)
      <4>1. Len(v) <= Len(rest) /\ \A i \in 1 .. Len(v) : rest[i] = v[i]
        BY <3>1, <3>3
      <4> QED
        BY <2>4, <3>1, <4>1, PrefixIs
    <3>5. ~ IsPrefix(v, r)
      <4>1. 1 \in 1 .. Len(v)
        BY <3>1
      <4> QED
        BY <2>5, <3>1, <3>3, <4>1, PrefixIs
    <3> QED
      BY <3>4, <3>5 DEF v
  <2>8. Tail(rest) = r
    <3>1. rest # << >> /\ Len(rest) \in Nat
      BY <2>1, <2>2, <2>4
    <3>2. /\ Tail(rest) \in Seq(STRING) /\ Len(Tail(rest)) = Len(rest) - 1
          /\ \A i \in 1 .. Len(Tail(rest)) : Tail(rest)[i] = rest[i + 1]
      BY <2>4, <3>1, HeadTailProperties
    <3>3. Len(Tail(rest)) = Len(r)
      BY <2>2, <2>4, <2>5, <3>2
    <3>4. ASSUME NEW i \in 1 .. Len(Tail(rest)) PROVE Tail(rest)[i] = r[i]
      <4>1. /\ i + 1 \in 1 .. Len(p) - m /\ i \in 1 .. Len(p) - m - 1
            /\ m + (i + 1) = m + 1 + i
        BY <2>2, <2>4, <3>2
      <4> QED
        BY <2>4, <2>5, <3>2, <4>1
    <3> QED
      BY <2>5, <3>2, <3>3, <3>4, SeqEqual
  <2>9. Abs(r) = s \o r
    BY <2>7 DEF Abs, s
  <2>10. s \o r = p
    <3>1. /\ s \o r \in Seq(STRING) /\ Len(s \o r) = Len(s) + Len(r)
          /\ \A i \in 1 .. Len(s) + Len(r) :
                 (s \o r)[i] = IF i <= Len(s) THEN s[i] ELSE r[i - Len(s)]
      BY <2>2, <2>5, ConcatProperties
    <3>2. Len(s \o r) = Len(p)
      BY <2>2, <2>5, <3>1
    <3>3. ASSUME NEW i \in 1 .. Len(s \o r) PROVE (s \o r)[i] = p[i]
      <4>1. CASE i <= m + 1
        BY <2>2, <2>3, <2>5, <3>1, <4>1
      <4>2. CASE i > m + 1
        <5>1. /\ i - Len(s) \in 1 .. Len(p) - m - 1 /\ m + 1 + (i - Len(s)) = i
              /\ ~ (i <= Len(s)) /\ i \in 1 .. Len(s) + Len(r)
          BY <2>2, <2>5, <3>1, <4>2
        <5> QED
          BY <2>5, <3>1, <5>1
      <4> QED
        BY <2>2, <4>1, <4>2
    <3> QED
      BY <3>1, <3>2, <3>3, SeqEqual
  <2> QED
    BY <1>1, <1>2, <2>6, <2>7, <2>8, <2>9, <2>10
<1> QED
  BY <1>3, <1>4

-----------------------------------------------------------------------------
(* What is below a directory, in a tree P of which something may be gone.  *)

Lists(P, d, n) == Name(n) /\ Child(d, n) \in P \cup DOMAIN Links
DirsOf(P) == {q \in P : Type[q] = "dir"}
SubdirsOf(P, d) ==
    {q \in DirsOf(P) : \E n : Lists(P, d, n) /\ ~Ignored(n) /\ q = Follow(Child(d, n))}
ClosedIn(P, S) == S \subseteq DirsOf(P) /\ \A s \in S : SubdirsOf(P, s) \subseteq S
BelowOf(P, d) ==
    {q \in DirsOf(P) : \A S : ClosedIn(P, S) /\ SubdirsOf(P, d) \subseteq S => q \in S}
DirsFromOf(P, d) == {d} \cup BelowOf(P, d)
FilesOf(P, d) ==
    {q \in P : /\ Type[q] = "file"
               /\ \E n : Lists(P, d, n) /\ ~Ignored(n) /\ Matches(n)
                         /\ q = Follow(Child(d, n))}
AskedOf(P, d) ==
    IF d \in DirsOf(P) THEN UNION {FilesOf(P, e) : e \in DirsFromOf(P, d)} ELSE {d}

(* A set that is closed and holds the subdirectories holds what is below.  *)
LEMMA BelowLeast ==
    ASSUME NEW P, NEW d, NEW S, ClosedIn(P, S), SubdirsOf(P, d) \subseteq S
    PROVE  BelowOf(P, d) \subseteq S
BY DEF BelowOf

LEMMA BelowClosed ==
    ASSUME NEW P, NEW d
    PROVE  ClosedIn(P, BelowOf(P, d)) /\ SubdirsOf(P, d) \subseteq BelowOf(P, d)
<1>1. BelowOf(P, d) \subseteq DirsOf(P)
  BY DEF BelowOf
<1>2. SubdirsOf(P, d) \subseteq BelowOf(P, d)
  <2>1. SubdirsOf(P, d) \subseteq DirsOf(P)
    BY DEF SubdirsOf
  <2> QED
    BY <2>1 DEF BelowOf
<1>3. ASSUME NEW s \in BelowOf(P, d), NEW q \in SubdirsOf(P, s)
      PROVE  q \in BelowOf(P, d)
  <2>1. q \in DirsOf(P)
    BY DEF SubdirsOf
  <2>2. ASSUME NEW S, ClosedIn(P, S), SubdirsOf(P, d) \subseteq S PROVE q \in S
    <3>1. s \in S
      BY <2>2 DEF BelowOf
    <3> QED
      BY <2>2, <3>1 DEF ClosedIn
  <2> QED
    BY <2>1, <2>2 DEF BelowOf
<1> QED
  BY <1>1, <1>2, <1>3 DEF ClosedIn

(* What is below a directory below, is below.                              *)
LEMMA BelowBelow ==
    ASSUME NEW P, NEW d, NEW s \in DirsFromOf(P, d)
    PROVE  BelowOf(P, s) \subseteq BelowOf(P, d)
<1>1. ClosedIn(P, BelowOf(P, d)) /\ SubdirsOf(P, d) \subseteq BelowOf(P, d)
  BY BelowClosed
<1>2. s = d \/ s \in BelowOf(P, d)
  BY DEF DirsFromOf
<1>3. SubdirsOf(P, s) \subseteq BelowOf(P, d)
  BY <1>1, <1>2 DEF ClosedIn
<1> QED
  BY <1>1, <1>3, BelowLeast

LEMMA SubdirsBelow ==
    ASSUME NEW P, NEW d, NEW e \in DirsFromOf(P, d), NEW s \in SubdirsOf(P, e)
    PROVE  s \in BelowOf(P, d) /\ s \in DirsFromOf(P, d)
BY BelowClosed DEF DirsFromOf, ClosedIn

(* What is below a directory is a subdirectory of it or below one.         *)
LEMMA BelowFirst ==
    ASSUME NEW P, NEW d, NEW q \in BelowOf(P, d)
    PROVE  \E s \in SubdirsOf(P, d) : q \in DirsFromOf(P, s)
<1> DEFINE S == {e \in DirsOf(P) : \E s \in SubdirsOf(P, d) : e \in DirsFromOf(P, s)}
<1>1. ASSUME NEW e \in S, NEW t \in SubdirsOf(P, e) PROVE t \in S
  <2>1. PICK s \in SubdirsOf(P, d) : e \in DirsFromOf(P, s)
    OBVIOUS
  <2>2. t \in DirsFromOf(P, s)
    BY <2>1, SubdirsBelow
  <2>3. t \in DirsOf(P)
    BY DEF SubdirsOf
  <2> QED
    BY <2>1, <2>2, <2>3
<1>2. SubdirsOf(P, d) \subseteq S
  BY DEF SubdirsOf, DirsFromOf
<1>3. ClosedIn(P, S)
  <2>1. S \subseteq DirsOf(P)
    OBVIOUS
  <2> HIDE DEF S
  <2> QED
    BY <1>1, <2>1 DEF ClosedIn
<1>4. BelowOf(P, d) \subseteq S
  <2> HIDE DEF S
  <2> QED
    BY <1>2, <1>3, BelowLeast
<1> QED
  BY <1>4

(* What is asked for with a directory is in it or asked for with one of    *)
(* its subdirectories, as walkdir() takes them (lib/filesystem.lua:53-84). *)
LEMMA AskedFirst ==
    ASSUME NEW P, NEW d \in DirsOf(P), NEW q \in AskedOf(P, d)
    PROVE  q \in FilesOf(P, d) \/ \E s \in SubdirsOf(P, d) : q \in AskedOf(P, s)
<1>1. PICK e \in DirsFromOf(P, d) : q \in FilesOf(P, e)
  BY DEF AskedOf
<1>2. CASE e = d
  BY <1>1, <1>2
<1>3. CASE e \in BelowOf(P, d)
  <2>1. PICK s \in SubdirsOf(P, d) : e \in DirsFromOf(P, s)
    BY <1>3, BelowFirst
  <2>2. s \in DirsOf(P)
    BY DEF SubdirsOf
  <2> QED
    BY <1>1, <2>1, <2>2 DEF AskedOf
<1> QED
  BY <1>2, <1>3 DEF DirsFromOf

\* Q is P without x, which is a file or an empty directory.
Gone(P, Q, x) ==
    /\ P \subseteq DOMAIN Type /\ x \in P /\ Q = P \ {x}
    /\ \A q \in P \cup DOMAIN Links : ~IsStrictPrefix(x \o <<"/">>, q)

LEMMA GoneLists ==
    ASSUME NEW P, NEW Q, NEW x, Gone(P, Q, x)
    PROVE  /\ \A n : ~ Lists(P, x, n)
           /\ \A d, n : Lists(Q, d, n) => Lists(P, d, n)
           /\ \A d, n : Lists(P, d, n) /\ Follow(Child(d, n)) # x => Lists(Q, d, n)
<1>1. x \in DOMAIN Type /\ x \in Seq(STRING)
  BY TreeIs DEF Gone
<1>2. Follow(x) = x
  BY <1>1, TreeIs, LeadsSelf, LeadsToReal
<1>3. ASSUME NEW n, Lists(P, x, n) PROVE FALSE
  <2>1. n \in Seq(STRING) /\ n # << >> /\ Child(x, n) \in P \cup DOMAIN Links
    BY <1>3 DEF Lists, Name
  <2>2. IsStrictPrefix(x \o <<"/">>, Child(x, n))
    BY <1>1, <2>1, NameOf
  <2> QED
    BY <2>1, <2>2 DEF Gone
<1>4. \A d, n : Lists(Q, d, n) => Lists(P, d, n)
  BY DEF Lists, Gone
<1>5. ASSUME NEW d, NEW n, Lists(P, d, n), Follow(Child(d, n)) # x
      PROVE  Lists(Q, d, n)
  BY <1>2, <1>5 DEF Lists, Gone
<1> QED
  BY <1>3, <1>4, <1>5

LEMMA GoneBelow ==
    ASSUME NEW P, NEW Q, NEW x, Gone(P, Q, x)
    PROVE  /\ SubdirsOf(P, x) = {} /\ BelowOf(P, x) = {}
           /\ \A d : SubdirsOf(Q, d) = SubdirsOf(P, d) \ {x}
           /\ \A d : BelowOf(Q, d) = BelowOf(P, d) \ {x}
<1>1. SubdirsOf(P, x) = {}
  BY GoneLists DEF SubdirsOf
<1>2. BelowOf(P, x) = {}
  <2>1. ClosedIn(P, {})
    BY DEF ClosedIn
  <2> QED
    BY <1>1, <2>1, BelowLeast
<1>3. DirsOf(Q) = DirsOf(P) \ {x}
  BY DEF DirsOf, Gone
<1>4. ASSUME NEW d PROVE SubdirsOf(Q, d) = SubdirsOf(P, d) \ {x}
  <2>1. \A n : Lists(Q, d, n) => Lists(P, d, n)
    BY GoneLists
  <2>2. \A n : Lists(P, d, n) /\ Follow(Child(d, n)) # x => Lists(Q, d, n)
    BY GoneLists
  <2> QED
    BY <1>3, <2>1, <2>2 DEF SubdirsOf
<1>5. ASSUME NEW d, NEW q \in BelowOf(P, d), q # x PROVE q \in BelowOf(Q, d)
  <2>1. q \in DirsOf(Q)
    BY <1>3, <1>5 DEF BelowOf
  <2>2. ASSUME NEW S, ClosedIn(Q, S), SubdirsOf(Q, d) \subseteq S PROVE q \in S
    <3> DEFINE T == (S \cup {x}) \cap DirsOf(P)
    <3>1. ClosedIn(P, T)
      <4>1. ASSUME NEW s \in T, NEW t \in SubdirsOf(P, s) PROVE t \in T
        <5>1. t \in DirsOf(P) /\ s # x
          BY <1>1 DEF SubdirsOf
        <5>2. t = x \/ t \in SubdirsOf(Q, s)
          BY <1>4
        <5> QED
          BY <2>2, <5>1, <5>2 DEF ClosedIn
      <4>2. T \subseteq DirsOf(P)
        OBVIOUS
      <4> HIDE DEF T
      <4> QED
        BY <4>1, <4>2 DEF ClosedIn
    <3>2. SubdirsOf(P, d) \subseteq T
      <4>1. SubdirsOf(P, d) \subseteq DirsOf(P)
        BY DEF SubdirsOf
      <4> QED
        BY <1>4, <2>2, <4>1
    <3>3. q \in T
      <4> HIDE DEF T
      <4> QED
        BY <1>5, <3>1, <3>2, BelowLeast
    <3> QED
      BY <1>5, <3>3
  <2> QED
    BY <2>1, <2>2 DEF BelowOf
<1>6. ASSUME NEW d, NEW q \in BelowOf(Q, d) PROVE q \in BelowOf(P, d) /\ q # x
  <2>1. q \in DirsOf(P) /\ q # x
    BY <1>3 DEF BelowOf
  <2>2. ASSUME NEW S, ClosedIn(P, S), SubdirsOf(P, d) \subseteq S PROVE q \in S
    <3> DEFINE T == S \ {x}
    <3>1. ClosedIn(Q, T)
      BY <1>3, <1>4, <2>2 DEF ClosedIn
    <3>2. SubdirsOf(Q, d) \subseteq T
      BY <1>4, <2>2
    <3>3. q \in T
      <4> HIDE DEF T
      <4> QED
        BY <1>6, <3>1, <3>2, BelowLeast
    <3> QED
      BY <3>3
  <2> QED
    BY <2>1, <2>2 DEF BelowOf
<1> QED
  BY <1>1, <1>2, <1>4, <1>5, <1>6

(* What vanishes takes nothing else out of what is asked for, and puts     *)
(* nothing into it.                                                        *)
LEMMA GoneAsked ==
    ASSUME NEW P, NEW Q, NEW x, Gone(P, Q, x), NEW d, NEW q \in Q
    PROVE  q \in AskedOf(P, d) <=> q \in AskedOf(Q, d)
<1>1. DirsOf(Q) = DirsOf(P) \ {x} /\ q # x /\ q \in P
  BY DEF DirsOf, Gone
<1>2. \A e : FilesOf(Q, e) = FilesOf(P, e) \ {x}
  <2> TAKE e
  <2>1. \A n : Lists(Q, e, n) => Lists(P, e, n)
    BY GoneLists
  <2>2. \A n : Lists(P, e, n) /\ Follow(Child(e, n)) # x => Lists(Q, e, n)
    BY GoneLists
  <2> QED
    BY <2>1, <2>2 DEF FilesOf, Gone
<1>3. FilesOf(P, x) = {}
  BY GoneLists DEF FilesOf
<1>4. CASE d \notin DirsOf(P)
  BY <1>1, <1>4 DEF AskedOf
<1>5. CASE d \in DirsOf(P) /\ d # x
  <2>1. \A e : e \in DirsFromOf(Q, d) <=> e \in DirsFromOf(P, d) /\ e # x
    BY <1>5, GoneBelow DEF DirsFromOf
  <2>2. d \in DirsOf(Q)
    BY <1>1, <1>5
  <2> QED
    BY <1>1, <1>2, <1>3, <1>5, <2>1, <2>2 DEF AskedOf
<1>6. CASE d = x /\ x \in DirsOf(P)
  <2>1. DirsFromOf(P, x) = {x}
    BY GoneBelow DEF DirsFromOf
  <2>2. q \notin AskedOf(P, d)
    BY <1>3, <1>6, <2>1 DEF AskedOf
  <2>3. AskedOf(Q, d) = {x}
    BY <1>1, <1>6 DEF AskedOf
  <2> QED
    BY <1>1, <2>2, <2>3
<1> QED
  BY <1>4, <1>5, <1>6

\* The definitions of Finder in terms of these, for the tree that is present.
Tree == present \subseteq DOMAIN Type
StatIs ==
    \A p : /\ Stat(p) = "dir" <=> Follow(p) \in DirsOf(present)
           /\ Stat(p) = "file" <=> Follow(p) \in present /\ Type[Follow(p)] = "file"
           /\ Stat(p) = "ENOENT" => Follow(p) \notin present
           /\ Stat(p) = "ELOOP" <=> LinkEnds(Follow(p)) # {}
           /\ Resolves(p) <=> Follow(p) \in present
DirsAre ==
    \A d \in DOMAIN Type :
        /\ \A n : n \in Listing(d) <=> Lists(present, d, n)
        /\ DirsFrom(d) = DirsFromOf(present, d)
        /\ Below(d) = BelowOf(present, d)
AskedAre ==
    \A q : q \in Asked <=>
               \E i \in DOMAIN args : q \in AskedOf(present, Follow(args[i]))

LEMMA StatHolds == Tree => StatIs
<1> SUFFICES ASSUME Tree, NEW p
             PROVE  /\ Stat(p) = "dir" <=> Follow(p) \in DirsOf(present)
                    /\ Stat(p) = "file" <=>
                         Follow(p) \in present /\ Type[Follow(p)] = "file"
                    /\ Stat(p) = "ENOENT" => Follow(p) \notin present
                    /\ Stat(p) = "ELOOP" <=> LinkEnds(Follow(p)) # {}
                    /\ Resolves(p) <=> Follow(p) \in present
  BY DEF StatIs
<1> DEFINE f == Follow(p)
<1>1. f \in present => LinkEnds(f) = {} /\ Type[f] \in {"file", "dir", "other"}
  BY TreeAssumption DEF Tree
<1>2. Stat(p) = IF LinkEnds(f) # {} THEN "ELOOP"
                ELSE IF f \notin present THEN "ENOENT" ELSE Type[f]
  BY DEF Stat
<1>3. Resolves(p) <=> Stat(p) \notin {"ENOENT", "ELOOP"}
  BY DEF Resolves
<1>4. f \in DirsOf(present) <=> f \in present /\ Type[f] = "dir"
  BY DEF DirsOf
<1> HIDE DEF f
<1> SUFFICES /\ Stat(p) = "dir" <=> f \in DirsOf(present)
             /\ Stat(p) = "file" <=> f \in present /\ Type[f] = "file"
             /\ Stat(p) = "ENOENT" => f \notin present
             /\ Stat(p) = "ELOOP" <=> LinkEnds(f) # {}
             /\ Resolves(p) <=> f \in present
  BY DEF f
<1>5. CASE LinkEnds(f) # {}
  BY <1>1, <1>2, <1>3, <1>4, <1>5
<1>6. CASE LinkEnds(f) = {} /\ f \notin present
  BY <1>2, <1>3, <1>4, <1>6
<1>7. CASE LinkEnds(f) = {} /\ f \in present
  BY <1>1, <1>2, <1>3, <1>4, <1>7
<1> QED
  BY <1>5, <1>6, <1>7

LEMMA DirsHold == Tree => DirsAre
<1> SUFFICES ASSUME Tree PROVE DirsAre
  OBVIOUS
<1>1. ASSUME NEW d \in DOMAIN Type, NEW n
      PROVE  n \in Listing(d) <=> Lists(present, d, n)
  BY TreeIs, ListingIs DEF Tree, Lists
<1>2. ASSUME NEW d \in DOMAIN Type PROVE Subdirs(d) = SubdirsOf(present, d)
  <2>1. ASSUME NEW q \in Subdirs(d) PROVE q \in SubdirsOf(present, d)
    <3>1. PICK n \in Listing(d) : n[1] # "." /\ q = Follow(Child(d, n))
      BY DEF Subdirs
    <3>2. q \in present /\ Type[q] = "dir"
      BY DEF Subdirs
    <3> QED
      BY <1>1, <3>1, <3>2 DEF SubdirsOf, DirsOf, Ignored
  <2>2. ASSUME NEW q \in SubdirsOf(present, d) PROVE q \in Subdirs(d)
    <3>1. PICK n : Lists(present, d, n) /\ ~Ignored(n) /\ q = Follow(Child(d, n))
      BY DEF SubdirsOf
    <3>2. q \in present /\ Type[q] = "dir" /\ n \in Listing(d) /\ n[1] # "."
      BY <1>1, <3>1 DEF SubdirsOf, DirsOf, Ignored
    <3> QED
      BY <3>1, <3>2 DEF Subdirs
  <2> QED
    BY <2>1, <2>2
<1>3. DirsOf(present) \subseteq DOMAIN Type /\ DirsOf(present) = {q \in present : Type[q] = "dir"}
  BY DEF DirsOf, Tree
<1>4. \A S : S \in Closed <=> ClosedIn(present, S)
  <2> TAKE S
  <2>1. S \in Closed <=> S \in SUBSET DirsOf(present) /\ \A s \in S : Subdirs(s) \subseteq S
    BY <1>3 DEF Closed
  <2> QED
    BY <1>2, <1>3, <2>1 DEF ClosedIn
<1>5. ASSUME NEW d \in DOMAIN Type PROVE Below(d) = BelowOf(present, d)
  <2>1. Below(d) = {q \in present : Type[q] = "dir" /\
                      \A S \in {S \in Closed : Subdirs(d) \subseteq S} : q \in S}
    BY DEF Below
  <2>2. \A q : q \in Below(d) <=>
                 /\ q \in DirsOf(present)
                 /\ \A S : S \in Closed /\ Subdirs(d) \subseteq S => q \in S
    BY <1>3, <2>1
  <2>3. \A q : q \in BelowOf(present, d) <=>
                 /\ q \in DirsOf(present)
                 /\ \A S : ClosedIn(present, S) /\ SubdirsOf(present, d) \subseteq S => q \in S
    BY DEF BelowOf
  <2> QED
    BY <1>2, <1>4, <2>2, <2>3
<1> QED
  BY <1>1, <1>5 DEF DirsAre, DirsFrom, DirsFromOf

LEMMA AskedHold == Tree => AskedAre
<1> SUFFICES ASSUME Tree PROVE AskedAre
  OBVIOUS
<1>1. StatIs /\ DirsAre
  BY StatHolds, DirsHold
<1>2. ASSUME NEW d \in DOMAIN Type PROVE FilesIn(d) = FilesOf(present, d)
  <2>1. \A n : Last(n) \in (IF CheckAll THEN {"T", "L"} ELSE {"T"}) <=> Matches(n)
    BY DEF Matches
  <2>2. \A n : n \in Listing(d) <=> Lists(present, d, n)
    BY <1>1 DEF DirsAre
  <2>3. ASSUME NEW q \in FilesIn(d) PROVE q \in FilesOf(present, d)
    <3>1. PICK n \in Listing(d) :
             /\ n[1] # "."
             /\ Last(n) \in IF CheckAll THEN {"T", "L"} ELSE {"T"}
             /\ Stat(Child(d, n)) = "file"
             /\ q = Follow(Child(d, n))
      BY DEF FilesIn
    <3>2. q \in present /\ Type[q] = "file"
      BY <1>1, <3>1 DEF StatIs
    <3> QED
      BY <2>1, <2>2, <3>1, <3>2 DEF FilesOf, Ignored
  <2>4. ASSUME NEW q \in FilesOf(present, d) PROVE q \in FilesIn(d)
    <3>1. PICK n : /\ Lists(present, d, n) /\ ~Ignored(n) /\ Matches(n)
                   /\ q = Follow(Child(d, n))
      BY DEF FilesOf
    <3>2. q \in present /\ Type[q] = "file"
      BY DEF FilesOf
    <3>3. Stat(Child(d, n)) = "file"
      BY <1>1, <3>1, <3>2 DEF StatIs
    <3>4. n \in Listing(d) /\ n[1] # "."
          /\ Last(n) \in (IF CheckAll THEN {"T", "L"} ELSE {"T"})
      BY <2>1, <2>2, <3>1 DEF Ignored
    <3> QED
      BY <3>1, <3>3, <3>4 DEF FilesIn
  <2> QED
    BY <2>3, <2>4
<1>3. ASSUME NEW p PROVE AskedBy(p) = AskedOf(present, Follow(p))
  <2> DEFINE f == Follow(p)
  <2>1. CASE Stat(p) = "dir"
    <3>1. f \in DirsOf(present)
      BY <1>1, <2>1 DEF StatIs
    <3>2. f \in DOMAIN Type /\ DirsFrom(f) = DirsFromOf(present, f)
      BY <1>1, <3>1 DEF DirsOf, Tree, DirsAre
    <3>3. DirsFromOf(present, f) \subseteq DOMAIN Type
      BY <3>2 DEF DirsFromOf, BelowOf, DirsOf, Tree
    <3>4. AskedBy(p) = UNION {FilesIn(e) : e \in DirsFromOf(present, f)}
      BY <2>1, <3>2 DEF AskedBy
    <3>5. {FilesIn(e) : e \in DirsFromOf(present, f)}
            = {FilesOf(present, e) : e \in DirsFromOf(present, f)}
      BY <1>2, <3>3
    <3> QED
      BY <3>1, <3>4, <3>5 DEF AskedOf
  <2>2. CASE Stat(p) # "dir"
    <3>1. f \notin DirsOf(present)
      BY <1>1, <2>2 DEF StatIs
    <3> QED
      BY <2>2, <3>1 DEF AskedBy, AskedOf
  <2> QED
    BY <2>1, <2>2
<1>4. \A q : q \in Asked <=> \E i \in DOMAIN args : q \in AskedBy(args[i])
  BY DEF Asked
<1> QED
  BY <1>3, <1>4 DEF AskedAre

(* The same of the tree that a step leaves.                                *)
LEMMA NextTree == Tree' => StatIs' /\ DirsAre' /\ AskedAre'
BY StatHolds, DirsHold, AskedHold, PTL

-----------------------------------------------------------------------------
(* The search.                                                             *)

\* The pathnames of directories that walkdir() may be called with.
WalkPaths ==
    {w \in Seq(STRING) : /\ w # << >> /\ w[1] = "/" /\ Inside(w)
                         /\ Follow(w) \in DOMAIN Type /\ Type[Follow(w)] = "dir"
                         /\ \E k : Leads(w, Follow(w), k)}
Here == Follow(Head(walk))
Taken(q) == \E i \in DOMAIN files : files[i].real = q
Found(q) == \E n \in found : Follow(n) = q
Waiting(w) == w \in ToSet(walk) \/ w \in ToSet(subdirs)

\* What is present, and what it is in.
TreeInv ==
    /\ Tree
    /\ \A q \in present \cup DOMAIN Links : \A d \in DOMAIN Type :
           IsStrictPrefix(d \o <<"/">>, q) => d \in present

\* The arguments up to those still to resolve have led to the pathnames.
ArgsInv ==
    /\ args \in Seq(Seq(STRING))
    /\ todo \in Seq(Seq(STRING)) /\ Len(todo) <= Len(args)
    /\ \A i \in 1 .. Len(todo) : todo[i] = args[Len(args) - Len(todo) + i]
    /\ paths \in Seq(DOMAIN Type)
    /\ \A j \in 1 .. Len(paths) : \E i \in 1 .. Len(args) - Len(todo) :
           Follow(args[i]) = paths[j]

WalkInv ==
    /\ walk \in Seq(WalkPaths) /\ subdirs \in Seq(WalkPaths)
    /\ reading \in BOOLEAN
    /\ reading => /\ stage \in {"walk", "failed"} /\ walk # << >>
                  /\ \A n \in entries :
                        Name(n) /\ Child(Here, n) \in DOMAIN Type \cup DOMAIN Links
    /\ \A n \in found : Follow(n) \in DOMAIN Type /\ Type[Follow(n)] = "file"
    /\ stage \in {"args", "stat", "done"} => found = {}
    /\ stage \in {"walk", "check"} => paths # << >>

(* The search begins with the whole tree and all arguments.                *)
LEMMA ShapeInit == Init => TreeInv /\ ArgsInv /\ WalkInv
<1> SUFFICES ASSUME Init PROVE TreeInv /\ ArgsInv /\ WalkInv
  OBVIOUS
<1>1. TreeInv
  BY DEF Init, TreeInv, Tree
<1>2. ArgsInv
  <2>1. args \in Seq(Seq(STRING)) /\ todo = args /\ paths = << >>
    BY TreeAssumption DEF Init
  <2>2. Len(args) \in Nat /\ paths \in Seq(DOMAIN Type) /\ Len(paths) = 0
    BY <2>1
  <2> QED
    BY <2>1, <2>2 DEF ArgsInv
<1>3. WalkInv
  <2>1. walk \in Seq(WalkPaths) /\ subdirs \in Seq(WalkPaths)
    BY DEF Init
  <2>2. reading = FALSE /\ reading \in BOOLEAN
    BY DEF Init
  <2>3. found = {} /\ stage = "args"
    BY DEF Init
  <2> QED
    BY <2>1, <2>2, <2>3 DEF WalkInv
<1> QED
  BY <1>1, <1>2, <1>3

(* What vanishes holds nothing, so that what is present is in directories  *)
(* that are.                                                               *)
LEMMA TreeNext == TreeInv /\ [Next]_vars => TreeInv'
<1> SUFFICES ASSUME TreeInv, [Next]_vars PROVE TreeInv'
  OBVIOUS
<1>1. CASE present' = present
  BY <1>1 DEF TreeInv, Tree
<1>2. ASSUME NEW p, Vanish(p) PROVE TreeInv'
  <2>1. /\ present' = present \ {p}
        /\ \A q \in present \cup DOMAIN Links : ~IsStrictPrefix(p \o <<"/">>, q)
    BY <1>2 DEF Vanish
  <2> QED
    BY <2>1 DEF TreeInv, Tree
<1>3. ASSUME NEW name, StatEntry(name) \/ CheckFile(name) PROVE present' = present
  BY <1>3 DEF StatEntry, CheckFile, Fail
<1>4. CASE TakeArg \/ ArgsTaken \/ GetFiles
  BY <1>1, <1>4 DEF TakeArg, ArgsTaken, GetFiles, Fail
<1>5. CASE OpenDir \/ CloseDir \/ WalkDone
  BY <1>1, <1>5 DEF OpenDir, CloseDir, WalkDone, Fail
<1>6. CASE NextPath \/ Done \/ UNCHANGED vars
  BY <1>1, <1>6 DEF NextPath, Done, vars
<1> QED
  BY <1>1, <1>2, <1>3, <1>4, <1>5, <1>6 DEF Next, Search

(* get_pathnames() takes the arguments in order, and get_files() their     *)
(* pathnames (bin/testcase.lua:101-115, 126).                              *)
LEMMA ArgsNext == TreeInv /\ ArgsInv /\ WalkInv /\ [Next]_vars => ArgsInv'
<1> SUFFICES ASSUME TreeInv, ArgsInv, WalkInv, [Next]_vars PROVE ArgsInv'
  OBVIOUS
<1>1. CASE UNCHANGED <<args, todo, paths>>
  BY <1>1 DEF ArgsInv
<1>2. CASE TakeArg
  <2>1. CASE Fail
    BY <1>1, <2>1 DEF Fail
  <2>2. CASE ~Fail
    <3> DEFINE a == Head(todo)
               f == Follow(a)
               k == Len(args) - Len(todo)
    <3>1. /\ todo # << >> /\ Resolves(a) /\ paths' = Append(paths, f)
          /\ todo' = Tail(todo) /\ args' = args
      BY <1>2, <2>2 DEF TakeArg
    <3>2. /\ args \in Seq(Seq(STRING)) /\ todo \in Seq(Seq(STRING))
          /\ Len(todo) <= Len(args) /\ paths \in Seq(DOMAIN Type)
          /\ \A i \in 1 .. Len(todo) : todo[i] = args[k + i]
          /\ \A j \in 1 .. Len(paths) : \E i \in 1 .. k : Follow(args[i]) = paths[j]
      BY DEF ArgsInv
    <3>3. f \in DOMAIN Type
      BY <3>1, StatHolds DEF StatIs, TreeInv, Tree
    <3>4. Len(todo) \in Nat /\ Len(todo) > 0 /\ Len(args) \in Nat /\ a = todo[1]
      BY <3>1, <3>2
    <3>5. /\ todo' \in Seq(Seq(STRING)) /\ Len(todo') = Len(todo) - 1
          /\ \A i \in 1 .. Len(todo) - 1 : todo'[i] = todo[i + 1]
      BY <3>1, <3>2, HeadTailProperties
    <3>6. a = args[k + 1]
      <4>1. 1 \in 1 .. Len(todo)
        BY <3>4
      <4> HIDE DEF k, a
      <4> QED
        BY <3>2, <3>4, <4>1
    <3> HIDE DEF a
    <3>7. /\ paths' \in Seq(DOMAIN Type) /\ Len(paths') = Len(paths) + 1
          /\ \A j \in 1 .. Len(paths) : paths'[j] = paths[j]
          /\ paths'[Len(paths) + 1] = f
      BY <3>1, <3>2, <3>3, AppendProperties
    <3>8. Len(args) - Len(todo') = k + 1 /\ k \in Nat /\ Len(todo') <= Len(args)
      BY <3>2, <3>4, <3>5
    <3>9. \A i \in 1 .. Len(todo') : todo'[i] = args[k + 1 + i]
      <4> TAKE i \in 1 .. Len(todo')
      <4>1. i + 1 \in 1 .. Len(todo) /\ i \in 1 .. Len(todo) - 1
            /\ k + (i + 1) = k + 1 + i
        BY <3>4, <3>5, <3>8
      <4>2. todo'[i] = todo[i + 1] /\ todo[i + 1] = args[k + (i + 1)]
        BY <3>2, <3>5, <4>1
      <4> QED
        BY <4>1, <4>2
    <3>10. \A j \in 1 .. Len(paths') : \E i \in 1 .. k + 1 :
              Follow(args[i]) = paths'[j]
      <4> TAKE j \in 1 .. Len(paths')
      <4>1. j \in 1 .. Len(paths) \/ j = Len(paths) + 1
        BY <3>2, <3>7
      <4>2. k + 1 \in 1 .. k + 1 /\ \A i \in 1 .. k : i \in 1 .. k + 1
        BY <3>8
      <4> HIDE DEF k
      <4>3. CASE j \in 1 .. Len(paths)
        BY <3>2, <3>7, <4>2, <4>3
      <4>4. CASE j = Len(paths) + 1
        BY <3>6, <3>7, <4>2, <4>4
      <4> QED
        BY <4>1, <4>3, <4>4
    <3> HIDE DEF k
    <3> QED
      BY <3>1, <3>2, <3>5, <3>7, <3>8, <3>9, <3>10 DEF ArgsInv
  <2> QED
    BY <2>1, <2>2
<1>3. CASE NextPath
  <2>1. paths # << >> /\ paths' = Tail(paths) /\ UNCHANGED <<args, todo>>
    BY <1>3 DEF NextPath, WalkInv
  <2>2. paths \in Seq(DOMAIN Type)
    BY DEF ArgsInv
  <2>3. /\ paths' \in Seq(DOMAIN Type) /\ Len(paths') = Len(paths) - 1
        /\ \A j \in 1 .. Len(paths') : paths'[j] = paths[j + 1]
    BY <2>1, <2>2, HeadTailProperties
  <2>4. \A j \in 1 .. Len(paths') : j + 1 \in 1 .. Len(paths)
    BY <2>2, <2>3
  <2>5. \A j \in 1 .. Len(paths') : \E i \in 1 .. Len(args) - Len(todo) :
           Follow(args[i]) = paths'[j]
    BY <2>3, <2>4 DEF ArgsInv
  <2> QED
    BY <2>1, <2>3, <2>5 DEF ArgsInv
<1>4. ASSUME NEW name, StatEntry(name) \/ CheckFile(name)
      PROVE  UNCHANGED <<args, todo, paths>>
  BY <1>4 DEF StatEntry, CheckFile, Fail
<1>5. CASE ArgsTaken \/ GetFiles \/ OpenDir
  BY <1>1, <1>5 DEF ArgsTaken, GetFiles, OpenDir, Fail
<1>6. CASE CloseDir \/ WalkDone \/ Done \/ UNCHANGED vars
  BY <1>1, <1>6 DEF CloseDir, WalkDone, Done, vars
<1>7. ASSUME NEW p, Vanish(p) PROVE UNCHANGED <<args, todo, paths>>
  BY <1>7 DEF Vanish
<1> QED
  BY <1>1, <1>2, <1>3, <1>4, <1>5, <1>6, <1>7 DEF Next, Search

(* A real pathname of a directory can be walked, and trim_cwd() keeps that *)
(* of a file.                                                              *)
LEMMA RealPath ==
    ASSUME NothingBeside, NEW p \in DOMAIN Type
    PROVE  /\ Follow(p) = p
           /\ Type[p] = "dir" => p \in WalkPaths
           /\ Type[p] # "dir" => Follow(Trim(p)) = p
<1>1. PathName(p) /\ LinkEnds(p) = {}
  BY TreeIs
<1>2. p \in Seq(STRING) /\ p # << >> /\ p[1] = "/"
  BY <1>1 DEF PathName
<1>3. Leads(p, p, 0)
  BY <1>1, LeadsSelf
<1>4. Follow(p) = p
  BY <1>1, <1>2, <1>3, LeadsToReal
<1>5. Inside(p)
  BY InsideTree
<1>6. ASSUME Type[p] # "dir" PROVE Follow(Trim(p)) = p
  <2>1. p # Cwd
    BY <1>6, CwdIs
  <2> QED
    BY <1>2, <1>4, <1>5, <2>1, TrimKeeps
<1> QED
  BY <1>2, <1>3, <1>4, <1>5, <1>6 DEF WalkPaths

(* The pathname of an entry leads where the entry does, unless there are   *)
(* too many links in it.                                                   *)
LEMMA EntryPath ==
    ASSUME NothingBeside, NEW w \in WalkPaths, NEW n, Name(n),
           Child(Follow(w), n) \in DOMAIN Type \cup DOMAIN Links,
           LinkEnds(Follow(Child(w, n))) = {}
    PROVE  /\ Follow(Child(Follow(w), n)) = Follow(Child(w, n))
           /\ Follow(Child(w, n)) = Target(Follow(w), n)
           /\ Follow(Child(w, n)) \in DOMAIN Type =>
                 IF Type[Follow(Child(w, n))] = "dir"
                 THEN Child(w, n) \in WalkPaths
                 ELSE Follow(Trim(Child(w, n))) = Follow(Child(w, n))
<1> DEFINE c == Child(w, n)
           d == Follow(w)
           t == Target(d, n)
<1>1. /\ w \in Seq(STRING) /\ w # << >> /\ w[1] = "/" /\ Inside(w)
      /\ d \in DOMAIN Type /\ Type[d] = "dir"
  BY DEF WalkPaths
<1>2. PICK k : Leads(w, d, k)
  BY DEF WalkPaths
<1>3. k \in 0 .. MaxLinks /\ MaxLinks \in Nat /\ (k < MaxLinks \/ k = MaxLinks)
  BY <1>2, TreeAssumption DEF Leads
<1> HIDE DEF d
<1>4. /\ t \in Seq(STRING) /\ LinkEnds(t) = {}
      /\ Child(d, n) \notin DOMAIN Links => Leads(c, t, k)
      /\ Child(d, n) \in DOMAIN Links /\ k < MaxLinks => Leads(c, t, k + 1)
      /\ Child(d, n) \in DOMAIN Links /\ k = MaxLinks => LinkEnds(Follow(c)) # {}
      /\ LinkEnds(Follow(c)) = {} => Follow(c) = t
  BY <1>1, <1>2, EntryLeads DEF d
<1>5. Follow(c) = t /\ \E i : Leads(c, t, i)
  BY <1>3, <1>4
<1>6. Follow(Child(d, n)) = t
  <2>1. d \in Seq(STRING) /\ Leads(d, d, 0)
    BY <1>1, TreeIs, LeadsSelf
  <2>2. /\ Child(d, n) \notin DOMAIN Links => Leads(Child(d, n), t, 0)
        /\ Child(d, n) \in DOMAIN Links /\ 0 < MaxLinks => Leads(Child(d, n), t, 0 + 1)
    BY <1>1, <2>1, EntryLeads DEF d
  <2>3. Child(d, n) \in DOMAIN Links => 0 < MaxLinks
    BY <1>3, <1>4
  <2>4. \E i : Leads(Child(d, n), t, i)
    BY <2>2, <2>3
  <2> QED
    BY <1>4, <2>4, LeadsToReal
<1>7. c \in Seq(STRING) /\ c # << >> /\ c[1] = "/"
  <2>1. n \in Seq(STRING)
    BY DEF Name
  <2>2. /\ c \in Seq(STRING) /\ Len(c) = Len(w) + 1 + Len(n)
        /\ \A i \in 1 .. Len(w) : c[i] = w[i]
    BY <1>1, <2>1, ChildIs
  <2>3. 1 \in 1 .. Len(w) /\ Len(w) \in Nat /\ Len(n) \in Nat
    BY <1>1, <2>1
  <2> HIDE DEF c
  <2> QED
    BY <1>1, <2>2, <2>3
<1>8. Inside(c)
  BY <1>1, <1>2, InsideChild DEF d
<1>9. ASSUME Follow(c) \in DOMAIN Type, Type[Follow(c)] # "dir"
      PROVE  Follow(Trim(c)) = Follow(c)
  <2>1. c # Cwd
    BY <1>9, CwdIs, RealPath
  <2> QED
    BY <1>7, <1>8, <2>1, TrimKeeps
<1>10. ASSUME Follow(c) \in DOMAIN Type, Type[Follow(c)] = "dir"
       PROVE  c \in WalkPaths
  BY <1>5, <1>7, <1>8, <1>10 DEF WalkPaths
<1> QED
  BY <1>5, <1>6, <1>9, <1>10 DEF d

LEMMA ToSetIs ==
    ASSUME NEW S, NEW s \in Seq(S)
    PROVE  /\ \A x : x \in ToSet(s) <=> \E i \in 1 .. Len(s) : s[i] = x
           /\ ToSet(s) \subseteq S
BY DEF ToSet

LEMMA ToSetHead ==
    ASSUME NEW S, NEW s \in Seq(S), s # << >>
    PROVE  /\ Head(s) \in S /\ Tail(s) \in Seq(S)
           /\ \A x : x \in ToSet(s) <=> x = Head(s) \/ x \in ToSet(Tail(s))
<1>1. /\ Head(s) \in S /\ Tail(s) \in Seq(S) /\ Len(Tail(s)) = Len(s) - 1
      /\ \A i \in 1 .. Len(Tail(s)) : Tail(s)[i] = s[i + 1]
      /\ Head(s) = s[1]
  BY HeadTailProperties
<1>2. Len(s) \in Nat /\ Len(s) > 0 /\ 1 \in 1 .. Len(s)
  OBVIOUS
<1>3. ASSUME NEW x \in ToSet(s) PROVE x = Head(s) \/ x \in ToSet(Tail(s))
  <2>1. PICK i \in 1 .. Len(s) : s[i] = x
    BY <1>3, ToSetIs
  <2>2. CASE i = 1
    BY <1>1, <2>1, <2>2
  <2>3. CASE i # 1
    <3>1. i - 1 \in 1 .. Len(Tail(s)) /\ (i - 1) + 1 = i
      BY <1>1, <1>2, <2>3
    <3>2. Tail(s)[i - 1] = x
      BY <1>1, <2>1, <3>1
    <3>3. \E j \in 1 .. Len(Tail(s)) : Tail(s)[j] = x
      BY <3>1, <3>2
    <3>4. x \in ToSet(Tail(s)) <=> \E j \in 1 .. Len(Tail(s)) : Tail(s)[j] = x
      BY <1>1, ToSetIs
    <3> QED
      BY <3>3, <3>4
  <2> QED
    BY <2>2, <2>3
<1>4. Head(s) \in ToSet(s)
  BY <1>1, <1>2, ToSetIs
<1>5. ASSUME NEW x \in ToSet(Tail(s)) PROVE x \in ToSet(s)
  <2>1. PICK i \in 1 .. Len(Tail(s)) : Tail(s)[i] = x
    BY <1>1, <1>5, ToSetIs
  <2>2. i + 1 \in 1 .. Len(s) /\ s[i + 1] = x
    BY <1>1, <1>2, <2>1
  <2> QED
    BY <2>2, ToSetIs
<1> QED
  BY <1>1, <1>3, <1>4, <1>5

LEMMA ToSetConcat ==
    ASSUME NEW S, NEW s \in Seq(S), NEW t \in Seq(S)
    PROVE  /\ s \o t \in Seq(S)
           /\ \A x : x \in ToSet(s \o t) <=> x \in ToSet(s) \/ x \in ToSet(t)
<1>1. /\ s \o t \in Seq(S) /\ Len(s \o t) = Len(s) + Len(t)
      /\ \A i \in 1 .. Len(s) + Len(t) :
             (s \o t)[i] = IF i <= Len(s) THEN s[i] ELSE t[i - Len(s)]
      /\ Len(s) \in Nat /\ Len(t) \in Nat
  BY ConcatProperties
<1> DEFINE u == s \o t
<1> HIDE DEF u
<1>2. ASSUME NEW x \in ToSet(u) PROVE x \in ToSet(s) \/ x \in ToSet(t)
  <2>1. PICK i \in 1 .. Len(s) + Len(t) : u[i] = x
    BY <1>1, <1>2, ToSetIs DEF u
  <2>2. CASE i <= Len(s)
    <3>1. i \in 1 .. Len(s) /\ s[i] = x
      BY <1>1, <2>1, <2>2 DEF u
    <3> QED
      BY <3>1, ToSetIs
  <2>3. CASE i > Len(s)
    <3>1. i - Len(s) \in 1 .. Len(t) /\ ~ (i <= Len(s))
      BY <1>1, <2>3
    <3>2. t[i - Len(s)] = x
      BY <1>1, <2>1, <3>1 DEF u
    <3> QED
      BY <3>1, <3>2, ToSetIs
  <2> QED
    BY <1>1, <2>2, <2>3
<1>3. ASSUME NEW x \in ToSet(s) PROVE x \in ToSet(u)
  <2>1. PICK i \in 1 .. Len(s) : s[i] = x
    BY <1>3, ToSetIs
  <2>2. i \in 1 .. Len(s) + Len(t) /\ u[i] = x
    BY <1>1, <2>1 DEF u
  <2> QED
    BY <1>1, <2>2, ToSetIs DEF u
<1>4. ASSUME NEW x \in ToSet(t) PROVE x \in ToSet(u)
  <2>1. PICK i \in 1 .. Len(t) : t[i] = x
    BY <1>4, ToSetIs
  <2>2. /\ Len(s) + i \in 1 .. Len(s) + Len(t) /\ ~ (Len(s) + i <= Len(s))
        /\ (Len(s) + i) - Len(s) = i
    BY <1>1, <2>1
  <2>3. u[Len(s) + i] = x
    BY <1>1, <2>1, <2>2 DEF u
  <2> QED
    BY <1>1, <2>2, <2>3, ToSetIs DEF u
<1> QED
  BY <1>1, <1>2, <1>3, <1>4 DEF u

LEMMA ToSetAppend ==
    ASSUME NEW S, NEW s \in Seq(S), NEW e \in S
    PROVE  /\ Append(s, e) \in Seq(S)
           /\ \A x : x \in ToSet(Append(s, e)) <=> x \in ToSet(s) \/ x = e
<1> DEFINE t == <<e>>
<1>1. t \in Seq(S) /\ Len(t) = 1 /\ t[1] = e
  OBVIOUS
<1>2. Append(s, e) = s \o t
  BY AppendIsConcat
<1> HIDE DEF t
<1>3. \A x : x \in ToSet(t) <=> x = e
  <2>1. \A x : x \in ToSet(t) <=> \E i \in 1 .. Len(t) : t[i] = x
    BY <1>1, ToSetIs, Zenon
  <2>2. 1 .. Len(t) = {1}
    BY <1>1
  <2> QED
    BY <1>1, <2>1, <2>2
<1>4. /\ s \o t \in Seq(S)
      /\ \A x : x \in ToSet(s \o t) <=> x \in ToSet(s) \/ x \in ToSet(t)
  BY <1>1, ToSetConcat
<1> QED
  BY <1>2, <1>3, <1>4

(* Every directory that walkdir() goes into and every file it adds has a   *)
(* name that leads to it (lib/filesystem.lua:53-119).                      *)
LEMMA WalkGetFiles ==
    ASSUME NothingBeside, TreeInv, ArgsInv, WalkInv, GetFiles
    PROVE  WalkInv'
<1> DEFINE p == Head(paths)
<1>1. /\ stage = "stat" /\ paths # << >> /\ p \in DOMAIN Type
      /\ UNCHANGED <<paths, reading, entries, subdirs>>
  BY DEF GetFiles, ArgsInv
<1>2. /\ walk \in Seq(WalkPaths) /\ subdirs \in Seq(WalkPaths)
      /\ reading \in BOOLEAN /\ ~reading /\ found = {}
  BY <1>1 DEF WalkInv
<1>3. StatIs
  BY StatHolds DEF TreeInv
<1>4. \/ stage' = "crashed" /\ walk' = walk /\ found' = found
      \/ Stat(p) = "file" /\ stage' = "check" /\ found' = {Trim(p)} /\ walk' = walk
      \/ Stat(p) = "dir" /\ stage' = "walk" /\ walk' = <<p>> /\ found' = found
      \/ stage' = "check" /\ walk' = walk /\ found' = found
  BY DEF GetFiles
<1>5. /\ Follow(p) = p
      /\ Type[p] = "dir" => p \in WalkPaths
      /\ Type[p] # "dir" => Follow(Trim(p)) = p
  BY <1>1, RealPath
<1> HIDE DEF p
<1>6. walk' \in Seq(WalkPaths)
  <2>1. CASE Stat(p) = "dir" /\ walk' = <<p>>
    <3>1. Follow(p) \in DirsOf(present)
      BY <1>3, <2>1 DEF StatIs
    <3>2. p \in WalkPaths
      BY <1>5, <3>1 DEF DirsOf
    <3> QED
      BY <2>1, <3>2
  <2> QED
    BY <1>2, <1>4, <2>1
<1>7. \A n \in found' : Follow(n) \in DOMAIN Type /\ Type[Follow(n)] = "file"
  <2>1. CASE Stat(p) = "file" /\ found' = {Trim(p)}
    <3>1. Type[Follow(p)] = "file"
      BY <1>3, <2>1 DEF StatIs
    <3>2. Type[p] = "file" /\ Type[p] # "dir"
      BY <1>5, <3>1
    <3> QED
      BY <1>1, <1>5, <2>1, <3>2
  <2> QED
    BY <1>2, <1>4, <2>1
<1>8. stage' \notin {"args", "stat", "done"} /\ paths' # << >> /\ ~reading' /\ reading' \in BOOLEAN
  BY <1>1, <1>2, <1>4
<1> QED
  BY <1>1, <1>2, <1>6, <1>7, <1>8 DEF WalkInv

LEMMA WalkOpenDir ==
    ASSUME TreeInv, WalkInv, OpenDir
    PROVE  WalkInv'
<1>1. stage = "walk" /\ ~reading /\ walk # << >>
  BY DEF OpenDir
<1>2. CASE Fail
  BY <1>1, <1>2 DEF Fail, wvars, WalkInv
<1>3. CASE ~Fail
  <2>1. /\ reading' = TRUE /\ entries' = Listing(Here) /\ subdirs' = << >>
        /\ UNCHANGED <<paths, walk, found, stage>>
    BY <1>3 DEF OpenDir, Here
  <2>2. Head(walk) \in WalkPaths /\ Here' = Here
    BY <1>1, <2>1 DEF WalkInv, Here
  <2>3. Here \in DOMAIN Type
    BY <2>2 DEF WalkPaths, Here
  <2>4. \A n \in entries' : Name(n) /\ Child(Here', n) \in DOMAIN Type \cup DOMAIN Links
    BY <2>1, <2>2, <2>3, DirsHold DEF DirsAre, Lists, TreeInv, Tree
  <2>5. subdirs' \in Seq(WalkPaths) /\ reading' \in BOOLEAN
    BY <2>1
  <2> QED
    BY <1>1, <2>1, <2>4, <2>5 DEF WalkInv
<1> QED
  BY <1>2, <1>3

LEMMA WalkStatEntry ==
    ASSUME NothingBeside, TreeInv, WalkInv, NEW name, StatEntry(name)
    PROVE  WalkInv'
<1> DEFINE w == Head(walk)
           c == Child(w, name)
<1>1. stage = "walk" /\ reading /\ name \in entries
  BY DEF StatEntry
<1>2. /\ walk # << >> /\ Name(name)
      /\ Child(Here, name) \in DOMAIN Type \cup DOMAIN Links
      /\ walk \in Seq(WalkPaths) /\ subdirs \in Seq(WalkPaths) /\ w \in WalkPaths
  BY <1>1 DEF WalkInv
<1>3. CASE Fail
  BY <1>1, <1>3 DEF Fail, wvars, WalkInv, Here
<1>4. CASE ~Fail
  <2>1. /\ ~ (~Ignored(name) /\ Stat(c) = "ELOOP")
        /\ entries' = entries \ {name}
        /\ subdirs' = IF ~Ignored(name) /\ Stat(c) = "dir"
                      THEN Append(subdirs, c) ELSE subdirs
        /\ found' = IF ~Ignored(name) /\ Stat(c) = "file" /\ Matches(name)
                    THEN found \cup {Trim(c)} ELSE found
        /\ UNCHANGED <<paths, walk, reading, stage>>
    BY <1>4 DEF StatEntry
  <2>2. StatIs
    BY StatHolds DEF TreeInv
  <2>3. ASSUME ~Ignored(name), Follow(c) \in DOMAIN Type
        PROVE  IF Type[Follow(c)] = "dir" THEN c \in WalkPaths
               ELSE Follow(Trim(c)) = Follow(c)
    <3>1. LinkEnds(Follow(c)) = {}
      BY <2>3, TreeIs
    <3> QED
      BY <1>2, <2>3, <3>1, EntryPath DEF Here
  <2> HIDE DEF c
  <2>4. subdirs' \in Seq(WalkPaths)
    <3>1. CASE ~Ignored(name) /\ Stat(c) = "dir"
      <4>1. Follow(c) \in DOMAIN Type /\ Type[Follow(c)] = "dir"
        BY <2>2, <3>1 DEF StatIs, DirsOf, TreeInv, Tree
      <4>2. c \in WalkPaths
        BY <2>3, <3>1, <4>1
      <4> QED
        BY <1>2, <2>1, <3>1, <4>2, ToSetAppend
    <3> QED
      BY <1>2, <2>1, <3>1
  <2>5. \A n \in found' : Follow(n) \in DOMAIN Type /\ Type[Follow(n)] = "file"
    <3>1. CASE ~Ignored(name) /\ Stat(c) = "file"
      <4>1. Follow(c) \in DOMAIN Type /\ Type[Follow(c)] = "file"
        BY <2>2, <3>1 DEF StatIs, TreeInv, Tree
      <4>2. Follow(Trim(c)) = Follow(c)
        BY <2>3, <3>1, <4>1
      <4> QED
        BY <2>1, <4>1, <4>2 DEF WalkInv
    <3>2. CASE ~ (~Ignored(name) /\ Stat(c) = "file")
      BY <2>1, <3>2 DEF WalkInv
    <3> QED
      BY <3>1, <3>2
  <2>6. Here' = Here
    BY <2>1 DEF Here
  <2> QED
    BY <1>1, <1>2, <2>1, <2>4, <2>5, <2>6 DEF WalkInv
<1> QED
  BY <1>3, <1>4

LEMMA WalkNext ==
    NothingBeside /\ TreeInv /\ ArgsInv /\ WalkInv /\ [Next]_vars => WalkInv'
<1> SUFFICES ASSUME NothingBeside, TreeInv, ArgsInv, WalkInv, [Next]_vars
             PROVE  WalkInv'
  OBVIOUS
<1>1. CASE TakeArg
  <2>1. CASE Fail
    BY <2>1 DEF Fail, wvars, WalkInv, Here
  <2>2. CASE ~Fail
    <3>1. stage = "args" /\ UNCHANGED <<wvars, found, stage>>
      BY <1>1, <2>2 DEF TakeArg
    <3> QED
      BY <3>1 DEF wvars, WalkInv, Here
  <2> QED
    BY <2>1, <2>2
<1>2. CASE ArgsTaken
  <2>1. stage = "args" /\ stage' = "stat" /\ UNCHANGED <<paths, wvars, found>>
    BY <1>2 DEF ArgsTaken
  <2> QED
    BY <2>1 DEF wvars, WalkInv
<1>3. CASE CloseDir
  <2>1. /\ stage = "walk" /\ reading /\ reading' = FALSE
        /\ walk' = subdirs \o Tail(walk)
        /\ UNCHANGED <<paths, subdirs, found, stage>>
    BY <1>3 DEF CloseDir, Remaining
  <2>2. walk # << >> /\ walk \in Seq(WalkPaths) /\ subdirs \in Seq(WalkPaths)
    BY <2>1 DEF WalkInv
  <2>3. walk' \in Seq(WalkPaths)
    BY <2>1, <2>2, ToSetHead, ToSetConcat
  <2>4. reading' \in BOOLEAN /\ ~reading'
    BY <2>1
  <2> QED
    BY <2>1, <2>2, <2>3, <2>4 DEF WalkInv
<1>4. CASE WalkDone
  <2>1. stage = "walk" /\ ~reading /\ stage' = "check" /\ UNCHANGED <<paths, wvars, found>>
    BY <1>4 DEF WalkDone
  <2> QED
    BY <2>1 DEF wvars, WalkInv
<1>5. ASSUME NEW name, CheckFile(name) PROVE WalkInv'
  <2>1. CASE Fail
    BY <2>1 DEF Fail, wvars, WalkInv, Here
  <2>2. CASE ~Fail
    <3>1. stage = "check" /\ found' = found \ {name} /\ UNCHANGED <<paths, wvars, stage>>
      BY <1>5, <2>2 DEF CheckFile
    <3> QED
      BY <3>1 DEF wvars, WalkInv
  <2> QED
    BY <2>1, <2>2
<1>6. CASE NextPath
  <2>1. stage = "check" /\ found = {} /\ stage' = "stat" /\ UNCHANGED <<wvars, found>>
    BY <1>6 DEF NextPath
  <2> QED
    BY <2>1 DEF wvars, WalkInv
<1>7. CASE Done
  <2>1. stage = "stat" /\ stage' = "done" /\ UNCHANGED <<wvars, found>>
    BY <1>7 DEF Done
  <2> QED
    BY <2>1 DEF wvars, WalkInv
<1>8. ASSUME NEW p, Vanish(p) PROVE UNCHANGED <<paths, wvars, found, stage>>
  BY <1>8 DEF Vanish
<1>9. CASE UNCHANGED <<paths, wvars, found, stage>>
  BY <1>9 DEF wvars, WalkInv, Here
<1>10. CASE UNCHANGED vars
  BY <1>9, <1>10 DEF vars
<1>11. ASSUME NEW name, StatEntry(name) PROVE WalkInv'
  BY <1>11, WalkStatEntry
<1> QED
  BY <1>1, <1>2, <1>3, <1>4, <1>5, <1>6, <1>7, <1>8, <1>9, <1>10, <1>11,
     WalkGetFiles, WalkOpenDir DEF Next, Search

\* What the arguments ask for, and the directories they lead into.
Wanted(q) == \E i \in DOMAIN args : q \in AskedOf(present, Follow(args[i]))
Reached(d) ==
    \E i \in DOMAIN args : /\ Follow(args[i]) \in DirsOf(present)
                           /\ d \in DirsFromOf(present, Follow(args[i]))

\* Only what is asked for is found, and only what is reached is searched.
SoundInv ==
    /\ \A q \in present : Taken(q) \/ Found(q) => Wanted(q)
    /\ \A w : Waiting(w) /\ Follow(w) \in present => Reached(Follow(w))

LEMMA ReachedHas ==
    ASSUME NEW d, Reached(d)
    PROVE  /\ \A s \in SubdirsOf(present, d) : Reached(s)
           /\ \A q \in FilesOf(present, d) : Wanted(q)
<1>1. PICK i \in DOMAIN args : /\ Follow(args[i]) \in DirsOf(present)
                               /\ d \in DirsFromOf(present, Follow(args[i]))
  BY DEF Reached
<1>2. ASSUME NEW s \in SubdirsOf(present, d) PROVE Reached(s)
  BY <1>1, SubdirsBelow DEF Reached
<1>3. ASSUME NEW q \in FilesOf(present, d) PROVE Wanted(q)
  <2>1. q \in AskedOf(present, Follow(args[i]))
    BY <1>1 DEF AskedOf
  <2> QED
    BY <2>1 DEF Wanted
<1> QED
  BY <1>2, <1>3

(* An entry that leads to something present is still in its directory,     *)
(* which therefore is present too (lib/filesystem.lua:61-71).              *)
LEMMA EntryStays ==
    ASSUME NothingBeside, TreeInv, WalkInv, stage = "walk", reading,
           NEW name \in entries, NEW c, c = Child(Head(walk), name),
           LinkEnds(Follow(c)) = {}
    PROVE  /\ Head(walk) \in WalkPaths /\ walk # << >> /\ walk \in Seq(WalkPaths)
           /\ Follow(Child(Here, name)) = Follow(c)
           /\ Follow(c) \in present => /\ Here \in DirsOf(present)
                                       /\ Lists(present, Here, name)
           /\ Follow(c) \in DOMAIN Type /\ Type[Follow(c)] # "dir" =>
                 Follow(Trim(c)) = Follow(c)
<1> DEFINE w == Head(walk)
<1>1. /\ walk # << >> /\ walk \in Seq(WalkPaths) /\ w \in WalkPaths /\ Name(name)
      /\ Child(Here, name) \in DOMAIN Type \cup DOMAIN Links
  BY DEF WalkInv
<1>2. /\ Follow(Child(Here, name)) = Follow(c) /\ Follow(c) = Target(Here, name)
      /\ Follow(c) \in DOMAIN Type =>
            IF Type[Follow(c)] = "dir" THEN c \in WalkPaths
            ELSE Follow(Trim(c)) = Follow(c)
  BY <1>1, EntryPath DEF Here
<1>3. ASSUME Follow(c) \in present
      PROVE  Here \in DirsOf(present) /\ Lists(present, Here, name)
  <2>1. Child(Here, name) \in present \cup DOMAIN Links
    BY <1>1, <1>2, <1>3 DEF Target
  <2>2. Here \in DOMAIN Type /\ Type[Here] = "dir"
    BY <1>1 DEF WalkPaths, Here
  <2>3. Here \in Seq(STRING) /\ name \in Seq(STRING) /\ name # << >>
    BY <1>1, <2>2, TreeIs DEF Name
  <2>4. IsStrictPrefix(Here \o <<"/">>, Child(Here, name))
    BY <2>3, NameOf
  <2>5. Here \in present
    BY <2>1, <2>2, <2>4 DEF TreeInv
  <2> QED
    BY <1>1, <2>1, <2>2, <2>5 DEF Lists, DirsOf
<1> QED
  BY <1>1, <1>2, <1>3

(* What get_files() takes of the list is what the name leads to            *)
(* (bin/testcase.lua:132-138).                                             *)
LEMMA CheckTakes ==
    ASSUME ListInv, NEW name, CheckFile(name), ~Fail
    PROVE  /\ \A q : Taken(q)' <=> Taken(q) \/ q = Follow(name)
           /\ \A q : Found(q) => Found(q)' \/ q = Follow(name)
           /\ \A q : Found(q)' => Found(q)
           /\ Found(Follow(name)) /\ stage = "check"
           /\ UNCHANGED <<present, args, todo, paths, wvars, stage>>
<1> DEFINE new == [name |-> name, real |-> Follow(name)]
<1>1. /\ stage = "check" /\ name \in found /\ found' = found \ {name}
      /\ files' = IF Seen(name) THEN files ELSE Append(files, new)
      /\ UNCHANGED <<present, args, todo, paths, wvars, stage>>
  BY DEF CheckFile
<1>2. new.real = Follow(name)
  OBVIOUS
<1> HIDE DEF new
<1>3. PICK S : files \in Seq(S)
  BY DEF ListInv
<1>4. ASSUME NEW q PROVE Taken(q)' <=> Taken(q) \/ q = Follow(name)
  <2>1. CASE Seen(name)
    <3>1. Taken(q)' <=> Taken(q)
      BY <1>1, <2>1 DEF Taken
    <3>2. q = Follow(name) => Taken(q)
      BY <2>1 DEF Taken, Seen
    <3> QED
      BY <3>1, <3>2
  <2>2. CASE ~Seen(name)
    <3>1. files' = Append(files, new) /\ files \in Seq(S \cup {new})
      BY <1>1, <1>3, <2>2
    <3>2. /\ DOMAIN files = 1 .. Len(files) /\ Len(files) \in Nat
          /\ DOMAIN files' = 1 .. Len(files) + 1
          /\ \A i \in 1 .. Len(files) : files'[i] = files[i]
          /\ files'[Len(files) + 1] = new
      BY <3>1
    <3>3. Taken(q) => Taken(q)'
      BY <3>2 DEF Taken
    <3>4. q = Follow(name) => Taken(q)'
      BY <1>2, <3>2 DEF Taken
    <3>5. Taken(q)' => Taken(q) \/ q = Follow(name)
      <4> SUFFICES ASSUME NEW i \in DOMAIN files', files'[i].real = q
                   PROVE  Taken(q) \/ q = Follow(name)
        BY DEF Taken
      <4>1. i \in 1 .. Len(files) \/ i = Len(files) + 1
        BY <3>2
      <4> QED
        BY <1>2, <3>2, <4>1 DEF Taken
    <3> QED
      BY <3>3, <3>4, <3>5
  <2> QED
    BY <2>1, <2>2
<1> QED
  BY <1>1, <1>4 DEF Found

LEMMA VanishGone ==
    ASSUME TreeInv, NEW x, Vanish(x)
    PROVE  /\ Gone(present, present', x)
           /\ UNCHANGED <<args, todo, paths, wvars, found, files, stage>>
           /\ \A q \in present' : Wanted(q)' <=> Wanted(q)
           /\ \A d \in present' : Reached(d) => Reached(d)'
<1>1. /\ Gone(present, present', x)
      /\ UNCHANGED <<args, todo, paths, wvars, found, files, stage>>
  BY DEF Vanish, Gone, TreeInv, Tree
<1>2. \A q \in present' : \A d :
        q \in AskedOf(present, d) <=> q \in AskedOf(present', d)
  BY <1>1, GoneAsked
<1>3. \A q \in present' : Wanted(q)' <=> Wanted(q)
  BY <1>1, <1>2 DEF Wanted
<1>4. ASSUME NEW d \in present', Reached(d) PROVE Reached(d)'
  <2>1. PICK i \in DOMAIN args : /\ Follow(args[i]) \in DirsOf(present)
                                 /\ d \in DirsFromOf(present, Follow(args[i]))
    BY <1>4 DEF Reached
  <2> DEFINE p == Follow(args[i])
  <2>2. d # x /\ present' = present \ {x}
    BY <1>1 DEF Gone
  <2>3. p # x
    <3>1. BelowOf(present, x) = {}
      BY <1>1, GoneBelow
    <3> QED
      BY <2>1, <2>2, <3>1 DEF DirsFromOf
  <2>4. p \in DirsOf(present')
    BY <2>1, <2>2, <2>3 DEF DirsOf
  <2>5. d \in DirsFromOf(present', p)
    BY <1>1, <2>1, <2>2, GoneBelow DEF DirsFromOf
  <2>6. args' = args
    BY <1>1
  <2> QED
    BY <2>4, <2>5, <2>6 DEF Reached
<1> QED
  BY <1>1, <1>3, <1>4

LEMMA SoundInit == Init => SoundInv
BY DEF Init, SoundInv, Taken, Found, Waiting, ToSet

(* Nothing is found that was not asked for (bin/testcase.lua:120-142,      *)
(* lib/filesystem.lua:53-119).                                             *)
LEMMA SoundNext ==
    /\ NothingBeside /\ ListInv /\ TreeInv /\ ArgsInv /\ WalkInv /\ SoundInv
    /\ [Next]_vars
    => SoundInv'
<1> SUFFICES ASSUME NothingBeside, ListInv, TreeInv, ArgsInv, WalkInv, SoundInv,
                    [Next]_vars
             PROVE  SoundInv'
  OBVIOUS
<1>1. StatIs
  BY StatHolds DEF TreeInv
<1>2. ASSUME UNCHANGED <<present, args>>
      PROVE  \A q : (Wanted(q)' <=> Wanted(q)) /\ (Reached(q)' <=> Reached(q))
  BY <1>2 DEF Wanted, Reached
<1>3. ASSUME UNCHANGED <<present, args, files, found, walk, subdirs>>
      PROVE  SoundInv'
  <2>1. \A q : /\ Taken(q)' <=> Taken(q)
               /\ Found(q)' <=> Found(q)
               /\ Waiting(q)' <=> Waiting(q)
    BY <1>3 DEF Taken, Found, Waiting
  <2> QED
    BY <1>2, <1>3, <2>1 DEF SoundInv
<1>4. CASE Fail
  BY <1>3, <1>4 DEF Fail, wvars
<1>5. CASE TakeArg /\ ~Fail
  BY <1>3, <1>5 DEF TakeArg, wvars
<1>6. CASE ArgsTaken \/ WalkDone \/ NextPath \/ Done \/ UNCHANGED vars
  BY <1>3, <1>6 DEF ArgsTaken, WalkDone, NextPath, Done, vars, wvars
<1>7. CASE GetFiles
  <2> DEFINE p == Head(paths)
  <2>1. /\ paths # << >> /\ stage = "stat"
        /\ UNCHANGED <<present, args, files, subdirs>>
    BY <1>7 DEF GetFiles
  <2>2. \/ walk' = walk /\ found' = found
        \/ Stat(p) = "file" /\ found' = {Trim(p)} /\ walk' = walk
        \/ Stat(p) = "dir" /\ walk' = <<p>> /\ found' = found
    BY <1>7 DEF GetFiles
  <2>3. p \in DOMAIN Type /\ \E i \in DOMAIN args : Follow(args[i]) = p
    <3>1. paths \in Seq(DOMAIN Type) /\ p = paths[1] /\ 1 \in 1 .. Len(paths)
      BY <2>1 DEF ArgsInv
    <3>2. /\ DOMAIN args = 1 .. Len(args) /\ Len(args) \in Nat
          /\ Len(todo) \in Nat /\ Len(todo) <= Len(args)
      BY DEF ArgsInv
    <3>3. PICK i \in 1 .. Len(args) - Len(todo) : Follow(args[i]) = p
      BY <3>1 DEF ArgsInv
    <3>4. i \in DOMAIN args
      BY <3>2
    <3> QED
      BY <3>1, <3>3, <3>4
  <2>4. Follow(p) = p /\ (Type[p] # "dir" => Follow(Trim(p)) = p)
    BY <2>3, RealPath
  <2> HIDE DEF p
  <2>5. CASE walk' = walk /\ found' = found
    BY <1>3, <2>1, <2>5
  <2>6. CASE Stat(p) = "file" /\ found' = {Trim(p)} /\ walk' = walk
    <3>1. p \in present /\ Type[p] = "file" /\ p \notin DirsOf(present)
      BY <1>1, <2>4, <2>6 DEF StatIs, DirsOf
    <3>2. Wanted(p)
      BY <2>3, <3>1 DEF Wanted, AskedOf
    <3>3. \A q : Found(q)' => q = p
      BY <2>4, <2>6, <3>1 DEF Found
    <3>4. \A q : (Taken(q)' <=> Taken(q)) /\ (Waiting(q)' <=> Waiting(q))
      BY <2>1, <2>6 DEF Taken, Waiting
    <3> QED
      BY <1>2, <2>1, <3>2, <3>3, <3>4 DEF SoundInv
  <2>7. CASE Stat(p) = "dir" /\ walk' = <<p>> /\ found' = found
    <3>1. p \in DirsOf(present)
      BY <1>1, <2>4, <2>7 DEF StatIs
    <3>2. Reached(p)
      BY <2>3, <3>1 DEF Reached, DirsFromOf
    <3>3. \A w : Waiting(w)' => w = p \/ Waiting(w)
      BY <2>1, <2>7 DEF Waiting, ToSet
    <3>4. \A q : (Taken(q)' <=> Taken(q)) /\ (Found(q)' <=> Found(q))
      BY <2>1, <2>7 DEF Taken, Found
    <3> QED
      BY <1>2, <2>1, <2>4, <3>2, <3>3, <3>4 DEF SoundInv
  <2> QED
    BY <2>2, <2>5, <2>6, <2>7
<1>8. CASE OpenDir /\ ~Fail
  <2>1. UNCHANGED <<present, args, files, found, walk>> /\ subdirs' = << >>
    BY <1>8 DEF OpenDir
  <2>2. \A q : (Taken(q)' <=> Taken(q)) /\ (Found(q)' <=> Found(q))
    BY <2>1 DEF Taken, Found
  <2>3. ToSet(subdirs') = {} /\ ToSet(walk') = ToSet(walk)
    <3>1. walk' = walk /\ subdirs' = << >>
      BY <2>1
    <3>2. ToSet(<< >>) = {}
      BY DEF ToSet
    <3> QED
      BY <3>1, <3>2
  <2>4. \A w : Waiting(w)' => Waiting(w)
    BY <2>3 DEF Waiting
  <2> QED
    BY <1>2, <2>1, <2>2, <2>4 DEF SoundInv
<1>9. CASE CloseDir
  <2>1. /\ reading /\ walk' = subdirs \o Tail(walk)
        /\ UNCHANGED <<present, args, files, found, subdirs>>
    BY <1>9 DEF CloseDir, Remaining
  <2>2. walk # << >> /\ walk \in Seq(WalkPaths) /\ subdirs \in Seq(WalkPaths)
    BY <2>1 DEF WalkInv
  <2>3. \A w : Waiting(w)' => Waiting(w)
    <3>1. Tail(walk) \in Seq(WalkPaths) /\ \A w : w \in ToSet(Tail(walk)) => w \in ToSet(walk)
      BY <2>2, ToSetHead
    <3>2. \A w : w \in ToSet(walk') <=> w \in ToSet(subdirs) \/ w \in ToSet(Tail(walk))
      BY <2>1, <2>2, <3>1, ToSetConcat
    <3> QED
      BY <2>1, <3>1, <3>2 DEF Waiting
  <2>4. \A q : (Taken(q)' <=> Taken(q)) /\ (Found(q)' <=> Found(q))
    BY <2>1 DEF Taken, Found
  <2> QED
    BY <1>2, <2>1, <2>3, <2>4 DEF SoundInv
<1>10. ASSUME NEW name, StatEntry(name), ~Fail PROVE SoundInv'
  <2> DEFINE c == Child(Head(walk), name)
  <2>1. /\ stage = "walk" /\ reading /\ name \in entries
        /\ ~ (~Ignored(name) /\ Stat(c) = "ELOOP")
        /\ subdirs' = IF ~Ignored(name) /\ Stat(c) = "dir"
                      THEN Append(subdirs, c) ELSE subdirs
        /\ found' = IF ~Ignored(name) /\ Stat(c) = "file" /\ Matches(name)
                    THEN found \cup {Trim(c)} ELSE found
        /\ UNCHANGED <<present, args, files, walk>>
    BY <1>10 DEF StatEntry
  <2>2. ASSUME Follow(c) \in present, ~Ignored(name)
        PROVE  /\ Follow(Child(Here, name)) = Follow(c)
               /\ Here \in DirsOf(present) /\ Lists(present, Here, name)
               /\ Type[Follow(c)] # "dir" => Follow(Trim(c)) = Follow(c)
               /\ Reached(Here)
    <3>1. Follow(c) \in DOMAIN Type /\ LinkEnds(Follow(c)) = {}
      BY <2>2, TreeIs DEF TreeInv, Tree
    <3>2. /\ Head(walk) \in WalkPaths /\ walk # << >> /\ walk \in Seq(WalkPaths)
          /\ Follow(Child(Here, name)) = Follow(c)
          /\ Here \in DirsOf(present) /\ Lists(present, Here, name)
          /\ Type[Follow(c)] # "dir" => Follow(Trim(c)) = Follow(c)
      BY <2>1, <2>2, <3>1, EntryStays
    <3>3. Waiting(Head(walk))
      BY <3>2, ToSetHead DEF Waiting
    <3>4. Here \in present
      BY <3>2 DEF DirsOf
    <3> QED
      BY <3>2, <3>3, <3>4 DEF SoundInv, Here
  <2> HIDE DEF c
  <2>3. \A q : Taken(q)' <=> Taken(q)
    BY <2>1 DEF Taken
  <2>4. \A q \in present : Found(q)' => Wanted(q)
    <3> SUFFICES ASSUME NEW q \in present, Found(q)', ~Found(q) PROVE Wanted(q)
      BY DEF SoundInv
    <3>1. ~Ignored(name) /\ Stat(c) = "file" /\ Matches(name) /\ q = Follow(Trim(c))
      BY <2>1 DEF Found
    <3>2. Follow(c) \in present /\ Type[Follow(c)] = "file"
      BY <1>1, <3>1 DEF StatIs
    <3>3. q = Follow(c)
      BY <2>2, <3>1, <3>2
    <3>4. q \in FilesOf(present, Here)
      BY <2>2, <3>1, <3>2, <3>3 DEF FilesOf
    <3> QED
      BY <2>2, <3>1, <3>2, <3>4, ReachedHas
  <2>5. \A w : Waiting(w)' /\ Follow(w) \in present => Reached(Follow(w))
    <3> SUFFICES ASSUME NEW w, Waiting(w)', ~Waiting(w), Follow(w) \in present
                 PROVE  Reached(Follow(w))
      BY DEF SoundInv
    <3>1. ~Ignored(name) /\ Stat(c) = "dir" /\ subdirs' = Append(subdirs, c)
      BY <2>1 DEF Waiting
    <3>2. Follow(c) \in DirsOf(present) /\ Follow(c) \in present
      BY <1>1, <3>1 DEF StatIs, DirsOf
    <3>3. w = c
      <4> DEFINE S == WalkPaths \cup {c}
      <4>1. subdirs \in Seq(S) /\ c \in S
        BY DEF WalkInv
      <4> HIDE DEF S
      <4> QED
        BY <2>1, <3>1, <4>1, ToSetAppend DEF Waiting
    <3>4. Follow(c) \in SubdirsOf(present, Here)
      BY <2>2, <3>1, <3>2 DEF SubdirsOf
    <3> QED
      BY <2>2, <3>1, <3>2, <3>3, <3>4, ReachedHas
  <2> QED
    BY <1>2, <2>1, <2>3, <2>4, <2>5 DEF SoundInv
<1>11. ASSUME NEW name, CheckFile(name), ~Fail PROVE SoundInv'
  <2>1. /\ \A q : Taken(q)' <=> Taken(q) \/ q = Follow(name)
        /\ \A q : Found(q)' => Found(q)
        /\ Found(Follow(name))
        /\ UNCHANGED <<present, args, wvars>>
    BY <1>11, CheckTakes
  <2>2. \A w : Waiting(w)' <=> Waiting(w)
    BY <2>1 DEF Waiting, wvars
  <2> QED
    BY <1>2, <2>1, <2>2 DEF SoundInv
<1>12. ASSUME NEW x, Vanish(x) PROVE SoundInv'
  <2>1. /\ UNCHANGED <<wvars, found, files>>
        /\ \A q \in present' : Wanted(q)' <=> Wanted(q)
        /\ \A d \in present' : Reached(d) => Reached(d)'
        /\ present' \subseteq present
    BY <1>12, VanishGone DEF Gone
  <2>2. \A q : /\ Taken(q)' <=> Taken(q)
               /\ Found(q)' <=> Found(q)
               /\ Waiting(q)' <=> Waiting(q)
    BY <2>1 DEF Taken, Found, Waiting, wvars
  <2> QED
    BY <2>1, <2>2 DEF SoundInv
<1> QED
  BY <1>4, <1>5, <1>6, <1>7, <1>8, <1>9, <1>10, <1>11, <1>12 DEF Next, Search

-----------------------------------------------------------------------------
(* Every file asked for is taken.                                          *)

\* With a pathname of S file q is asked for, and entry n of directory d
\* brings it: as the file that it is or in the directory that it is.
From(P, S, q) == \E x \in S : q \in AskedOf(P, Follow(x))
Brings(P, d, n, q) ==
    /\ ~Ignored(n)
    /\ \/ Follow(Child(d, n)) = q /\ Matches(n)
       \/ Follow(Child(d, n)) \in DirsOf(P) /\ q \in AskedOf(P, Follow(Child(d, n)))

\* The search is still to come to the file.
InArgs(q) ==
    \/ stage = "args" /\ From(present, ToSet(todo), q)
    \/ stage \in {"args", "stat"} /\ From(present, ToSet(paths), q)
    \/ stage \in {"walk", "check"} /\ From(present, ToSet(Tail(paths)), q)
InWalk(q) ==
    /\ stage = "walk"
    /\ IF reading
       THEN \/ From(present, ToSet(Tail(walk)), q)
            \/ From(present, ToSet(subdirs), q)
            \/ \E n \in entries : Brings(present, Here, n, q)
       ELSE From(present, ToSet(walk), q)
Kept(q) == Taken(q) \/ Found(q) \/ InArgs(q) \/ InWalk(q)

CompleteInv ==
    stage \notin {"failed", "crashed"} =>
        \A q \in present : Type[q] = "file" /\ Wanted(q) => Kept(q)

LEMMA CompleteInit == Init => CompleteInv
<1> SUFFICES ASSUME Init, NEW q \in present, Wanted(q) PROVE Kept(q)
  BY DEF CompleteInv
<1>1. PICK i \in DOMAIN args : q \in AskedOf(present, Follow(args[i]))
  BY DEF Wanted
<1>2. stage = "args" /\ todo = args /\ args[i] \in ToSet(todo)
  BY DEF Init, ToSet
<1> QED
  BY <1>1, <1>2 DEF Kept, InArgs, From

(* Where the search goes on from an argument or a pathname                 *)
(* (bin/testcase.lua:101-129).                                             *)
LEMMA CompleteArgs ==
    ASSUME NothingBeside, TreeInv, ArgsInv, WalkInv,
           TakeArg \/ ArgsTaken \/ GetFiles \/ NextPath \/ Done,
           stage' \notin {"failed", "crashed"},
           NEW q \in present, Type[q] = "file", Kept(q)
    PROVE  Kept(q)'
<1>1. CASE Taken(q) /\ UNCHANGED files
  BY <1>1 DEF Kept, Taken
<1>2. CASE Found(q) /\ UNCHANGED found
  BY <1>2 DEF Kept, Found
<1>3. StatIs
  BY StatHolds DEF TreeInv
<1>4. CASE TakeArg
  <2> DEFINE a == Head(todo)
  <2>1. ~Fail
    BY <1>4 DEF Fail
  <2>2. /\ stage = "args" /\ stage' = "args" /\ todo # << >> /\ Resolves(a)
        /\ paths' = Append(paths, Follow(a)) /\ todo' = Tail(todo)
        /\ UNCHANGED <<present, files, found>>
    BY <1>4, <2>1 DEF TakeArg
  <2>3. Follow(a) \in DOMAIN Type
    BY <1>3, <2>2 DEF StatIs, TreeInv, Tree
  <2>4. Follow(Follow(a)) = Follow(a)
    BY <2>3, RealPath
  <2>5. todo \in Seq(Seq(STRING)) /\ paths \in Seq(DOMAIN Type)
    BY DEF ArgsInv
  <2> HIDE DEF a
  <2>6. \A x : x \in ToSet(todo) => x = a \/ x \in ToSet(todo')
    BY <2>2, <2>5, ToSetHead DEF a
  <2>7. \A x : x \in ToSet(paths') <=> x \in ToSet(paths) \/ x = Follow(a)
    BY <2>2, <2>3, <2>5, ToSetAppend
  <2>8. CASE InArgs(q)
    <3>1. From(present, ToSet(todo), q) \/ From(present, ToSet(paths), q)
      BY <2>2, <2>8 DEF InArgs
    <3>2. From(present, ToSet(todo'), q) \/ From(present, ToSet(paths'), q)
      BY <2>4, <2>6, <2>7, <3>1 DEF From
    <3> QED
      BY <2>2, <3>2 DEF Kept, InArgs
  <2> QED
    BY <1>1, <1>2, <2>2, <2>8 DEF Kept, InWalk
<1>5. CASE ArgsTaken
  <2>1. /\ stage = "args" /\ stage' = "stat" /\ todo = << >>
        /\ UNCHANGED <<present, files, found, paths>>
    BY <1>5 DEF ArgsTaken
  <2>2. ToSet(todo) = {}
    BY <2>1 DEF ToSet
  <2>3. CASE InArgs(q)
    <3>1. From(present, ToSet(paths), q)
      BY <2>1, <2>2, <2>3 DEF InArgs, From
    <3> QED
      BY <2>1, <3>1 DEF Kept, InArgs
  <2> QED
    BY <1>1, <1>2, <2>1, <2>3 DEF Kept, InWalk
<1>6. CASE GetFiles
  <2> DEFINE p == Head(paths)
  <2>1. /\ stage = "stat" /\ paths # << >>
        /\ \/ stage' = "check" /\ Stat(p) = "file" /\ found' = {Trim(p)}
           \/ stage' = "walk" /\ Stat(p) = "dir" /\ walk' = <<p>> /\ found' = found
           \/ stage' = "check" /\ Stat(p) = "other" /\ found' = found
        /\ UNCHANGED <<present, files, paths, reading>>
    BY <1>6 DEF GetFiles
  <2>2. ~reading /\ found = {} /\ reading \in BOOLEAN
    BY <2>1 DEF WalkInv
  <2>3. paths \in Seq(DOMAIN Type) /\ p \in DOMAIN Type
    BY <2>1 DEF ArgsInv
  <2>4. Follow(p) = p /\ (Type[p] # "dir" => Follow(Trim(p)) = p)
    BY <2>3, RealPath
  <2>5. \A x : x \in ToSet(paths) => x = p \/ x \in ToSet(Tail(paths))
    BY <2>1, <2>3, ToSetHead
  <2> HIDE DEF p
  <2>6. CASE InArgs(q)
    <3>1. From(present, ToSet(paths), q)
      BY <2>1, <2>6 DEF InArgs
    <3>2. From(present, ToSet(Tail(paths)), q) \/ q \in AskedOf(present, p)
      BY <2>4, <2>5, <3>1 DEF From
    <3>3. CASE From(present, ToSet(Tail(paths)), q)
      BY <2>1, <3>3 DEF Kept, InArgs
    <3>4. CASE q \in AskedOf(present, p) /\ Stat(p) = "dir"
      <4>1. walk' = <<p>> /\ stage' = "walk" /\ ~reading'
        BY <2>1, <2>2, <3>4
      <4>2. p \in ToSet(walk')
        BY <4>1 DEF ToSet
      <4>3. From(present', ToSet(walk'), q)
        BY <2>1, <2>4, <3>4, <4>2 DEF From
      <4> QED
        BY <4>1, <4>3 DEF Kept, InWalk
    <3>5. CASE q \in AskedOf(present, p) /\ Stat(p) # "dir"
      <4>1. p \notin DirsOf(present)
        BY <1>3, <2>4, <3>5 DEF StatIs
      <4>2. q = p
        BY <3>5, <4>1 DEF AskedOf
      <4>3. Stat(p) = "file" /\ Type[p] # "dir"
        BY <1>3, <2>4, <4>2 DEF StatIs
      <4>4. found' = {Trim(p)} /\ Follow(Trim(p)) = q
        BY <2>1, <2>4, <4>2, <4>3
      <4> QED
        BY <4>4 DEF Kept, Found
    <3> QED
      BY <3>2, <3>3, <3>4, <3>5
  <2>7. ~Found(q)
    BY <2>2 DEF Found
  <2> QED
    BY <1>1, <2>1, <2>6, <2>7 DEF Kept, InWalk
<1>7. CASE NextPath
  <2>1. /\ stage = "check" /\ stage' = "stat" /\ paths' = Tail(paths)
        /\ UNCHANGED <<present, files, found>>
    BY <1>7 DEF NextPath
  <2>2. CASE InArgs(q)
    <3>1. From(present', ToSet(paths'), q)
      BY <2>1, <2>2 DEF InArgs
    <3> QED
      BY <2>1, <3>1 DEF Kept, InArgs
  <2> QED
    BY <1>1, <1>2, <2>1, <2>2 DEF Kept, InWalk
<1>8. CASE Done
  <2>1. stage = "stat" /\ paths = << >> /\ UNCHANGED <<files, found>>
    BY <1>8 DEF Done
  <2>2. ToSet(paths) = {}
    BY <2>1 DEF ToSet
  <2> QED
    BY <1>1, <1>2, <2>1, <2>2 DEF Kept, InArgs, InWalk, From
<1> QED
  BY <1>4, <1>5, <1>6, <1>7, <1>8

(* Where it goes on from a directory and from an entry in it               *)
(* (lib/filesystem.lua:41-84, 103-119).                                    *)
LEMMA CompleteWalk ==
    ASSUME TreeInv, WalkInv, OpenDir \/ CloseDir \/ WalkDone,
           stage' \notin {"failed", "crashed"},
           NEW q \in present, Type[q] = "file", Kept(q)
    PROVE  Kept(q)'
<1>1. ~Fail
  BY DEF Fail
<1>2. stage = "walk" /\ UNCHANGED <<present, paths, found, files>>
  BY <1>1 DEF OpenDir, CloseDir, WalkDone
<1>3. CASE Taken(q) \/ Found(q)
  BY <1>2, <1>3 DEF Kept, Taken, Found
<1>4. CASE InArgs(q)
  <2>1. stage' \in {"walk", "check"}
    BY <1>1, <1>2 DEF OpenDir, CloseDir, WalkDone
  <2>2. From(present', ToSet(Tail(paths')), q)
    BY <1>2, <1>4 DEF InArgs
  <2> QED
    BY <2>1, <2>2 DEF Kept, InArgs
<1>5. CASE InWalk(q) /\ OpenDir
  <2>1. /\ ~reading /\ walk # << >> /\ stage' = "walk" /\ walk' = walk
        /\ reading' = TRUE /\ Stat(Head(walk)) = "dir" /\ entries' = Listing(Here)
    BY <1>1, <1>2, <1>5 DEF OpenDir, Here
  <2>2. PICK x \in ToSet(walk) : q \in AskedOf(present, Follow(x))
    BY <1>5, <2>1 DEF InWalk, From
  <2>3. x = Head(walk) \/ x \in ToSet(Tail(walk))
    BY <2>1, <2>2, ToSetHead DEF WalkInv
  <2>4. CASE x \in ToSet(Tail(walk))
    <3>1. From(present', ToSet(Tail(walk')), q)
      BY <1>2, <2>1, <2>2, <2>4 DEF From
    <3> QED
      BY <1>2, <2>1, <3>1 DEF Kept, InWalk
  <2>5. CASE x = Head(walk)
    <3>1. Here \in DirsOf(present) /\ q \in AskedOf(present, Here)
      BY <2>1, <2>2, <2>5, StatHolds DEF StatIs, TreeInv, Here
    <3>2. \A n : n \in entries' <=> Lists(present, Here, n)
      BY <2>1, <3>1, DirsHold DEF DirsAre, DirsOf, TreeInv, Tree
    <3>3. \E n : Lists(present, Here, n) /\ Brings(present, Here, n, q)
      BY <3>1, AskedFirst DEF FilesOf, SubdirsOf, Brings
    <3>4. \E n \in entries' : Brings(present', Here', n, q)
      <4>1. Here' = Here
        BY <2>1 DEF Here
      <4> QED
        BY <1>2, <3>2, <3>3, <4>1
    <3> QED
      BY <1>2, <2>1, <3>4 DEF Kept, InWalk
  <2> QED
    BY <2>3, <2>4, <2>5
<1>6. CASE InWalk(q) /\ CloseDir
  <2>1. /\ reading /\ entries = {} /\ stage' = "walk" /\ reading' = FALSE
        /\ walk' = subdirs \o Tail(walk)
    BY <1>2, <1>6 DEF CloseDir, Remaining
  <2>2. walk # << >> /\ walk \in Seq(WalkPaths) /\ subdirs \in Seq(WalkPaths)
    BY <2>1 DEF WalkInv
  <2>3. \A x : x \in ToSet(walk') <=> x \in ToSet(subdirs) \/ x \in ToSet(Tail(walk))
    <3>1. Tail(walk) \in Seq(WalkPaths)
      BY <2>2, ToSetHead
    <3> QED
      BY <2>1, <2>2, <3>1, ToSetConcat
  <2>4. From(present, ToSet(Tail(walk)), q) \/ From(present, ToSet(subdirs), q)
    BY <1>6, <2>1 DEF InWalk
  <2>5. From(present', ToSet(walk'), q)
    BY <1>2, <2>3, <2>4 DEF From
  <2> QED
    BY <1>2, <2>1, <2>5 DEF Kept, InWalk
<1>7. CASE InWalk(q) /\ WalkDone
  <2>1. ~reading /\ ToSet(walk) = {}
    BY <1>7 DEF WalkDone, ToSet
  <2> QED
    BY <1>7, <2>1 DEF InWalk, From
<1> QED
  BY <1>3, <1>4, <1>5, <1>6, <1>7 DEF Kept

LEMMA CompleteEntry ==
    ASSUME NothingBeside, TreeInv, WalkInv, NEW name, StatEntry(name),
           stage' \notin {"failed", "crashed"},
           NEW q \in present, Type[q] = "file", Kept(q)
    PROVE  Kept(q)'
<1> DEFINE c == Child(Head(walk), name)
<1>1. ~Fail
  BY DEF Fail
<1>2. /\ stage = "walk" /\ reading /\ name \in entries
      /\ ~ (~Ignored(name) /\ Stat(c) = "ELOOP")
      /\ entries' = entries \ {name}
      /\ subdirs' = IF ~Ignored(name) /\ Stat(c) = "dir"
                    THEN Append(subdirs, c) ELSE subdirs
      /\ found' = IF ~Ignored(name) /\ Stat(c) = "file" /\ Matches(name)
                  THEN found \cup {Trim(c)} ELSE found
      /\ UNCHANGED <<present, paths, files, walk, reading, stage>>
  BY <1>1 DEF StatEntry
<1>3. StatIs
  BY StatHolds DEF TreeInv
<1>4. CASE Taken(q) \/ Found(q)
  <2>1. found \subseteq found'
    BY <1>2
  <2> QED
    BY <1>2, <1>4, <2>1 DEF Kept, Taken, Found
<1>5. CASE InArgs(q)
  <2>1. From(present', ToSet(Tail(paths')), q)
    BY <1>2, <1>5 DEF InArgs
  <2> QED
    BY <1>2, <2>1 DEF Kept, InArgs
<1>6. CASE InWalk(q)
  <2>1. subdirs \in Seq(WalkPaths \cup {c}) /\ c \in WalkPaths \cup {c}
    BY DEF WalkInv
  <2>2. \A x : \/ x \in ToSet(subdirs)
               \/ x = c /\ ~Ignored(name) /\ Stat(c) = "dir"
               => x \in ToSet(subdirs')
    <3> HIDE DEF c
    <3>1. CASE ~Ignored(name) /\ Stat(c) = "dir"
      <4>1. subdirs' = Append(subdirs, c)
        BY <1>2, <3>1
      <4> QED
        BY <2>1, <4>1, ToSetAppend
    <3>2. CASE ~ (~Ignored(name) /\ Stat(c) = "dir")
      BY <1>2, <3>2
    <3> QED
      BY <3>1, <3>2
  <2>3. Here' = Here
    BY <1>2 DEF Here
  <2>4. CASE From(present, ToSet(Tail(walk)), q) \/ From(present, ToSet(subdirs), q)
    <3>1. \/ From(present', ToSet(Tail(walk')), q)
          \/ From(present', ToSet(subdirs'), q)
      BY <1>2, <2>2, <2>4 DEF From
    <3> QED
      BY <1>2, <3>1 DEF Kept, InWalk
  <2>5. ASSUME NEW n \in entries, Brings(present, Here, n, q), n # name
        PROVE  Kept(q)'
    <3>1. n \in entries' /\ Brings(present', Here', n, q)
      BY <1>2, <2>3, <2>5
    <3> QED
      BY <1>2, <3>1 DEF Kept, InWalk
  <2>6. CASE Brings(present, Here, name, q)
    <3>1. ~Ignored(name) /\ LinkEnds(Follow(c)) = {}
      BY <1>2, <1>3, <2>6 DEF Brings, StatIs
    <3>2. /\ Follow(Child(Here, name)) = Follow(c)
          /\ Follow(c) \in DOMAIN Type /\ Type[Follow(c)] # "dir" =>
                Follow(Trim(c)) = Follow(c)
      BY <1>2, <3>1, EntryStays
    <3> HIDE DEF c
    <3>3. CASE Follow(c) = q /\ Matches(name)
      <4>1. Stat(c) = "file" /\ q \in DOMAIN Type /\ Type[q] # "dir"
        BY <1>3, <3>3 DEF StatIs, TreeInv, Tree
      <4>2. found' = found \cup {Trim(c)} /\ Follow(Trim(c)) = q
        BY <1>2, <3>1, <3>2, <3>3, <4>1
      <4> QED
        BY <4>2 DEF Kept, Found
    <3>4. CASE Follow(c) \in DirsOf(present) /\ q \in AskedOf(present, Follow(c))
      <4>1. c \in ToSet(subdirs')
        BY <1>3, <2>2, <3>1, <3>4 DEF StatIs
      <4>2. From(present', ToSet(subdirs'), q)
        BY <1>2, <3>4, <4>1 DEF From
      <4> QED
        BY <1>2, <4>2 DEF Kept, InWalk
    <3> QED
      BY <2>6, <3>2, <3>3, <3>4 DEF Brings
  <2> QED
    BY <1>2, <1>6, <2>4, <2>5, <2>6 DEF InWalk
<1> QED
  BY <1>4, <1>5, <1>6 DEF Kept

LEMMA CompleteVanish ==
    ASSUME TreeInv, NEW x, Vanish(x), NEW q \in present', Kept(q)
    PROVE  Kept(q)'
<1>1. /\ Gone(present, present', x)
      /\ UNCHANGED <<args, todo, paths, wvars, found, files, stage>>
  BY VanishGone
<1>2. \A d : q \in AskedOf(present, d) <=> q \in AskedOf(present', d)
  BY <1>1, GoneAsked
<1>3. \A S : From(present, S, q) <=> From(present', S, q)
  BY <1>2 DEF From
<1>4. \A d, n : Brings(present, d, n, q) => Brings(present', d, n, q)
  <2>1. present' = present \ {x} /\ DirsOf(present') = DirsOf(present) \ {x}
    BY <1>1 DEF Gone, DirsOf
  <2>2. q \notin AskedOf(present, x)
    BY <1>2, <2>1 DEF AskedOf
  <2> QED
    BY <1>2, <2>1, <2>2 DEF Brings
<1>5. Here' = Here
  BY <1>1 DEF Here, wvars
<1>6. CASE Taken(q) \/ Found(q)
  BY <1>1, <1>6 DEF Kept, Taken, Found
<1>7. CASE InArgs(q)
  BY <1>1, <1>3, <1>7 DEF Kept, InArgs
<1>8. CASE InWalk(q)
  BY <1>1, <1>3, <1>4, <1>5, <1>8 DEF Kept, InWalk, wvars
<1> QED
  BY <1>6, <1>7, <1>8 DEF Kept

(* No file that is asked for is lost on the way to the list                *)
(* (bin/testcase.lua:101-142).                                             *)
LEMMA CompleteNext ==
    /\ NothingBeside /\ ListInv /\ TreeInv /\ ArgsInv /\ WalkInv /\ CompleteInv
    /\ [Next]_vars
    => CompleteInv'
<1> SUFFICES ASSUME NothingBeside, ListInv, TreeInv, ArgsInv, WalkInv, CompleteInv,
                    [Next]_vars, stage' \notin {"failed", "crashed"},
                    NEW q \in present', Type[q] = "file", Wanted(q)'
             PROVE  Kept(q)'
  BY DEF CompleteInv
<1>1. ~Fail
  BY DEF Fail
<1>2. ASSUME NEW x, Vanish(x) PROVE Kept(q)'
  <2>1. Wanted(q) /\ q \in present /\ stage' = stage
    BY <1>2, VanishGone DEF Gone
  <2>2. Kept(q)
    BY <2>1 DEF CompleteInv
  <2> QED
    BY <1>2, <2>2, CompleteVanish
<1>3. ASSUME UNCHANGED <<present, args>>, stage \notin {"failed", "crashed"}
      PROVE  q \in present /\ Kept(q)
  BY <1>3 DEF CompleteInv, Wanted
<1>4. CASE TakeArg \/ ArgsTaken \/ GetFiles \/ NextPath \/ Done
  <2>1. UNCHANGED <<present, args>> /\ stage \notin {"failed", "crashed"}
    BY <1>1, <1>4 DEF TakeArg, ArgsTaken, GetFiles, NextPath, Done
  <2> QED
    BY <1>3, <1>4, <2>1, CompleteArgs
<1>5. CASE OpenDir \/ CloseDir \/ WalkDone
  <2>1. UNCHANGED <<present, args>> /\ stage \notin {"failed", "crashed"}
    BY <1>1, <1>5 DEF OpenDir, CloseDir, WalkDone
  <2> QED
    BY <1>3, <1>5, <2>1, CompleteWalk
<1>6. ASSUME NEW name, StatEntry(name) PROVE Kept(q)'
  <2>1. UNCHANGED <<present, args>> /\ stage \notin {"failed", "crashed"}
    BY <1>1, <1>6 DEF StatEntry
  <2> QED
    BY <1>3, <1>6, <2>1, CompleteEntry
<1>7. ASSUME NEW name, CheckFile(name) PROVE Kept(q)'
  <2>1. /\ Taken(q)' <=> Taken(q) \/ q = Follow(name)
        /\ Found(q) => Found(q)' \/ q = Follow(name)
        /\ stage = "check"
        /\ UNCHANGED <<present, args, todo, paths, wvars, stage>>
    BY <1>1, <1>7, CheckTakes
  <2>2. Kept(q)
    BY <1>3, <2>1
  <2>3. InArgs(q) => InArgs(q)'
    BY <2>1 DEF InArgs
  <2> QED
    BY <2>1, <2>2, <2>3 DEF Kept, InWalk
<1>8. CASE UNCHANGED vars
  <2>1. UNCHANGED <<present, args, todo, paths, walk, reading, entries, subdirs,
                    found, files, stage>>
    BY <1>8 DEF vars, wvars
  <2>2. Kept(q)
    BY <1>3, <2>1
  <2>3. /\ Taken(q) => Taken(q)'
        /\ Found(q) => Found(q)'
        /\ InArgs(q) => InArgs(q)'
    BY <2>1 DEF Taken, Found, InArgs
  <2>4. InWalk(q) => InWalk(q)'
    <3>1. Here' = Here
      BY <2>1 DEF Here
    <3> QED
      BY <2>1, <3>1 DEF InWalk
  <2> QED
    BY <2>2, <2>3, <2>4 DEF Kept
<1> QED
  BY <1>2, <1>4, <1>5, <1>6, <1>7, <1>8 DEF Next, Search

\* At the end nothing is ahead, so what is asked for is taken.
ListsAll == ListInv /\ TreeInv /\ ArgsInv /\ WalkInv /\ SoundInv /\ CompleteInv

LEMMA ListsTheAsked == ListsAll => ExactlyTheAsked
<1> SUFFICES ASSUME ListsAll, stage = "done" PROVE ExactlyTheAsked
  BY DEF ExactlyTheAsked
<1>1. \A q : q \in {files[i].real : i \in DOMAIN files} <=> Taken(q)
  BY DEF Taken
<1>2. \A q : q \in Asked <=> Wanted(q)
  BY AskedHold DEF AskedAre, Wanted, ListsAll, TreeInv
<1>3. ASSUME NEW q \in present, Type[q] = "file", Wanted(q) PROVE Taken(q)
  <2>1. Kept(q)
    BY <1>3 DEF ListsAll, CompleteInv
  <2>2. ~Found(q)
    BY DEF ListsAll, WalkInv, Found
  <2> QED
    BY <2>1, <2>2 DEF Kept, InArgs, InWalk
<1>4. ASSUME NEW q \in present, Taken(q) PROVE Wanted(q)
  BY <1>4 DEF ListsAll, SoundInv
<1> QED
  BY <1>1, <1>2, <1>3, <1>4 DEF ExactlyTheAsked

LEMMA ListsNext == NothingBeside /\ ListsAll /\ [Next]_vars => ListsAll'
BY ListNext, TreeNext, ArgsNext, WalkNext, SoundNext, CompleteNext DEF ListsAll

(* The command runs every file that is asked for and exists at the end,    *)
(* and no other that still exists, whatever the tree, the arguments, the   *)
(* order in which readdir() reports the entries and whatever others remove *)
(* meanwhile, as long as nothing beside the working directory has a name   *)
(* that begins with its name: trim_cwd() would take it for something in it *)
(* (bin/testcase.lua:101-142, lib/filesystem.lua:34-119).                  *)
THEOREM ExactlyTheAskedHolds ==
    ASSUME NothingBeside
    PROVE  Spec => []ExactlyTheAsked
<1>1. Init => ListsAll
  BY ListInit, ShapeInit, SoundInit, CompleteInit DEF ListsAll
<1>2. ListsAll /\ [Next]_vars => ListsAll'
  BY ListsNext
<1>3. ListsAll => ExactlyTheAsked
  BY ListsTheAsked
<1> QED
  BY <1>1, <1>2, <1>3, PTL DEF Spec

-----------------------------------------------------------------------------
(* Why the search fails.                                                   *)

\* Links lead round in a circle from p.
Round(P, p) == \E d \in DirsFromOf(P, p) : d \in BelowOf(P, d)
NoCircle ==
    \A i \in DOMAIN args :
        Follow(args[i]) \in DOMAIN Type => ~Round(DOMAIN Type, Follow(args[i]))

\* The command finds all that it is given, and leaves no link twice.
Blameless ==
    /\ present = DOMAIN Type
    /\ \A i \in DOMAIN args : Follow(args[i]) \in DOMAIN Type
    /\ \A i, j \in DOMAIN args : Follow(args[i]) = Follow(args[j]) => i = j
    /\ NoCircle

\* The links in the pathname of a directory: each at most once, as each leads
\* to a directory that this one is in.
Budget(w) ==
    \E k, U : /\ U \subseteq DirLinks
              /\ Leads(w, Follow(w), k) /\ k <= Cardinality(U)
              /\ \A l \in U : Follow(w) \in DirsFromOf(DOMAIN Type, Links[l])

BudgetInv == Blameless => \A w : Waiting(w) => Budget(w)
CauseInv == Blameless => stage \notin {"failed", "crashed"}

LEMMA DirLinksFinite == IsFiniteSet(DirLinks) /\ Cardinality(DirLinks) \in Nat
<1>1. IsFiniteSet(DOMAIN Links)
  BY TreeAssumption
<1>2. DirLinks \in SUBSET DOMAIN Links
  BY DEF DirLinks
<1>3. IsFiniteSet(DirLinks)
  BY <1>1, <1>2, FS_Subset
<1> QED
  BY <1>3, FS_CardinalityType

LEMMA FewEnough ==
    ASSUME FewLinks, NEW U, U \subseteq DirLinks
    PROVE  /\ IsFiniteSet(U) /\ Cardinality(U) \in Nat
           /\ Cardinality(U) < MaxLinks
<1>1. IsFiniteSet(U) /\ Cardinality(U) <= Cardinality(DirLinks)
  <2>1. U \in SUBSET DirLinks
    OBVIOUS
  <2> QED
    BY <2>1, DirLinksFinite, FS_Subset
<1>2. Cardinality(U) \in Nat
  BY <1>1, FS_CardinalityType
<1>3. MaxLinks \in Nat
  BY TreeAssumption
<1> QED
  BY <1>1, <1>2, <1>3, DirLinksFinite DEF FewLinks

LEMMA CircularIs ==
    Tree => \A p \in DOMAIN Type : Circular(p) <=> Round(present, p)
<1> SUFFICES ASSUME Tree, NEW p \in DOMAIN Type
             PROVE  Circular(p) <=> Round(present, p)
  OBVIOUS
<1>1. DirsAre
  BY DirsHold
<1>2. DirsFrom(p) = DirsFromOf(present, p)
  BY <1>1 DEF DirsAre
<1>3. DirsFromOf(present, p) \subseteq DOMAIN Type
  BY DEF DirsFromOf, BelowOf, DirsOf, Tree
<1>4. \A d \in DOMAIN Type : Below(d) = BelowOf(present, d)
  BY <1>1 DEF DirsAre
<1> QED
  BY <1>2, <1>3, <1>4 DEF Circular, Round

(* A search without a cause to fail has not failed.                        *)
LEMMA CauseShows == TreeInv /\ CauseInv => FailureHasCause
<1> SUFFICES ASSUME TreeInv, CauseInv, stage \in {"failed", "crashed"},
                    present = DOMAIN Type,
                    \A i \in DOMAIN args : Resolves(args[i]),
                    \A i, j \in DOMAIN args : Follow(args[i]) = Follow(args[j]) => i = j,
                    \A i \in DOMAIN args : ~Circular(Follow(args[i]))
             PROVE  FALSE
  BY DEF FailureHasCause
<1>1. \A i \in DOMAIN args : Follow(args[i]) \in DOMAIN Type
  BY StatHolds DEF StatIs, TreeInv
<1>2. NoCircle
  BY <1>1, CircularIs DEF NoCircle, TreeInv
<1> QED
  BY <1>1, <1>2 DEF Blameless, CauseInv

(* A step keeps the causes there are.                                      *)
LEMMA BlamelessBack ==
    TreeInv /\ [Next]_vars /\ Blameless' =>
        Blameless /\ UNCHANGED <<present, args>>
<1> SUFFICES ASSUME TreeInv, [Next]_vars, Blameless'
             PROVE  Blameless /\ UNCHANGED <<present, args>>
  OBVIOUS
<1>1. CASE UNCHANGED <<present, args>>
  <2>1. NoCircle
    BY <1>1 DEF Blameless, NoCircle
  <2> QED
    BY <1>1, <2>1 DEF Blameless
<1>2. ASSUME NEW x, Vanish(x) PROVE FALSE
  <2>1. present' = DOMAIN Type
    BY DEF Blameless
  <2>2. present' = present \ {x} /\ x \in present /\ present \subseteq DOMAIN Type
    BY <1>2 DEF Vanish, TreeInv, Tree
  <2> QED
    BY <2>1, <2>2
<1>3. ASSUME NEW name, StatEntry(name) \/ CheckFile(name)
      PROVE  UNCHANGED <<present, args>>
  BY <1>3 DEF StatEntry, CheckFile, Fail
<1>4. CASE TakeArg \/ ArgsTaken \/ GetFiles
  BY <1>1, <1>4 DEF TakeArg, ArgsTaken, GetFiles, Fail
<1>5. CASE OpenDir \/ CloseDir \/ WalkDone
  BY <1>1, <1>5 DEF OpenDir, CloseDir, WalkDone, Fail
<1>6. CASE NextPath \/ Done \/ UNCHANGED vars
  BY <1>1, <1>6 DEF NextPath, Done, vars
<1> QED
  BY <1>1, <1>2, <1>3, <1>4, <1>5, <1>6 DEF Next, Search

(* In a subdirectory there is at most one link more, and never one twice:  *)
(* that would be a circle (lib/filesystem.lua:61-71).                      *)
LEMMA BudgetChild ==
    ASSUME NothingBeside, FewLinks, TreeInv, WalkInv, SoundInv, Blameless,
           stage = "walk", reading, NEW name \in entries, ~Ignored(name),
           NEW c, c = Child(Head(walk), name), Stat(c) = "dir",
           Waiting(Head(walk)), Budget(Head(walk))
    PROVE  Budget(c)
<1> DEFINE P == DOMAIN Type
           w == Head(walk)
           t == Follow(c)
           l == Child(Here, name)
<1>1. present = P /\ Tree
  BY DEF Blameless, TreeInv
<1>2. t \in DirsOf(present) /\ t \in P /\ Type[t] = "dir" /\ LinkEnds(t) = {}
  BY <1>1, StatHolds, TreeIs DEF StatIs, DirsOf
<1>3. /\ w \in WalkPaths /\ Follow(l) = t /\ Here \in DirsOf(present)
      /\ Lists(present, Here, name)
  BY <1>1, <1>2, EntryStays
<1>4. PICK k, U : /\ U \subseteq DirLinks
                  /\ Leads(w, Here, k) /\ k <= Cardinality(U)
                  /\ \A m \in U : Here \in DirsFromOf(P, Links[m])
  BY DEF Budget, Here
<1>5. w \in Seq(STRING) /\ Here \in P /\ Name(name) /\ l \in P \cup DOMAIN Links
  BY <1>1, <1>3 DEF WalkPaths, Lists, DirsOf
<1>6. k \in Nat /\ k < MaxLinks /\ IsFiniteSet(U) /\ Cardinality(U) \in Nat
      /\ MaxLinks \in Nat
  <2>1. k \in Nat /\ MaxLinks \in Nat
    BY <1>4, TreeAssumption DEF Leads
  <2>2. IsFiniteSet(U) /\ Cardinality(U) \in Nat /\ Cardinality(U) < MaxLinks
    BY <1>4, FewEnough
  <2> QED
    BY <1>4, <2>1, <2>2
<1>7. /\ t = Target(Here, name)
      /\ l \notin DOMAIN Links => Leads(c, t, k)
      /\ l \in DOMAIN Links => Leads(c, t, k + 1)
  BY <1>2, <1>4, <1>5, <1>6, EntryLeads
<1>8. t \in SubdirsOf(P, Here)
  BY <1>1, <1>2, <1>3 DEF SubdirsOf
<1>9. \A m \in U : t \in DirsFromOf(P, Links[m])
  BY <1>4, <1>8, SubdirsBelow
<1> HIDE DEF l, t, P
<1>10. CASE l \notin DOMAIN Links
  BY <1>4, <1>7, <1>9, <1>10 DEF Budget, t, P
<1>11. CASE l \in DOMAIN Links
  <2>1. Links[l] = t
    BY <1>7, <1>11 DEF Target, l
  <2>2. l \in DirLinks
    BY <1>2, <1>11, <2>1 DEF DirLinks, P
  <2>3. l \notin U
    <3> SUFFICES ASSUME l \in U PROVE FALSE
      OBVIOUS
    <3>1. Here \in DirsFromOf(P, t)
      BY <1>4, <2>1
    <3>2. t \in BelowOf(P, t)
      BY <1>8, <3>1, SubdirsBelow
    <3>3. Reached(t)
      <4>1. Reached(Here)
        BY <1>1, <1>3 DEF SoundInv, Here, DirsOf
      <4> QED
        BY <1>1, <1>8, <4>1, ReachedHas
    <3>4. PICK i \in DOMAIN args : /\ Follow(args[i]) \in DirsOf(present)
                                   /\ t \in DirsFromOf(present, Follow(args[i]))
      BY <3>3 DEF Reached
    <3>5. Follow(args[i]) \in P /\ Round(P, Follow(args[i]))
      BY <1>1, <3>2, <3>4 DEF Round, DirsOf
    <3> QED
      BY <3>5 DEF Blameless, NoCircle, P
  <2> DEFINE V == U \cup {l}
  <2>4. V \subseteq DirLinks /\ Cardinality(V) = Cardinality(U) + 1
    BY <1>4, <1>6, <2>2, <2>3, FS_AddElement
  <2>5. \A m \in V : t \in DirsFromOf(P, Links[m])
    BY <1>9, <2>1 DEF DirsFromOf
  <2>6. k + 1 <= Cardinality(V)
    BY <1>4, <1>6, <2>4
  <2> HIDE DEF V
  <2> QED
    BY <1>7, <1>11, <2>4, <2>5, <2>6 DEF Budget, t, P
<1> QED
  BY <1>10, <1>11

LEMMA BudgetInit == Init => BudgetInv
BY DEF Init, BudgetInv, Waiting, ToSet

LEMMA BudgetNext ==
    /\ NothingBeside /\ FewLinks
    /\ TreeInv /\ ArgsInv /\ WalkInv /\ SoundInv /\ BudgetInv
    /\ [Next]_vars
    => BudgetInv'
<1> SUFFICES ASSUME NothingBeside, FewLinks,
                    TreeInv, ArgsInv, WalkInv, SoundInv, BudgetInv,
                    [Next]_vars, Blameless', NEW w, Waiting(w)'
             PROVE  Budget(w)
  BY DEF BudgetInv
<1>1. Blameless /\ UNCHANGED <<present, args>>
  BY BlamelessBack
<1>2. \A v : Waiting(v) => Budget(v)
  BY <1>1 DEF BudgetInv
<1>3. CASE UNCHANGED <<walk, subdirs>>
  BY <1>2, <1>3 DEF Waiting
<1>4. CASE Fail
  BY <1>3, <1>4 DEF Fail, wvars
<1>5. CASE TakeArg \/ ArgsTaken \/ WalkDone \/ NextPath \/ Done \/ UNCHANGED vars
  BY <1>3, <1>4, <1>5 DEF TakeArg, ArgsTaken, WalkDone, NextPath, Done, vars, wvars
<1>6. CASE GetFiles
  <2> DEFINE p == Head(paths)
  <2>1. /\ paths # << >> /\ subdirs' = subdirs
        /\ walk' = walk \/ walk' = <<p>>
    BY <1>6 DEF GetFiles
  <2>2. p \in DOMAIN Type
    BY <2>1 DEF ArgsInv
  <2>3. Follow(p) = p /\ LinkEnds(p) = {} /\ PathName(p)
    BY <2>2, RealPath, TreeIs
  <2> HIDE DEF p
  <2>4. CASE walk' = <<p>>
    <3>1. Waiting(w) \/ w = p
      BY <2>1, <2>4 DEF Waiting, ToSet
    <3>2. Budget(p)
      <4>1. Leads(p, Follow(p), 0)
        BY <2>3, LeadsSelf
      <4>2. {} \subseteq DirLinks /\ 0 <= Cardinality({})
        BY FS_EmptySet
      <4>3. \A l \in {} : Follow(p) \in DirsFromOf(DOMAIN Type, Links[l])
        OBVIOUS
      <4> QED
        BY <4>1, <4>2, <4>3 DEF Budget
    <3> QED
      BY <1>2, <3>1, <3>2
  <2> QED
    BY <1>3, <2>1, <2>4
<1>7. CASE OpenDir /\ ~Fail
  <2>1. walk' = walk /\ subdirs' = << >>
    BY <1>7 DEF OpenDir
  <2>2. ToSet(<< >>) = {}
    BY DEF ToSet
  <2>3. Waiting(w)
    BY <2>1, <2>2 DEF Waiting
  <2> QED
    BY <1>2, <2>3
<1>8. CASE CloseDir
  <2>1. reading /\ walk' = subdirs \o Tail(walk) /\ subdirs' = subdirs
    BY <1>8 DEF CloseDir, Remaining
  <2>2. walk # << >> /\ walk \in Seq(WalkPaths) /\ subdirs \in Seq(WalkPaths)
    BY <2>1 DEF WalkInv
  <2>3. Tail(walk) \in Seq(WalkPaths) /\ \A v : v \in ToSet(Tail(walk)) => v \in ToSet(walk)
    BY <2>2, ToSetHead
  <2>4. \A v : v \in ToSet(walk') <=> v \in ToSet(subdirs) \/ v \in ToSet(Tail(walk))
    BY <2>1, <2>2, <2>3, ToSetConcat
  <2> QED
    BY <1>2, <2>1, <2>3, <2>4 DEF Waiting
<1>9. ASSUME NEW name, StatEntry(name), ~Fail PROVE Budget(w)
  <2> DEFINE c == Child(Head(walk), name)
  <2>1. /\ stage = "walk" /\ reading /\ name \in entries /\ walk' = walk
        /\ subdirs' = IF ~Ignored(name) /\ Stat(c) = "dir"
                      THEN Append(subdirs, c) ELSE subdirs
    BY <1>9 DEF StatEntry
  <2>2. walk # << >> /\ walk \in Seq(WalkPaths)
    BY <2>1 DEF WalkInv
  <2>3. Waiting(Head(walk))
    BY <2>2, ToSetHead DEF Waiting
  <2>4. subdirs \in Seq(WalkPaths \cup {c}) /\ c \in WalkPaths \cup {c}
    BY DEF WalkInv
  <2>5. CASE ~Ignored(name) /\ Stat(c) = "dir"
    <3>1. Budget(c)
      BY <1>1, <1>2, <2>1, <2>3, <2>5, BudgetChild
    <3> HIDE DEF c
    <3>2. subdirs' = Append(subdirs, c)
      BY <2>1, <2>5
    <3>3. w = c \/ Waiting(w)
      BY <2>1, <2>4, <3>2, ToSetAppend DEF Waiting
    <3> QED
      BY <1>2, <3>1, <3>3
  <2>6. CASE ~ (~Ignored(name) /\ Stat(c) = "dir")
    BY <1>3, <2>1, <2>6
  <2> QED
    BY <2>5, <2>6
<1>10. ASSUME NEW name, CheckFile(name) PROVE Budget(w)
  BY <1>3, <1>4, <1>10 DEF CheckFile, wvars
<1>11. ASSUME NEW x, Vanish(x) PROVE Budget(w)
  BY <1>3, <1>11 DEF Vanish, wvars
<1> QED
  BY <1>4, <1>5, <1>6, <1>7, <1>8, <1>9, <1>10, <1>11 DEF Next, Search

(* Without a cause nothing is missing where the search looks, and no       *)
(* pathname has too many links in it (bin/testcase.lua:86-142,             *)
(* lib/filesystem.lua:41-119).                                             *)
LEMMA CauseNext ==
    /\ NothingBeside /\ FewLinks
    /\ TreeInv /\ ArgsInv /\ WalkInv /\ SoundInv /\ BudgetInv /\ CauseInv
    /\ [Next]_vars
    => CauseInv'
<1> SUFFICES ASSUME NothingBeside, FewLinks,
                    TreeInv, ArgsInv, WalkInv, SoundInv, BudgetInv, CauseInv,
                    [Next]_vars, Blameless'
             PROVE  stage' \notin {"failed", "crashed"}
  BY DEF CauseInv
<1>1. Blameless /\ present = DOMAIN Type /\ stage \notin {"failed", "crashed"}
  BY BlamelessBack DEF Blameless, CauseInv
<1>2. StatIs
  BY StatHolds DEF TreeInv
<1>3. CASE TakeArg
  <2> DEFINE k == Len(args) - Len(todo)
  <2>1. todo # << >> /\ todo \in Seq(Seq(STRING)) /\ Len(todo) <= Len(args)
        /\ args \in Seq(Seq(STRING))
    BY <1>3 DEF TakeArg, ArgsInv
  <2>2. /\ Len(todo) \in Nat /\ Len(todo) > 0 /\ Len(args) \in Nat
        /\ DOMAIN args = 1 .. Len(args) /\ Head(todo) = todo[1]
        /\ 1 \in 1 .. Len(todo)
    BY <2>1
  <2>3. Head(todo) = args[k + 1]
    <3>1. todo[1] = args[k + 1]
      BY <2>2 DEF ArgsInv
    <3> QED
      BY <2>2, <3>1
  <2>4. k \in Nat /\ k + 1 \in DOMAIN args /\ \A i \in 1 .. k : i \in DOMAIN args /\ i # k + 1
    BY <2>1, <2>2
  <2>5. \A j \in 1 .. Len(paths) : \E i \in 1 .. k : Follow(args[i]) = paths[j]
    BY DEF ArgsInv
  <2> HIDE DEF k
  <2>6. Resolves(Head(todo))
    BY <1>1, <1>2, <2>3, <2>4 DEF Blameless, StatIs
  <2>7. Follow(Head(todo)) \notin ToSet(paths)
    <3> SUFFICES ASSUME Follow(Head(todo)) \in ToSet(paths) PROVE FALSE
      OBVIOUS
    <3>1. PICK j \in 1 .. Len(paths) : paths[j] = Follow(Head(todo))
      BY ToSetIs DEF ArgsInv
    <3>2. PICK i \in 1 .. k : Follow(args[i]) = Follow(args[k + 1])
      BY <2>3, <2>5, <3>1
    <3> QED
      BY <1>1, <2>4, <3>2 DEF Blameless
  <2> QED
    BY <1>1, <1>3, <2>6, <2>7 DEF TakeArg
<1>4. CASE GetFiles
  <2> DEFINE p == Head(paths)
  <2>1. p \in DOMAIN Type
    BY <1>4 DEF GetFiles, ArgsInv
  <2>2. Follow(p) = p
    BY <2>1, RealPath
  <2>3. Stat(p) # "ENOENT"
    BY <1>1, <1>2, <2>1, <2>2 DEF StatIs
  <2> QED
    BY <1>4, <2>3 DEF GetFiles
<1>5. CASE OpenDir
  <2>1. walk # << >> /\ walk \in Seq(WalkPaths)
    BY <1>5 DEF OpenDir, WalkInv
  <2>2. Head(walk) \in WalkPaths
    BY <2>1, ToSetHead
  <2>3. Stat(Head(walk)) = "dir"
    BY <1>1, <1>2, <2>2 DEF WalkPaths, StatIs, DirsOf
  <2> QED
    BY <1>1, <1>5, <2>3 DEF OpenDir
<1>6. ASSUME NEW name, StatEntry(name) PROVE stage' \notin {"failed", "crashed"}
  <2> DEFINE c == Child(Head(walk), name)
             w == Head(walk)
  <2>1. /\ stage = "walk" /\ reading /\ name \in entries
        /\ LinkEnds(Follow(c)) = {} => stage' = stage
    BY <1>2, <1>6 DEF StatEntry, StatIs
  <2>2. /\ walk # << >> /\ walk \in Seq(WalkPaths) /\ Name(name)
        /\ Child(Here, name) \in DOMAIN Type \cup DOMAIN Links
    BY <2>1 DEF WalkInv
  <2>3. w \in WalkPaths /\ Waiting(w)
    BY <2>2, ToSetHead DEF Waiting
  <2>4. PICK k, U : U \subseteq DirLinks /\ Leads(w, Here, k) /\ k <= Cardinality(U)
    BY <1>1, <2>3 DEF BudgetInv, Budget, Here
  <2>5. k \in Nat /\ k < MaxLinks
    <3>1. k \in Nat /\ MaxLinks \in Nat
      BY <2>4, TreeAssumption DEF Leads
    <3>2. Cardinality(U) \in Nat /\ Cardinality(U) < MaxLinks
      BY <2>4, FewEnough
    <3> QED
      BY <2>4, <3>1, <3>2
  <2>6. w \in Seq(STRING) /\ Here \in DOMAIN Type
    BY <2>3 DEF WalkPaths, Here
  <2>7. /\ LinkEnds(Target(Here, name)) = {} /\ Target(Here, name) \in Seq(STRING)
        /\ \E i : Leads(c, Target(Here, name), i)
    BY <2>2, <2>4, <2>5, <2>6, EntryLeads
  <2>8. Follow(c) = Target(Here, name)
    BY <2>7, LeadsToReal
  <2> QED
    BY <1>1, <2>1, <2>7, <2>8
<1>7. ASSUME NEW name, CheckFile(name) PROVE stage' \notin {"failed", "crashed"}
  <2>1. Follow(name) \in present
    BY <1>1, <1>7 DEF CheckFile, WalkInv
  <2>2. Resolves(name)
    BY <1>2, <2>1 DEF StatIs
  <2> QED
    BY <1>1, <1>7, <2>2 DEF CheckFile
<1>8. CASE ArgsTaken \/ CloseDir \/ WalkDone
  BY <1>1, <1>8 DEF ArgsTaken, CloseDir, WalkDone
<1>9. CASE NextPath \/ Done \/ UNCHANGED vars
  BY <1>1, <1>9 DEF NextPath, Done, vars
<1>10. ASSUME NEW x, Vanish(x) PROVE stage' \notin {"failed", "crashed"}
  BY <1>1, <1>10 DEF Vanish
<1> QED
  BY <1>3, <1>4, <1>5, <1>6, <1>7, <1>8, <1>9, <1>10 DEF Next, Search

(* The search fails only for a pathname that is missing or given twice,    *)
(* for a directory from which links lead round in a circle, or because     *)
(* something was removed while it went on, whatever the tree and the       *)
(* arguments, as long as fewer of its links lead to directories than the   *)
(* kernel follows in one pathname (40 on Linux) and nothing beside the     *)
(* working directory has a name that begins with its name                  *)
(* (bin/testcase.lua:86-142, lib/filesystem.lua:41-119).                   *)
THEOREM FailureHasCauseHolds ==
    ASSUME NothingBeside, FewLinks
    PROVE  Spec => []FailureHasCause
<1> DEFINE IInv == ListsAll /\ BudgetInv /\ CauseInv
<1>1. Init => IInv
  <2>1. Init => CauseInv
    BY DEF Init, CauseInv
  <2> QED
    BY <2>1, ListInit, ShapeInit, SoundInit, CompleteInit, BudgetInit DEF ListsAll
<1>2. IInv /\ [Next]_vars => IInv'
  BY ListsNext, BudgetNext, CauseNext DEF ListsAll
<1>3. IInv => FailureHasCause
  BY CauseShows DEF ListsAll
<1> QED
  BY <1>1, <1>2, <1>3, PTL DEF Spec
===============================================================================
