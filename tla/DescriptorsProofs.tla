-------------------------- MODULE DescriptorsProofs ---------------------------
(***************************************************************************)
(* Theorems about SocketPair, for any number of pairs, any size of the     *)
(* descriptor table and any amount of data, and behind them those about    *)
(* Descriptors, which builds on it: any number of pairs, files and raw     *)
(* closes.                                                                 *)
(***************************************************************************)
EXTENDS Descriptors, FiniteSetTheorems, SequenceTheorems, WellFoundedInduction, TLAPS

-----------------------------------------------------------------------------
(* Ends and free numbers.                                                  *)

(* Each end has one peer.                                                  *)
LEMMA Ends ==
    /\ None \notin End
    /\ \A o \in End : Peer(o) \in End /\ Peer(Peer(o)) = o /\ Peer(o) # o
    /\ \A n \in 1 .. Pairs :
           /\ <<n, 1>> \in End /\ <<n, 2>> \in End /\ <<n, 1>> # <<n, 2>>
           /\ Peer(<<n, 1>>) = <<n, 2>> /\ Peer(<<n, 2>>) = <<n, 1>>
<1>1. None \notin End
  BY SizeAssumption DEF None, End
<1>2. ASSUME NEW o \in End
      PROVE  Peer(o) \in End /\ Peer(Peer(o)) = o /\ Peer(o) # o
  <2>1. PICK n \in 1 .. Pairs, k \in {1, 2} : o = <<n, k>>
    BY DEF End
  <2>2. 3 - k \in {1, 2} /\ 3 - (3 - k) = k /\ 3 - k # k
    BY <2>1
  <2>3. Peer(o) = <<n, 3 - k>>
    BY <2>1 DEF Peer
  <2> QED
    BY <2>1, <2>2, <2>3 DEF Peer, End
<1>3. ASSUME NEW n \in 1 .. Pairs
      PROVE  /\ <<n, 1>> \in End /\ <<n, 2>> \in End /\ <<n, 1>> # <<n, 2>>
             /\ Peer(<<n, 1>>) = <<n, 2>> /\ Peer(<<n, 2>>) = <<n, 1>>
  BY DEF End, Peer
<1> QED
  BY <1>1, <1>2, <1>3

(* A set of numbers that is not empty has its least element.               *)
LEMMA MinIn ==
    ASSUME NEW S \in SUBSET Nat, S # {}
    PROVE  Min(S) \in S
<1>1. PICK x \in S : \A y \in S : ~(<<y, x>> \in OpToRel(<, Nat))
  BY NatLessThanWellFounded, WFMin
<1>2. ASSUME NEW y \in S PROVE x <= y
  <2>1. <<y, x>> \in OpToRel(<, Nat) <=> <<y, x>> \in Nat \X Nat /\ y < x
    BY DEF OpToRel
  <2>2. ~(<<y, x>> \in OpToRel(<, Nat))
    BY <1>1
  <2>3. x \in Nat /\ y \in Nat /\ <<y, x>> \in Nat \X Nat
    OBVIOUS
  <2>4. ~(y < x)
    BY <2>1, <2>2, <2>3, Zenon
  <2> QED
    BY <2>3, <2>4
<1> QED
  BY <1>2 DEF Min

(* Where two numbers are free, the two lowest are two free ones.           *)
LEMMA TwoFree ==
    ASSUME Cardinality(Free) >= 2
    PROVE  /\ Min(Free) \in Free
           /\ Min(Free \ {Min(Free)}) \in Free \ {Min(Free)}
<1>1. Free \subseteq 1 .. Fds /\ Free \subseteq Nat /\ IsFiniteSet(Free)
  <2>1. Free \subseteq 1 .. Fds
    BY DEF Free
  <2>2. IsFiniteSet(1 .. Fds)
    BY SizeAssumption, FS_Interval
  <2>3. 1 .. Fds \subseteq Nat
    OBVIOUS
  <2> QED
    BY <2>1, <2>2, <2>3, FS_Subset
<1>2. Free # {} /\ Cardinality(Free) \in Nat
  BY <1>1, FS_EmptySet, FS_CardinalityType
<1>3. Min(Free) \in Free
  BY <1>1, <1>2, MinIn
<1>4. /\ Cardinality(Free \ {Min(Free)}) = Cardinality(Free) - 1
      /\ IsFiniteSet(Free \ {Min(Free)})
  BY <1>1, <1>3, FS_RemoveElement
<1>5. Cardinality(Free \ {Min(Free)}) # 0
  BY <1>2, <1>4
<1>6. Free \ {Min(Free)} # {}
  BY <1>5, FS_EmptySet
<1>7. Free \ {Min(Free)} \in SUBSET Nat
  BY <1>1
<1> QED
  BY <1>3, <1>6, <1>7, MinIn

-----------------------------------------------------------------------------
(* Who works on which socket.                                              *)

Types ==
    /\ table \in [1 .. Fds -> End \cup {None}]
    /\ object \in [End -> {"unmade", "alive", "collected"}]
    /\ fd \in [End -> {-1} \cup 1 .. Fds]

\* Both objects of a pair are made in one call.
Paired == \A o \in End : object[o] = "unmade" <=> object[Peer(o)] = "unmade"

\* An open number is the number in the object of its socket.
Owned == \A f \in 1 .. Fds :
             table[f] \in End => Alive(table[f]) /\ fd[table[f]] = f

\* An object that has a number has its own.
Owns == \A o \in End : Alive(o) /\ fd[o] # -1 => Socket(o) = o

OwnInv == Types /\ Paired /\ Owned /\ Owns

(* A state of the table in which everything is owned is as it should be.   *)
LEMMA OwnedIsOwn == OwnInv => OwnSocket
<1> SUFFICES ASSUME OwnInv PROVE OwnSocket
  OBVIOUS
<1>1. \A e \in End : IsOpen(e) => Alive(e) /\ fd[e] # -1
  BY DEF OwnInv, Owned, IsOpen, Types
<1> QED
  BY <1>1 DEF OwnInv, Owns, OwnSocket

(* An object that works works on its own socket, which is open.            *)
LEMMA WorksOnOwn ==
    ASSUME OwnInv, NEW o \in End, Works(o)
    PROVE  Socket(o) = o /\ IsOpen(o) /\ Alive(o) /\ fd[o] \in 1 .. Fds
<1>1. Alive(o) /\ Socket(o) \in End
  BY DEF Works
<1>2. fd[o] # -1
  BY <1>1, Ends DEF Socket
<1>3. Socket(o) = o /\ fd[o] \in 1 .. Fds
  BY <1>1, <1>2 DEF OwnInv, Owns, Types
<1> QED
  BY <1>1, <1>2, <1>3 DEF Socket, IsOpen

(* The table, the objects and their numbers after socketpair().            *)
LEMMA Made ==
    ASSUME OwnInv, NEW n \in 1 .. Pairs, NEW b, New(n, b)
    PROVE  \E f1, f2 \in 1 .. Fds :
               /\ f1 # f2 /\ table[f1] = None /\ table[f2] = None
               /\ object[<<n, 1>>] = "unmade" /\ object[<<n, 2>>] = "unmade"
               /\ table' = [table EXCEPT ![f1] = <<n, 1>>, ![f2] = <<n, 2>>]
               /\ object' = [object EXCEPT ![<<n, 1>>] = "alive", ![<<n, 2>>] = "alive"]
               /\ fd' = [fd EXCEPT ![<<n, 1>>] = f1, ![<<n, 2>>] = f2]
<1> DEFINE f1 == Min(Free)
           f2 == Min(Free \ {f1})
<1>1. f1 \in Free /\ f2 \in Free \ {f1}
  BY TwoFree DEF New
<1>2. object[<<n, 2>>] = "unmade"
  BY Ends DEF New, OwnInv, Paired
<1>3. /\ f1 \in 1 .. Fds /\ f2 \in 1 .. Fds
      /\ f1 # f2 /\ table[f1] = None /\ table[f2] = None
  BY <1>1 DEF Free
<1> QED
  BY <1>2, <1>3 DEF New

(* A number is closed by its owner, or an object without one goes.         *)
LEMMA Closed ==
    ASSUME OwnInv, NEW o \in End, Alive(o), CloseFd(o),
           \/ object' = object /\ fd' = [fd EXCEPT ![o] = -1]
           \/ object' = [object EXCEPT ![o] = "collected"] /\ fd' = fd
    PROVE  /\ OwnInv'
           /\ \A e \in End : IsOpen(e)' <=> IsOpen(e) /\ e # o
<1>1. table' = [f \in 1 .. Fds |-> IF table[f] = o THEN None ELSE table[f]]
  <2>1. CASE fd[o] = -1
    <3>1. \A f \in 1 .. Fds : table[f] # o
      BY <2>1 DEF OwnInv, Owned, Types
    <3>2. table' = table
      BY <2>1 DEF CloseFd, Socket
    <3> QED
      BY <3>1, <3>2 DEF OwnInv, Types
  <2>2. CASE fd[o] # -1
    <3>1. fd[o] \in 1 .. Fds /\ table[fd[o]] = o /\ Socket(o) = o
      BY <2>2 DEF OwnInv, Owns, Types, Socket
    <3>2. table' = [table EXCEPT ![fd[o]] = None]
      BY <3>1, Ends DEF CloseFd, CloseNumber
    <3>3. \A f \in 1 .. Fds : table[f] = o => f = fd[o]
      BY DEF OwnInv, Owned
    <3> QED
      BY <3>1, <3>2, <3>3 DEF OwnInv, Types
  <2> QED
    BY <2>1, <2>2
<1>2. Types'
  BY <1>1 DEF OwnInv, Types
<1>3. Paired'
  BY Ends DEF OwnInv, Types, Paired, Alive
<1>4. Owned'
  BY <1>1, Ends DEF OwnInv, Types, Owned, Alive
<1>5. Owns'
  BY <1>1, <1>2 DEF OwnInv, Types, Owns, Alive, Socket
<1>6. \A e \in End : IsOpen(e)' <=> IsOpen(e) /\ e # o
  BY <1>1, Ends DEF IsOpen
<1> QED
  BY <1>2, <1>3, <1>4, <1>5, <1>6 DEF OwnInv

(* Nothing is owned in the beginning.                                      *)
LEMMA OwnInit == Init => OwnInv
  BY Ends DEF Init, OwnInv, Types, Paired, Owned, Owns, Alive, Socket

(* A step that leaves the table, the objects and their numbers alone.      *)
LEMMA Untouched ==
    ASSUME OwnInv, UNCHANGED <<table, object, fd>>
    PROVE  OwnInv' /\ \A e \in End : IsOpen(e)' <=> IsOpen(e)
  BY DEF OwnInv, Types, Paired, Owned, Owns, Alive, Socket, IsOpen

(* socketpair() gives both objects numbers of their own.                   *)
LEMMA NewOK ==
    ASSUME OwnInv, NEW n \in 1 .. Pairs, NEW b, New(n, b)
    PROVE  /\ OwnInv'
           /\ object[<<n, 1>>] = "unmade" /\ object[<<n, 2>>] = "unmade"
           /\ \A e \in End : IsOpen(e)' <=> IsOpen(e) \/ e \in {<<n, 1>>, <<n, 2>>}
           /\ object' = [object EXCEPT ![<<n, 1>>] = "alive", ![<<n, 2>>] = "alive"]
<1> DEFINE o1 == <<n, 1>>
           o2 == <<n, 2>>
<1>0. o1 \in End /\ o2 \in End /\ o1 # o2 /\ Peer(o1) = o2 /\ Peer(o2) = o1
  BY Ends
<1>1. PICK f1 \in 1 .. Fds, f2 \in 1 .. Fds :
          /\ f1 # f2 /\ table[f1] = None /\ table[f2] = None
          /\ object[o1] = "unmade" /\ object[o2] = "unmade"
          /\ table' = [table EXCEPT ![f1] = o1, ![f2] = o2]
          /\ object' = [object EXCEPT ![o1] = "alive", ![o2] = "alive"]
          /\ fd' = [fd EXCEPT ![o1] = f1, ![o2] = f2]
  BY Made
<1> HIDE DEF o1, o2
<1>2. \A f \in 1 .. Fds : table[f] # o1 /\ table[f] # o2
  BY <1>0, <1>1 DEF OwnInv, Owned, Alive
<1>3. Types'
  BY <1>0, <1>1 DEF OwnInv, Types
<1>4. Paired'
  <2> SUFFICES ASSUME NEW o \in End
               PROVE  object'[o] = "unmade" <=> object'[Peer(o)] = "unmade"
    BY DEF Paired
  <2>1. CASE o \in {o1, o2}
    BY <1>0, <1>1, <2>1 DEF OwnInv, Types
  <2>2. CASE o \notin {o1, o2}
    <3>1. Peer(o) \in End /\ Peer(o) \notin {o1, o2}
      BY <1>0, <2>2, Ends
    <3> QED
      BY <1>0, <1>1, <2>2, <3>1 DEF OwnInv, Types, Paired
  <2> QED
    BY <2>1, <2>2
<1>5. Owned'
  <2> SUFFICES ASSUME NEW f \in 1 .. Fds, table'[f] \in End
               PROVE  object'[table'[f]] = "alive" /\ fd'[table'[f]] = f
    BY DEF Owned, Alive
  <2>1. CASE f \in {f1, f2}
    BY <1>0, <1>1, <2>1 DEF OwnInv, Types
  <2>2. CASE f \notin {f1, f2}
    <3>1. table'[f] = table[f] /\ table[f] \in End \ {o1, o2}
      BY <1>1, <1>2, <2>2 DEF OwnInv, Types
    <3> QED
      BY <1>0, <1>1, <3>1 DEF OwnInv, Types, Owned, Alive
  <2> QED
    BY <2>1, <2>2
<1>6. Owns'
  <2> SUFFICES ASSUME NEW o \in End, object'[o] = "alive", fd'[o] # -1
               PROVE  table'[fd'[o]] = o
    BY DEF Owns, Alive, Socket
  <2>1. CASE o \in {o1, o2}
    BY <1>0, <1>1, <2>1 DEF OwnInv, Types
  <2>2. CASE o \notin {o1, o2}
    <3>1. Alive(o) /\ fd'[o] = fd[o] /\ fd[o] \in 1 .. Fds /\ table[fd[o]] = o
      BY <1>0, <1>1, <2>2 DEF OwnInv, Types, Owns, Alive, Socket
    <3> QED
      BY <1>1, <3>1, Ends DEF OwnInv, Types
  <2> QED
    BY <2>1, <2>2
<1>7. ASSUME NEW e \in End PROVE IsOpen(e)' <=> IsOpen(e) \/ e \in {o1, o2}
  BY <1>0, <1>1, <1>2, Ends DEF OwnInv, Types, IsOpen
<1> QED
  BY <1>1, <1>3, <1>4, <1>5, <1>6, <1>7 DEF OwnInv, o1, o2

(* Every step keeps the owners.                                            *)
LEMMA OwnNext == OwnInv /\ [Next]_vars => OwnInv'
<1> SUFFICES ASSUME OwnInv, [Next]_vars PROVE OwnInv'
  OBVIOUS
<1>1. ASSUME NEW n \in 1 .. Pairs, NEW b \in Modes, New(n, b) PROVE OwnInv'
  BY <1>1, NewOK
<1>2. ASSUME NEW o \in End, Close(o) PROVE OwnInv'
  BY <1>2, Closed DEF Close, FdAfterClose
<1>3. ASSUME NEW o \in End, Collect(o) PROVE OwnInv'
  BY <1>3, Closed DEF Collect
<1>4. ASSUME NEW o \in End, Write(o) \/ Read(o) \/ ReadEnd(o) PROVE OwnInv'
  BY <1>4, Untouched DEF Write, Read, ReadEnd
<1>5. ASSUME NEW e, NEW how, ShutdownSocket(e, how) PROVE OwnInv'
  BY <1>5, Untouched DEF ShutdownSocket
<1>6. ASSUME NEW o \in End, NEW b \in Modes, SetNonblock(o, b) PROVE OwnInv'
  BY <1>6, Untouched DEF SetNonblock
<1>7. ASSUME NEW o \in End, NEW size \in Sizes, RecvBuf(o, size) \/ SendBuf(o, size)
      PROVE  OwnInv'
  BY <1>7, Untouched DEF RecvBuf, SendBuf
<1>8. CASE UNCHANGED vars
  BY <1>8, Untouched DEF vars
<1> QED
  BY <1>1, <1>2, <1>3, <1>4, <1>5, <1>6, <1>7, <1>8 DEF Next, Shutdown, ShutdownFd

(* A descriptor is open exactly as long as its object is alive and was not *)
(* closed, and an object never works on the socket of another              *)
(* (src/socketpair.c:109-118, 222-230).                                    *)
THEOREM OwnSocketHolds == Spec => []OwnSocket
<1>1. OwnInv /\ [Next]_vars => OwnInv'
  BY OwnNext
<1> QED
  BY OwnInit, <1>1, OwnedIsOwn, PTL DEF Spec

-----------------------------------------------------------------------------
(* What is read.                                                           *)

Chunk == End \X Nat

DataTypes ==
    /\ queue \in [End -> Seq(Chunk)]
    /\ got \in [End -> Seq(Chunk)]
    /\ sent \in [End -> Nat]
    /\ ended \in [End -> BOOLEAN]
    /\ norecv \in [End -> BOOLEAN]
    /\ nosend \in [End -> BOOLEAN]

\* What was read from e, and behind it what waits there, is what its peer wrote.
InOrder(e) ==
    /\ \A i \in 1 .. Len(got[e]) : got[e][i] = <<Peer(e), i>>
    /\ \A i \in 1 .. Len(queue[e]) : queue[e][i] = <<Peer(e), Len(got[e]) + i>>

\* As long as a socket is open nothing is missing.
Complete(e) ==
    /\ Len(got[e]) + Len(queue[e]) <= sent[Peer(e)]
    /\ IsOpen(e) => Len(got[e]) + Len(queue[e]) = sent[Peer(e)]

\* Nothing was written to or read from what was not made.
Blank(e) ==
    object[e] = "unmade" => got[e] = << >> /\ queue[e] = << >> /\ sent[e] = 0 /\ ~ended[e]

\* Where the end was read nothing more comes.
Over(e) == ended[e] => queue[e] = << >> /\ (IsOpen(e) => AtEnd(e))

DataInv ==
    DataTypes /\ \A e \in End : InOrder(e) /\ Complete(e) /\ Blank(e) /\ Over(e)

(* The lengths in the data are numbers.                                    *)
LEMMA Lengths ==
    ASSUME DataTypes, NEW e \in End
    PROVE  /\ Len(got[e]) \in Nat /\ Len(queue[e]) \in Nat
           /\ sent[e] \in Nat /\ sent[Peer(e)] \in Nat
  BY Ends, LenProperties DEF DataTypes

(* Sums, for lengths that the provers do not see as numbers.               *)
LEMMA Sums ==
    /\ \A a, b \in Nat : (a + b) + 1 = a + (b + 1) /\ (a + 1) + b = a + (b + 1)
    /\ \A a, b, c, s \in Nat : a + b <= s /\ c <= b => a + c <= s
  OBVIOUS

(* A step that changes nothing of the data of an end and its peer.         *)
LEMMA Quiet ==
    ASSUME DataInv, NEW e \in End,
           got'[e] = got[e], queue'[e] = queue[e],
           sent'[e] = sent[e], sent'[Peer(e)] = sent[Peer(e)],
           ended'[e] = ended[e],
           object'[e] = "unmade" => object[e] = "unmade",
           IsOpen(e)' <=> IsOpen(e),
           IsOpen(Peer(e))' => IsOpen(Peer(e)),
           norecv[e] => norecv'[e], nosend[Peer(e)] => nosend'[Peer(e)] \/ ~IsOpen(Peer(e))'
    PROVE  InOrder(e)' /\ Complete(e)' /\ Blank(e)' /\ Over(e)'
<1>1. InOrder(e) /\ Complete(e) /\ Blank(e) /\ Over(e)
  BY DEF DataInv
<1>2. InOrder(e)'
  BY <1>1 DEF InOrder
<1>3. Complete(e)'
  BY <1>1 DEF Complete
<1>4. Blank(e)'
  BY <1>1 DEF Blank
<1>5. Over(e)'
  BY <1>1 DEF Over, AtEnd
<1> QED
  BY <1>2, <1>3, <1>4, <1>5

(* No data is there in the beginning.                                      *)
LEMMA DataInit == Init => DataInv
<1> SUFFICES ASSUME Init PROVE DataInv
  OBVIOUS
<1>1. DataTypes
  BY EmptySeq DEF Init, DataTypes
<1>2. \A e \in End : InOrder(e) /\ Complete(e) /\ Blank(e) /\ Over(e)
  BY Ends, EmptySeq DEF Init, InOrder, Complete, Blank, Over
<1> QED
  BY <1>1, <1>2 DEF DataInv

(* A socket that is closed loses what waits there; others lose nothing.    *)
LEMMA ClosedData ==
    ASSUME OwnInv, DataTypes, NEW o \in End, Alive(o), CloseFd(o)
    PROVE  /\ queue' \in [End -> Seq(Chunk)]
           /\ norecv' \in [End -> BOOLEAN] /\ nosend' \in [End -> BOOLEAN]
           /\ queue'[o] = << >> \/ queue'[o] = queue[o]
           /\ \A e \in End \ {o} : /\ queue'[e] = queue[e]
                                   /\ norecv'[e] = norecv[e] /\ nosend'[e] = nosend[e]
<1>1. CASE Socket(o) = None
  BY <1>1 DEF CloseFd, DataTypes
<1>2. CASE Socket(o) # None
  <2>1. fd[o] # -1 /\ table[fd[o]] = o
    BY <1>2 DEF Socket, OwnInv, Owns
  <2>2. /\ queue' = [e \in End |-> IF e = o THEN << >> ELSE queue[e]]
        /\ norecv' = [e \in End |-> e # o /\ norecv[e]]
        /\ nosend' = [e \in End |-> e # o /\ nosend[e]]
    BY <1>2, <2>1 DEF CloseFd, CloseNumber
  <2>3. << >> \in Seq(Chunk)
    BY EmptySeq
  <2>4. queue' \in [End -> Seq(Chunk)]
    BY <2>2, <2>3 DEF DataTypes
  <2>5. norecv' \in [End -> BOOLEAN] /\ nosend' \in [End -> BOOLEAN]
    BY <2>2
  <2>6. \A e \in End \ {o} : /\ queue'[e] = queue[e]
                             /\ norecv'[e] = norecv[e] /\ nosend'[e] = nosend[e]
    BY <2>2 DEF DataTypes
  <2> QED
    BY <2>2, <2>4, <2>5, <2>6
<1> QED
  BY <1>1, <1>2

(* close() and the finalizer.                                              *)
LEMMA CloseKeepsData ==
    ASSUME OwnInv, DataInv, NEW o \in End, Close(o) \/ Collect(o)
    PROVE  DataInv'
<1>1. /\ Alive(o) /\ CloseFd(o) /\ UNCHANGED <<got, sent, ended>>
      /\ \/ object' = object /\ fd' = [fd EXCEPT ![o] = -1]
         \/ object' = [object EXCEPT ![o] = "collected"] /\ fd' = fd
  BY DEF Close, Collect, FdAfterClose
<1>2. \A e \in End : IsOpen(e)' <=> IsOpen(e) /\ e # o
  BY <1>1, Closed
<1>3. /\ DataTypes'
      /\ queue'[o] = << >> \/ queue'[o] = queue[o]
      /\ \A e \in End \ {o} : /\ queue'[e] = queue[e]
                              /\ norecv'[e] = norecv[e] /\ nosend'[e] = nosend[e]
  BY <1>1, ClosedData DEF DataInv, DataTypes
<1>4. \A e \in End : object'[e] = "unmade" => object[e] = "unmade"
  BY <1>1 DEF OwnInv, Types
<1>5. ASSUME NEW e \in End
      PROVE  InOrder(e)' /\ Complete(e)' /\ Blank(e)' /\ Over(e)'
  <2>1. CASE e # o
    <3>1. Peer(e) \in End
      BY Ends
    <3>2. /\ IsOpen(e)' <=> IsOpen(e)
          /\ IsOpen(Peer(e))' => IsOpen(Peer(e))
      BY <1>2, <2>1, <3>1
    <3>3. nosend[Peer(e)] => nosend'[Peer(e)] \/ ~IsOpen(Peer(e))'
      BY <1>2, <1>3, <3>1
    <3>4. /\ got'[e] = got[e] /\ queue'[e] = queue[e] /\ ended'[e] = ended[e]
          /\ sent'[e] = sent[e] /\ sent'[Peer(e)] = sent[Peer(e)]
          /\ norecv[e] => norecv'[e]
      BY <1>1, <1>3, <2>1
    <3> QED
      BY <1>4, <3>2, <3>3, <3>4, Quiet
  <2>2. CASE e = o
    <3>1. InOrder(e) /\ Complete(e) /\ Over(e) /\ object[e] # "unmade"
      BY <1>1, <2>2 DEF DataInv, Alive
    <3>2. Len(got[e]) \in Nat /\ Len(queue[e]) \in Nat /\ sent[Peer(e)] \in Nat
      BY Lengths DEF DataInv
    <3>3. ~IsOpen(e)'
      BY <1>2, <2>2
    <3>4. Blank(e)' /\ Over(e)'
      BY <1>1, <1>3, <1>4, <2>2, <3>1, <3>3 DEF Blank, Over
    <3>5. /\ got'[e] = got[e] /\ sent'[Peer(e)] = sent[Peer(e)]
          /\ queue'[e] = queue[e] \/ queue'[e] = << >>
      BY <1>1, <1>3, <2>2
    <3>6. Len(queue'[e]) \in Nat /\ Len(queue'[e]) <= Len(queue[e])
      BY <3>2, <3>5, EmptySeq, LenProperties
    <3>7. ASSUME NEW i \in 1 .. Len(queue'[e])
          PROVE  queue'[e][i] = <<Peer(e), Len(got[e]) + i>>
      <4>1. CASE queue'[e] = queue[e]
        BY <3>1, <4>1 DEF InOrder
      <4>2. CASE queue'[e] = << >>
        <5>1. Len(queue'[e]) = 0
          BY <4>2, EmptySeq
        <5> QED
          BY <5>1
      <4> QED
        BY <3>5, <4>1, <4>2
    <3>8. InOrder(e)'
      BY <3>1, <3>5, <3>7 DEF InOrder
    <3>9. Complete(e)'
      <4>1. Len(got[e]) + Len(queue'[e]) <= sent[Peer(e)]
        BY <3>1, <3>2, <3>6, Sums, Zenon DEF Complete
      <4> QED
        BY <3>3, <3>5, <4>1 DEF Complete
    <3> QED
      BY <3>4, <3>8, <3>9
  <2> QED
    BY <2>1, <2>2
<1> QED
  BY <1>3, <1>5 DEF DataInv

(* socketpair()                                                            *)
LEMMA NewKeepsData ==
    ASSUME OwnInv, DataInv, NEW n \in 1 .. Pairs, NEW b, New(n, b)
    PROVE  DataInv'
<1>1. /\ object[<<n, 1>>] = "unmade" /\ object[<<n, 2>>] = "unmade"
      /\ \A e \in End : IsOpen(e)' <=> IsOpen(e) \/ e \in {<<n, 1>>, <<n, 2>>}
      /\ object' = [object EXCEPT ![<<n, 1>>] = "alive", ![<<n, 2>>] = "alive"]
  BY NewOK
<1>2. UNCHANGED <<queue, got, sent, ended, norecv, nosend>>
  BY DEF New, data
<1>3. DataTypes'
  BY <1>2 DEF DataInv, DataTypes
<1>4. ASSUME NEW e \in End
      PROVE  InOrder(e)' /\ Complete(e)' /\ Blank(e)' /\ Over(e)'
  <2>1. object'[e] = "unmade" => object[e] = "unmade"
    BY <1>1 DEF OwnInv, Types
  <2>2. CASE e \in {<<n, 1>>, <<n, 2>>}
    <3>1. /\ Peer(e) \in End /\ object[e] = "unmade" /\ object[Peer(e)] = "unmade"
          /\ object'[e] = "alive"
      BY <1>1, <2>2, Ends DEF OwnInv, Types
    <3>2. /\ got[e] = << >> /\ queue[e] = << >> /\ ~ended[e] /\ sent[Peer(e)] = 0
      BY <3>1 DEF DataInv, Blank
    <3>3. InOrder(e)' /\ Complete(e)'
      BY <1>2, <3>2 DEF InOrder, Complete
    <3>4. Blank(e)' /\ Over(e)'
      BY <1>2, <3>1, <3>2 DEF Blank, Over
    <3> QED
      BY <3>3, <3>4
  <2>3. CASE e \notin {<<n, 1>>, <<n, 2>>}
    <3>1. Peer(e) \in End \ {<<n, 1>>, <<n, 2>>}
      BY <2>3, Ends
    <3>2. (IsOpen(e)' <=> IsOpen(e)) /\ (IsOpen(Peer(e))' => IsOpen(Peer(e)))
      BY <1>1, <2>3, <3>1
    <3> QED
      BY <1>2, <2>1, <3>2, Quiet
  <2> QED
    BY <2>2, <2>3
<1> QED
  BY <1>3, <1>4 DEF DataInv

(* write() puts its chunk behind what waits at the peer.                   *)
LEMMA WriteKeepsData ==
    ASSUME OwnInv, DataInv, NEW o \in End, Write(o)
    PROVE  DataInv'
<1> DEFINE p == Peer(o)
           c == <<o, sent[o] + 1>>
<1>0. p \in End /\ Peer(p) = o /\ p # o
  BY Ends
<1>1. Socket(o) = o /\ IsOpen(o) /\ Alive(o)
  BY WorksOnOwn DEF Write
<1>2. /\ ~nosend[o] /\ ~norecv[p] /\ IsOpen(p)
      /\ queue' = [queue EXCEPT ![p] = Append(@, c)]
      /\ sent' = [sent EXCEPT ![o] = @ + 1]
      /\ UNCHANGED <<table, object, fd, norecv, nosend, got, ended>>
  BY <1>1 DEF Write, Broken, modes
<1> HIDE DEF p
<1>3. DataTypes
  BY DEF DataInv
<1>4. c \in Chunk /\ queue[p] \in Seq(Chunk) /\ sent[o] \in Nat
  BY <1>0, <1>3 DEF DataTypes, Chunk
<1>5. /\ Append(queue[p], c) \in Seq(Chunk)
      /\ Len(Append(queue[p], c)) = Len(queue[p]) + 1
      /\ \A i \in 1 .. Len(queue[p]) : Append(queue[p], c)[i] = queue[p][i]
      /\ Append(queue[p], c)[Len(queue[p]) + 1] = c
  BY <1>4, AppendProperties
<1>6. DataTypes'
  BY <1>0, <1>2, <1>3, <1>4, <1>5 DEF DataTypes
<1>7. \A e \in End : IsOpen(e)' <=> IsOpen(e)
  BY <1>2 DEF IsOpen
<1>8. ASSUME NEW e \in End
      PROVE  InOrder(e)' /\ Complete(e)' /\ Blank(e)' /\ Over(e)'
  <2>0. Peer(e) \in End /\ Peer(Peer(e)) = e
    BY Ends
  <2>1. CASE e = p
    <3>1. InOrder(p) /\ Complete(p) /\ Blank(p) /\ Over(p)
      BY <1>0 DEF DataInv
    <3>2. /\ Len(got[p]) \in Nat /\ Len(queue[p]) \in Nat
          /\ Len(got[p]) + Len(queue[p]) = sent[o]
      BY <1>0, <1>2, <1>3, <3>1, Lengths DEF Complete
    <3>3. /\ queue'[p] = Append(queue[p], c) /\ sent'[o] = sent[o] + 1 /\ got'[p] = got[p]
      BY <1>0, <1>2, <1>3 DEF DataTypes
    <3>10. Len(queue'[p]) = Len(queue[p]) + 1
      BY <1>5, <3>3
    <3>4. InOrder(p)'
      <4>1. ASSUME NEW i \in 1 .. Len(queue'[p])
            PROVE  queue'[p][i] = <<Peer(p), Len(got'[p]) + i>>
        <5>1. CASE i \in 1 .. Len(queue[p])
          BY <1>5, <3>1, <3>3, <5>1 DEF InOrder
        <5>2. CASE i = Len(queue[p]) + 1
          <6>1. queue'[p][i] = <<o, sent[o] + 1>>
            BY <1>5, <3>3, <5>2
          <6>2. sent[o] + 1 = Len(got[p]) + i
            BY <3>2, <5>2, Sums, Zenon
          <6> QED
            BY <1>0, <3>3, <6>1, <6>2
        <5>3. i \in 1 .. Len(queue[p]) + 1
          BY <3>10
        <5> QED
          BY <3>2, <5>1, <5>2, <5>3
      <4> QED
        BY <3>1, <3>3, <4>1 DEF InOrder
    <3>5. Complete(p)'
      <4>1. Len(got'[p]) + Len(queue'[p]) = sent'[Peer(p)]
        <5>1. Len(got'[p]) + Len(queue'[p]) = Len(got[p]) + (Len(queue[p]) + 1)
          BY <3>3, <3>10, Zenon
        <5>2. sent'[Peer(p)] = (Len(got[p]) + Len(queue[p])) + 1
          BY <1>0, <3>2, <3>3, Zenon
        <5> QED
          BY <3>2, <5>1, <5>2, Sums, Zenon
      <4>2. sent'[Peer(p)] \in Nat
        BY <1>0, <1>4, <3>3
      <4>3. \A n, s \in Nat : n = s => n <= s
        OBVIOUS
      <4> QED
        BY <4>1, <4>2, <4>3 DEF Complete
    <3>6. object[p] # "unmade"
      BY <1>0, <1>1 DEF OwnInv, Paired, Alive
    <3>7. Blank(p)'
      BY <1>2, <3>6 DEF Blank
    <3>8. ~ended[p]
      BY <1>0, <1>1, <1>2, <3>1 DEF Over, AtEnd
    <3>9. Over(p)'
      BY <1>2, <3>8 DEF Over
    <3> QED
      BY <2>1, <3>4, <3>5, <3>7, <3>9
  <2>2. CASE e # p
    <3>1. Peer(e) # o
      BY <1>0, <2>0, <2>2 DEF p
    <3>2. InOrder(e) /\ Complete(e) /\ Blank(e) /\ Over(e)
      BY DEF DataInv
    <3>3. /\ queue'[e] = queue[e] /\ got'[e] = got[e] /\ ended'[e] = ended[e]
          /\ sent'[Peer(e)] = sent[Peer(e)] /\ object'[e] = object[e]
          /\ norecv'[e] = norecv[e] /\ nosend'[Peer(e)] = nosend[Peer(e)]
      BY <1>2, <1>3, <2>0, <2>2, <3>1 DEF DataTypes
    <3>4. InOrder(e)' /\ Complete(e)'
      BY <1>7, <3>2, <3>3 DEF InOrder, Complete
    <3>5. Over(e)'
      BY <1>7, <2>0, <3>2, <3>3 DEF Over, AtEnd
    <3>6. Blank(e)'
      <4>1. object'[e] = "unmade" => e # o /\ sent'[e] = sent[e]
        BY <1>1, <1>2, <1>3, <3>3 DEF Alive, DataTypes
      <4> QED
        BY <3>2, <3>3, <4>1 DEF Blank
    <3> QED
      BY <3>4, <3>5, <3>6
  <2> QED
    BY <2>1, <2>2
<1> QED
  BY <1>6, <1>8 DEF DataInv

(* read() takes the chunk that waits first.                                *)
LEMMA ReadKeepsData ==
    ASSUME OwnInv, DataInv, NEW o \in End, Read(o)
    PROVE  DataInv'
<1> DEFINE q == queue[o]
           c == Head(q)
<1>1. Socket(o) = o /\ Alive(o)
  BY WorksOnOwn DEF Read
<1>2. /\ q # << >>
      /\ got' = [got EXCEPT ![o] = Append(@, c)]
      /\ queue' = [queue EXCEPT ![o] = Tail(@)]
      /\ UNCHANGED <<table, object, fd, norecv, nosend, sent, ended>>
  BY <1>1 DEF Read, modes
<1>3. DataTypes
  BY DEF DataInv
<1>4. q \in Seq(Chunk) /\ got[o] \in Seq(Chunk) /\ Len(q) \in Nat /\ Len(got[o]) \in Nat
  BY <1>3, LenProperties DEF DataTypes
<1>5. /\ c \in Chunk /\ Tail(q) \in Seq(Chunk) /\ c = q[1]
      /\ Len(Tail(q)) = Len(q) - 1 /\ Len(q) - 1 \in Nat /\ Len(q) # 0
      /\ \A i \in 1 .. Len(Tail(q)) : Tail(q)[i] = q[i + 1]
  BY <1>2, <1>4, EmptySeq, HeadTailProperties
<1>6. /\ Append(got[o], c) \in Seq(Chunk)
      /\ Len(Append(got[o], c)) = Len(got[o]) + 1
      /\ \A i \in 1 .. Len(got[o]) : Append(got[o], c)[i] = got[o][i]
      /\ Append(got[o], c)[Len(got[o]) + 1] = c
  BY <1>4, <1>5, AppendProperties
<1>7. DataTypes'
  BY <1>2, <1>3, <1>5, <1>6 DEF DataTypes
<1>8. \A e \in End : IsOpen(e)' <=> IsOpen(e)
  BY <1>2 DEF IsOpen
<1>9. ASSUME NEW e \in End
      PROVE  InOrder(e)' /\ Complete(e)' /\ Blank(e)' /\ Over(e)'
  <2>1. CASE e # o
    <3>1. /\ got'[e] = got[e] /\ queue'[e] = queue[e]
          /\ sent' = sent /\ ended' = ended /\ object' = object
          /\ norecv' = norecv /\ nosend' = nosend
      BY <1>2, <1>3, <2>1 DEF DataTypes
    <3>2. Peer(e) \in End
      BY Ends
    <3> QED
      BY <1>8, <3>1, <3>2, Quiet
  <2>2. CASE e = o
    <3>1. InOrder(o) /\ Complete(o) /\ Over(o)
      BY DEF DataInv
    <3>2. /\ got'[o] = Append(got[o], c) /\ queue'[o] = Tail(q)
          /\ sent' = sent /\ ended' = ended /\ object' = object
      BY <1>2, <1>3 DEF DataTypes
    <3> DEFINE g == Len(got[o])
               n == Len(q)
    <3>3. g \in Nat /\ n \in Nat /\ n - 1 \in Nat /\ n # 0
      BY <1>4, <1>5
    <3>4. Len(got'[o]) = g + 1 /\ Len(queue'[o]) = n - 1
      BY <1>5, <1>6, <3>2
    <3>5. /\ \A i \in 1 .. g : got[o][i] = <<Peer(o), i>>
          /\ \A i \in 1 .. n : q[i] = <<Peer(o), g + i>>
          /\ \A i \in 1 .. n - 1 : Tail(q)[i] = q[i + 1]
      BY <1>5, <3>1 DEF InOrder
    <3>6. InOrder(o)'
      <4>1. c = <<Peer(o), g + 1>>
        <5> HIDE DEF g, n
        <5>1. 1 \in 1 .. n
          BY <3>3
        <5> QED
          BY <1>5, <3>5, <5>1
      <4>2. /\ \A i \in 1 .. g : Append(got[o], c)[i] = got[o][i]
            /\ Append(got[o], c)[g + 1] = c
        BY <1>6
      <4>3. ASSUME NEW i \in 1 .. g + 1
            PROVE  Append(got[o], c)[i] = <<Peer(o), i>>
        <5> HIDE DEF g, n, c, q
        <5>1. i \in 1 .. g \/ i = g + 1
          BY <3>3
        <5> QED
          BY <3>5, <4>1, <4>2, <5>1
      <4>4. ASSUME NEW i \in 1 .. n - 1
            PROVE  Tail(q)[i] = <<Peer(o), (g + 1) + i>>
        <5> HIDE DEF g, n, c, q
        <5>1. i + 1 \in 1 .. n /\ g + (i + 1) = (g + 1) + i
          BY <3>3
        <5>2. Tail(q)[i] = q[i + 1] /\ q[i + 1] = <<Peer(o), g + (i + 1)>>
          BY <3>5, <5>1
        <5> QED
          BY <5>1, <5>2
      <4> QED
        BY <3>2, <3>4, <4>3, <4>4, Zenon DEF InOrder
    <3>7. Complete(o)'
      <4>1. Len(got'[o]) + Len(queue'[o]) = Len(got[o]) + Len(queue[o])
        <5>1. \A a, b \in Nat : (a + 1) + (b - 1) = a + b
          OBVIOUS
        <5> QED
          BY <3>3, <3>4, <5>1, Zenon
      <4> QED
        BY <1>8, <3>1, <3>2, <4>1, Zenon DEF Complete
    <3>8. Blank(o)'
      BY <1>1, <3>2 DEF Blank, Alive
    <3>9. Over(o)'
      BY <1>2, <3>1, <3>2 DEF Over
    <3> QED
      BY <2>2, <3>6, <3>7, <3>8, <3>9
  <2> QED
    BY <2>1, <2>2
<1> QED
  BY <1>7, <1>9 DEF DataInv

(* read() returns nil alone: nothing waits, and nothing can come.          *)
LEMMA ReadEndKeepsData ==
    ASSUME OwnInv, DataInv, NEW o \in End, ReadEnd(o)
    PROVE  DataInv'
<1>1. Socket(o) = o /\ Alive(o)
  BY WorksOnOwn DEF ReadEnd
<1>2. /\ queue[o] = << >> /\ AtEnd(o)
      /\ ended' = [ended EXCEPT ![o] = TRUE]
      /\ UNCHANGED <<table, object, fd, norecv, nosend, queue, sent, got>>
  BY <1>1 DEF ReadEnd, Nothing, modes
<1>3. \A e \in End : IsOpen(e)' <=> IsOpen(e)
  BY <1>2 DEF IsOpen
<1>4. DataTypes'
  BY <1>2 DEF DataInv, DataTypes
<1>5. ASSUME NEW e \in End
      PROVE  InOrder(e)' /\ Complete(e)' /\ Blank(e)' /\ Over(e)'
  <2>0. Peer(e) \in End
    BY Ends
  <2>1. InOrder(e) /\ Complete(e) /\ Blank(e) /\ Over(e)
    BY DEF DataInv
  <2>2. InOrder(e)' /\ Complete(e)'
    BY <1>2, <1>3, <2>1 DEF InOrder, Complete
  <2>3. e # o => ended'[e] = ended[e]
    BY <1>2 DEF DataInv, DataTypes
  <2>4. Blank(e)'
    BY <1>1, <1>2, <2>1, <2>3 DEF Blank, Alive
  <2>5. AtEnd(e)' <=> AtEnd(e)
    BY <1>2, <1>3, <2>0 DEF AtEnd
  <2>6. Over(e)'
    BY <1>2, <1>3, <2>1, <2>3, <2>5 DEF Over
  <2> QED
    BY <2>2, <2>4, <2>6
<1> QED
  BY <1>4, <1>5 DEF DataInv

(* A socket that was shut down stays so.                                   *)
LEMMA ShutdownKeepsData ==
    ASSUME DataInv, NEW s \in End, NEW how, ShutdownSocket(s, how)
    PROVE  DataInv'
<1>1. /\ UNCHANGED <<table, object, fd, queue, sent, got, ended>>
      /\ norecv' = [norecv EXCEPT ![s] = @ \/ how \in {"rd", "rdwr"}]
      /\ nosend' = [nosend EXCEPT ![s] = @ \/ how \in {"wr", "rdwr"}]
  BY DEF ShutdownSocket, data
<1>2. /\ norecv' \in [End -> BOOLEAN] /\ nosend' \in [End -> BOOLEAN]
      /\ \A e \in End : (norecv[e] => norecv'[e]) /\ (nosend[e] => nosend'[e])
  BY <1>1 DEF DataInv, DataTypes
<1>3. DataTypes'
  BY <1>1, <1>2 DEF DataInv, DataTypes
<1>4. \A e \in End : IsOpen(e)' <=> IsOpen(e)
  BY <1>1 DEF IsOpen
<1>5. ASSUME NEW e \in End
      PROVE  InOrder(e)' /\ Complete(e)' /\ Blank(e)' /\ Over(e)'
  <2>1. Peer(e) \in End
    BY Ends
  <2> QED
    BY <1>1, <1>2, <1>4, <2>1, Quiet
<1> QED
  BY <1>3, <1>5 DEF DataInv

(* A step that changes neither sockets nor data.                           *)
LEMMA StillData ==
    ASSUME DataInv, UNCHANGED <<table, object, fd, norecv, nosend, data>>
    PROVE  DataInv'
<1>1. DataTypes'
  BY DEF DataInv, DataTypes, data
<1>2. \A e \in End : InOrder(e)' /\ Complete(e)' /\ Blank(e)' /\ Over(e)'
  <2>1. \A e : IsOpen(e)' <=> IsOpen(e)
    BY DEF IsOpen
  <2> QED
    BY <2>1, Quiet DEF data
<1> QED
  BY <1>1, <1>2 DEF DataInv

(* Every step keeps the streams.                                           *)
LEMMA DataNext == OwnInv /\ DataInv /\ [Next]_vars => DataInv'
<1> SUFFICES ASSUME OwnInv, DataInv, [Next]_vars PROVE DataInv'
  OBVIOUS
<1>1. ASSUME NEW n \in 1 .. Pairs, NEW b \in Modes, New(n, b) PROVE DataInv'
  BY <1>1, NewKeepsData
<1>2. ASSUME NEW o \in End, Close(o) \/ Collect(o) PROVE DataInv'
  BY <1>2, CloseKeepsData
<1>3. ASSUME NEW o \in End, Write(o) PROVE DataInv'
  BY <1>3, WriteKeepsData
<1>4. ASSUME NEW o \in End, Read(o) PROVE DataInv'
  BY <1>4, ReadKeepsData
<1>5. ASSUME NEW o \in End, ReadEnd(o) PROVE DataInv'
  BY <1>5, ReadEndKeepsData
<1>6. ASSUME NEW o \in End, NEW how \in Hows, Shutdown(o, how) PROVE DataInv'
  BY <1>6, ShutdownKeepsData DEF Shutdown, Works
<1>7. ASSUME NEW f \in 1 .. Fds, NEW how \in Hows, ShutdownFd(f, how) PROVE DataInv'
  BY <1>7, ShutdownKeepsData DEF ShutdownFd
<1>8. ASSUME NEW o \in End, NEW b \in Modes, SetNonblock(o, b) PROVE DataInv'
  BY <1>8, StillData DEF SetNonblock
<1>9. ASSUME NEW o \in End, NEW size \in Sizes, RecvBuf(o, size) \/ SendBuf(o, size)
      PROVE  DataInv'
  BY <1>9, StillData DEF RecvBuf, SendBuf
<1>10. CASE UNCHANGED vars
  BY <1>10, StillData DEF vars, modes
<1> QED
  BY <1>1, <1>2, <1>3, <1>4, <1>5, <1>6, <1>7, <1>8, <1>9, <1>10 DEF Next

(* What is read through an object is what was written through its peer, in *)
(* order and without a gap (src/socketpair.c:35-79).                       *)
THEOREM StreamOfPeerHolds == Spec => []StreamOfPeer
<1>1. Init => OwnInv /\ DataInv
  BY OwnInit, DataInit
<1>2. OwnInv /\ DataInv /\ [Next]_vars => (OwnInv /\ DataInv)'
  BY OwnNext, DataNext
<1>3. DataInv => StreamOfPeer
  <2> SUFFICES ASSUME DataInv, NEW o \in End
               PROVE  /\ \A i \in DOMAIN got[o] : got[o][i] = <<Peer(o), i>>
                      /\ Len(got[o]) <= sent[Peer(o)]
    BY DEF StreamOfPeer
  <2>1. InOrder(o) /\ Complete(o) /\ got[o] \in Seq(Chunk)
    BY DEF DataInv, DataTypes
  <2>2. DOMAIN got[o] = 1 .. Len(got[o])
    BY <2>1, LenProperties
  <2>3. Len(got[o]) \in Nat /\ Len(queue[o]) \in Nat /\ sent[Peer(o)] \in Nat
    BY Lengths DEF DataInv
  <2>4. \A a, b, s \in Nat : a + b <= s => a <= s
    OBVIOUS
  <2>5. Len(got[o]) <= sent[Peer(o)]
    BY <2>1, <2>3, <2>4, Zenon DEF Complete
  <2> QED
    BY <2>1, <2>2, <2>5 DEF InOrder
<1> QED
  BY <1>1, <1>2, <1>3, PTL DEF Spec

(* read() returns nil, without an error and without again, only when no    *)
(* data can ever be read through the object again                          *)
(* (src/socketpair.c:63-76).                                               *)
THEOREM EofIsTheEndHolds == Spec => EofIsTheEnd
<1> DEFINE Stays == \A o \in End : ended[o] => got'[o] = got[o]
<1>1. Init => OwnInv /\ DataInv
  BY OwnInit, DataInit
<1>2. OwnInv /\ DataInv /\ [Next]_vars => (OwnInv /\ DataInv)'
  BY OwnNext, DataNext
<1>3. OwnInv /\ DataInv /\ [Next]_vars => [Stays]_vars
  <2> SUFFICES ASSUME OwnInv, DataInv, Next, NEW o \in End, ended[o]
               PROVE  got'[o] = got[o]
    OBVIOUS
  <2>1. ASSUME NEW r \in End, Read(r) PROVE got'[o] = got[o]
    <3>1. Socket(r) = r
      BY <2>1, WorksOnOwn DEF Read
    <3>2. o # r
      BY <2>1, <3>1 DEF Read, DataInv, Over
    <3> QED
      BY <2>1, <3>2 DEF Read, DataInv, DataTypes
  <2>2. CASE got' = got
    BY <2>2
  <2>3. got' = got \/ \E r \in End : Read(r)
    BY DEF Next, New, Close, Collect, Write, ReadEnd, Shutdown, ShutdownFd,
           ShutdownSocket, SetNonblock, RecvBuf, SendBuf, data
  <2> QED
    BY <2>1, <2>2, <2>3
<1> QED
  BY <1>1, <1>2, <1>3, PTL DEF Spec, EofIsTheEnd

(* The table, the objects and the data keep their types.                   *)
THEOREM TypeCorrect == Spec => []TypeOK
<1>1. Init => OwnInv /\ DataInv
  BY OwnInit, DataInit
<1>2. OwnInv /\ DataInv /\ [Next]_vars => (OwnInv /\ DataInv)'
  BY OwnNext, DataNext
<1>3. OwnInv /\ DataInv => TypeOK
  BY DEF OwnInv, Types, DataInv, DataTypes, Chunk, TypeOK
<1> QED
  BY <1>1, <1>2, <1>3, PTL DEF Spec

-----------------------------------------------------------------------------
(* What numbers stand for.                                                 *)

Handle == 1 .. Handles
Thing == End \cup {None, Probe} \cup {File(h) : h \in Handle}

(* Sockets, files and what fstat() looks at are told apart.                *)
LEMMA Names ==
    /\ None \notin End /\ Probe \notin End /\ Probe # None
    /\ \A h \in Handle : File(h) \notin End /\ File(h) # None /\ File(h) # Probe
    /\ \A h, k \in Handle : File(h) = File(k) => h = k
<1>1. Handles \in Nat /\ Pairs \in Nat
  BY HandleAssumption, SizeAssumption
<1>2. ASSUME NEW n, <<0, n>> \in End PROVE FALSE
  BY <1>1, <1>2 DEF End
<1>3. \A n, k : <<0, n>> = <<0, k>> => n = k
  OBVIOUS
<1>4. \A h \in Handle : h # 0 /\ h # Handles + 1
  BY <1>1 DEF Handle
<1>5. Handles + 1 # 0
  BY <1>1
<1>6. None \notin End /\ Probe \notin End /\ Probe # None
  BY <1>2, <1>3, <1>5 DEF None, Probe, File
<1>7. \A h \in Handle : File(h) \notin End /\ File(h) # None /\ File(h) # Probe
  BY <1>2, <1>3, <1>4 DEF None, Probe, File
<1>8. \A h, k \in Handle : File(h) = File(k) => h = k
  BY <1>3 DEF File
<1> QED
  BY <1>6, <1>7, <1>8

\* An open number of a file is the number in its handle.
Filed ==
    \A f \in 1 .. Fds : \A h \in Handle :
        table[f] = File(h) => handle[h] = "open" /\ number[h] = f

\* fstat() has one number, while it runs.
Probed ==
    \A f \in 1 .. Fds :
        table[f] = Probe => /\ probing
                            /\ \A g \in 1 .. Fds : table[g] = Probe => g = f

Numbered == \A h \in Handle : handle[h] = "open" => number[h] \in 1 .. Fds

DInv == DTypeOK /\ Paired /\ Owned /\ Filed /\ Probed /\ Numbered

(* The parts of the type that are used.                                    *)
LEMMA DTypes ==
    ASSUME DTypeOK
    PROVE  /\ table \in [1 .. Fds -> Thing]
           /\ object \in [End -> {"unmade", "alive", "collected"}]
           /\ fd \in [End -> {-1} \cup 1 .. Fds]
           /\ handle \in [Handle -> {"unmade", "open", "closed"}]
           /\ number \in [Handle -> {-1} \cup 1 .. Fds]
  BY DEF DTypeOK, Thing, Handle

(* Where everything open has its owner nothing is leaked.                  *)
LEMMA OwnedIsNoLeak == DInv => NoLeak
<1> SUFFICES ASSUME DInv, NEW f \in 1 .. Fds, table[f] # None
             PROVE  \/ table[f] = Probe /\ probing
                    \/ \E o \in End : table[f] = o /\ Alive(o) /\ fd[o] = f
                    \/ \E h \in 1 .. Handles :
                           table[f] = File(h) /\ handle[h] = "open" /\ number[h] = f
  BY DEF NoLeak
<1>1. table[f] \in Thing
  BY DTypes DEF DInv
<1>2. CASE table[f] \in End
  BY <1>2 DEF DInv, Owned
<1>3. CASE table[f] = Probe
  BY <1>3 DEF DInv, Probed
<1>4. CASE \E h \in Handle : table[f] = File(h)
  BY <1>4 DEF DInv, Filed, Handle
<1> QED
  BY <1>1, <1>2, <1>3, <1>4 DEF Thing

(* Nothing is open in the beginning.                                       *)
LEMMA DInitOK == DInit => DInv /\ StraySockets = {} /\ StrayFiles = {} /\ raw = 0
<1> SUFFICES ASSUME DInit
             PROVE  DInv /\ StraySockets = {} /\ StrayFiles = {} /\ raw = 0
  OBVIOUS
<1>1. /\ table = [f \in 1 .. Fds |-> None]
      /\ object = [o \in End |-> "unmade"]
      /\ fd = [o \in End |-> -1]
      /\ handle = [h \in Handle |-> "unmade"]
      /\ number = [h \in Handle |-> -1]
      /\ probing = FALSE /\ raw = 0
  BY DEF DInit, Init, Handle
<1>2. DTypeOK
  <2>1. None \in End \cup {None, Probe} \cup {File(h) : h \in 1 .. Handles}
    OBVIOUS
  <2>2. /\ table \in [1 .. Fds -> End \cup {None, Probe} \cup {File(h) : h \in 1 .. Handles}]
        /\ object \in [End -> {"unmade", "alive", "collected"}]
        /\ fd \in [End -> {-1} \cup 1 .. Fds]
    BY <1>1, <2>1
  <2>3. /\ handle \in [1 .. Handles -> {"unmade", "open", "closed"}]
        /\ number \in [1 .. Handles -> {-1} \cup 1 .. Fds]
    BY <1>1 DEF Handle
  <2>4. probing \in BOOLEAN
    BY <1>1, Zenon
  <2>5. raw \in 0 .. MaxRaw
    BY <1>1, HandleAssumption
  <2> QED
    BY <2>2, <2>3, <2>4, <2>5 DEF DTypeOK
<1>3. Paired
  BY <1>1, Ends DEF Paired
<1>4. Owned /\ Filed /\ Probed /\ Numbered
  BY <1>1, Names DEF Owned, Filed, Probed, Numbered
<1>5. StraySockets = {} /\ StrayFiles = {}
  BY <1>1 DEF StraySockets, StrayFiles, Alive, Handle
<1> QED
  BY <1>1, <1>2, <1>3, <1>4, <1>5 DEF DInv

-----------------------------------------------------------------------------
(* Numbers that are closed, and numbers that are given.                    *)

(* Numbers are closed; what stays open keeps its owner.                    *)
LEMMA Fewer ==
    ASSUME DInv, DTypeOK', Paired', Numbered',
           \A f \in 1 .. Fds : table'[f] \in {table[f], None},
           \A f \in 1 .. Fds : \A e \in End :
               table'[f] = e => object'[e] = object[e] /\ fd'[e] = fd[e],
           \A f \in 1 .. Fds : \A h \in Handle :
               table'[f] = File(h) => handle'[h] = handle[h] /\ number'[h] = number[h],
           \A f \in 1 .. Fds : table'[f] = Probe => probing' = probing
    PROVE  DInv'
<1>1. Owned'
  BY Names DEF DInv, Owned, Alive
<1>2. Filed'
  BY Names DEF DInv, Filed
<1>3. Probed'
  BY Names DEF DInv, Probed
<1> QED
  BY <1>1, <1>2, <1>3 DEF DInv

\* One of the two sets of strays grows, by one.
OneStray(x) ==
    \/ StraySockets' \subseteq StraySockets \cup {x} /\ StrayFiles' \subseteq StrayFiles
    \/ StraySockets' \subseteq StraySockets /\ StrayFiles' \subseteq StrayFiles \cup {x}

(* One number is closed: at most its owner becomes a stray.                *)
LEMMA Robbed ==
    ASSUME DInv, NEW f \in 1 .. Fds, table' = [table EXCEPT ![f] = None],
           \A e \in End : Alive(e)' /\ fd'[e] # -1 => Alive(e) /\ fd'[e] = fd[e],
           \A h \in Handle : handle'[h] = "open" =>
               handle[h] = "open" /\ number'[h] = number[h]
    PROVE  /\ \A e \in StraySockets' : e \in StraySockets \/ e = table[f]
           /\ \A h \in StrayFiles' : h \in StrayFiles \/ File(h) = table[f]
           /\ \E x : OneStray(x)
<1>1. table \in [1 .. Fds -> Thing] /\ fd \in [End -> {-1} \cup 1 .. Fds]
  BY DTypes DEF DInv
<1>2. ASSUME NEW e \in StraySockets', e # table[f]
      PROVE  e \in StraySockets
  <2>1. e \in End /\ Alive(e)' /\ fd'[e] # -1 /\ table'[fd'[e]] # e
    BY <1>2 DEF StraySockets
  <2>2. Alive(e) /\ fd'[e] = fd[e] /\ fd[e] \in 1 .. Fds
    BY <1>1, <2>1
  <2>3. table[fd[e]] # e
    BY <1>1, <1>2, <2>1, <2>2
  <2> QED
    BY <2>1, <2>2, <2>3 DEF StraySockets
<1>3. ASSUME NEW h \in StrayFiles', File(h) # table[f]
      PROVE  h \in StrayFiles
  <2>1. h \in Handle /\ handle'[h] = "open" /\ table'[number'[h]] # File(h)
    BY <1>3 DEF StrayFiles, Handle
  <2>2. handle[h] = "open" /\ number'[h] = number[h] /\ number[h] \in 1 .. Fds
    BY <2>1 DEF DInv, Numbered
  <2>3. table[number[h]] # File(h)
    BY <1>1, <1>3, <2>1, <2>2
  <2> QED
    BY <2>1, <2>2, <2>3 DEF StrayFiles, Handle
<1>4. CASE \E h \in Handle : table[f] = File(h)
  <2>1. PICK h \in Handle : table[f] = File(h)
    BY <1>4
  <2>2. StraySockets' \subseteq StraySockets
    BY <1>2, <2>1, Names DEF StraySockets
  <2>3. StrayFiles' \subseteq StrayFiles \cup {h}
    BY <1>3, <2>1, Names DEF StrayFiles, Handle
  <2> QED
    BY <1>2, <1>3, <2>2, <2>3 DEF OneStray
<1>5. CASE ~ \E h \in Handle : table[f] = File(h)
  <2>1. StrayFiles' \subseteq StrayFiles
    BY <1>3, <1>5 DEF StrayFiles, Handle
  <2>2. StraySockets' \subseteq StraySockets \cup {table[f]}
    BY <1>2
  <2> QED
    BY <1>2, <1>3, <2>1, <2>2 DEF OneStray
<1> QED
  BY <1>2, <1>3, <1>4, <1>5

(* Numbers are given to new owners: nobody becomes a stray.                *)
LEMMA Given ==
    ASSUME DInv,
           \A f \in 1 .. Fds : table[f] = None \/ table'[f] = table[f],
           \A e \in End : Alive(e)' /\ fd'[e] # -1 =>
               (Alive(e) /\ fd'[e] = fd[e]) \/ table'[fd'[e]] = e,
           \A h \in Handle : handle'[h] = "open" =>
               \/ handle[h] = "open" /\ number'[h] = number[h]
               \/ table'[number'[h]] = File(h)
    PROVE  StraySockets' \subseteq StraySockets /\ StrayFiles' \subseteq StrayFiles
<1>1. fd \in [End -> {-1} \cup 1 .. Fds]
  BY DTypes DEF DInv
<1>2. ASSUME NEW e \in StraySockets'
      PROVE  e \in StraySockets
  <2>1. e \in End /\ Alive(e)' /\ fd'[e] # -1 /\ table'[fd'[e]] # e
    BY <1>2 DEF StraySockets
  <2>2. Alive(e) /\ fd'[e] = fd[e] /\ fd[e] \in 1 .. Fds
    BY <1>1, <2>1
  <2>3. table[fd[e]] # e
    BY <2>1, <2>2, Names
  <2> QED
    BY <2>1, <2>2, <2>3 DEF StraySockets
<1>3. ASSUME NEW h \in StrayFiles'
      PROVE  h \in StrayFiles
  <2>1. h \in Handle /\ handle'[h] = "open" /\ table'[number'[h]] # File(h)
    BY <1>3 DEF StrayFiles, Handle
  <2>2. handle[h] = "open" /\ number'[h] = number[h] /\ number[h] \in 1 .. Fds
    BY <2>1 DEF DInv, Numbered
  <2>3. table[number[h]] # File(h)
    BY <2>1, <2>2, Names
  <2> QED
    BY <2>1, <2>2, <2>3 DEF StrayFiles, Handle
<1> QED
  BY <1>2, <1>3

-----------------------------------------------------------------------------
(* How many strays there are.                                              *)

(* The sets of strays are finite.                                          *)
LEMMA FiniteStrays ==
    /\ IsFiniteSet(StraySockets) /\ IsFiniteSet(StrayFiles)
    /\ Cardinality(StraySockets) \in Nat /\ Cardinality(StrayFiles) \in Nat
<1>1. IsFiniteSet(End)
  <2>1. IsFiniteSet(1 .. Pairs)
    BY SizeAssumption, FS_Interval
  <2>2. IsFiniteSet({1, 2})
    <3>1. IsFiniteSet({1}) /\ {1, 2} = {1} \cup {2}
      BY FS_Singleton
    <3> QED
      BY <3>1, FS_AddElement
  <2> QED
    BY <2>1, <2>2, FS_Product DEF End
<1>2. IsFiniteSet(1 .. Handles)
  BY HandleAssumption, FS_Interval
<1>3. StraySockets \in SUBSET End /\ StrayFiles \in SUBSET (1 .. Handles)
  BY DEF StraySockets, StrayFiles
<1>4. IsFiniteSet(StraySockets) /\ IsFiniteSet(StrayFiles)
  BY <1>1, <1>2, <1>3, FS_Subset
<1> QED
  BY <1>4, FS_CardinalityType

(* No element more.                                                        *)
LEMMA NoMore ==
    ASSUME NEW A, NEW B, IsFiniteSet(A), IsFiniteSet(B),
           NEW C \in SUBSET A, NEW D \in SUBSET B
    PROVE  Cardinality(C) + Cardinality(D) <= Cardinality(A) + Cardinality(B)
<1>1. /\ Cardinality(A) \in Nat /\ Cardinality(B) \in Nat
      /\ Cardinality(C) \in Nat /\ Cardinality(D) \in Nat
  BY FS_Subset, FS_CardinalityType
<1>2. Cardinality(C) <= Cardinality(A) /\ Cardinality(D) <= Cardinality(B)
  BY FS_Subset
<1> QED
  BY <1>1, <1>2

(* One element more, on one side.                                          *)
LEMMA OneMore ==
    ASSUME NEW A, NEW B, IsFiniteSet(A), IsFiniteSet(B), NEW x,
           NEW C, NEW D,
           \/ C \subseteq A \cup {x} /\ D \subseteq B
           \/ C \subseteq A /\ D \subseteq B \cup {x}
    PROVE  Cardinality(C) + Cardinality(D) <= Cardinality(A) + Cardinality(B) + 1
<1>1. /\ IsFiniteSet(A \cup {x}) /\ IsFiniteSet(B \cup {x})
      /\ Cardinality(A) \in Nat /\ Cardinality(B) \in Nat
      /\ Cardinality(A \cup {x}) \in Nat /\ Cardinality(B \cup {x}) \in Nat
  BY FS_AddElement, FS_CardinalityType
<1>2. /\ Cardinality(A \cup {x}) <= Cardinality(A) + 1
      /\ Cardinality(B \cup {x}) <= Cardinality(B) + 1
  BY <1>1, FS_AddElement
<1>3. IsFiniteSet(C) /\ IsFiniteSet(D) /\ Cardinality(C) \in Nat /\ Cardinality(D) \in Nat
  BY <1>1, FS_Subset, FS_CardinalityType
<1>4. CASE C \subseteq A \cup {x} /\ D \subseteq B
  <2>1. Cardinality(C) + Cardinality(D) <= Cardinality(A \cup {x}) + Cardinality(B)
    BY <1>1, <1>4, NoMore
  <2> QED
    BY <1>1, <1>2, <1>3, <2>1
<1>5. CASE C \subseteq A /\ D \subseteq B \cup {x}
  <2>1. Cardinality(C) + Cardinality(D) <= Cardinality(A) + Cardinality(B \cup {x})
    BY <1>1, <1>5, NoMore
  <2> QED
    BY <1>1, <1>2, <1>3, <2>1
<1> QED
  BY <1>4, <1>5

-----------------------------------------------------------------------------
(* The steps.                                                              *)

Kept == DInv' /\ StrayBounded'

(* No step that makes nobody a stray breaks the bound.                     *)
LEMMA NoneAdded ==
    ASSUME DInv, StrayBounded, raw' = raw,
           StraySockets' \subseteq StraySockets, StrayFiles' \subseteq StrayFiles
    PROVE  StrayBounded'
<1>1. raw \in Nat
  BY HandleAssumption DEF DInv, DTypeOK
<1>2. /\ Cardinality(StraySockets') + Cardinality(StrayFiles')
             <= Cardinality(StraySockets) + Cardinality(StrayFiles)
      /\ Cardinality(StraySockets') \in Nat /\ Cardinality(StrayFiles') \in Nat
  <2>1. IsFiniteSet(StraySockets') /\ IsFiniteSet(StrayFiles')
    BY FiniteStrays, FS_Subset
  <2> QED
    BY <2>1, FiniteStrays, NoMore, FS_CardinalityType
<1> QED
  BY <1>1, <1>2, FiniteStrays DEF StrayBounded

(* socketpair()                                                            *)
LEMMA NewKept ==
    ASSUME DInv, StrayBounded, NEW n \in 1 .. Pairs, NEW b \in Modes, New(n, b),
           UNCHANGED <<files, probing, raw>>
    PROVE  Kept
<1> DEFINE o1 == <<n, 1>>
           o2 == <<n, 2>>
           f1 == Min(Free)
           f2 == Min(Free \ {f1})
<1>0. o1 \in End /\ o2 \in End /\ o1 # o2 /\ Peer(o1) = o2 /\ Peer(o2) = o1
  BY Ends
<1>1. f1 \in Free /\ f2 \in Free \ {f1}
  BY TwoFree DEF New
<1>2. /\ f1 \in 1 .. Fds /\ f2 \in 1 .. Fds
      /\ f1 # f2 /\ table[f1] = None /\ table[f2] = None
  BY <1>1 DEF Free
<1>3. object[o1] = "unmade" /\ object[o2] = "unmade"
  BY <1>0 DEF New, DInv, Paired
<1>4. /\ table' = [table EXCEPT ![f1] = o1, ![f2] = o2]
      /\ object' = [object EXCEPT ![o1] = "alive", ![o2] = "alive"]
      /\ fd' = [fd EXCEPT ![o1] = f1, ![o2] = f2]
      /\ UNCHANGED <<handle, number, probing, raw>>
  BY DEF New, files
<1> HIDE DEF o1, o2, f1, f2
<1>5. /\ table \in [1 .. Fds -> Thing]
      /\ object \in [End -> {"unmade", "alive", "collected"}]
      /\ fd \in [End -> {-1} \cup 1 .. Fds]
  BY DTypes DEF DInv
<1>6. \A f \in 1 .. Fds : table[f] # o1 /\ table[f] # o2
  BY <1>0, <1>3 DEF DInv, Owned, Alive
<1>7. /\ table'[f1] = o1 /\ table'[f2] = o2
      /\ \A f \in 1 .. Fds \ {f1, f2} : table'[f] = table[f]
      /\ object'[o1] = "alive" /\ object'[o2] = "alive"
      /\ fd'[o1] = f1 /\ fd'[o2] = f2
      /\ \A e \in End \ {o1, o2} : object'[e] = object[e] /\ fd'[e] = fd[e]
  BY <1>0, <1>2, <1>4, <1>5
<1>8. DTypeOK'
  <2>1. table' \in [1 .. Fds -> Thing]
    BY <1>0, <1>4, <1>5 DEF Thing
  <2>2. /\ object' \in [End -> {"unmade", "alive", "collected"}]
        /\ fd' \in [End -> {-1} \cup 1 .. Fds]
    BY <1>2, <1>4, <1>5
  <2> QED
    BY <1>4, <2>1, <2>2 DEF DInv, DTypeOK, Thing, Handle
<1>9. Paired'
  <2> SUFFICES ASSUME NEW e \in End
               PROVE  object'[e] = "unmade" <=> object'[Peer(e)] = "unmade"
    BY DEF Paired
  <2>1. CASE e \in {o1, o2}
    BY <1>0, <1>7, <2>1
  <2>2. CASE e \notin {o1, o2}
    <3>1. Peer(e) \in End /\ Peer(e) \notin {o1, o2}
      BY <1>0, <2>2, Ends
    <3> QED
      BY <1>7, <2>2, <3>1 DEF DInv, Paired
  <2> QED
    BY <2>1, <2>2
<1>10. Owned'
  <2> SUFFICES ASSUME NEW f \in 1 .. Fds, table'[f] \in End
               PROVE  object'[table'[f]] = "alive" /\ fd'[table'[f]] = f
    BY DEF Owned, Alive
  <2>1. CASE f \in {f1, f2}
    BY <1>7, <2>1
  <2>2. CASE f \notin {f1, f2}
    <3>1. table'[f] = table[f] /\ table[f] \in End \ {o1, o2}
      BY <1>6, <1>7, <2>2
    <3> QED
      BY <1>7, <3>1 DEF DInv, Owned, Alive
  <2> QED
    BY <2>1, <2>2
<1>11. \A f \in 1 .. Fds : table'[f] \notin End => table'[f] = table[f]
  BY <1>0, <1>7
<1>12. Filed'
  BY <1>4, <1>11, Names DEF DInv, Filed
<1>13. Probed'
  <2>1. \A f \in 1 .. Fds : table'[f] = Probe => table[f] = Probe
    BY <1>11, Names
  <2> QED
    <3>1. ASSUME NEW f \in 1 .. Fds, table'[f] = Probe
          PROVE  probing' /\ \A g \in 1 .. Fds : table'[g] = Probe => g = f
      <4>1. probing /\ \A g \in 1 .. Fds : table[g] = Probe => g = f
        BY <2>1, <3>1 DEF DInv, Probed
      <4>2. probing' = probing
        OBVIOUS
      <4> QED
        BY <2>1, <4>1, <4>2
    <3> QED
      BY <3>1 DEF Probed
<1>14. Numbered'
  BY <1>4 DEF DInv, Numbered
<1>15. StraySockets' \subseteq StraySockets /\ StrayFiles' \subseteq StrayFiles
  <2>1. \A f \in 1 .. Fds : table[f] = None \/ table'[f] = table[f]
    BY <1>2, <1>7
  <2>2. \A e \in End : Alive(e)' /\ fd'[e] # -1 =>
            (Alive(e) /\ fd'[e] = fd[e]) \/ table'[fd'[e]] = e
    BY <1>7 DEF Alive
  <2>3. \A h \in Handle : handle'[h] = "open" => handle[h] = "open" /\ number'[h] = number[h]
    BY <1>4
  <2> QED
    BY <2>1, <2>2, <2>3, Given
<1> QED
  BY <1>4, <1>8, <1>9, <1>10, <1>12, <1>13, <1>14, <1>15, NoneAdded DEF Kept, DInv

(* io.open(), and open(2) in fstat().                                      *)
LEMMA TakeKept ==
    ASSUME DInv, StrayBounded, NEW what, Take(what),
           \/ \E h \in Handle : /\ what = File(h) /\ handle[h] = "unmade"
                                /\ handle' = [handle EXCEPT ![h] = "open"]
                                /\ number' = [number EXCEPT ![h] = Min(Free)]
                                /\ probing' = probing
           \/ what = Probe /\ probing' = TRUE /\ UNCHANGED files
    PROVE  Kept
<1> DEFINE m == Min(Free)
<1>1. m \in 1 .. Fds /\ table[m] = None
  <2>1. Free \in SUBSET Nat /\ Free # {}
    BY DEF Free, Take
  <2>2. m \in Free
    BY <2>1, MinIn
  <2> QED
    BY <2>2 DEF Free
<1>2. /\ table' = [table EXCEPT ![m] = what]
      /\ UNCHANGED <<object, fd, raw>> /\ ~probing
  BY DEF Take, Idle
<1> HIDE DEF m
<1>3. /\ table \in [1 .. Fds -> Thing]
      /\ handle \in [Handle -> {"unmade", "open", "closed"}]
      /\ number \in [Handle -> {-1} \cup 1 .. Fds]
  BY DTypes DEF DInv
<1>4. what \in Thing /\ what \notin End /\ what # None
  BY Names DEF Thing
<1>5. /\ table'[m] = what
      /\ \A f \in 1 .. Fds \ {m} : table'[f] = table[f]
      /\ table' \in [1 .. Fds -> Thing]
  BY <1>1, <1>2, <1>3, <1>4
<1>6. Paired' /\ Owned'
  BY <1>2, <1>4, <1>5 DEF DInv, Paired, Owned, Alive
<1>7. \A f \in 1 .. Fds : table[f] = None \/ table'[f] = table[f]
  BY <1>1, <1>5
<1>8. \A e \in End : Alive(e)' /\ fd'[e] # -1 => Alive(e) /\ fd'[e] = fd[e]
  BY <1>2 DEF Alive
<1>9. CASE what = Probe /\ probing' = TRUE /\ UNCHANGED files
  <2>1. DTypeOK'
    BY <1>2, <1>5, <1>9 DEF DInv, DTypeOK, Thing, Handle, files
  <2>2. Filed' /\ Numbered'
    BY <1>5, <1>9, Names DEF DInv, Filed, Numbered, files
  <2>3. Probed'
    <3>1. \A f \in 1 .. Fds : table[f] # Probe
      BY <1>2 DEF DInv, Probed
    <3> QED
      BY <1>5, <1>9, <3>1 DEF Probed
  <2>4. StraySockets' \subseteq StraySockets /\ StrayFiles' \subseteq StrayFiles
    BY <1>7, <1>8, <1>9, Given DEF files
  <2> QED
    BY <1>2, <1>6, <2>1, <2>2, <2>3, <2>4, NoneAdded DEF Kept, DInv
<1>10. ASSUME NEW h \in Handle, what = File(h), handle[h] = "unmade",
              handle' = [handle EXCEPT ![h] = "open"],
              number' = [number EXCEPT ![h] = m],
              probing' = probing
       PROVE  Kept
  <2>1. /\ handle' \in [Handle -> {"unmade", "open", "closed"}]
        /\ number' \in [Handle -> {-1} \cup 1 .. Fds]
        /\ handle'[h] = "open" /\ number'[h] = m
        /\ \A k \in Handle \ {h} : handle'[k] = handle[k] /\ number'[k] = number[k]
    BY <1>1, <1>3, <1>10
  <2>2. DTypeOK'
    BY <1>2, <1>5, <1>10, <2>1 DEF DInv, DTypeOK, Thing, Handle
  <2>3. Numbered'
    BY <1>1, <2>1 DEF DInv, Numbered
  <2>4. Filed'
    <3> SUFFICES ASSUME NEW f \in 1 .. Fds, NEW k \in Handle, table'[f] = File(k)
                 PROVE  handle'[k] = "open" /\ number'[k] = f
      BY DEF Filed
    <3>1. CASE f = m
      <4>1. k = h
        BY <1>5, <1>10, <3>1, Names
      <4> QED
        BY <2>1, <3>1, <4>1
    <3>2. CASE f # m
      <4>1. handle[k] = "open" /\ number[k] = f
        BY <1>5, <3>2 DEF DInv, Filed
      <4> QED
        BY <1>10, <2>1, <4>1
    <3> QED
      BY <3>1, <3>2
  <2>5. Probed'
    <3>1. \A f \in 1 .. Fds : table'[f] # Probe
      BY <1>2, <1>5, <1>10, Names DEF DInv, Probed
    <3> QED
      BY <3>1 DEF Probed
  <2>6. \A k \in Handle : handle'[k] = "open" =>
            \/ handle[k] = "open" /\ number'[k] = number[k]
            \/ table'[number'[k]] = File(k)
    BY <1>5, <1>10, <2>1
  <2>7. StraySockets' \subseteq StraySockets /\ StrayFiles' \subseteq StrayFiles
    BY <1>7, <1>8, <2>6, Given
  <2> QED
    BY <1>2, <1>6, <2>2, <2>3, <2>4, <2>5, <2>7, NoneAdded DEF Kept, DInv
<1> QED
  BY <1>9, <1>10 DEF m

(* One stray less, and at most one more.                                   *)
LEMMA Replaced ==
    ASSUME DInv, StrayBounded, raw' = raw, NEW A, NEW B, NEW x, NEW o,
           \/ o \in StraySockets /\ A = StraySockets \ {o} /\ B = StrayFiles
           \/ o \in StrayFiles /\ A = StraySockets /\ B = StrayFiles \ {o},
           \/ StraySockets' \subseteq A \cup {x} /\ StrayFiles' \subseteq B
           \/ StraySockets' \subseteq A /\ StrayFiles' \subseteq B \cup {x}
    PROVE  StrayBounded'
<1>1. raw \in Nat
  BY HandleAssumption DEF DInv, DTypeOK
<1>2. /\ IsFiniteSet(A) /\ IsFiniteSet(B)
      /\ Cardinality(A) + Cardinality(B) + 1
             = Cardinality(StraySockets) + Cardinality(StrayFiles)
      /\ Cardinality(A) \in Nat /\ Cardinality(B) \in Nat
  <2>1. CASE o \in StraySockets /\ A = StraySockets \ {o} /\ B = StrayFiles
    <3>1. /\ IsFiniteSet(StraySockets \ {o})
          /\ Cardinality(StraySockets \ {o}) = Cardinality(StraySockets) - 1
      BY <2>1, FiniteStrays, FS_RemoveElement
    <3>2. Cardinality(StraySockets \ {o}) \in Nat
      BY <3>1, FS_CardinalityType
    <3> QED
      BY <2>1, <3>1, <3>2, FiniteStrays
  <2>2. CASE o \in StrayFiles /\ A = StraySockets /\ B = StrayFiles \ {o}
    <3>1. /\ IsFiniteSet(StrayFiles \ {o})
          /\ Cardinality(StrayFiles \ {o}) = Cardinality(StrayFiles) - 1
      BY <2>2, FiniteStrays, FS_RemoveElement
    <3>2. Cardinality(StrayFiles \ {o}) \in Nat
      BY <3>1, FS_CardinalityType
    <3> QED
      BY <2>2, <3>1, <3>2, FiniteStrays
  <2> QED
    BY <2>1, <2>2
<1>3. /\ Cardinality(StraySockets') + Cardinality(StrayFiles')
             <= Cardinality(A) + Cardinality(B) + 1
      /\ Cardinality(StraySockets') \in Nat /\ Cardinality(StrayFiles') \in Nat
  <2>1. IsFiniteSet(A \cup {x}) /\ IsFiniteSet(B \cup {x})
    BY <1>2, FS_AddElement
  <2>2. IsFiniteSet(StraySockets') /\ IsFiniteSet(StrayFiles')
    BY <1>2, <2>1, FS_Subset
  <2> QED
    BY <1>2, <2>2, OneMore, FS_CardinalityType
<1> QED
  BY <1>1, <1>2, <1>3 DEF StrayBounded

(* close() and the finalizer of a socket object.  Where its number stands  *)
(* for another's, the object stops to be a stray and the other may become  *)
(* one.                                                                    *)
LEMMA CloseKept ==
    ASSUME DInv, StrayBounded, NEW o \in End, Close(o) \/ Collect(o),
           UNCHANGED <<files, probing, raw>>, Idle
    PROVE  Kept
<1>1. /\ Alive(o) /\ CloseFd(o)
      /\ \/ object' = object /\ fd' = [fd EXCEPT ![o] = -1]
         \/ object' = [object EXCEPT ![o] = "collected"] /\ fd' = fd
      /\ UNCHANGED <<handle, number, probing, raw>> /\ ~probing
  BY DEF Close, Collect, FdAfterClose, files, Idle
<1>2. /\ table \in [1 .. Fds -> Thing]
      /\ object \in [End -> {"unmade", "alive", "collected"}]
      /\ fd \in [End -> {-1} \cup 1 .. Fds]
  BY DTypes DEF DInv
<1>3. /\ fd[o] = -1 => table' = table
      /\ fd[o] # -1 => fd[o] \in 1 .. Fds /\ table' = [table EXCEPT ![fd[o]] = None]
  <2>1. CASE fd[o] = -1
    BY <1>1, <2>1 DEF CloseFd, Socket
  <2>2. CASE fd[o] # -1
    <3>1. fd[o] \in 1 .. Fds
      BY <1>2, <2>2
    <3>2. CASE table[fd[o]] = None
      <4>1. table' = table
        BY <1>1, <2>2, <3>2 DEF CloseFd, Socket
      <4> QED
        BY <1>2, <2>2, <3>1, <3>2, <4>1
    <3>3. CASE table[fd[o]] # None
      BY <1>1, <2>2, <3>1, <3>3 DEF CloseFd, Socket, CloseNumber
    <3> QED
      BY <3>2, <3>3
  <2> QED
    BY <2>1, <2>2
<1>4. /\ ~(Alive(o)' /\ fd'[o] # -1)
      /\ \A e \in End \ {o} : object'[e] = object[e] /\ fd'[e] = fd[e]
      /\ object' \in [End -> {"unmade", "alive", "collected"}]
      /\ fd' \in [End -> {-1} \cup 1 .. Fds]
      /\ object'[o] # "unmade" /\ object[o] # "unmade"
      /\ table' \in [1 .. Fds -> Thing]
  <2>1. table' \in [1 .. Fds -> Thing]
    BY <1>2, <1>3 DEF Thing
  <2> QED
    BY <1>1, <1>2, <2>1 DEF Alive
<1>5. \A e \in End : Alive(e)' /\ fd'[e] # -1 => Alive(e) /\ fd'[e] = fd[e]
  BY <1>4 DEF Alive
<1>6. \A h \in Handle : handle'[h] = "open" =>
          handle[h] = "open" /\ number'[h] = number[h]
  BY <1>1
<1>7. DInv'
  <2>1. DTypeOK'
    BY <1>1, <1>4 DEF DInv, DTypeOK, Thing, Handle
  <2>2. Paired'
    <3>1. \A e \in End : object'[e] = "unmade" <=> object[e] = "unmade"
      BY <1>4
    <3> QED
      BY <3>1, Ends DEF DInv, Paired
  <2>3. Numbered'
    BY <1>1 DEF DInv, Numbered
  <2>4. \A f \in 1 .. Fds : table'[f] \in {table[f], None}
    BY <1>2, <1>3
  <2>5. \A f \in 1 .. Fds : table'[f] # o
    <3> SUFFICES ASSUME NEW f \in 1 .. Fds, table'[f] = o PROVE FALSE
      OBVIOUS
    <3>1. table[f] = o
      BY <2>4, Names
    <3>2. fd[o] = f
      BY <3>1 DEF DInv, Owned
    <3>3. fd[o] # -1
      BY <3>2
    <3>4. table'[f] = None
      BY <1>2, <1>3, <3>2, <3>3
    <3> QED
      BY <3>4, Names
  <2>6. \A f \in 1 .. Fds : \A e \in End :
            table'[f] = e => object'[e] = object[e] /\ fd'[e] = fd[e]
    BY <1>4, <2>5
  <2> QED
    BY <1>1, <2>1, <2>2, <2>3, <2>4, <2>6, Fewer
<1>8. StrayBounded'
  <2>1. CASE fd[o] = -1
    <3>1. StraySockets' \subseteq StraySockets /\ StrayFiles' \subseteq StrayFiles
      BY <1>3, <1>5, <1>6, <2>1, Given
    <3> QED
      BY <1>1, <3>1, NoneAdded
  <2>2. CASE fd[o] # -1 /\ table[fd[o]] = o
    <3>1. o \notin StraySockets'
      BY <1>4 DEF StraySockets
    <3>2. /\ \A e \in StraySockets' : e \in StraySockets \/ e = table[fd[o]]
          /\ \A h \in StrayFiles' : h \in StrayFiles \/ File(h) = table[fd[o]]
      BY <1>3, <1>5, <1>6, <2>2, Robbed
    <3>3. StraySockets' \subseteq StraySockets /\ StrayFiles' \subseteq StrayFiles
      BY <2>2, <3>1, <3>2, Names DEF StrayFiles, Handle
    <3> QED
      BY <1>1, <3>3, NoneAdded
  <2>3. CASE fd[o] # -1 /\ table[fd[o]] # o
    <3>1. o \in StraySockets /\ o \notin StraySockets'
      BY <1>1, <1>4, <2>3 DEF StraySockets
    <3> DEFINE A == StraySockets \ {o}
    <3>2. PICK x : \/ StraySockets' \subseteq A \cup {x} /\ StrayFiles' \subseteq StrayFiles
                   \/ StraySockets' \subseteq A /\ StrayFiles' \subseteq StrayFiles \cup {x}
      <4>1. PICK x : OneStray(x)
        BY <1>3, <1>5, <1>6, <2>3, Robbed
      <4> QED
        BY <3>1, <4>1 DEF OneStray
    <3> QED
      BY <1>1, <3>1, <3>2, Replaced
  <2> QED
    BY <2>1, <2>2, <2>3
<1> QED
  BY <1>7, <1>8 DEF Kept

(* f:close() and its finalizer: the same for a file.                       *)
LEMMA CloseFileKept ==
    ASSUME DInv, StrayBounded, NEW k \in Handle, CloseFile(k)
    PROVE  Kept
<1> DEFINE f == number[k]
<1>1. /\ handle[k] = "open" /\ handle' = [handle EXCEPT ![k] = "closed"]
      /\ UNCHANGED <<object, fd, number, probing, raw>> /\ ~probing
      /\ f \in 1 .. Fds
  BY DEF CloseFile, rest, Idle, DInv, Numbered
<1>2. /\ table \in [1 .. Fds -> Thing]
      /\ handle \in [Handle -> {"unmade", "open", "closed"}]
  BY DTypes DEF DInv
<1>3. table' = [table EXCEPT ![f] = None]
  <2>1. CASE table[f] = None
    <3>1. table' = table
      BY <2>1 DEF CloseFile
    <3> QED
      BY <1>1, <1>2, <2>1, <3>1
  <2>2. CASE table[f] # None
    BY <2>2 DEF CloseFile, CloseNumber
  <2> QED
    BY <2>1, <2>2
<1>4. /\ handle'[k] = "closed"
      /\ \A h \in Handle \ {k} : handle'[h] = handle[h]
      /\ handle' \in [Handle -> {"unmade", "open", "closed"}]
  BY <1>1, <1>2
<1>5. table' \in [1 .. Fds -> Thing]
  BY <1>2, <1>3 DEF Thing
<1>6. \A e \in End : Alive(e)' /\ fd'[e] # -1 => Alive(e) /\ fd'[e] = fd[e]
  BY <1>1 DEF Alive
<1>7. \A h \in Handle : handle'[h] = "open" =>
          handle[h] = "open" /\ number'[h] = number[h]
  BY <1>1, <1>4
<1>8. DInv'
  <2>1. DTypeOK'
    BY <1>1, <1>4, <1>5 DEF DInv, DTypeOK, Thing, Handle
  <2>2. Paired'
    BY <1>1 DEF DInv, Paired
  <2>3. Numbered'
    BY <1>1, <1>7 DEF DInv, Numbered
  <2>4. \A g \in 1 .. Fds : table'[g] \in {table[g], None}
    BY <1>2, <1>3
  <2>5. \A g \in 1 .. Fds : table'[g] # File(k)
    <3> SUFFICES ASSUME NEW g \in 1 .. Fds, table'[g] = File(k) PROVE FALSE
      OBVIOUS
    <3>1. table[g] = File(k)
      BY <2>4, Names
    <3>2. g = f
      BY <3>1 DEF DInv, Filed
    <3>3. table'[g] = None
      BY <1>1, <1>2, <1>3, <3>2
    <3> QED
      BY <3>3, Names
  <2>6. \A g \in 1 .. Fds : \A h \in Handle :
            table'[g] = File(h) => handle'[h] = handle[h] /\ number'[h] = number[h]
    BY <1>1, <1>4, <2>5
  <2> QED
    BY <1>1, <2>1, <2>2, <2>3, <2>4, <2>6, Fewer
<1>9. StrayBounded'
  <2>1. k \notin StrayFiles'
    BY <1>4 DEF StrayFiles
  <2>2. CASE table[f] = File(k)
    <3>1. /\ \A e \in StraySockets' : e \in StraySockets \/ e = table[f]
          /\ \A h \in StrayFiles' : h \in StrayFiles \/ File(h) = table[f]
      BY <1>1, <1>3, <1>6, <1>7, Robbed
    <3>2. StraySockets' \subseteq StraySockets /\ StrayFiles' \subseteq StrayFiles
      BY <2>1, <2>2, <3>1, Names DEF StraySockets, StrayFiles, Handle
    <3> QED
      BY <1>1, <3>2, NoneAdded
  <2>3. CASE table[f] # File(k)
    <3>1. k \in StrayFiles
      BY <1>1, <2>3 DEF StrayFiles, Handle
    <3> DEFINE B == StrayFiles \ {k}
    <3>2. PICK x : \/ StraySockets' \subseteq StraySockets \cup {x} /\ StrayFiles' \subseteq B
                   \/ StraySockets' \subseteq StraySockets /\ StrayFiles' \subseteq B \cup {x}
      <4>1. PICK x : OneStray(x)
        BY <1>1, <1>3, <1>6, <1>7, Robbed
      <4> QED
        BY <2>1, <4>1 DEF OneStray
    <3> QED
      BY <1>1, <3>1, <3>2, Replaced
  <2> QED
    BY <2>2, <2>3
<1> QED
  BY <1>8, <1>9 DEF Kept

(* A number is closed, and nothing else changes but raw and probing.       *)
LEMMA NumberClosed ==
    ASSUME DInv, NEW f \in 1 .. Fds, CloseNumber(f),
           UNCHANGED <<rest, files>>, DTypeOK', probing' = probing \/ table[f] = Probe
    PROVE  /\ DInv'
           /\ \A e \in StraySockets' : e \in StraySockets \/ e = table[f]
           /\ \A h \in StrayFiles' : h \in StrayFiles \/ File(h) = table[f]
           /\ \E x : OneStray(x)
<1>1. /\ table' = [table EXCEPT ![f] = None]
      /\ UNCHANGED <<object, fd, handle, number>>
  BY DEF CloseNumber, rest, files
<1>2. table \in [1 .. Fds -> Thing]
  BY DTypes DEF DInv
<1>3. DInv'
  <2>1. Paired' /\ Numbered'
    BY <1>1 DEF DInv, Paired, Numbered
  <2>2. \A g \in 1 .. Fds : table'[g] \in {table[g], None}
    BY <1>1, <1>2
  <2>3. \A g \in 1 .. Fds : table'[g] = Probe => probing' = probing
    <3> SUFFICES ASSUME NEW g \in 1 .. Fds, table'[g] = Probe, table[f] = Probe
                 PROVE  FALSE
      OBVIOUS
    <3>1. table[g] = Probe
      BY <2>2, Names
    <3>2. g = f
      BY <3>1 DEF DInv, Probed
    <3>3. table'[g] = None
      BY <1>1, <1>2, <3>2
    <3> QED
      BY <3>3, Names
  <2> QED
    BY <1>1, <2>1, <2>2, <2>3, Fewer
<1>4. \A e \in End : Alive(e)' /\ fd'[e] # -1 => Alive(e) /\ fd'[e] = fd[e]
  BY <1>1 DEF Alive
<1> QED
  BY <1>1, <1>3, <1>4, Robbed

(* testcase.close(): one stray more at most, and one raw close more.       *)
LEMMA RawKept ==
    ASSUME DInv, StrayBounded, NEW f \in 1 .. Fds, CloseRaw(f)
    PROVE  Kept
<1>1. /\ CloseNumber(f) /\ UNCHANGED <<rest, files, probing>>
      /\ raw' = raw + 1 /\ raw < MaxRaw
  BY DEF CloseRaw
<1>2. DTypeOK'
  <2>1. table' \in [1 .. Fds -> Thing]
    <3>1. table \in [1 .. Fds -> Thing]
      BY DTypes DEF DInv
    <3> QED
      BY <1>1, <3>1 DEF CloseNumber, Thing
  <2>2. raw' \in 0 .. MaxRaw
    BY <1>1, HandleAssumption DEF DInv, DTypeOK
  <2> QED
    BY <1>1, <2>1, <2>2 DEF DInv, DTypeOK, Thing, Handle, rest, files
<1>3. DInv' /\ \E x : OneStray(x)
  BY <1>1, <1>2, NumberClosed
<1>4. PICK x : OneStray(x)
  BY <1>3
<1>5. raw \in Nat
  BY HandleAssumption DEF DInv, DTypeOK
<1>6. /\ Cardinality(StraySockets') + Cardinality(StrayFiles')
             <= Cardinality(StraySockets) + Cardinality(StrayFiles) + 1
      /\ Cardinality(StraySockets') \in Nat /\ Cardinality(StrayFiles') \in Nat
  <2>1. IsFiniteSet(StraySockets \cup {x}) /\ IsFiniteSet(StrayFiles \cup {x})
    BY FiniteStrays, FS_AddElement
  <2>2. IsFiniteSet(StraySockets') /\ IsFiniteSet(StrayFiles')
    BY <1>4, <2>1, FiniteStrays, FS_Subset DEF OneStray
  <2> QED
    BY <1>4, <2>2, FiniteStrays, OneMore, FS_CardinalityType DEF OneStray
<1>7. StrayBounded'
  BY <1>1, <1>5, <1>6, FiniteStrays DEF StrayBounded
<1> QED
  BY <1>3, <1>7 DEF Kept

(* close(2) in fstat(): the number was nobody else's.                      *)
LEMMA FstatKept ==
    ASSUME DInv, StrayBounded, FstatEnds
    PROVE  Kept
<1>1. PICK f \in 1 .. Fds : table[f] = Probe /\ CloseNumber(f)
  BY DEF FstatEnds
<1>2. probing' = FALSE /\ UNCHANGED <<rest, files, raw>>
  BY DEF FstatEnds
<1>3. DTypeOK'
  <2>1. table' \in [1 .. Fds -> Thing]
    <3>1. table \in [1 .. Fds -> Thing]
      BY DTypes DEF DInv
    <3> QED
      BY <1>1, <3>1 DEF CloseNumber, Thing
  <2>2. probing' \in BOOLEAN
    BY <1>2, Zenon
  <2> QED
    BY <1>2, <2>1, <2>2 DEF DInv, DTypeOK, Thing, Handle, rest, files
<1>4. /\ DInv'
      /\ \A e \in StraySockets' : e \in StraySockets \/ e = table[f]
      /\ \A h \in StrayFiles' : h \in StrayFiles \/ File(h) = table[f]
  BY <1>1, <1>2, <1>3, NumberClosed
<1>5. StraySockets' \subseteq StraySockets /\ StrayFiles' \subseteq StrayFiles
  BY <1>1, <1>4, Names DEF StraySockets, StrayFiles, Handle
<1> QED
  BY <1>2, <1>4, <1>5, NoneAdded DEF Kept

(* Every step.                                                             *)
LEMMA DNextKept == DInv /\ StrayBounded /\ [DNext]_dvars => Kept
<1> SUFFICES ASSUME DInv, StrayBounded, [DNext]_dvars PROVE Kept
  OBVIOUS
<1>1. CASE SocketStep
  BY <1>1, NewKept, CloseKept DEF SocketStep
<1>2. ASSUME NEW h \in Handle, OpenFile(h) PROVE Kept
  BY <1>2, TakeKept DEF OpenFile
<1>3. ASSUME NEW h \in Handle, CloseFile(h) PROVE Kept
  BY <1>3, CloseFileKept
<1>4. ASSUME NEW f \in 1 .. Fds, CloseRaw(f) PROVE Kept
  BY <1>4, RawKept
<1>5. ASSUME NEW h \in Handle, CloseFileRaw(h) PROVE Kept
  BY <1>4, <1>5 DEF CloseFileRaw, DInv, Numbered
<1>6. CASE FstatOpens
  BY <1>6, TakeKept DEF FstatOpens
<1>7. CASE FstatFails \/ FstatSucceeds
  BY <1>7, FstatKept DEF FstatFails, FstatSucceeds
<1>8. CASE UNCHANGED dvars
  <2>1. UNCHANGED <<table, object, fd, handle, number, probing, raw>>
    BY <1>8 DEF dvars, vars, files
  <2>2. DInv'
    BY <2>1 DEF DInv, DTypeOK, Paired, Owned, Filed, Probed, Numbered, Alive
  <2>3. StraySockets' = StraySockets /\ StrayFiles' = StrayFiles
    BY <2>1 DEF StraySockets, StrayFiles, Alive
  <2> QED
    BY <2>1, <2>2, <2>3, NoneAdded DEF Kept
<1> QED
  BY <1>1, <1>2, <1>3, <1>4, <1>5, <1>6, <1>7, <1>8 DEF DNext, Handle

(* Whatever was closed behind whose back, an open number is that of a      *)
(* socket object that is alive, of a file handle that is open, or of the   *)
(* fstat() that runs (src/socketpair.c:109-118, 222-230,                   *)
(* src/fstat.c:64-77).                                                     *)
THEOREM NoLeakHolds == DSpec => []NoLeak
<1>1. DInit => DInv /\ StrayBounded
  BY DInitOK, FS_EmptySet DEF StrayBounded
<1>2. DInv /\ StrayBounded /\ [DNext]_dvars => (DInv /\ StrayBounded)'
  BY DNextKept DEF Kept
<1> QED
  BY <1>1, <1>2, OwnedIsNoLeak, PTL DEF DSpec

(* The owners whose number is not theirs are never more than the numbers   *)
(* that testcase.close() closed (src/close.c:43-63).                       *)
THEOREM StrayBoundedHolds == DSpec => []StrayBounded
<1>1. DInit => DInv /\ StrayBounded
  BY DInitOK, FS_EmptySet DEF StrayBounded
<1>2. DInv /\ StrayBounded /\ [DNext]_dvars => (DInv /\ StrayBounded)'
  BY DNextKept DEF Kept
<1> QED
  BY <1>1, <1>2, PTL DEF DSpec

(* The table, the objects and the handles keep their types.                *)
THEOREM DTypeCorrect == DSpec => []DTypeOK
<1>1. DInit => DInv /\ StrayBounded
  BY DInitOK, FS_EmptySet DEF StrayBounded
<1>2. DInv /\ StrayBounded /\ [DNext]_dvars => (DInv /\ StrayBounded)'
  BY DNextKept DEF Kept
<1>3. DInv => DTypeOK
  BY DEF DInv
<1> QED
  BY <1>1, <1>2, <1>3, PTL DEF DSpec
===============================================================================
