----------------------------- MODULE Descriptors -----------------------------
(***************************************************************************)
(* The descriptor table under everything of the library that opens or      *)
(* closes numbers: the socket objects of SocketPair, testcase.close() of   *)
(* any number (src/close.c), the file handles of Lua's io library and      *)
(* testcase.fstat() (src/fstat.c).  Sockets carry no data here.            *)
(***************************************************************************)
EXTENDS SocketPair

CONSTANTS
    Handles,    \* how many files io.open() opens
    MaxRaw      \* how many open numbers testcase.close() closes

ASSUME HandleAssumption == Handles \in Nat /\ MaxRaw \in Nat

\* What a number stands for when it is no socket: the file of a handle, or
\* the file that fstat() looks at.
File(h) == <<0, h>>
Probe == File(Handles + 1)

VARIABLES
    handle,     \* handle[h]: "unmade", "open" or "closed"
    number,     \* number[h]: the number in handle h
    probing,    \* fstat() has opened its pathname
    raw         \* history: how many open numbers testcase.close() closed

files == <<handle, number>>
dvars == <<vars, files, probing, raw>>

DInit ==
    /\ Init
    /\ handle = [h \in 1 .. Handles |-> "unmade"]
    /\ number = [h \in 1 .. Handles |-> -1]
    /\ probing = FALSE
    /\ raw = 0

\* fstat() runs to its end before user code goes on.
Idle == ~probing

rest == <<object, fd, nonblock, buffers, sent, got, ended>>

-----------------------------------------------------------------------------
\* socketpair(), close() and the finalizer of a socket object.
SocketStep ==
    /\ Idle
    /\ \/ \E n \in 1 .. Pairs, b \in Modes : New(n, b)
       \/ \E o \in End : Close(o) \/ Collect(o)
    /\ UNCHANGED <<files, probing, raw>>

\* The number that io.open() or open(2) gets.
Take(what) ==
    /\ Idle
    /\ Free # {}
    /\ table' = [table EXCEPT ![Min(Free)] = what]
    /\ UNCHANGED <<object, fd, modes, data, raw>>

OpenFile(h) ==
    /\ handle[h] = "unmade"
    /\ Take(File(h))
    /\ handle' = [handle EXCEPT ![h] = "open"]
    /\ number' = [number EXCEPT ![h] = Min(Free)]
    /\ UNCHANGED probing

\* f:close(), or its finalizer: the number is closed, whatever it stands for.
CloseFile(h) ==
    /\ Idle
    /\ handle[h] = "open"
    /\ handle' = [handle EXCEPT ![h] = "closed"]
    /\ IF table[number[h]] = None THEN UNCHANGED <<table, queue, norecv, nosend>>
       ELSE CloseNumber(number[h])
    /\ UNCHANGED <<rest, number, probing, raw>>

\* close_lua() of close.c.  A number that is not open gives an error.
CloseRaw(f) ==
    /\ Idle
    /\ table[f] # None /\ raw < MaxRaw
    /\ CloseNumber(f)
    /\ raw' = raw + 1
    /\ UNCHANGED <<rest, files, probing>>

\* Of a file, close_lua() closes the number fileno() gives.  Of one that was
\* closed it may be any number: from Lua 5.2 on *fp is not NULL then, and
\* fileno() reads memory that was freed.
CloseFileRaw(h) ==
    \/ handle[h] = "open" /\ CloseRaw(number[h])
    \/ handle[h] = "closed" /\ \E f \in 1 .. Fds : CloseRaw(f)

\* fstat_lua() has opened the path.
FstatOpens == Take(Probe) /\ probing' = TRUE /\ UNCHANGED files

\* fstat_lua() closes its descriptor and returns.
FstatEnds ==
    /\ probing
    /\ \E f \in 1 .. Fds : table[f] = Probe /\ CloseNumber(f)
    /\ probing' = FALSE
    /\ UNCHANGED <<rest, files, raw>>

\* fstat(2) fails, or it succeeds.
FstatFails_leak == \* mutant: the error is returned at once
    /\ probing
    /\ probing' = FALSE
    /\ UNCHANGED <<vars, files, raw>>
FstatFails == FstatEnds
FstatSucceeds == FstatEnds

DNext ==
    \/ SocketStep
    \/ \E h \in 1 .. Handles : OpenFile(h) \/ CloseFile(h) \/ CloseFileRaw(h)
    \/ \E f \in 1 .. Fds : CloseRaw(f)
    \/ FstatOpens \/ FstatFails \/ FstatSucceeds

DSpec == DInit /\ [][DNext]_dvars

-----------------------------------------------------------------------------
(* Properties.                                                             *)

DTypeOK ==
    /\ table \in [1 .. Fds -> End \cup {None, Probe} \cup {File(h) : h \in 1 .. Handles}]
    /\ object \in [End -> {"unmade", "alive", "collected"}]
    /\ fd \in [End -> {-1} \cup 1 .. Fds]
    /\ handle \in [1 .. Handles -> {"unmade", "open", "closed"}]
    /\ number \in [1 .. Handles -> {-1} \cup 1 .. Fds]
    /\ probing \in BOOLEAN /\ raw \in 0 .. MaxRaw

(* Nothing is leaked: whatever was closed behind whose back, an open number *)
(* is the number of a socket object that is alive, of a file handle that is *)
(* open, or of the fstat() that runs, and that will close it                *)
(* (src/socketpair.c:109-118, 222-230, src/fstat.c:64-77).                  *)
NoLeak ==
    \A f \in 1 .. Fds :
        \/ table[f] = None
        \/ table[f] = Probe /\ probing
        \/ \E o \in End : table[f] = o /\ Alive(o) /\ fd[o] = f
        \/ \E h \in 1 .. Handles :
               table[f] = File(h) /\ handle[h] = "open" /\ number[h] = f

\* The owners whose number is not theirs any more.
StraySockets == {o \in End : Alive(o) /\ fd[o] # -1 /\ table[fd[o]] # o}
StrayFiles ==
    {h \in 1 .. Handles : handle[h] = "open" /\ table[number[h]] # File(h)}

(* testcase.close() of a number leaves its owner with a number that soon    *)
(* stands for something else, and the close() or finalizer of that owner    *)
(* then closes what belongs to another (src/close.c:43-63).  The damage     *)
(* moves from owner to owner and never grows: there are no more such owners *)
(* than numbers that were closed that way, and none when there were none.   *)
StrayBounded == Cardinality(StraySockets) + Cardinality(StrayFiles) <= raw
=============================================================================
