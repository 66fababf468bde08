----------------------------- MODULE SocketPair -----------------------------
(***************************************************************************)
(* src/socketpair.c: socket objects over the descriptor table of the       *)
(* process.  An object keeps a descriptor number; the kernel gives the     *)
(* lowest free numbers to new sockets, so a number that was closed soon    *)
(* stands for another socket.  Data is written and read in chunks.         *)
(***************************************************************************)
EXTENDS Integers, Sequences, FiniteSets, FiniteSetsExt

CONSTANTS
    Pairs,      \* how many times socketpair() is called
    Fds,        \* the size of the descriptor table
    Sizes,      \* the buffer sizes in use, in chunks
    MaxSent,    \* how many chunks an object writes, to bound the runs
    Hows,       \* the ways user code shuts sockets down
    Modes       \* the values user code gives O_NONBLOCK

ASSUME SizeAssumption ==
    /\ Pairs \in Nat /\ Fds \in Nat /\ MaxSent \in Nat
    /\ Sizes \subseteq Nat \ {0}
    /\ Hows \subseteq {"rd", "wr", "rdwr"} /\ Modes \subseteq BOOLEAN

\* The two ends of each pair name the sockets and the objects made for them.
End == (1 .. Pairs) \X {1, 2}
Peer(e) == <<e[1], 3 - e[2]>>
None == <<0, 0>>

VARIABLES
    table,      \* table[f]: the socket that descriptor f stands for, or None
    object,     \* object[o]: "unmade", "alive" or "collected"
    fd,         \* fd[o]: the descriptor in object o, or -1
    queue,      \* queue[e]: the chunks that wait at socket e
    norecv,     \* norecv[e]: e will receive no more
    nosend,     \* nosend[e]: e can send no more
    nonblock,   \* nonblock[e]: O_NONBLOCK
    rcvbuf, sndbuf, \* SO_RCVBUF and SO_SNDBUF of a socket
    sent,       \* sent[o]: how many chunks were written through o
    got,        \* history: the chunks read through o
    ended,      \* history: a read through o returned nil for the end
    asked       \* history: the size sendbuf() was last given for a socket

buffers == <<rcvbuf, sndbuf, asked>>
modes == <<norecv, nosend, nonblock, buffers>>
data == <<queue, sent, got, ended>>
vars == <<table, object, fd, modes, data>>

Init ==
    /\ table = [f \in 1 .. Fds |-> None]
    /\ object = [o \in End |-> "unmade"]
    /\ fd = [o \in End |-> -1]
    /\ queue = [e \in End |-> << >>]
    /\ norecv = [e \in End |-> FALSE] /\ nosend = [e \in End |-> FALSE]
    /\ nonblock = [e \in End |-> FALSE]
    /\ rcvbuf = [e \in End |-> Max(Sizes)] /\ sndbuf = [e \in End |-> Max(Sizes)]
    /\ sent = [o \in End |-> 0]
    /\ got = [o \in End |-> << >>]
    /\ ended = [o \in End |-> FALSE]
    /\ asked = sndbuf

Alive(o) == object[o] = "alive"

\* The socket an object works on, if its descriptor stands for one.
Socket(o) == IF fd[o] = -1 THEN None ELSE table[fd[o]]
Works(o) == Alive(o) /\ Socket(o) \in End

IsOpen(e) == \E f \in 1 .. Fds : table[f] = e

\* A socket whose peer was closed, or that was shut down, on either side.
AtEnd(e) == norecv[e] \/ nosend[Peer(e)] \/ ~IsOpen(Peer(e))
Broken(e) == nosend[e] \/ norecv[Peer(e)] \/ ~IsOpen(Peer(e))

-----------------------------------------------------------------------------
(* A call that returns an error changes nothing: a step of its own would be *)
(* a stutter.                                                               *)

Free == {f \in 1 .. Fds : table[f] = None}

\* new_lua(); with fewer than two free descriptors it returns an error.
New(n, b) ==
    LET f1 == Min(Free)
        f2 == Min(Free \ {f1})
    IN  /\ object[<<n, 1>>] = "unmade"
        /\ \A m \in 1 .. n - 1 : object[<<m, 1>>] # "unmade"
        /\ Cardinality(Free) >= 2
        /\ table' = [table EXCEPT ![f1] = <<n, 1>>, ![f2] = <<n, 2>>]
        /\ object' = [object EXCEPT ![<<n, 1>>] = "alive", ![<<n, 2>>] = "alive"]
        /\ fd' = [fd EXCEPT ![<<n, 1>>] = f1, ![<<n, 2>>] = f2]
        /\ nonblock' = [nonblock EXCEPT ![<<n, 1>>] = b, ![<<n, 2>>] = b]
        /\ UNCHANGED <<norecv, nosend, buffers, data>>

\* close(2) of an open number: its socket is gone, with what waits there.
CloseNumber(f) ==
    /\ table' = [table EXCEPT ![f] = None]
    /\ queue' = [e \in End |-> IF e = table[f] THEN << >> ELSE queue[e]]
    /\ norecv' = [e \in End |-> e # table[f] /\ norecv[e]]
    /\ nosend' = [e \in End |-> e # table[f] /\ nosend[e]]

\* close(2) of the number in object o.
CloseFd(o) ==
    IF Socket(o) = None THEN UNCHANGED <<table, queue, norecv, nosend>>
    ELSE CloseNumber(fd[o])

\* close_lua()
FdAfterClose_same(o) == fd[o] \* mutant: the number stays in the object
FdAfterClose(o) == -1

Close(o) ==
    /\ Alive(o)
    /\ CloseFd(o)
    /\ fd' = [fd EXCEPT ![o] = FdAfterClose(o)]
    /\ UNCHANGED <<object, nonblock, buffers, sent, got, ended>>

\* gc_lua()
Collect_leak(o) == \* mutant: the finalizer closes nothing
    /\ Alive(o)
    /\ object' = [object EXCEPT ![o] = "collected"]
    /\ UNCHANGED <<table, fd, modes, data>>
Collect(o) ==
    /\ Alive(o)
    /\ CloseFd(o)
    /\ object' = [object EXCEPT ![o] = "collected"]
    /\ UNCHANGED <<fd, nonblock, buffers, sent, got, ended>>

\* write_lua(); to a full socket it waits or returns again.
Write(o) ==
    LET e == Socket(o) IN
    /\ Works(o) /\ ~Broken(e)
    /\ sent[o] < MaxSent
    /\ Len(queue[Peer(e)]) < sndbuf[e]
    /\ queue' = [queue EXCEPT ![Peer(e)] = Append(@, <<o, sent[o] + 1>>)]
    /\ sent' = [sent EXCEPT ![o] = @ + 1]
    /\ UNCHANGED <<table, object, fd, modes, got, ended>>

\* read_lua() returns data.
Read(o) ==
    LET e == Socket(o) IN
    /\ Works(o)
    /\ queue[e] # << >>
    /\ got' = [got EXCEPT ![o] = Append(@, Head(queue[e]))]
    /\ queue' = [queue EXCEPT ![e] = Tail(@)]
    /\ UNCHANGED <<table, object, fd, modes, sent, ended>>

\* read(2) returns 0; otherwise it waits, or read_lua() returns again.
Nothing_again(e) == AtEnd(e) \/ nonblock[e] \* mutant: EAGAIN is not told apart
Nothing(e) == AtEnd(e)

\* read_lua() returns nil alone.
ReadEnd(o) ==
    /\ Works(o)
    /\ queue[Socket(o)] = << >> /\ Nothing(Socket(o))
    /\ ended' = [ended EXCEPT ![o] = TRUE]
    /\ UNCHANGED <<table, object, fd, modes, queue, sent, got>>

\* shutdown(2)
ShutdownSocket(e, how) ==
    /\ norecv' = [norecv EXCEPT ![e] = @ \/ how \in {"rd", "rdwr"}]
    /\ nosend' = [nosend EXCEPT ![e] = @ \/ how \in {"wr", "rdwr"}]
    /\ UNCHANGED <<table, object, fd, nonblock, buffers, data>>

\* do_shutdown()
Shutdown(o, how) == Works(o) /\ ShutdownSocket(Socket(o), how)

\* shutdown.c: the same by number; on what is no socket it returns an error.
ShutdownFd(f, how) == table[f] \in End /\ ShutdownSocket(table[f], how)

\* nonblock_lua()
SetNonblock(o, b) ==
    /\ Works(o)
    /\ nonblock' = [nonblock EXCEPT ![Socket(o)] = b]
    /\ UNCHANGED <<table, object, fd, norecv, nosend, buffers, data>>

\* sockbuf(); both recvbuf_lua() and sendbuf_lua() hand it SO_RCVBUF.
SockBuf(o, size) == rcvbuf' = [rcvbuf EXCEPT ![Socket(o)] = size]

RecvBuf(o, size) ==
    /\ Works(o)
    /\ SockBuf(o, size)
    /\ UNCHANGED <<table, object, fd, norecv, nosend, nonblock, sndbuf, asked, data>>

SendBuf(o, size) ==
    /\ Works(o)
    /\ SockBuf(o, size)
    /\ asked' = [asked EXCEPT ![Socket(o)] = size]
    /\ UNCHANGED <<table, object, fd, norecv, nosend, nonblock, sndbuf, data>>

Next ==
    \/ \E n \in 1 .. Pairs, b \in Modes : New(n, b)
    \/ \E o \in End :
           \/ Close(o) \/ Collect(o) \/ Write(o) \/ Read(o) \/ ReadEnd(o)
           \/ \E how \in Hows : Shutdown(o, how)
           \/ \E b \in Modes : SetNonblock(o, b)
           \/ \E size \in Sizes : RecvBuf(o, size) \/ SendBuf(o, size)
    \/ \E f \in 1 .. Fds, how \in Hows : ShutdownFd(f, how)

Spec == Init /\ [][Next]_vars

-----------------------------------------------------------------------------
(* Properties.                                                             *)

TypeOK ==
    /\ table \in [1 .. Fds -> End \cup {None}]
    /\ object \in [End -> {"unmade", "alive", "collected"}]
    /\ fd \in [End -> {-1} \cup 1 .. Fds]
    /\ queue \in [End -> Seq(End \X Nat)] /\ got \in [End -> Seq(End \X Nat)]
    /\ sent \in [End -> Nat]
    /\ ended \in [End -> BOOLEAN]
    /\ norecv \in [End -> BOOLEAN] /\ nosend \in [End -> BOOLEAN]

(* A descriptor is open exactly as long as its object is alive and was not *)
(* closed, and an object never works on the socket of another: close() may *)
(* be called many times (README.md:709), and the descriptor may stand for  *)
(* another socket by then (src/socketpair.c:109-118, 222-230).             *)
OwnSocket ==
    /\ \A o \in End : Alive(o) /\ fd[o] # -1 => Socket(o) = o
    /\ \A e \in End : IsOpen(e) => Alive(e) /\ fd[e] # -1

(* What is read through an object is what was written through its peer, in *)
(* order and without a gap, whatever else was opened and closed            *)
(* (src/socketpair.c:35-79).                                               *)
StreamOfPeer ==
    \A o \in End : /\ \A i \in DOMAIN got[o] : got[o][i] = <<Peer(o), i>>
                   /\ Len(got[o]) <= sent[Peer(o)]

(* read() returns nil, without an error and without again, only when no     *)
(* data can ever be read through the object again: the end of the stream is *)
(* told apart from a socket that is empty for now (src/socketpair.c:63-76). *)
EofIsTheEnd == [][\A o \in End : ended[o] => got'[o] = got[o]]_vars

(* README.md:692: sendbuf() "Gets or sets the send buffer size             *)
(* (`SO_SNDBUF`)" (src/socketpair.c:154-157).                              *)
SendbufSetsSendBuffer == \A e \in End : IsOpen(e) => sndbuf[e] = asked[e]
=============================================================================
