--------------------------- MODULE SocketSendFile ---------------------------
(***************************************************************************)
(* SendFile, called by threads that each copy from a file of their own to  *)
(* a socket of their own.  The block buffer szData is static: there is one *)
(* in the process.  A call is a read() and a SEND per block, and another   *)
(* thread may run between the two.  A byte is a pair <<thread, position in *)
(* the thread's file>>.                                                    *)
(***************************************************************************)
EXTENDS SocketErrors, Integers, Sequences

CONSTANTS
    Callers,        \* the threads that call SendFile
    FileSize,       \* bytes of each file
    BlockSize,      \* SOCKET_SENDFILE_BLOCKSIZE
    Counts          \* values of nCount

ASSUME SendFileAssumption ==
    /\ FileSize \in Nat
    /\ BlockSize \in Nat \ {0}
    /\ Counts \subseteq Nat

VARIABLES
    pc,             \* where each thread is
    offset,         \* *pOffset of each thread
    nCount,         \* bytes its call was asked to copy
    nOutCount,
    szData,         \* the static buffer
    pos,            \* kernel: position of each file
    errno,          \* of each thread
    m_socketErrno,
    start,          \* *pOffset when the call began
    sent,           \* bytes the call has put on its socket
    overlapped,     \* another call ran during the call
    ret             \* result of the last call of each thread

vars == <<pc, offset, nCount, nOutCount, szData, pos, errno, m_socketErrno,
          start, sent, overlapped, ret>>

Unread == <<"none", 0>>

TypeOK ==
    /\ pc \in [Callers -> {"idle", "read", "send"}]
    /\ offset \in [Callers -> 0..FileSize]
    /\ nCount \in [Callers -> Counts \cup {0}]
    /\ nOutCount \in [Callers -> -1..FileSize]
    /\ szData \in [0..(BlockSize - 1) ->
                     (Callers \X (0..FileSize)) \cup {Unread}]
    /\ pos \in [Callers -> 0..FileSize]
    /\ errno \in [Callers -> Errnos]
    /\ m_socketErrno \in CSocketError
    /\ start \in [Callers -> 0..FileSize]
    /\ sent \in [Callers -> Seq(Callers \X (0..FileSize))]
    /\ overlapped \in [Callers -> BOOLEAN]
    /\ ret \in [Callers -> -1..FileSize]

Lesser(m, n) == IF m < n THEN m ELSE n

nInCount(c) == Lesser(nCount[c] - nOutCount[c], BlockSize)

At(c, where) == pc' = [pc EXCEPT ![c] = where]

(* The early returns of -1 move no offset and store no error code. *)
Fails(c) ==
    /\ At(c, "idle")
    /\ ret' = [ret EXCEPT ![c] = -1]
    /\ UNCHANGED <<offset, m_socketErrno>>

(* A system call of c leaves an error number, or errno as it was. *)
Leaves(c, e) == errno' = [errno EXCEPT ![c] = e]

(* SendFile is called; lseek() refuses a file that has no position. *)
SendFileCalled(c, n) ==
    /\ pc[c] = "idle"
    /\ nCount' = [nCount EXCEPT ![c] = n]
    /\ nOutCount' = [nOutCount EXCEPT ![c] = -1]
    /\ start' = [start EXCEPT ![c] = offset[c]]
    /\ sent' = [sent EXCEPT ![c] = <<>>]
    /\ LET active == {d \in Callers : pc[d] # "idle"} IN
       overlapped' = [d \in Callers |-> IF d = c THEN active # {}
                                        ELSE overlapped[d] \/ d \in active]
    /\ \/ /\ pos' = [pos EXCEPT ![c] = offset[c]]
          /\ At(c, "read")
          /\ UNCHANGED <<offset, errno, m_socketErrno, ret>>
       \/ /\ Leaves(c, "EOTHER")
          /\ Fails(c)
          /\ UNCHANGED pos
    /\ UNCHANGED szData

(* read() of nInCount bytes into szData, fewer at the end of the file. *)
FileReads(c) ==
    LET k == Lesser(nInCount(c), FileSize - pos[c]) IN
    /\ pc[c] = "read"
    /\ szData' = [i \in DOMAIN szData |->
                    IF i < k THEN <<c, pos[c] + i>> ELSE szData[i]]
    /\ pos' = [pos EXCEPT ![c] = @ + k]
    /\ IF k = nInCount(c)
       THEN At(c, "send") /\ UNCHANGED <<ret, offset, m_socketErrno>>
       ELSE Fails(c)
    /\ UNCHANGED <<errno, nCount, nOutCount, start, sent, overlapped>>

ReadFails(c) ==
    /\ pc[c] = "read"
    /\ Leaves(c, "EOTHER")
    /\ Fails(c)
    /\ UNCHANGED <<szData, pos, nCount, nOutCount, start, sent, overlapped>>

Puts(c, k) ==
    sent' = [sent EXCEPT ![c] = @ \o [i \in 1..k |-> szData[i - 1]]]

(* The loop goes on while nOutCount < nCount. *)
Advances(c, total) ==
    /\ nOutCount' = [nOutCount EXCEPT ![c] = total]
    /\ IF total < nCount[c]
       THEN At(c, "read") /\ UNCHANGED <<ret, offset, m_socketErrno>>
       ELSE /\ At(c, "idle")
            /\ offset' = [offset EXCEPT ![c] = @ + total]
            /\ m_socketErrno' = TranslateSocketError(errno[c])
            /\ ret' = [ret EXCEPT ![c] = total]

(* Mutation: a short send counts as what it sent, and the loop goes on. *)
FileSendsOn(c) ==
    /\ pc[c] = "send"
    /\ \E k \in 1..nInCount(c) :
         /\ Puts(c, k)
         /\ Advances(c, nOutCount[c] + k)
    /\ UNCHANGED <<szData, pos, errno, nCount, start, overlapped>>

(* Mutation: a call that fails later has moved the offset already. *)
FileSendsMoving(c) ==
    /\ pc[c] = "send"
    /\ Puts(c, nInCount(c))
    /\ LET total == nOutCount[c] + nInCount(c) IN
       /\ nOutCount' = [nOutCount EXCEPT ![c] = total]
       /\ offset' = [offset EXCEPT ![c] = start[c] + total]
       /\ IF total < nCount[c]
          THEN At(c, "read") /\ UNCHANGED <<ret, m_socketErrno>>
          ELSE /\ At(c, "idle")
               /\ m_socketErrno' = TranslateSocketError(errno[c])
               /\ ret' = [ret EXCEPT ![c] = total]
    /\ UNCHANGED <<szData, pos, errno, nCount, start, overlapped>>

(* SEND of the block: all of it, or fewer bytes, which ends the call. *)
FileSends(c) ==
    /\ pc[c] = "send"
    /\ \E k \in 1..nInCount(c) :
         /\ Puts(c, k)
         /\ IF k = nInCount(c)
            THEN Advances(c, nOutCount[c] + nInCount(c))
            ELSE Fails(c) /\ UNCHANGED nOutCount
    /\ UNCHANGED <<szData, pos, errno, nCount, start, overlapped>>

SendFails(c) ==
    /\ pc[c] = "send"
    /\ \E e \in {"EWOULDBLOCK", "EPIPE"} : Leaves(c, e)
    /\ Fails(c)
    /\ UNCHANGED <<szData, pos, nCount, nOutCount, start, sent, overlapped>>

Init ==
    /\ pc = [c \in Callers |-> "idle"]
    /\ offset = [c \in Callers |-> 0]
    /\ nCount = [c \in Callers |-> 0]
    /\ nOutCount = [c \in Callers |-> -1]
    /\ szData = [i \in 0..(BlockSize - 1) |-> Unread]
    /\ pos = [c \in Callers |-> 0]
    /\ errno = [c \in Callers |-> "EXIT_SUCCESS"]
    /\ m_socketErrno = "SocketInvalidSocket"
    /\ start = [c \in Callers |-> 0]
    /\ sent = [c \in Callers |-> <<>>]
    /\ overlapped = [c \in Callers |-> FALSE]
    /\ ret = [c \in Callers |-> -1]

Copies(c) == FileReads(c) \/ ReadFails(c) \/ FileSends(c) \/ SendFails(c)

Next == \E c \in Callers : Copies(c) \/ \E n \in Counts : SendFileCalled(c, n)

Spec == Init /\ [][Next]_vars

-----------------------------------------------------------------------------
(***************************************************************************)
(* What a call puts on its socket is one section of its own file, from     *)
(* *pOffset on and without a gap, also when it fails halfway.  The static  *)
(* buffer allows this only while no other call of SendFile overlaps.       *)
(***************************************************************************)
CopyContiguous ==
    \A c \in Callers :
        ~overlapped[c]
        => sent[c] = [i \in 1..Len(sent[c]) |-> <<c, start[c] + i - 1>>]

(***************************************************************************)
(* Whatever the interleaving, a call that returns n >= 0 has moved the     *)
(* offset by n and put n + 1 bytes on its socket: the count starts at -1   *)
(* (SimpleSocket.cpp:908), so a caller that goes on from the offset leaves *)
(* nothing out but sends one byte again.  One that returns -1 leaves the   *)
(* offset where it was, so that the call can be repeated.                  *)
(***************************************************************************)
OffsetMatchesResult ==
    \A c \in Callers :
        pc[c] = "idle"
        => IF ret[c] = -1 THEN offset[c] = start[c]
           ELSE /\ offset[c] = start[c] + ret[c]
                /\ Len(sent[c]) = ret[c] + 1

=============================================================================
