-------------------------------- MODULE Echo --------------------------------
(***************************************************************************)
(* The example programs: main of RecvAsync.cpp sends a payload over a      *)
(* non-blocking CActiveSocket and reads it back from the thread that it    *)
(* has started, or from EchoServer.cpp when that program holds the port    *)
(* already.  Each direction of the connection is a ByteStream, which       *)
(* SocketTransfer implements.  A block is named by the number of payload   *)
(* bytes before it, so a byte <<block, position>> is number block +        *)
(* position of the payload.  The end of main ends the thread as well.      *)
(***************************************************************************)
EXTENDS Integers, Sequences

CONSTANTS
    nTotalPayloadSize,   \* length of TEST_PACKET
    nNumBytesToReceive,  \* nMaxBytes of the thread's Receive
    MAX_PACKET,          \* nMaxBytes of the other Receives
    Capacities           \* bytes the connection may hold in a direction

ASSUME EchoAssumption ==
    /\ nTotalPayloadSize \in Nat \ {0}
    /\ nNumBytesToReceive \in Nat \ {0}
    /\ MAX_PACKET \in Nat \ {0}
    /\ Capacities \subseteq Nat \ {0}

Processes == {"main", "thread", "EchoServer"}

Places == {"absent", "listen", "accept", "open", "send", "sending", "receive",
           "close", "sleep", "ended"}

VARIABLES
    at,                  \* where each process is
    backlog,             \* kernel: a connection waits to be accepted
    capacity,            \* kernel: bytes held in each direction
    nBytesReceived,      \* of the thread
    m_nBytesReceived,    \* of the server's pClient: GetBytesReceived()
    bytesReceived,       \* of main
    upStream, upReceived, upBlock, upAccepted, upTold,
    downStream, downReceived, downBlock, downAccepted, downTold

upVars    == <<upStream, upReceived, upBlock, upAccepted, upTold>>
downVars  == <<downStream, downReceived, downBlock, downAccepted, downTold>>
countVars == <<nBytesReceived, m_nBytesReceived, bytesReceived>>
vars == <<at, backlog, capacity, nBytesReceived, m_nBytesReceived,
          bytesReceived, upStream, upReceived, upBlock, upAccepted, upTold,
          downStream, downReceived, downBlock, downAccepted, downTold>>

PayloadSizes == 1..nTotalPayloadSize

(* From main to the server, one block. *)
Up == INSTANCE ByteStream WITH
    Blocks <- {0}, Sizes <- PayloadSizes, stream <- upStream,
    received <- upReceived, block <- upBlock, accepted <- upAccepted,
    told <- upTold

(* Back, one block for each Receive of the server. *)
Down == INSTANCE ByteStream WITH
    Blocks <- 0..nTotalPayloadSize, Sizes <- PayloadSizes,
    stream <- downStream, received <- downReceived, block <- downBlock,
    accepted <- downAccepted, told <- downTold

TypeOK ==
    /\ at \in [Processes -> Places]
    /\ backlog \in BOOLEAN
    /\ capacity \in [{"up", "down"} -> Capacities]
    /\ nBytesReceived \in 0..nTotalPayloadSize
    /\ m_nBytesReceived \in 0..nTotalPayloadSize
    /\ bytesReceived \in 0..nTotalPayloadSize
    /\ upTold \in -1..nTotalPayloadSize
    /\ downTold \in -1..nTotalPayloadSize
    /\ Len(upReceived) <= Len(upStream)
    /\ Len(downReceived) <= Len(downStream)

Lesser(m, n) == IF m < n THEN m ELSE n

Goes(p, place) == at' = [at EXCEPT ![p] = place]

-----------------------------------------------------------------------------
(* main *)

(***************************************************************************)
(* Open reaches whoever listens.  The second that main sleeps before does  *)
(* not make sure that the thread does; without a listener main ends.       *)
(***************************************************************************)
Open ==
    /\ at["main"] = "open"
    /\ IF \E p \in Processes : at[p] = "accept"
       THEN Goes("main", "send") /\ backlog' = TRUE
       ELSE Goes("main", "ended") /\ UNCHANGED backlog
    /\ UNCHANGED <<capacity, countVars, upVars, downVars>>

MainSend ==
    /\ at["main"] = "send"
    /\ Up!BeginSend(0, nTotalPayloadSize)
    /\ Goes("main", "sending")
    /\ UNCHANGED <<backlog, capacity, countVars, downVars>>

(* The non-blocking send() takes what fits at once. *)
MainSendFits ==
    /\ at["main"] = "sending"
    /\ upAccepted = 0
    /\ Up!Accept(Lesser(capacity["up"], nTotalPayloadSize))
    /\ UNCHANGED <<at, backlog, capacity, countVars, downVars>>

(***************************************************************************)
(* Send returns; main goes on after a short send as well.  Its Select      *)
(* returns since the socket is ready for writing or, in time, for reading. *)
(***************************************************************************)
MainSendReturns ==
    /\ at["main"] = "sending"
    /\ upAccepted > 0
    /\ Up!EndSend
    /\ Goes("main", "receive")
    /\ UNCHANGED <<backlog, capacity, countVars, downVars>>

(***************************************************************************)
(* A round of the loop in main that is given bytes.  Rounds in which       *)
(* Receive returns -1 or 0 change nothing here.                            *)
(***************************************************************************)
MainReceives ==
    /\ at["main"] = "receive"
    /\ bytesReceived # nTotalPayloadSize
    /\ \E k \in 1..Lesser(MAX_PACKET, Len(downStream) - Len(downReceived)) :
         /\ Down!Receive(k)
         /\ bytesReceived' = bytesReceived + k
    /\ UNCHANGED <<at, backlog, capacity, nBytesReceived, m_nBytesReceived,
                   upVars>>

MainEnds ==
    /\ at["main"] = "receive"
    /\ bytesReceived = nTotalPayloadSize
    /\ Goes("main", "ended")
    /\ UNCHANGED <<backlog, capacity, countVars, upVars, downVars>>

Main == Open \/ MainSend \/ MainSendFits \/ MainSendReturns \/ MainReceives
        \/ MainEnds

-----------------------------------------------------------------------------
(* Both servers *)

Runs(s) == s = "EchoServer" \/ at["main"] # "ended"

Accept(s) ==
    /\ Runs(s)
    /\ at[s] = "accept"
    /\ backlog
    /\ backlog' = FALSE
    /\ Goes(s, "receive")
    /\ UNCHANGED <<capacity, countVars, upVars, downVars>>

(* A Receive(most) that is given bytes; main does not close before it ends. *)
ServerReceives(s, most) ==
    /\ Runs(s)
    /\ at[s] = "receive"
    /\ \E k \in 1..Lesser(most, Len(upStream) - Len(upReceived)) :
         /\ Up!Receive(k)
         /\ m_nBytesReceived' = k
    /\ Goes(s, "send")
    /\ UNCHANGED <<backlog, capacity, bytesReceived, downVars>>

(* Mutation: the length is the size asked for, not GetBytesReceived(). *)
SendsWhatWasAskedFor(s) ==
    /\ Runs(s)
    /\ at[s] = "send"
    /\ Down!BeginSend(Len(upReceived) - m_nBytesReceived,
                      IF s = "thread" THEN nNumBytesToReceive ELSE MAX_PACKET)
    /\ Goes(s, "sending")
    /\ UNCHANGED <<backlog, capacity, countVars, upVars>>

(* Send(GetData(), GetBytesReceived()) is called. *)
ServerSend(s) ==
    /\ Runs(s)
    /\ at[s] = "send"
    /\ Down!BeginSend(Len(upReceived) - m_nBytesReceived, m_nBytesReceived)
    /\ Goes(s, "sending")
    /\ UNCHANGED <<backlog, capacity, countVars, upVars>>

(* The blocking send() stores what fits, and waits for the rest to fit. *)
ServerSendFits(s) ==
    /\ Runs(s)
    /\ at[s] = "sending"
    /\ LET space == capacity["down"] - (Len(downStream) - Len(downReceived))
           rest  == downBlock[2] - downAccepted
       IN  \E k \in {Lesser(space, rest)} \ {0} : Down!Accept(k)
    /\ UNCHANGED <<at, backlog, capacity, countVars, upVars>>

(* Mutation: the server's socket does not block, and sends are short. *)
ServerSendReturnsShort(s, next) ==
    /\ Runs(s)
    /\ at[s] = "sending"
    /\ downAccepted > 0
    /\ Down!EndSend
    /\ Goes(s, next)
    /\ UNCHANGED <<backlog, capacity, countVars, upVars>>

(* Send returns when the whole block is stored. *)
ServerSendReturns(s, next) ==
    /\ Runs(s)
    /\ at[s] = "sending"
    /\ downAccepted = downBlock[2]
    /\ Down!EndSend
    /\ Goes(s, next)
    /\ UNCHANGED <<backlog, capacity, countVars, upVars>>

-----------------------------------------------------------------------------
(* The thread of RecvAsync *)

(***************************************************************************)
(* Listen fails when EchoServer holds the port.  Its result is not looked  *)
(* at: Accept on the closed object returns NULL and the thread ends.       *)
(***************************************************************************)
ThreadListens ==
    /\ Runs("thread")
    /\ at["thread"] = "listen"
    /\ Goes("thread", IF at["EchoServer"] = "absent" THEN "accept" ELSE "ended")
    /\ UNCHANGED <<backlog, capacity, countVars, upVars, downVars>>

(* Mutation: the loop adds up the sizes it has asked for. *)
ThreadCountsSizes ==
    /\ nBytesReceived # nTotalPayloadSize
    /\ ServerReceives("thread", nNumBytesToReceive)
    /\ nBytesReceived' = nBytesReceived + nNumBytesToReceive

(* The sum that the loop tests is never zero after a Receive. *)
ThreadReceives ==
    /\ nBytesReceived # nTotalPayloadSize
    /\ ServerReceives("thread", nNumBytesToReceive)
    /\ nBytesReceived' = nBytesReceived + m_nBytesReceived'

(* After the loop and 100 seconds the connection is closed. *)
ThreadSleeps ==
    /\ Runs("thread")
    /\ at["thread"] = "receive"
    /\ nBytesReceived = nTotalPayloadSize
    /\ Goes("thread", "sleep")
    /\ UNCHANGED <<backlog, capacity, countVars, upVars, downVars>>

ThreadEnds ==
    /\ Runs("thread")
    /\ at["thread"] = "sleep"
    /\ Goes("thread", "ended")
    /\ UNCHANGED <<backlog, capacity, countVars, upVars, downVars>>

Thread ==
    \/ ThreadListens
    \/ Accept("thread")
    \/ ThreadReceives
    \/ ServerSend("thread")
    \/ ServerSendFits("thread")
    \/ ServerSendReturns("thread", "receive")
    \/ ThreadSleeps
    \/ ThreadEnds

-----------------------------------------------------------------------------
(* EchoServer: one Receive and one Send for a connection. *)

EchoServerReceives ==
    /\ ServerReceives("EchoServer", MAX_PACKET)
    /\ UNCHANGED nBytesReceived

(***************************************************************************)
(* Close, delete, and back to Accept.  A close() with bytes unread resets  *)
(* the connection, and what main has not been given may be lost.           *)
(***************************************************************************)
EchoServerCloses ==
    /\ at["EchoServer"] = "close"
    /\ IF Len(upReceived) < Len(upStream)
       THEN \E n \in Len(downReceived)..Len(downStream) :
              downStream' = SubSeq(downStream, 1, n)
       ELSE UNCHANGED downStream
    /\ Goes("EchoServer", "accept")
    /\ UNCHANGED <<backlog, capacity, countVars, upVars, downReceived,
                   downBlock, downAccepted, downTold>>

EchoServer ==
    \/ Accept("EchoServer")
    \/ EchoServerReceives
    \/ ServerSend("EchoServer")
    \/ ServerSendFits("EchoServer")
    \/ ServerSendReturns("EchoServer", "close")
    \/ EchoServerCloses

-----------------------------------------------------------------------------
Init ==
    /\ \E place \in {"absent", "accept"} :
         at = [p \in Processes |-> CASE p = "main" -> "open"
                                     [] p = "thread" -> "listen"
                                     [] p = "EchoServer" -> place]
    /\ backlog = FALSE
    /\ capacity \in [{"up", "down"} -> Capacities]
    /\ nBytesReceived = 0
    /\ m_nBytesReceived = 0
    /\ bytesReceived = 0
    /\ Up!Init /\ upBlock = Up!NoBlock
    /\ Down!Init /\ downBlock = Down!NoBlock

Next == Main \/ Thread \/ EchoServer

(* The operating system schedules every process. *)
Spec ==
    /\ Init /\ [][Next]_vars
    /\ WF_vars(Main) /\ WF_vars(Thread) /\ WF_vars(EchoServer)

-----------------------------------------------------------------------------
Number(byte) == byte[1] + byte[2]

(***************************************************************************)
(* What main is given is a prefix of the payload and was received by a     *)
(* server before, whatever the sizes of the Receives and the room in the   *)
(* connection, and when the connection is reset too.                       *)
(***************************************************************************)
EchoesPayload ==
    /\ Len(downStream) <= Len(upReceived)
    /\ \A i \in DOMAIN downReceived : Number(downReceived[i]) = i

(***************************************************************************)
(* The thread's loop ends when the whole payload has come and gone back,   *)
(* not when some Receives have been made.                                  *)
(***************************************************************************)
SleepsAfterEcho ==
    at["thread"] = "sleep" => Len(downStream) = nTotalPayloadSize

(***************************************************************************)
(* The way back is a ByteStream: each Send is of 1 to nTotalPayloadSize    *)
(* bytes and puts no more than its block on it, and main takes what is     *)
(* there.  The close() of EchoServer with unread bytes is the one step     *)
(* that may take bytes off it.                                             *)
(***************************************************************************)
DownIsStream == Down!Init /\ [][Down!Next \/ EchoServerCloses]_downVars

(***************************************************************************)
(* main tests its Send only for 0 and counts to the whole payload: after a *)
(* short send, which a non-blocking socket allows, it stays in its loop    *)
(* for ever, whatever the servers send back (RecvAsync.cpp:76 and :83).    *)
(***************************************************************************)
ShortSendNeverEnds ==
    upTold \in 1..(nTotalPayloadSize - 1) => at["main"] = "receive"

(***************************************************************************)
(* main gets its payload back and ends when its Send took the whole of it  *)
(* and the thread answers, or EchoServer with all of it in one Receive.    *)
(* After a short Send main and the thread wait for each other for ever.    *)
(***************************************************************************)
EchoCompletes ==
    (/\ upTold = nTotalPayloadSize
     /\ at["EchoServer"] = "absent" \/ m_nBytesReceived = nTotalPayloadSize)
    ~> at["main"] = "ended"

=============================================================================
