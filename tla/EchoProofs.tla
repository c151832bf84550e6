----------------------------- MODULE EchoProofs -----------------------------
(***************************************************************************)
(* Proofs about Echo: the types and the safety invariants, for a payload   *)
(* of any length, any sizes of the Receives and any room in the            *)
(* connection.                                                             *)
(***************************************************************************)
EXTENDS Echo, SequenceTheorems, TLAPS

N == nTotalPayloadSize

Servers == {"thread", "EchoServer"}

(* A block is named from 0, its positions are counted from 1. *)
Bytes == Nat \X (Nat \ {0})

(* The four sequences by their lengths: bytes that have entered and left   *)
(* the connection in each direction.                                       *)
Sent == Len(upStream)
Heard == Len(upReceived)
Echoed == Len(downStream)
Given == Len(downReceived)

EchoTyped ==
    /\ at \in [Processes -> Places]
    /\ backlog \in BOOLEAN
    /\ capacity \in [{"up", "down"} -> Capacities]
    /\ upStream \in Seq(Bytes) /\ upReceived \in Seq(Bytes)
    /\ downStream \in Seq(Bytes) /\ downReceived \in Seq(Bytes)
    /\ nBytesReceived \in Nat /\ nBytesReceived <= N
    /\ m_nBytesReceived \in Nat
    /\ upAccepted \in Nat /\ downAccepted \in Nat
    /\ upTold \in -1..N /\ downTold \in -1..N

(* No direction runs ahead of the one that feeds it. *)
Counts ==
    /\ Given <= Echoed /\ Echoed <= Heard /\ Heard <= Sent /\ Sent <= N
    /\ bytesReceived = Given
    /\ m_nBytesReceived <= Heard
    /\ Echoed - Given <= capacity["down"]

(* The way back carries the bytes of the payload in their order. *)
Numbers ==
    /\ \A i \in 1..Echoed : Number(downStream[i]) = i
    /\ \A i \in 1..Given : Number(downReceived[i]) = i

(* main sends the payload as one block. *)
MainInv ==
    /\ at["main"] \in {"open", "send", "sending", "receive", "ended"}
    /\ at["main"] \in {"open", "send"} => Sent = 0
    /\ IF at["main"] = "sending" THEN upBlock = <<0, N>> /\ upAccepted = Sent
       ELSE upBlock = <<0, 0>> /\ upAccepted = 0

(* No server has been reached yet. *)
Waiting == at["main"] = "open" \/ backlog

(* Only one of the servers ever has the connection. *)
OneServer ==
    /\ at["thread"] \in {"listen", "accept", "receive", "send", "sending",
                         "sleep", "ended"}
    /\ at["EchoServer"] \in {"absent", "accept", "receive", "send", "sending",
                             "close"}
    /\ at["EchoServer"] # "absent" => at["thread"] \in {"listen", "ended"}
    /\ backlog => at["main"] # "open"
    /\ Waiting => /\ Heard = 0 /\ nBytesReceived = 0
                  /\ at["thread"] \in {"listen", "accept", "ended"}
                  /\ at["EchoServer"] \in {"absent", "accept"}

(***************************************************************************)
(* Where the way back is while a server has the connection: level with     *)
(* what came, or behind by the block that is being sent.                   *)
(***************************************************************************)
Serving(s) ==
    /\ at[s] = "receive" => Echoed = Heard
    /\ at[s] = "send" => /\ m_nBytesReceived > 0
                         /\ Echoed = Heard - m_nBytesReceived
    /\ at[s] = "sending" =>
           /\ m_nBytesReceived > 0
           /\ downBlock = <<Heard - m_nBytesReceived, m_nBytesReceived>>
           /\ downAccepted <= m_nBytesReceived
           /\ Echoed = Heard - m_nBytesReceived + downAccepted

(* Nobody else sends. *)
Quiet ==
    (\A s \in Servers : at[s] # "sending")
    => downBlock = <<0, 0>> /\ downAccepted = 0

(* The sum in the thread's loop is what it has received. *)
ThreadInv ==
    /\ at["thread"] \in {"receive", "send", "sending"}
       => nBytesReceived = Heard
    /\ at["thread"] = "sleep" => Echoed = N

EchoInv ==
    /\ EchoTyped /\ Counts /\ Numbers /\ MainInv /\ OneServer
    /\ \A s \in Servers : Serving(s)
    /\ Quiet /\ ThreadInv

-----------------------------------------------------------------------------
(* The constants, the lengths, and how processes and streams move. *)
LEMMA ConstantsTyped ==
    /\ N \in Nat /\ N > 0
    /\ nNumBytesToReceive \in Nat /\ nNumBytesToReceive > 0
    /\ MAX_PACKET \in Nat /\ MAX_PACKET > 0
    /\ \A n \in Capacities : n \in Nat /\ n > 0
  BY EchoAssumption DEF N

LEMMA Lengths ==
    ASSUME EchoTyped
    PROVE  /\ Sent \in Nat /\ Heard \in Nat /\ Echoed \in Nat /\ Given \in Nat
           /\ capacity["up"] \in Nat /\ capacity["up"] > 0
           /\ capacity["down"] \in Nat /\ capacity["down"] > 0
  BY ConstantsTyped DEF EchoTyped, Sent, Heard, Echoed, Given

LEMMA Moves ==
    ASSUME at \in [Processes -> Places], NEW p \in Processes,
           NEW place \in Places, Goes(p, place)
    PROVE  /\ at' \in [Processes -> Places] /\ at'[p] = place
           /\ \A q \in Processes \ {p} : at'[q] = at[q]
  BY DEF Goes

(* What a Receive of k bytes hands out. *)
LEMMA Gives ==
    ASSUME NEW S, NEW s \in Seq(S), NEW r \in Seq(S), NEW k \in Nat,
           Len(r) + k <= Len(s)
    PROVE  LET new == r \o SubSeq(s, Len(r) + 1, Len(r) + k) IN
           /\ new \in Seq(S) /\ Len(new) = Len(r) + k
           /\ \A i \in 1..Len(r) : new[i] = r[i]
           /\ \A i \in (Len(r) + 1)..(Len(r) + k) : new[i] = s[i]
<1> DEFINE more == SubSeq(s, Len(r) + 1, Len(r) + k)
<1>1. /\ more \in Seq(S) /\ Len(more) = k
      /\ \A i \in 1..k : more[i] = s[Len(r) + i]
  <2>1. \A i \in (Len(r) + 1)..(Len(r) + k) : i \in 1..Len(s)
    OBVIOUS
  <2>2. /\ more \in Seq(S)
        /\ Len(more) = IF Len(r) + 1 <= Len(r) + k
                       THEN (Len(r) + k) - (Len(r) + 1) + 1 ELSE 0
        /\ \A i \in 1..((Len(r) + k) - (Len(r) + 1) + 1) :
             more[i] = s[(Len(r) + 1) + i - 1]
    BY <2>1, SubSeqProperties
  <2>3. Len(more) = k
    BY <2>2
  <2>4. ASSUME NEW i \in 1..k
        PROVE  more[i] = s[Len(r) + i]
    <3>1. /\ i \in 1..((Len(r) + k) - (Len(r) + 1) + 1)
          /\ (Len(r) + 1) + i - 1 = Len(r) + i
      BY <2>4
    <3> QED
      BY <2>2, <3>1
  <2> QED
    BY <2>2, <2>3, <2>4
<1> HIDE DEF more
<1>2. /\ r \o more \in Seq(S) /\ Len(r \o more) = Len(r) + Len(more)
      /\ \A i \in 1..(Len(r) + Len(more)) :
           (r \o more)[i] = IF i <= Len(r) THEN r[i] ELSE more[i - Len(r)]
  BY <1>1, ConcatProperties
<1>3. ASSUME NEW i \in (Len(r) + 1)..(Len(r) + k)
      PROVE  (r \o more)[i] = s[i]
  <2>1. PICK j \in 1..k : j = i - Len(r)
    OBVIOUS
  <2>2. (r \o more)[i] = more[j]
    BY <1>1, <1>2, <2>1
  <2>3. Len(r) + j = i
    BY <2>1
  <2> QED
    BY <1>1, <2>2, <2>3
<1> QED
  BY <1>1, <1>2, <1>3 DEF more

(* What the next k bytes of a block add to a stream. *)
Extended(s, b, a, k) == s \o [i \in 1..k |-> <<b, a + i>>]

LEMMA Takes ==
    ASSUME NEW s \in Seq(Bytes), NEW b \in Nat, NEW a \in Nat, NEW k \in Nat
    PROVE  /\ Extended(s, b, a, k) \in Seq(Bytes)
           /\ Len(Extended(s, b, a, k)) = Len(s) + k
           /\ \A i \in 1..Len(s) : Extended(s, b, a, k)[i] = s[i]
           /\ \A i \in 1..k : Extended(s, b, a, k)[Len(s) + i] = <<b, a + i>>
<1> DEFINE more == [i \in 1..k |-> <<b, a + i>>]
<1>1. /\ more \in Seq(Bytes) /\ Len(more) = k
      /\ \A i \in 1..k : more[i] = <<b, a + i>>
  BY DEF Bytes
<1> HIDE DEF more
<1>2. /\ s \o more \in Seq(Bytes) /\ Len(s \o more) = Len(s) + Len(more)
      /\ \A i \in 1..(Len(s) + Len(more)) :
           (s \o more)[i] = IF i <= Len(s) THEN s[i] ELSE more[i - Len(s)]
  BY <1>1, ConcatProperties
<1>3. ASSUME NEW i \in 1..k
      PROVE  (s \o more)[Len(s) + i] = <<b, a + i>>
  <2>1. PICK j \in 1..(Len(s) + Len(more)) : j = Len(s) + i
    BY <1>1
  <2>2. ~(j <= Len(s)) /\ j - Len(s) = i
    BY <2>1
  <2>3. (s \o more)[j] = more[i]
    BY <1>2, <2>2
  <2> QED
    BY <1>1, <2>1, <2>3
<1> QED
  BY <1>1, <1>2, <1>3 DEF more, Extended

-----------------------------------------------------------------------------
LEMMA InitEchoes == Init => EchoInv
<1> SUFFICES ASSUME Init
             PROVE  EchoInv
  OBVIOUS
<1>1. /\ Sent = 0 /\ Heard = 0 /\ Echoed = 0 /\ Given = 0
      /\ upStream = <<>> /\ upReceived = <<>> /\ downStream = <<>>
      /\ downReceived = <<>> /\ upAccepted = 0 /\ upTold = 0
      /\ downAccepted = 0 /\ downTold = 0
      /\ upBlock = <<0, 0>> /\ downBlock = <<0, 0>>
  BY DEF Init, Up!Init, Down!Init, Up!NoBlock, Down!NoBlock, Sent, Heard, Echoed,
         Given
<1>2. /\ at \in [Processes -> Places] /\ at["main"] = "open"
      /\ at["thread"] = "listen" /\ at["EchoServer"] \in {"absent", "accept"}
  BY DEF Init, Processes, Places
<1>3. /\ ~backlog /\ backlog \in BOOLEAN
      /\ capacity \in [{"up", "down"} -> Capacities]
      /\ nBytesReceived = 0 /\ m_nBytesReceived = 0 /\ bytesReceived = 0
  BY DEF Init
<1>4. EchoTyped
  BY <1>1, <1>2, <1>3, ConstantsTyped DEF EchoTyped
<1>5. Counts
  BY <1>1, <1>3, <1>4, Lengths, ConstantsTyped DEF Counts
<1>6. Numbers /\ MainInv
  BY <1>1, <1>2 DEF Numbers, MainInv
<1>7. OneServer /\ Quiet /\ ThreadInv /\ \A s \in Servers : Serving(s)
  BY <1>1, <1>2, <1>3 DEF OneServer, Waiting, Quiet, ThreadInv, Serving, Servers
<1> QED
  BY <1>4, <1>5, <1>6, <1>7 DEF EchoInv

(***************************************************************************)
(* A step that touches no stream and no count keeps what is said of them;  *)
(* one that moves no server either keeps all but what is said of main.     *)
(***************************************************************************)
LEMMA StreamsKept ==
    ASSUME EchoInv, at' \in [Processes -> Places], backlog' \in BOOLEAN,
           UNCHANGED <<capacity, countVars, upVars, downVars>>
    PROVE  /\ EchoTyped' /\ Counts' /\ Numbers'
           /\ UNCHANGED <<Sent, Heard, Echoed, Given, upBlock, upAccepted,
                          downBlock, downAccepted, nBytesReceived,
                          m_nBytesReceived>>
<1>1. UNCHANGED <<upStream, upReceived, upBlock, upAccepted, upTold,
                  downStream, downReceived, downBlock, downAccepted, downTold,
                  nBytesReceived, m_nBytesReceived, bytesReceived, capacity>>
  BY DEF upVars, downVars, countVars
<1>2. UNCHANGED <<Sent, Heard, Echoed, Given>>
  BY <1>1 DEF Sent, Heard, Echoed, Given
<1> QED
  BY <1>1, <1>2 DEF EchoInv, EchoTyped, Counts, Numbers

LEMMA ServersKept ==
    ASSUME EchoInv, \A s \in Servers : at'[s] = at[s],
           UNCHANGED <<Heard, Echoed, downBlock, downAccepted, nBytesReceived,
                       m_nBytesReceived>>
    PROVE  Quiet' /\ ThreadInv' /\ \A s \in Servers : Serving(s)'
  BY DEF EchoInv, Quiet, ThreadInv, Serving, Servers

-----------------------------------------------------------------------------
(* main *)

LEMMA OpenKeeps ==
    ASSUME EchoInv, Open
    PROVE  EchoInv'
<1>1. /\ at["main"] = "open"
      /\ \/ Goes("main", "send") /\ backlog' = TRUE
         \/ Goes("main", "ended") /\ UNCHANGED backlog
      /\ UNCHANGED <<capacity, countVars, upVars, downVars>>
  BY DEF Open
<1>2. /\ at' \in [Processes -> Places] /\ at'["main"] \in {"send", "ended"}
      /\ \A s \in Servers : at'[s] = at[s]
      /\ backlog' \in BOOLEAN
  BY <1>1, Moves DEF EchoInv, EchoTyped, Processes, Places, Servers
<1>3. /\ EchoTyped' /\ Counts' /\ Numbers'
      /\ UNCHANGED <<Sent, Heard, Echoed, Given, upBlock, upAccepted,
                     downBlock, downAccepted, nBytesReceived, m_nBytesReceived>>
  BY <1>1, <1>2, StreamsKept
<1>4. Quiet' /\ ThreadInv' /\ \A s \in Servers : Serving(s)'
  BY <1>2, <1>3, ServersKept
<1>5. MainInv'
  BY <1>1, <1>2, <1>3 DEF EchoInv, MainInv
<1>6. OneServer'
  BY <1>1, <1>2, <1>3 DEF EchoInv, OneServer, Waiting, Servers
<1> QED
  BY <1>3, <1>4, <1>5, <1>6 DEF EchoInv

LEMMA MainEndsKeeps ==
    ASSUME EchoInv, MainEnds
    PROVE  EchoInv'
<1>1. /\ at["main"] = "receive" /\ Goes("main", "ended")
      /\ UNCHANGED backlog
      /\ UNCHANGED <<capacity, countVars, upVars, downVars>>
  BY DEF MainEnds
<1>2. /\ at' \in [Processes -> Places] /\ at'["main"] = "ended"
      /\ \A s \in Servers : at'[s] = at[s]
      /\ backlog' \in BOOLEAN
  BY <1>1, Moves DEF EchoInv, EchoTyped, Processes, Places, Servers
<1>3. /\ EchoTyped' /\ Counts' /\ Numbers'
      /\ UNCHANGED <<Sent, Heard, Echoed, Given, upBlock, upAccepted,
                     downBlock, downAccepted, nBytesReceived, m_nBytesReceived>>
  BY <1>1, <1>2, StreamsKept
<1>4. Quiet' /\ ThreadInv' /\ \A s \in Servers : Serving(s)'
  BY <1>2, <1>3, ServersKept
<1>5. MainInv' /\ OneServer'
  BY <1>1, <1>2, <1>3 DEF EchoInv, MainInv, OneServer, Waiting, Servers
<1> QED
  BY <1>3, <1>4, <1>5 DEF EchoInv

LEMMA MainSendKeeps ==
    ASSUME EchoInv, MainSend
    PROVE  EchoInv'
<1>1. /\ at["main"] = "send" /\ Goes("main", "sending")
      /\ upBlock' = <<0, N>>
      /\ UNCHANGED <<upStream, upReceived, upAccepted, upTold>>
      /\ UNCHANGED <<backlog, capacity, countVars, downVars>>
  BY DEF MainSend, Up!BeginSend, N
<1>2. /\ at' \in [Processes -> Places] /\ at'["main"] = "sending"
      /\ \A s \in Servers : at'[s] = at[s]
  BY <1>1, Moves DEF EchoInv, EchoTyped, Processes, Places, Servers
<1>3. UNCHANGED <<Sent, Heard, Echoed, Given>>
  BY <1>1 DEF downVars, Sent, Heard, Echoed, Given
<1>4. EchoTyped' /\ Counts' /\ Numbers'
  BY <1>1, <1>2, <1>3
     DEF downVars, countVars, EchoInv, EchoTyped, Counts, Numbers
<1>5. Quiet' /\ ThreadInv' /\ \A s \in Servers : Serving(s)'
  BY <1>1, <1>2, <1>3, ServersKept DEF downVars, countVars
<1>6. MainInv'
  BY <1>1, <1>2, <1>3 DEF EchoInv, MainInv
<1>7. OneServer'
  BY <1>1, <1>2, <1>3 DEF EchoInv, OneServer, Waiting, Servers, countVars
<1> QED
  BY <1>4, <1>5, <1>6, <1>7 DEF EchoInv

LEMMA MainSendFitsKeeps ==
    ASSUME EchoInv, MainSendFits
    PROVE  EchoInv'
<1>0. PICK k \in Nat : k = Lesser(capacity["up"], nTotalPayloadSize) /\ k <= N
  BY ConstantsTyped, Lengths DEF EchoInv, Lesser, N
<1>1. /\ at["main"] = "sending" /\ upAccepted = 0
      /\ upStream' = upStream \o [i \in 1..k |-> <<upBlock[1], upAccepted + i>>]
      /\ upAccepted' = upAccepted + k
      /\ UNCHANGED <<upReceived, upBlock, upTold>>
      /\ UNCHANGED <<at, backlog, capacity, countVars, downVars>>
  BY <1>0 DEF MainSendFits, Up!Accept
<1>2. /\ EchoTyped /\ upBlock = <<0, N>> /\ Sent = 0
      /\ k \in Nat /\ k <= N /\ N \in Nat
  BY <1>0, <1>1, ConstantsTyped, Lengths DEF EchoInv, MainInv
<1>3. upStream' \in Seq(Bytes) /\ Len(upStream') = Len(upStream) + k
  <2>1. PICK b \in Nat, a \in Nat : b = upBlock[1] /\ a = upAccepted
    BY <1>1, <1>2
  <2>2. upStream' = Extended(upStream, b, a, k)
    BY <1>1, <2>1 DEF Extended
  <2> QED
    <3>1. upStream \in Seq(Bytes) /\ k \in Nat
      BY <1>2 DEF EchoTyped
    <3>2. /\ Extended(upStream, b, a, k) \in Seq(Bytes)
          /\ Len(Extended(upStream, b, a, k)) = Len(upStream) + k
      BY <3>1, Takes
    <3> QED
      BY <2>2, <3>2
<1>4. /\ Sent' = k /\ UNCHANGED <<Heard, Echoed, Given>>
      /\ upAccepted' = k
  BY <1>1, <1>2, <1>3 DEF downVars, Sent, Heard, Echoed, Given
<1>5. EchoTyped'
  BY <1>1, <1>2, <1>3, <1>4 DEF downVars, countVars, EchoTyped
<1>6. Counts' /\ Numbers'
  <2>1. Heard = 0
    BY <1>2, Lengths DEF EchoInv, Counts
  <2> QED
    BY <1>1, <1>2, <1>4, <2>1 DEF downVars, countVars, EchoInv, Counts, Numbers
<1>7. Quiet' /\ ThreadInv' /\ \A s \in Servers : Serving(s)'
  BY <1>1, <1>4, ServersKept DEF downVars, countVars
<1>8. MainInv'
  BY <1>1, <1>2, <1>4 DEF EchoInv, MainInv
<1>9. OneServer'
  BY <1>1, <1>4 DEF EchoInv, OneServer, Waiting, countVars
<1> QED
  BY <1>5, <1>6, <1>7, <1>8, <1>9 DEF EchoInv

LEMMA MainSendReturnsKeeps ==
    ASSUME EchoInv, MainSendReturns
    PROVE  EchoInv'
<1>1. /\ at["main"] = "sending" /\ Goes("main", "receive") /\ upAccepted > 0
      /\ upBlock' = <<0, 0>> /\ upAccepted' = 0
      /\ upTold' = IF upAccepted = 0 THEN -1 ELSE upAccepted
      /\ UNCHANGED <<upStream, upReceived>>
      /\ UNCHANGED <<backlog, capacity, countVars, downVars>>
  BY DEF MainSendReturns, Up!EndSend, Up!NoBlock
<1>2. /\ at' \in [Processes -> Places] /\ at'["main"] = "receive"
      /\ \A s \in Servers : at'[s] = at[s]
  BY <1>1, Moves DEF EchoInv, EchoTyped, Processes, Places, Servers
<1>3. UNCHANGED <<Sent, Heard, Echoed, Given>>
  BY <1>1 DEF downVars, Sent, Heard, Echoed, Given
<1>4. upTold' \in -1..N
  <2>1. upAccepted \in Nat /\ upAccepted <= N
    BY <1>1, Lengths DEF EchoInv, EchoTyped, MainInv, Counts
  <2> QED
    BY <1>1, <2>1, ConstantsTyped
<1>5. EchoTyped' /\ Counts' /\ Numbers'
  BY <1>1, <1>2, <1>3, <1>4
     DEF downVars, countVars, EchoInv, EchoTyped, Counts, Numbers
<1>6. Quiet' /\ ThreadInv' /\ \A s \in Servers : Serving(s)'
  BY <1>1, <1>2, <1>3, ServersKept DEF downVars, countVars
<1>7. MainInv'
  BY <1>1, <1>2, <1>3 DEF EchoInv, MainInv
<1>8. OneServer'
  BY <1>1, <1>2, <1>3 DEF EchoInv, OneServer, Waiting, Servers, countVars
<1> QED
  BY <1>5, <1>6, <1>7, <1>8 DEF EchoInv

LEMMA MainReceivesKeeps ==
    ASSUME EchoInv, MainReceives
    PROVE  EchoInv'
<1>1. PICK k \in 1..Lesser(MAX_PACKET, Echoed - Given) :
        /\ downReceived' = downReceived \o SubSeq(downStream, Given + 1, Given + k)
        /\ bytesReceived' = bytesReceived + k
        /\ UNCHANGED <<downStream, downBlock, downAccepted, downTold>>
        /\ UNCHANGED <<at, backlog, capacity, nBytesReceived, m_nBytesReceived,
                       upVars>>
  BY DEF MainReceives, Down!Receive, Echoed, Given
<1>2. /\ EchoTyped /\ Echoed \in Nat /\ Given \in Nat /\ capacity["down"] \in Nat
      /\ k \in Nat /\ Given + k <= Echoed
  BY ConstantsTyped, Lengths DEF EchoInv, Lesser
<1>3. /\ downReceived' \in Seq(Bytes) /\ Given' = Given + k
      /\ \A i \in 1..Given : downReceived'[i] = downReceived[i]
      /\ \A i \in (Given + 1)..(Given + k) : downReceived'[i] = downStream[i]
  <2> DEFINE new == downReceived \o SubSeq(downStream, Len(downReceived) + 1,
                                            Len(downReceived) + k)
  <2>1. /\ new \in Seq(Bytes) /\ Len(new) = Len(downReceived) + k
        /\ \A i \in 1..Len(downReceived) : new[i] = downReceived[i]
        /\ \A i \in (Len(downReceived) + 1)..(Len(downReceived) + k) :
             new[i] = downStream[i]
    BY <1>2, Gives DEF EchoTyped, Echoed, Given
  <2>2. downReceived' = new
    BY <1>1 DEF Given
  <2> HIDE DEF new
  <2> QED
    BY <2>1, <2>2 DEF Given
<1>4. UNCHANGED <<Sent, Heard, Echoed>>
  BY <1>1 DEF upVars, Sent, Heard, Echoed
<1>5. EchoTyped' /\ Counts'
  <2>1. EchoTyped'
    BY <1>1, <1>2, <1>3 DEF upVars, EchoTyped
  <2> QED
    BY <1>1, <1>2, <1>3, <1>4, <2>1 DEF upVars, EchoInv, Counts
<1>6. Numbers'
  <2>1. ASSUME NEW i \in 1..(Given + k)
        PROVE  Number(downReceived'[i]) = i
    <3>1. CASE i <= Given
      BY <1>2, <1>3, <2>1, <3>1 DEF EchoInv, Numbers
    <3>2. CASE ~(i <= Given)
      <4>1. i \in (Given + 1)..(Given + k) /\ i \in 1..Echoed
        BY <1>2, <2>1, <3>2
      <4> QED
        BY <1>3, <4>1 DEF EchoInv, Numbers
    <3> QED
      BY <3>1, <3>2
  <2> QED
    BY <1>1, <1>3, <1>4, <2>1 DEF EchoInv, Numbers
<1>7. Quiet' /\ ThreadInv' /\ \A s \in Servers : Serving(s)'
  BY <1>1, <1>4, ServersKept
<1>8. MainInv' /\ OneServer'
  BY <1>1, <1>4 DEF upVars, EchoInv, MainInv, OneServer, Waiting
<1> QED
  BY <1>5, <1>6, <1>7, <1>8 DEF EchoInv

-----------------------------------------------------------------------------
(* Both servers *)

(* A server that has the connection is the only one that does. *)
LEMMA ServesAlone ==
    ASSUME EchoInv, NEW s \in Servers,
           at[s] \in {"receive", "send", "sending", "close", "sleep"}
    PROVE  /\ ~Waiting
           /\ \A r \in Servers \ {s} : at[r] \in {"absent", "listen", "ended"}
  BY DEF EchoInv, OneServer, Servers

LEMMA ServerMoves ==
    ASSUME EchoInv, NEW s \in Servers,
           at[s] \in {"receive", "send", "sending", "sleep"},
           NEW place \in Places, Goes(s, place), UNCHANGED backlog,
           \/ place \in {"receive", "send", "sending"} /\ at[s] # "sleep"
           \/ place \in {"sleep", "ended"} /\ s = "thread"
           \/ place = "close" /\ s = "EchoServer"
    PROVE  /\ at' \in [Processes -> Places] /\ at'[s] = place
           /\ \A q \in Processes \ {s} : at'[q] = at[q]
           /\ \A r \in Servers \ {s} : at'[r] \in {"absent", "listen", "ended"}
           /\ OneServer'
<1>1. /\ at' \in [Processes -> Places] /\ at'[s] = place
      /\ \A q \in Processes \ {s} : at'[q] = at[q]
  BY Moves DEF EchoInv, EchoTyped, Servers, Processes
<1>2. /\ ~Waiting
      /\ \A r \in Servers \ {s} : at[r] \in {"absent", "listen", "ended"}
  BY ServesAlone
<1>3. at'["main"] = at["main"] /\ ~Waiting'
  BY <1>1, <1>2 DEF Waiting, Servers, Processes
<1>4. OneServer'
  BY <1>1, <1>2, <1>3 DEF EchoInv, OneServer, Servers, Processes
<1> QED
  BY <1>1, <1>2, <1>4 DEF Servers, Processes

LEMMA AcceptKeeps ==
    ASSUME EchoInv, NEW s \in Servers, Accept(s)
    PROVE  EchoInv'
<1>1. /\ at[s] = "accept" /\ backlog /\ ~backlog' /\ backlog' \in BOOLEAN
      /\ Goes(s, "receive")
      /\ UNCHANGED <<capacity, countVars, upVars, downVars>>
  BY DEF Accept
<1>2. /\ at' \in [Processes -> Places] /\ at'[s] = "receive"
      /\ \A q \in Processes \ {s} : at'[q] = at[q]
  BY <1>1, Moves DEF EchoInv, EchoTyped, Servers, Processes, Places
<1>3. /\ EchoTyped' /\ Counts' /\ Numbers'
      /\ UNCHANGED <<Sent, Heard, Echoed, Given, upBlock, upAccepted,
                     downBlock, downAccepted, nBytesReceived, m_nBytesReceived>>
  BY <1>1, <1>2, StreamsKept
<1>4. /\ Heard = 0 /\ Echoed = 0 /\ nBytesReceived = 0 /\ at["main"] # "open"
      /\ \A r \in Servers \ {s} : at[r] \in {"absent", "listen", "accept", "ended"}
      /\ \A r \in Servers : at[r] # "sending"
  <2>1. Heard = 0 /\ nBytesReceived = 0 /\ at["main"] # "open"
    BY <1>1 DEF EchoInv, OneServer, Waiting
  <2>2. Echoed = 0
    BY <2>1, Lengths DEF EchoInv, Counts
  <2> QED
    BY <1>1, <2>1, <2>2 DEF EchoInv, OneServer, Waiting, Servers
<1>5. MainInv' /\ at'["main"] = at["main"]
  BY <1>2, <1>3 DEF EchoInv, MainInv, Servers, Processes
<1>6. OneServer'
  BY <1>1, <1>2, <1>4, <1>5
     DEF EchoInv, OneServer, Waiting, Servers, Processes
<1>7. \A r \in Servers \ {s} :
        at'[r] \in {"absent", "listen", "accept", "ended"}
  BY <1>2, <1>4 DEF Servers, Processes
<1>8. Quiet' /\ \A r \in Servers : Serving(r)'
  BY <1>2, <1>3, <1>4, <1>7 DEF EchoInv, Quiet, Serving
<1>9. ThreadInv'
  BY <1>2, <1>3, <1>4, <1>7 DEF ThreadInv, Servers
<1> QED
  BY <1>3, <1>5, <1>6, <1>8, <1>9 DEF EchoInv

LEMMA ServerReceivesKeeps ==
    ASSUME EchoInv, NEW s \in Servers, NEW most \in Nat,
           ServerReceives(s, most),
           IF s = "thread"
           THEN nBytesReceived' = nBytesReceived + m_nBytesReceived'
           ELSE UNCHANGED nBytesReceived
    PROVE  EchoInv'
<1>1. PICK k \in 1..Lesser(most, Sent - Heard) :
        /\ upReceived' = upReceived \o SubSeq(upStream, Heard + 1, Heard + k)
        /\ UNCHANGED <<upStream, upBlock, upAccepted, upTold>>
        /\ m_nBytesReceived' = k
  BY DEF ServerReceives, Up!Receive, Sent, Heard
<1>2. /\ at[s] = "receive" /\ Goes(s, "send")
      /\ UNCHANGED <<backlog, capacity, bytesReceived, downVars>>
  BY DEF ServerReceives
<1>3. /\ EchoTyped /\ Sent \in Nat /\ Heard \in Nat /\ Echoed \in Nat
      /\ k \in Nat /\ k > 0 /\ Heard + k <= Sent /\ Echoed = Heard
  <2>1. EchoTyped /\ Echoed = Heard
    BY <1>2 DEF EchoInv, Serving
  <2>2. /\ Sent \in Nat /\ Heard \in Nat /\ Echoed \in Nat
    BY <2>1, Lengths
  <2> QED
    BY <2>1, <2>2 DEF Lesser
<1>4. upReceived' \in Seq(Bytes) /\ Heard' = Heard + k
  <2> DEFINE new == upReceived \o SubSeq(upStream, Len(upReceived) + 1,
                                         Len(upReceived) + k)
  <2>1. new \in Seq(Bytes) /\ Len(new) = Len(upReceived) + k
    BY <1>3, Gives DEF EchoTyped, Sent, Heard
  <2>2. upReceived' = new
    BY <1>1 DEF Heard
  <2> HIDE DEF new
  <2> QED
    BY <2>1, <2>2 DEF Heard
<1>5. /\ at' \in [Processes -> Places] /\ at'[s] = "send"
      /\ \A q \in Processes \ {s} : at'[q] = at[q]
      /\ \A r \in Servers \ {s} : at'[r] \in {"absent", "listen", "ended"}
      /\ OneServer'
  BY <1>2, ServerMoves DEF Places
<1>6. UNCHANGED <<Sent, Echoed, Given, downBlock, downAccepted>>
  BY <1>1, <1>2 DEF downVars, Sent, Echoed, Given
<1>7. /\ nBytesReceived' \in Nat /\ nBytesReceived' <= N
      /\ s = "thread" => nBytesReceived' = Heard'
  <2>1. CASE s = "thread"
    <3>1. nBytesReceived = Heard
      BY <1>2, <2>1 DEF EchoInv, ThreadInv
    <3> QED
      BY <1>1, <1>3, <1>4, <2>1, <3>1, ConstantsTyped DEF EchoInv, Counts
  <2>2. CASE s # "thread"
    BY <2>2 DEF EchoInv, EchoTyped
  <2> QED
    BY <2>1, <2>2
<1>8. EchoTyped'
  <2>1. /\ m_nBytesReceived' \in Nat
        /\ UNCHANGED <<upStream, upAccepted, upTold, downStream, downReceived,
                       downAccepted, downTold, backlog, capacity>>
    BY <1>1, <1>2, <1>3 DEF downVars
  <2> QED
    BY <1>3, <1>4, <1>5, <1>7, <2>1 DEF EchoTyped
<1>9. Counts' /\ Numbers'
  BY <1>1, <1>2, <1>3, <1>4, <1>6 DEF downVars, EchoInv, Counts, Numbers
<1>10. MainInv'
  BY <1>1, <1>5, <1>6 DEF EchoInv, MainInv, Servers, Processes
<1>11. \A r \in Servers : Serving(r)'
  BY <1>1, <1>3, <1>4, <1>5, <1>6 DEF Serving
<1>12. Quiet'
  <2>1. \A r \in Servers : at[r] # "sending"
    BY <1>2, ServesAlone
  <2>2. downBlock = <<0, 0>> /\ downAccepted = 0
    BY <2>1 DEF EchoInv, Quiet
  <2> QED
    BY <1>6, <2>2 DEF Quiet
<1>13. ThreadInv'
  <2>1. CASE s = "thread"
    BY <1>5, <1>7, <2>1 DEF ThreadInv
  <2>2. CASE s = "EchoServer"
    BY <1>5, <2>2 DEF ThreadInv, Servers
  <2> QED
    BY <2>1, <2>2 DEF Servers
<1> QED
  BY <1>5, <1>8, <1>9, <1>10, <1>11, <1>12, <1>13 DEF EchoInv

LEMMA ServerSendKeeps ==
    ASSUME EchoInv, NEW s \in Servers, ServerSend(s)
    PROVE  EchoInv'
<1>1. /\ at[s] = "send" /\ Goes(s, "sending")
      /\ downBlock' = <<Heard - m_nBytesReceived, m_nBytesReceived>>
      /\ UNCHANGED <<downStream, downReceived, downAccepted, downTold>>
      /\ UNCHANGED <<backlog, capacity, countVars, upVars>>
  BY DEF ServerSend, Down!BeginSend, Heard
<1>2. /\ at' \in [Processes -> Places] /\ at'[s] = "sending"
      /\ \A q \in Processes \ {s} : at'[q] = at[q]
      /\ \A r \in Servers \ {s} : at'[r] \in {"absent", "listen", "ended"}
      /\ OneServer'
  BY <1>1, ServerMoves DEF Places
<1>3. UNCHANGED <<Sent, Heard, Echoed, Given, nBytesReceived, m_nBytesReceived,
                  upBlock, upAccepted>>
  BY <1>1 DEF upVars, countVars, Sent, Heard, Echoed, Given
<1>4. EchoTyped' /\ Counts' /\ Numbers'
  BY <1>1, <1>2, <1>3
     DEF upVars, countVars, EchoInv, EchoTyped, Counts, Numbers
<1>5. MainInv'
  BY <1>2, <1>3 DEF EchoInv, MainInv, Servers, Processes
<1>6. \A r \in Servers : Serving(r)'
  <2>1. downAccepted = 0
    <3>1. \A r \in Servers : at[r] # "sending"
      BY <1>1, ServesAlone
    <3> QED
      BY <3>1 DEF EchoInv, Quiet
  <2>2. /\ m_nBytesReceived \in Nat /\ m_nBytesReceived > 0 /\ Heard \in Nat
        /\ Echoed = Heard - m_nBytesReceived
    BY <1>1, Lengths DEF EchoInv, EchoTyped, Serving
  <2>3. Serving(s)'
    BY <1>1, <1>2, <1>3, <2>1, <2>2 DEF Serving
  <2> QED
    BY <1>2, <2>3 DEF Serving
<1>7. Quiet'
  BY <1>2 DEF Quiet
<1>8. ThreadInv'
  <2>1. CASE s = "thread"
    BY <1>1, <1>2, <1>3, <2>1 DEF EchoInv, ThreadInv
  <2>2. CASE s = "EchoServer"
    BY <1>2, <2>2 DEF ThreadInv, Servers
  <2> QED
    BY <2>1, <2>2 DEF Servers
<1> QED
  BY <1>2, <1>4, <1>5, <1>6, <1>7, <1>8 DEF EchoInv

LEMMA DownGrows ==
    ASSUME EchoTyped, NEW b \in Nat, NEW a \in Nat, NEW k \in Nat,
           downStream' = Extended(downStream, b, a, k)
    PROVE  /\ downStream' \in Seq(Bytes) /\ Echoed' = Echoed + k
           /\ \A i \in 1..Echoed : downStream'[i] = downStream[i]
           /\ \A i \in 1..k : downStream'[Echoed + i] = <<b, a + i>>
<1>1. downStream \in Seq(Bytes)
  BY DEF EchoTyped
<1>2. /\ Extended(downStream, b, a, k) \in Seq(Bytes)
      /\ Len(Extended(downStream, b, a, k)) = Len(downStream) + k
      /\ \A i \in 1..Len(downStream) :
           Extended(downStream, b, a, k)[i] = downStream[i]
      /\ \A i \in 1..k :
           Extended(downStream, b, a, k)[Len(downStream) + i] = <<b, a + i>>
  BY <1>1, Takes
<1> QED
  BY <1>2 DEF Echoed

LEMMA ServerSendFitsKeeps ==
    ASSUME EchoInv, NEW s \in Servers, ServerSendFits(s)
    PROVE  EchoInv'
<1> DEFINE space == capacity["down"] - (Echoed - Given)
           rest == downBlock[2] - downAccepted
<1>2. at[s] = "sending" /\ UNCHANGED <<at, backlog, capacity, countVars, upVars>>
  BY DEF ServerSendFits
<1>3. PICK b \in Nat, m \in Nat, a \in Nat :
        /\ b = Heard - m /\ m = m_nBytesReceived /\ a = downAccepted
        /\ downBlock = <<b, m>> /\ m > 0 /\ a <= m /\ Echoed = b + a
  <2>1. /\ EchoTyped /\ m_nBytesReceived <= Heard /\ m_nBytesReceived > 0
        /\ downBlock = <<Heard - m_nBytesReceived, m_nBytesReceived>>
        /\ downAccepted <= m_nBytesReceived
        /\ Echoed = Heard - m_nBytesReceived + downAccepted
    BY <1>2 DEF EchoInv, Counts, Serving
  <2>2. /\ Heard \in Nat /\ m_nBytesReceived \in Nat /\ downAccepted \in Nat
        /\ Heard - m_nBytesReceived \in Nat
    <3>1. Heard \in Nat /\ m_nBytesReceived \in Nat /\ downAccepted \in Nat
      BY <2>1, Lengths DEF EchoTyped
    <3> QED
      BY <2>1, <3>1
  <2> QED
    BY <2>1, <2>2
<1>4. /\ EchoTyped /\ Sent \in Nat /\ Heard \in Nat /\ Echoed \in Nat
      /\ Given \in Nat /\ capacity["down"] \in Nat
      /\ Echoed - Given <= capacity["down"] /\ Given <= Echoed
  BY Lengths DEF EchoInv, Counts
<1>5. PICK k \in Nat :
        /\ k > 0 /\ k <= space /\ a + k <= m
        /\ downStream' = Extended(downStream, b, a, k)
        /\ downAccepted' = a + k
        /\ UNCHANGED <<downReceived, downBlock, downTold>>
  <2>1. PICK q \in {Lesser(space, rest)} \ {0} :
          /\ downStream' = downStream
                           \o [i \in 1..q |-> <<downBlock[1], downAccepted + i>>]
          /\ downAccepted' = downAccepted + q
          /\ UNCHANGED <<downReceived, downBlock, downTold>>
    BY DEF ServerSendFits, Down!Accept, Echoed, Given
  <2>2. rest = m - a /\ space \in Nat
    BY <1>3, <1>4
  <2>3. downStream' = Extended(downStream, b, a, q) /\ downAccepted' = a + q
    BY <1>3, <2>1 DEF Extended
  <2> HIDE DEF space, rest
  <2>4. q \in Nat /\ q > 0 /\ q <= space /\ a + q <= m
    BY <1>3, <2>2 DEF Lesser
  <2> QED
    BY <2>1, <2>3, <2>4
<1>6. /\ downStream' \in Seq(Bytes) /\ Echoed' = Echoed + k
      /\ \A i \in 1..Echoed : downStream'[i] = downStream[i]
      /\ \A i \in 1..k : downStream'[Echoed + i] = <<b, a + i>>
  <2>1. EchoTyped /\ downStream' = Extended(downStream, b, a, k)
    BY <1>4, <1>5
  <2> QED
    BY <2>1, DownGrows, Zenon
<1>7. UNCHANGED <<Sent, Heard, Given, nBytesReceived, m_nBytesReceived,
                  upBlock, upAccepted>>
  BY <1>2, <1>5 DEF upVars, countVars, Sent, Heard, Given
<1>8. EchoTyped'
  <2>1. downAccepted' \in Nat
    BY <1>3, <1>5
  <2> QED
    BY <1>2, <1>4, <1>5, <1>6, <2>1 DEF upVars, countVars, EchoTyped
<1>9. Counts'
  <2>1. Echoed' <= Heard /\ Echoed' - Given <= capacity["down"]
        /\ Given <= Echoed'
    BY <1>3, <1>4, <1>5, <1>6
  <2> QED
    BY <1>2, <1>7, <2>1 DEF upVars, countVars, EchoInv, Counts
<1>10. Numbers'
  <2>1. ASSUME NEW i \in 1..(Echoed + k)
        PROVE  Number(downStream'[i]) = i
    <3>1. CASE i <= Echoed
      <4>1. i \in 1..Echoed
        BY <1>4, <2>1, <3>1
      <4> QED
        BY <1>6, <4>1 DEF EchoInv, Numbers
    <3>2. CASE ~(i <= Echoed)
      <4>1. PICK j \in 1..k : Echoed + j = i
        <5>1. i - Echoed \in 1..k /\ Echoed + (i - Echoed) = i
          BY <1>4, <1>5, <2>1, <3>2
        <5> QED
          BY <5>1
      <4>2. downStream'[i] = <<b, a + j>>
        BY <1>6, <4>1
      <4>3. b + (a + j) = i
        BY <1>3, <1>5, <4>1
      <4> QED
        BY <4>2, <4>3 DEF Number
    <3> QED
      BY <3>1, <3>2
  <2> QED
    BY <1>5, <1>6, <1>7, <2>1 DEF EchoInv, Numbers
<1>11. MainInv' /\ OneServer'
  BY <1>2, <1>7, ServesAlone DEF EchoInv, MainInv, OneServer, Waiting
<1>12. \A r \in Servers : Serving(r)'
  <2>1. Serving(s)'
    <3>1. Echoed' = b + downAccepted' /\ downAccepted' <= m
      BY <1>3, <1>5, <1>6
    <3> QED
      BY <1>2, <1>3, <1>5, <1>7, <3>1 DEF Serving
  <2>2. \A r \in Servers \ {s} : at'[r] \in {"absent", "listen", "ended"}
    BY <1>2, ServesAlone
  <2> QED
    BY <2>1, <2>2 DEF Serving
<1>13. Quiet' /\ ThreadInv'
  <2>1. at["thread"] # "sleep"
    BY <1>2, ServesAlone DEF Servers
  <2> QED
    BY <1>2, <1>7, <2>1 DEF EchoInv, Quiet, ThreadInv
<1> QED
  BY <1>8, <1>9, <1>10, <1>11, <1>12, <1>13 DEF EchoInv

LEMMA ServerSendReturnsKeeps ==
    ASSUME EchoInv, NEW s \in Servers, NEW next,
           \/ s = "thread" /\ next = "receive"
           \/ s = "EchoServer" /\ next = "close",
           ServerSendReturns(s, next)
    PROVE  EchoInv'
<1>1. /\ at[s] = "sending" /\ downAccepted = downBlock[2] /\ Goes(s, next)
      /\ downBlock' = <<0, 0>> /\ downAccepted' = 0
      /\ downTold' = IF downAccepted = 0 THEN -1 ELSE downAccepted
      /\ UNCHANGED <<downStream, downReceived>>
      /\ UNCHANGED <<backlog, capacity, countVars, upVars>>
  BY DEF ServerSendReturns, Down!EndSend, Down!NoBlock
<1>2. /\ EchoTyped /\ Heard \in Nat /\ m_nBytesReceived \in Nat
      /\ downAccepted = m_nBytesReceived /\ Echoed = Heard
      /\ m_nBytesReceived <= Heard /\ Heard <= N
  <2>1. /\ EchoTyped /\ Heard \in Nat /\ m_nBytesReceived \in Nat
        /\ Sent \in Nat
    BY Lengths DEF EchoInv, EchoTyped
  <2>2. /\ downBlock = <<Heard - m_nBytesReceived, m_nBytesReceived>>
        /\ Echoed = Heard - m_nBytesReceived + downAccepted
    BY <1>1 DEF EchoInv, Serving
  <2>3. downAccepted = m_nBytesReceived
    BY <1>1, <2>2
  <2> QED
    BY <2>1, <2>2, <2>3, ConstantsTyped DEF EchoInv, Counts
<1>3. /\ at' \in [Processes -> Places] /\ at'[s] = next
      /\ \A q \in Processes \ {s} : at'[q] = at[q]
      /\ \A r \in Servers \ {s} : at'[r] \in {"absent", "listen", "ended"}
      /\ OneServer'
  BY <1>1, ServerMoves DEF Places
<1>4. UNCHANGED <<Sent, Heard, Echoed, Given, nBytesReceived, m_nBytesReceived,
                  upBlock, upAccepted>>
  BY <1>1 DEF upVars, countVars, Sent, Heard, Echoed, Given
<1>5. EchoTyped' /\ Counts' /\ Numbers'
  <2>1. downTold' \in -1..N
    BY <1>1, <1>2, ConstantsTyped
  <2> QED
    BY <1>1, <1>2, <1>3, <1>4, <2>1
       DEF upVars, countVars, EchoInv, EchoTyped, Counts, Numbers
<1>6. MainInv'
  BY <1>3, <1>4 DEF EchoInv, MainInv, Servers, Processes
<1>7. \A r \in Servers : Serving(r)'
  <2>1. Serving(s)'
    BY <1>2, <1>3, <1>4 DEF Serving
  <2> QED
    BY <1>3, <2>1 DEF Serving
<1>8. Quiet'
  BY <1>1 DEF Quiet
<1>9. ThreadInv'
  <2>1. CASE s = "thread"
    BY <1>1, <1>3, <1>4, <2>1 DEF EchoInv, ThreadInv
  <2>2. CASE s = "EchoServer"
    BY <1>3, <2>2 DEF ThreadInv, Servers
  <2> QED
    BY <2>1, <2>2 DEF Servers
<1> QED
  BY <1>3, <1>5, <1>6, <1>7, <1>8, <1>9 DEF EchoInv

-----------------------------------------------------------------------------
(* The thread alone, and EchoServer alone *)

LEMMA ThreadListensKeeps ==
    ASSUME EchoInv, ThreadListens
    PROVE  EchoInv'
<1>1. /\ at["thread"] = "listen" /\ UNCHANGED backlog
      /\ Goes("thread", IF at["EchoServer"] = "absent" THEN "accept" ELSE "ended")
      /\ UNCHANGED <<capacity, countVars, upVars, downVars>>
  BY DEF ThreadListens
<1>2. PICK place \in {"accept", "ended"} :
        /\ place = IF at["EchoServer"] = "absent" THEN "accept" ELSE "ended"
        /\ Goes("thread", place)
  BY <1>1
<1>3. /\ at' \in [Processes -> Places] /\ at'["thread"] = place
      /\ \A q \in Processes \ {"thread"} : at'[q] = at[q]
      /\ backlog' \in BOOLEAN
  BY <1>1, <1>2, Moves DEF EchoInv, EchoTyped, Processes, Places
<1>4. /\ EchoTyped' /\ Counts' /\ Numbers'
      /\ UNCHANGED <<Sent, Heard, Echoed, Given, upBlock, upAccepted,
                     downBlock, downAccepted, nBytesReceived, m_nBytesReceived>>
  BY <1>1, <1>3, StreamsKept
<1>5. at'["main"] = at["main"] /\ at'["EchoServer"] = at["EchoServer"]
  BY <1>3 DEF Processes
<1>6. MainInv' /\ ThreadInv'
  BY <1>3, <1>4, <1>5 DEF EchoInv, MainInv, ThreadInv
<1>7. OneServer'
  BY <1>1, <1>2, <1>3, <1>4, <1>5 DEF EchoInv, OneServer, Waiting
<1>8. Quiet' /\ \A s \in Servers : Serving(s)'
  BY <1>1, <1>3, <1>4, <1>5 DEF EchoInv, Quiet, Serving, Servers
<1> QED
  BY <1>4, <1>6, <1>7, <1>8 DEF EchoInv

LEMMA ThreadRestsKeeps ==
    ASSUME EchoInv, ThreadSleeps \/ ThreadEnds
    PROVE  EchoInv'
<1>1. PICK place \in {"sleep", "ended"} :
        /\ at["thread"] \in {"receive", "sleep"} /\ Goes("thread", place)
        /\ place = "sleep" => /\ at["thread"] = "receive"
                              /\ nBytesReceived = N
        /\ UNCHANGED backlog
        /\ UNCHANGED <<capacity, countVars, upVars, downVars>>
  BY DEF ThreadSleeps, ThreadEnds, N
<1>2. /\ at' \in [Processes -> Places] /\ at'["thread"] = place
      /\ \A q \in Processes \ {"thread"} : at'[q] = at[q]
      /\ OneServer' /\ backlog' \in BOOLEAN
  BY <1>1, ServerMoves DEF EchoInv, EchoTyped, Servers, Places
<1>3. /\ EchoTyped' /\ Counts' /\ Numbers'
      /\ UNCHANGED <<Sent, Heard, Echoed, Given, upBlock, upAccepted,
                     downBlock, downAccepted, nBytesReceived, m_nBytesReceived>>
  BY <1>1, <1>2, StreamsKept
<1>4. at'["main"] = at["main"] /\ at'["EchoServer"] = at["EchoServer"]
  BY <1>2 DEF Processes
<1>5. MainInv'
  BY <1>3, <1>4 DEF EchoInv, MainInv
<1>6. Quiet' /\ \A s \in Servers : Serving(s)'
  BY <1>1, <1>2, <1>3, <1>4 DEF EchoInv, Quiet, Serving, Servers
<1>7. ThreadInv'
  <2>1. place = "sleep" => Echoed = N
    BY <1>1 DEF EchoInv, ThreadInv, Serving, Servers
  <2> QED
    BY <1>2, <1>3, <2>1 DEF ThreadInv
<1> QED
  BY <1>2, <1>3, <1>5, <1>6, <1>7 DEF EchoInv

(* A reset cuts off what main has not been given, and nothing else. *)
LEMMA EchoServerClosesKeeps ==
    ASSUME EchoInv, EchoServerCloses
    PROVE  EchoInv'
<1>1. /\ at["EchoServer"] = "close" /\ Goes("EchoServer", "accept")
      /\ \/ \E n \in Given..Echoed : downStream' = SubSeq(downStream, 1, n)
         \/ UNCHANGED downStream
      /\ UNCHANGED <<backlog, capacity, countVars, upVars, downReceived,
                     downBlock, downAccepted, downTold>>
  BY DEF EchoServerCloses, Echoed, Given
<1>2. /\ EchoTyped /\ Echoed \in Nat /\ Given \in Nat /\ Heard \in Nat
      /\ Given <= Echoed /\ Echoed <= Heard /\ capacity["down"] \in Nat
  BY Lengths DEF EchoInv, Counts
<1>3. /\ at' \in [Processes -> Places] /\ at'["EchoServer"] = "accept"
      /\ \A q \in Processes \ {"EchoServer"} : at'[q] = at[q]
  BY <1>1, <1>2, Moves DEF EchoTyped, Processes, Places
<1>4. /\ at'["main"] = at["main"] /\ at'["thread"] = at["thread"]
      /\ ~Waiting /\ at["thread"] \in {"listen", "ended"}
  BY <1>1, <1>3, ServesAlone
     DEF EchoInv, OneServer, Servers, Processes
<1>5. /\ downStream' \in Seq(Bytes) /\ Echoed' \in Nat
      /\ Given <= Echoed' /\ Echoed' <= Echoed
      /\ \A i \in 1..Echoed' : downStream'[i] = downStream[i]
  <2>1. CASE UNCHANGED downStream
    BY <1>2, <2>1 DEF EchoTyped, Echoed
  <2>2. ASSUME NEW n \in Given..Echoed, downStream' = SubSeq(downStream, 1, n)
        PROVE  /\ downStream' \in Seq(Bytes) /\ Echoed' \in Nat
               /\ Given <= Echoed' /\ Echoed' <= Echoed
               /\ \A i \in 1..Echoed' : downStream'[i] = downStream[i]
    <3>1. n \in Nat /\ n <= Len(downStream) /\ downStream \in Seq(Bytes)
      BY <1>2, <2>2 DEF EchoTyped, Echoed
    <3>2. /\ SubSeq(downStream, 1, n) \in Seq(Bytes)
          /\ Len(SubSeq(downStream, 1, n)) = n
          /\ \A i \in 1..n : SubSeq(downStream, 1, n)[i] = downStream[i]
      BY <3>1
    <3> QED
      BY <1>2, <2>2, <3>1, <3>2 DEF Echoed
  <2> QED
    BY <1>1, <2>1, <2>2
<1>6. UNCHANGED <<Sent, Heard, Given, nBytesReceived, m_nBytesReceived,
                  bytesReceived, upBlock, upAccepted>>
  BY <1>1 DEF upVars, countVars, Sent, Heard, Given
<1>7. EchoTyped' /\ Counts'
  <2>1. EchoTyped'
    BY <1>1, <1>2, <1>3, <1>5 DEF upVars, countVars, EchoTyped
  <2> QED
    BY <1>1, <1>2, <1>5, <1>6, <2>1 DEF EchoInv, Counts
<1>8. Numbers'
  <2>1. \A i \in 1..Echoed' : i \in 1..Echoed
    BY <1>2, <1>5
  <2> QED
    BY <1>1, <1>5, <1>6, <2>1 DEF EchoInv, Numbers
<1>9. MainInv'
  BY <1>4, <1>6 DEF EchoInv, MainInv
<1>10. OneServer'
  BY <1>1, <1>3, <1>4 DEF EchoInv, OneServer, Waiting
<1>11. ThreadInv' /\ \A s \in Servers : Serving(s)'
  BY <1>3, <1>4 DEF ThreadInv, Serving, Servers
<1>12. Quiet'
  <2>1. \A s \in Servers : at[s] # "sending"
    BY <1>1, <1>4 DEF Servers
  <2> QED
    BY <1>1, <2>1 DEF EchoInv, Quiet
<1> QED
  BY <1>7, <1>8, <1>9, <1>10, <1>11, <1>12 DEF EchoInv

-----------------------------------------------------------------------------
LEMMA StepEchoes ==
    ASSUME EchoInv, [Next]_vars
    PROVE  EchoInv'
<1>1. CASE Main
  BY <1>1, OpenKeeps, MainSendKeeps, MainSendFitsKeeps, MainSendReturnsKeeps,
     MainReceivesKeeps, MainEndsKeeps DEF Main
<1>2. CASE Thread
  <2>1. ASSUME ThreadReceives
        PROVE  EchoInv'
    BY <2>1, ServerReceivesKeeps, ConstantsTyped DEF ThreadReceives, Servers
  <2> QED
    BY <1>2, <2>1, ThreadListensKeeps, AcceptKeeps, ServerSendKeeps,
       ServerSendFitsKeeps, ServerSendReturnsKeeps, ThreadRestsKeeps
       DEF Thread, Servers
<1>3. CASE EchoServer
  <2>1. ASSUME EchoServerReceives
        PROVE  EchoInv'
    BY <2>1, ServerReceivesKeeps, ConstantsTyped DEF EchoServerReceives, Servers
  <2> QED
    BY <1>3, <2>1, AcceptKeeps, ServerSendKeeps, ServerSendFitsKeeps,
       ServerSendReturnsKeeps, EchoServerClosesKeeps DEF EchoServer, Servers
<1>4. CASE UNCHANGED vars
  <2>1. /\ UNCHANGED <<at, backlog>>
        /\ UNCHANGED <<capacity, countVars, upVars, downVars>>
    BY <1>4 DEF vars, countVars, upVars, downVars
  <2>2. /\ EchoTyped' /\ Counts' /\ Numbers'
        /\ UNCHANGED <<Sent, Heard, Echoed, Given, upBlock, upAccepted,
                       downBlock, downAccepted, nBytesReceived,
                       m_nBytesReceived>>
    BY <2>1, StreamsKept DEF EchoInv, EchoTyped
  <2>3. Quiet' /\ ThreadInv' /\ \A s \in Servers : Serving(s)'
    BY <2>1, <2>2, ServersKept
  <2>4. MainInv' /\ OneServer'
    BY <2>1, <2>2 DEF EchoInv, MainInv, OneServer, Waiting
  <2> QED
    BY <2>2, <2>3, <2>4 DEF EchoInv
<1> QED
  BY <1>1, <1>2, <1>3, <1>4 DEF Next

LEMMA AlwaysEchoes == Spec => []EchoInv
  BY InitEchoes, StepEchoes, PTL DEF Spec

(***************************************************************************)
(* The places, counts and results of the programs have their types, and no *)
(* byte is received before it is sent, for a payload of any length.        *)
(***************************************************************************)
THEOREM EchoTypes == Spec => []TypeOK
<1>1. EchoInv => TypeOK
  <2> SUFFICES ASSUME EchoInv
               PROVE  TypeOK
    OBVIOUS
  <2>1. /\ Sent \in Nat /\ Heard \in Nat /\ Echoed \in Nat /\ Given \in Nat
    BY Lengths DEF EchoInv
  <2>2. /\ m_nBytesReceived \in 0..N /\ bytesReceived \in 0..N
        /\ nBytesReceived \in 0..N
    BY <2>1, ConstantsTyped DEF EchoInv, EchoTyped, Counts
  <2>3. Len(upReceived) <= Len(upStream) /\ Len(downReceived) <= Len(downStream)
    BY DEF EchoInv, Counts, Sent, Heard, Echoed, Given
  <2> QED
    BY <2>2, <2>3 DEF EchoInv, EchoTyped, TypeOK, N
<1> QED
  BY <1>1, AlwaysEchoes, PTL

(***************************************************************************)
(* main is given a prefix of the payload, in order, and only bytes that a  *)
(* server has received: for every payload, sizes of the Receives and room  *)
(* in the connection, and when the connection is reset.                    *)
(***************************************************************************)
THEOREM PayloadEchoed == Spec => []EchoesPayload
<1>1. EchoInv => EchoesPayload
  <2> SUFFICES ASSUME EchoInv
               PROVE  EchoesPayload
    OBVIOUS
  <2>1. DOMAIN downReceived = 1..Given
    BY DEF EchoInv, EchoTyped, Given
  <2> QED
    BY <2>1 DEF EchoInv, Counts, Numbers, Echoed, Heard, EchoesPayload
<1> QED
  BY <1>1, AlwaysEchoes, PTL

(***************************************************************************)
(* The thread stops receiving when the whole payload has come and gone     *)
(* back.                                                                   *)
(***************************************************************************)
THEOREM SleepsWhenEchoed == Spec => []SleepsAfterEcho
<1>1. EchoInv => SleepsAfterEcho
  BY DEF EchoInv, ThreadInv, SleepsAfterEcho, Echoed, N
<1> QED
  BY <1>1, AlwaysEchoes, PTL

(* What Send told main is what it put on the way up. *)
Told ==
    /\ at["main"] \in {"open", "send", "sending"} => upTold = 0
    /\ at["main"] = "receive" => upTold = Sent
    /\ at["main"] = "ended" => upTold \in {0, N}

LEMMA ToldKept ==
    ASSUME EchoInv, Told, [Next]_vars
    PROVE  Told'
<1>0. at \in [Processes -> Places] /\ N \in Nat
  BY ConstantsTyped DEF EchoInv, EchoTyped
<1>1. ASSUME at'["main"] = at["main"], UNCHANGED <<upTold, upStream>>
      PROVE  Told'
  BY <1>1 DEF Told, Sent
<1>2. ASSUME Open
      PROVE  Told'
  BY <1>0, <1>2 DEF Open, Goes, upVars, Told, Processes
<1>3. ASSUME MainSend
      PROVE  Told'
  BY <1>0, <1>3 DEF MainSend, Up!BeginSend, Goes, Told, Processes
<1>4. ASSUME MainSendFits
      PROVE  Told'
  BY <1>4 DEF MainSendFits, Up!Accept, Told
<1>5. ASSUME MainSendReturns
      PROVE  Told'
  <2>1. at'["main"] = "receive" /\ upTold' = Sent /\ upStream' = upStream
    BY <1>0, <1>5
       DEF MainSendReturns, Up!EndSend, Goes, EchoInv, MainInv, Processes
  <2> QED
    BY <2>1 DEF Told, Sent
<1>6. ASSUME MainEnds
      PROVE  Told'
  <2>1. Sent = N
    BY <1>0, <1>6, Lengths DEF MainEnds, EchoInv, Counts, N
  <2> QED
    BY <1>0, <1>6, <2>1 DEF MainEnds, Goes, upVars, Told, Processes
<1>7. ASSUME MainReceives \/ UNCHANGED vars
      PROVE  Told'
  BY <1>1, <1>7 DEF MainReceives, upVars, vars
<1>8. ASSUME NEW s \in Servers,
             \/ Accept(s) \/ ServerSend(s) \/ ServerSendFits(s)
             \/ \E next : ServerSendReturns(s, next)
             \/ \E most : ServerReceives(s, most)
      PROVE  Told'
  BY <1>0, <1>1, <1>8
     DEF Accept, ServerSend, ServerSendFits, ServerSendReturns, ServerReceives,
         Up!Receive, Goes, upVars, Servers, Processes
<1>9. ASSUME ThreadListens \/ ThreadSleeps \/ ThreadEnds \/ EchoServerCloses
      PROVE  Told'
  BY <1>0, <1>1, <1>9
     DEF ThreadListens, ThreadSleeps, ThreadEnds, EchoServerCloses, Goes,
         upVars, Processes
<1>10. CASE Main
  BY <1>2, <1>3, <1>4, <1>5, <1>6, <1>7, <1>10 DEF Main
<1>11. CASE Thread
  BY <1>8, <1>9, <1>11 DEF Thread, ThreadReceives, Servers
<1>12. CASE EchoServer
  BY <1>8, <1>9, <1>12 DEF EchoServer, EchoServerReceives, Servers
<1> QED
  BY <1>7, <1>10, <1>11, <1>12 DEF Next

(***************************************************************************)
(* A short send leaves main in its loop for ever: it is never given as     *)
(* many bytes as it counts to, for every payload, room in the connection   *)
(* and server.                                                             *)
(***************************************************************************)
THEOREM ShortSendsNeverEnd == Spec => []ShortSendNeverEnds
<1>1. Init => Told
  BY DEF Init, Up!Init, Told, Processes
<1>2. EchoInv /\ Told /\ [Next]_vars => Told'
  BY ToldKept
<1>3. EchoInv /\ Told => ShortSendNeverEnds
  BY ConstantsTyped DEF EchoInv, MainInv, Told, ShortSendNeverEnds, N
<1> QED
  BY <1>1, <1>2, <1>3, AlwaysEchoes, PTL DEF Spec

-----------------------------------------------------------------------------
(* The connection *)

(***************************************************************************)
(* Where a program calls Send the ByteStream takes its block: none is in   *)
(* progress, and none of that name has been sent.                          *)
(***************************************************************************)
BlocksFree ==
    /\ at["main"] = "send" =>
         /\ upBlock = Up!NoBlock
         /\ \A i \in DOMAIN upStream : upStream[i][1] # 0
    /\ \A s \in Servers : at[s] = "send" =>
         /\ downBlock = Down!NoBlock
         /\ \A i \in DOMAIN downStream :
              downStream[i][1] # Len(upReceived) - m_nBytesReceived

LEMMA BlockIsFree ==
    ASSUME EchoInv
    PROVE  BlocksFree
<1>1. ASSUME at["main"] = "send"
      PROVE  /\ upBlock = Up!NoBlock
             /\ \A i \in DOMAIN upStream : upStream[i][1] # 0
  <2>1. upBlock = <<0, 0>> /\ Sent = 0 /\ DOMAIN upStream = 1..Sent
    BY <1>1 DEF EchoInv, MainInv, EchoTyped, Sent
  <2> QED
    BY <2>1 DEF Up!NoBlock
<1>2. ASSUME NEW s \in Servers, at[s] = "send"
      PROVE  /\ downBlock = Down!NoBlock
             /\ \A i \in DOMAIN downStream :
                  downStream[i][1] # Len(upReceived) - m_nBytesReceived
  <2>1. \A t \in Servers : at[t] # "sending"
    BY <1>2 DEF EchoInv, OneServer, Servers
  <2>2. downBlock = Down!NoBlock
    BY <2>1 DEF EchoInv, Quiet, Down!NoBlock
  <2>3. ASSUME NEW i \in DOMAIN downStream
        PROVE  downStream[i][1] # Len(upReceived) - m_nBytesReceived
    <3>1. i \in 1..Echoed /\ downStream[i] \in Bytes /\ Echoed \in Nat
      BY Lengths DEF EchoInv, EchoTyped, Echoed
    <3>2. /\ downStream[i][1] \in Nat
          /\ downStream[i][2] \in Nat /\ downStream[i][2] > 0
      BY <3>1 DEF Bytes
    <3>3. downStream[i][1] + downStream[i][2] = i
      BY <3>1 DEF EchoInv, Numbers, Number
    <3>4. Echoed = Heard - m_nBytesReceived
      BY <1>2 DEF EchoInv, Serving
    <3> QED
      BY <3>1, <3>2, <3>3, <3>4 DEF Heard
  <2> QED
    BY <2>2, <2>3
<1> QED
  BY <1>1, <1>2 DEF BlocksFree

(* No Send of the programs ever waits for one before it. *)
THEOREM SendsNeverWait == Spec => []BlocksFree
  BY BlockIsFree, AlwaysEchoes, PTL

LEMMA DownStep ==
    ASSUME EchoInv, [Next]_vars
    PROVE  [Down!Next \/ EchoServerCloses]_downVars
<1>1. ASSUME NEW s \in Servers, ServerSend(s)
      PROVE  Down!Next
  <2> DEFINE b == Len(upReceived) - m_nBytesReceived
             n == m_nBytesReceived
  <2>1. Down!BeginSend(b, n)
    BY <1>1 DEF ServerSend
  <2>2. n > 0 /\ n \in Nat /\ n <= Heard /\ Heard \in Nat /\ Heard <= N
    <3>1. at[s] = "send" /\ Serving(s)
      BY <1>1 DEF ServerSend, EchoInv
    <3> QED
      BY <3>1, Lengths, ConstantsTyped DEF EchoInv, EchoTyped, Counts, Serving
  <2>3. b \in 0..nTotalPayloadSize /\ n \in PayloadSizes
    BY <2>2, ConstantsTyped DEF Heard, PayloadSizes, N
  <2> QED
    BY <2>1, <2>3 DEF Down!Next
<1>2. ASSUME NEW s \in Servers, ServerSendFits(s)
      PROVE  Down!Next
  <2> DEFINE space == capacity["down"] - (Len(downStream) - Len(downReceived))
             rest == downBlock[2] - downAccepted
  <2>1. PICK k \in {Lesser(space, rest)} \ {0} : Down!Accept(k)
    BY <1>2 DEF ServerSendFits
  <2>2. /\ downBlock[2] \in Nat /\ downAccepted \in Nat
        /\ downAccepted <= downBlock[2]
    <3>1. at[s] = "sending" /\ Serving(s)
      BY <1>2 DEF ServerSendFits, EchoInv
    <3> QED
      BY <3>1 DEF Serving, EchoInv, EchoTyped
  <2>3. space \in Nat
    BY Lengths DEF EchoInv, Counts, Echoed, Given
  <2>4. k \in 1..(downBlock[2] - downAccepted)
    BY <2>1, <2>2, <2>3 DEF Lesser
  <2> QED
    BY <2>1, <2>4 DEF Down!Next
<1>3. ASSUME NEW s, NEW next, ServerSendReturns(s, next)
      PROVE  Down!Next
  BY <1>3 DEF ServerSendReturns, Down!Next
<1>4. CASE Main
  <2>1. ASSUME MainReceives
        PROVE  Down!Next
    <3>1. PICK k \in 1..Lesser(MAX_PACKET,
                               Len(downStream) - Len(downReceived)) :
              Down!Receive(k)
      BY <2>1 DEF MainReceives
    <3>2. k \in 1..(Len(downStream) - Len(downReceived))
      BY <3>1, Lengths, ConstantsTyped DEF EchoInv, Lesser, Echoed, Given
    <3> QED
      BY <3>1, <3>2 DEF Down!Next
  <2>2. ASSUME ~MainReceives
        PROVE  UNCHANGED downVars
    BY <1>4, <2>2 DEF Main, Open, MainSend, MainSendFits, MainSendReturns,
       MainEnds
  <2> QED
    BY <2>1, <2>2
<1>5. ASSUME Accept("thread") \/ ThreadReceives \/ ThreadListens
             \/ ThreadSleeps \/ ThreadEnds \/ Accept("EchoServer")
             \/ EchoServerReceives
      PROVE  UNCHANGED downVars
  BY <1>5 DEF Accept, ThreadReceives, ThreadListens, ThreadSleeps, ThreadEnds,
     EchoServerReceives, ServerReceives
<1>6. CASE Thread
  BY <1>1, <1>2, <1>3, <1>5, <1>6 DEF Thread, Servers
<1>7. CASE EchoServer
  BY <1>1, <1>2, <1>3, <1>5, <1>7 DEF EchoServer, Servers
<1>8. CASE UNCHANGED vars
  BY <1>8 DEF vars, downVars
<1> QED
  BY <1>4, <1>6, <1>7, <1>8 DEF Next

(***************************************************************************)
(* The programs use the way back as ByteStream allows, but for the reset   *)
(* with which EchoServer may end, whatever the sizes of the Receives.      *)
(***************************************************************************)
THEOREM DownRefines == Spec => DownIsStream
<1>1. Init => Down!Init
  BY DEF Init
<1>2. EchoInv /\ [Next]_vars => [Down!Next \/ EchoServerCloses]_downVars
  BY DownStep
<1> QED
  BY <1>1, <1>2, AlwaysEchoes, PTL DEF Spec, DownIsStream

=============================================================================
