-------------------------- MODULE ByteStreamProofs --------------------------
(***************************************************************************)
(* What the abstract stream guarantees for any blocks: SocketTransfer is   *)
(* checked to implement it, and Echo is built from two of it.              *)
(***************************************************************************)
EXTENDS ByteStream, SequenceTheorems, TLAPS

Bytes == Blocks \X (Nat \ {0})

(* The reader's bytes are the first of the stream. *)
ReadInOrder ==
    /\ Len(received) <= Len(stream)
    /\ \A i \in 1..Len(received) : received[i] = stream[i]

(* No byte is in the stream twice. *)
BytesOnce ==
    \A i, j \in 1..Len(stream) : stream[i] = stream[j] => i = j

(* Every byte but a block's first follows the byte before it. *)
BlocksInOrder ==
    \A i \in 1..Len(stream) :
        \/ stream[i][2] = 1
        \/ i > 1 /\ stream[i - 1] = <<stream[i][1], stream[i][2] - 1>>

StreamTyped ==
    /\ stream \in Seq(Bytes)
    /\ received \in Seq(Bytes)
    /\ block = NoBlock \/ block \in Blocks \X Sizes
    /\ accepted \in Nat
    /\ block = NoBlock => accepted = 0

(* Of the block in progress the first bytes are there, at the end. *)
BlockProgress ==
    block # NoBlock =>
        /\ \A i \in 1..Len(stream) :
             stream[i][1] = block[1] => stream[i][2] <= accepted
        /\ accepted > 0 => /\ Len(stream) > 0
                           /\ stream[Len(stream)] = <<block[1], accepted>>

StreamInv ==
    StreamTyped /\ ReadInOrder /\ BytesOnce /\ BlocksInOrder /\ BlockProgress

(* Where the elements of a concatenation stand. *)
LEMMA Appended ==
    ASSUME NEW S, NEW s \in Seq(S), NEW t \in Seq(S), NEW m, m = Len(s)
    PROVE  /\ s \o t \in Seq(S)
           /\ Len(s \o t) = m + Len(t)
           /\ \A i \in 1..m : (s \o t)[i] = s[i]
           /\ \A i \in (m + 1)..(m + Len(t)) : (s \o t)[i] = t[i - m]
<1>1. m \in Nat /\ Len(t) \in Nat
  OBVIOUS
<1>2. \A i \in 1..(Len(s) + Len(t)) :
        (s \o t)[i] = IF i <= Len(s) THEN s[i] ELSE t[i - Len(s)]
  BY ConcatProperties
<1>3. s \o t \in Seq(S) /\ Len(s \o t) = m + Len(t)
  BY ConcatProperties
<1> QED
  BY <1>1, <1>2, <1>3

(* Where the bytes that Accept adds come to stand. *)
LEMMA AcceptAppends ==
    ASSUME Sizes \subseteq Nat \ {0}, StreamTyped, NEW k \in Nat, Accept(k)
    PROVE  /\ stream' \in Seq(Bytes)
           /\ Len(stream') = Len(stream) + k
           /\ \A i \in 1..Len(stream) : stream'[i] = stream[i]
           /\ \A i \in (Len(stream) + 1)..(Len(stream) + k) :
                stream'[i] = <<block[1], accepted + (i - Len(stream))>>
<1> DEFINE more == [i \in 1..k |-> <<block[1], accepted + i>>]
<1>1. block[1] \in Blocks
  BY DEF Accept, StreamTyped
<1>2. \A i \in 1..k : <<block[1], accepted + i>> \in Bytes
  BY <1>1 DEF StreamTyped, Bytes
<1>3. more \in Seq(Bytes) /\ Len(more) = k
  BY <1>2
<1>4. stream \in Seq(Bytes) /\ stream' = stream \o more
  BY DEF Accept, StreamTyped
<1>5. /\ stream \o more \in Seq(Bytes)
      /\ Len(stream \o more) = Len(stream) + k
      /\ \A i \in 1..Len(stream) : (stream \o more)[i] = stream[i]
      /\ \A i \in (Len(stream) + 1)..(Len(stream) + k) :
           (stream \o more)[i] = more[i - Len(stream)]
  <2> HIDE DEF more
  <2> QED
    BY <1>3, <1>4, Appended
<1>6. \A i \in (Len(stream) + 1)..(Len(stream) + k) :
        more[i - Len(stream)] = <<block[1], accepted + (i - Len(stream))>>
  BY <1>4
<1> QED
  BY <1>4, <1>5, <1>6

(* More bytes of the block in progress keep the stream in order. *)
LEMMA AcceptStep ==
    ASSUME Sizes \subseteq Nat \ {0}, StreamInv, NEW k \in Nat \ {0}, Accept(k)
    PROVE  StreamInv'
<1> DEFINE n == Len(stream)
<1>0. /\ StreamTyped /\ ReadInOrder /\ BytesOnce /\ BlocksInOrder
      /\ BlockProgress /\ n \in Nat /\ accepted \in Nat
      /\ block # NoBlock /\ UNCHANGED <<received, block, told>>
      /\ accepted' = accepted + k
  BY DEF StreamInv, StreamTyped, Accept
<1>1. /\ stream' \in Seq(Bytes)
      /\ Len(stream') = n + k
      /\ \A i \in 1..n : stream'[i] = stream[i]
      /\ \A i \in (n + 1)..(n + k) :
           stream'[i] = <<block[1], accepted + (i - n)>>
  BY <1>0, AcceptAppends
<1>2. \A i \in 1..n : stream[i] \in Bytes
  BY <1>0 DEF StreamTyped
<1>3. \A i \in 1..n : stream[i][1] = block[1] => stream[i][2] <= accepted
  BY <1>0 DEF BlockProgress
<1>4. accepted > 0 => n > 0 /\ stream[n] = <<block[1], accepted>>
  BY <1>0 DEF BlockProgress
<1>5. StreamTyped'
  BY <1>0, <1>1 DEF StreamTyped, NoBlock
<1>6. ReadInOrder'
  <2>1. Len(received) \in Nat
    BY <1>0 DEF StreamTyped
  <2> QED
    BY <1>0, <1>1, <2>1 DEF ReadInOrder
<1> HIDE DEF n
<1>7. BytesOnce'
  <2> SUFFICES ASSUME NEW i \in 1..(n + k), NEW j \in 1..(n + k),
                      stream'[i] = stream'[j]
               PROVE  i = j
    BY <1>1 DEF BytesOnce
  <2>1. CASE i <= n /\ j <= n
    BY <1>0, <1>1, <2>1 DEF BytesOnce, n
  <2>2. CASE i > n /\ j > n
    BY <1>0, <1>1, <2>2
  <2>3. CASE i <= n /\ j > n
    BY <1>0, <1>1, <1>3, <2>3
  <2>4. CASE i > n /\ j <= n
    BY <1>0, <1>1, <1>3, <2>4
  <2> QED
    BY <1>0, <2>1, <2>2, <2>3, <2>4
<1>8. BlocksInOrder'
  <2> SUFFICES ASSUME NEW i \in 1..(n + k)
               PROVE  \/ stream'[i][2] = 1
                      \/ /\ i > 1
                         /\ stream'[i - 1]
                              = <<stream'[i][1], stream'[i][2] - 1>>
    BY <1>1 DEF BlocksInOrder
  <2>1. CASE i <= n
    BY <1>0, <1>1, <2>1 DEF BlocksInOrder, n
  <2>2. CASE i = n + 1
    <3>1. stream'[i] = <<block[1], accepted + 1>>
      BY <1>0, <1>1, <2>2
    <3>2. CASE accepted = 0
      BY <3>1, <3>2
    <3>3. CASE accepted > 0
      BY <1>0, <1>1, <1>4, <2>2, <3>1, <3>3
    <3> QED
      BY <1>0, <3>2, <3>3
  <2>3. CASE i > n + 1
    <3>1. /\ stream'[i] = <<block[1], accepted + (i - n)>>
          /\ stream'[i - 1] = <<block[1], accepted + (i - 1 - n)>>
      BY <1>0, <1>1, <2>3
    <3> QED
      BY <1>0, <2>3, <3>1
  <2> QED
    BY <1>0, <2>1, <2>2, <2>3
<1>9. BlockProgress'
  <2>1. \A i \in 1..(n + k) :
          stream'[i][1] = block[1] => stream'[i][2] <= accepted + k
    <3> TAKE i \in 1..(n + k)
    <3>1. CASE i <= n
      <4>1. stream'[i] = stream[i] /\ stream[i][2] \in Nat
        BY <1>1, <1>2, <3>1 DEF Bytes
      <4>2. stream[i][1] = block[1] => stream[i][2] <= accepted
        BY <1>3, <3>1
      <4> QED
        BY <1>0, <4>1, <4>2
    <3>2. CASE i > n
      BY <1>0, <1>1, <3>2
    <3> QED
      BY <1>0, <3>1, <3>2
  <2>2. stream'[n + k] = <<block[1], accepted + k>>
    BY <1>0, <1>1
  <2> QED
    BY <1>0, <1>1, <2>1, <2>2 DEF BlockProgress
<1> QED
  BY <1>5, <1>6, <1>7, <1>8, <1>9 DEF StreamInv

(* The next bytes of the stream are handed to the reader. *)
LEMMA ReceiveStep ==
    ASSUME StreamInv, NEW k \in 1..(Len(stream) - Len(received)), Receive(k)
    PROVE  StreamInv'
<1> DEFINE r == Len(received)
           next == SubSeq(stream, r + 1, r + k)
<1>0. /\ stream \in Seq(Bytes) /\ received \in Seq(Bytes)
      /\ r \in Nat /\ Len(stream) \in Nat
      /\ k \in Nat /\ r + k <= Len(stream)
      /\ received' = received \o next
      /\ UNCHANGED <<stream, block, accepted, told>>
  BY DEF StreamInv, StreamTyped, Receive
<1>1. /\ next \in Seq(Bytes)
      /\ Len(next) = k
      /\ \A i \in 1..k : next[i] = stream[r + i]
  BY <1>0
<1>5. r = Len(received)
  OBVIOUS
<1> HIDE DEF next, r
<1>2. /\ received' \in Seq(Bytes)
      /\ Len(received') = r + k
      /\ \A i \in 1..r : received'[i] = received[i]
      /\ \A i \in (r + 1)..(r + k) : received'[i] = next[i - r]
  <2>0. /\ received \in Seq(Bytes) /\ next \in Seq(Bytes)
        /\ r = Len(received)
    BY <1>0, <1>1, <1>5
  <2>1. /\ received \o next \in Seq(Bytes)
        /\ Len(received \o next) = r + Len(next)
        /\ \A i \in 1..r : (received \o next)[i] = received[i]
        /\ \A i \in (r + 1)..(r + Len(next)) :
             (received \o next)[i] = next[i - r]
    BY <2>0, Appended
  <2> QED
    BY <1>0, <1>1, <2>1
<1>3. ReadInOrder'
  <2> SUFFICES ASSUME NEW i \in 1..(r + k)
               PROVE  received'[i] = stream[i]
    BY <1>0, <1>2 DEF ReadInOrder
  <2>1. CASE i <= r
    BY <1>0, <1>2, <1>5, <2>1 DEF StreamInv, ReadInOrder
  <2>2. CASE i > r
    <3>1. i \in (r + 1)..(r + k) /\ i - r \in 1..k /\ r + (i - r) = i
      BY <1>0, <2>2
    <3>2. received'[i] = next[i - r]
      BY <1>2, <3>1
    <3> QED
      BY <1>1, <3>1, <3>2
  <2>3. i <= r \/ i > r
    <3>1. r \in Int /\ i \in Int
      BY <1>0
    <3> QED
      BY <3>1
  <2> QED
    BY <2>1, <2>2, <2>3
<1> QED
  BY <1>0, <1>2, <1>3
     DEF StreamInv, StreamTyped, BytesOnce, BlocksInOrder, BlockProgress,
         NoBlock

(***************************************************************************)
(* Whatever is sent in whatever pieces, and however it is read: the reader *)
(* gets the bytes in the order of the stream, no byte twice, and the bytes *)
(* of a block one after the other from its first.                          *)
(***************************************************************************)
THEOREM StreamKept ==
    ASSUME Sizes \subseteq Nat \ {0}
    PROVE  Spec => [](ReadInOrder /\ BytesOnce /\ BlocksInOrder)
<1>1. Init => StreamInv
  BY DEF Init, StreamInv, StreamTyped, ReadInOrder, BytesOnce, BlocksInOrder,
         BlockProgress, Bytes
<1>2. StreamInv /\ [Next]_streamVars => StreamInv'
  <2> SUFFICES ASSUME StreamInv, [Next]_streamVars PROVE StreamInv'
    OBVIOUS
  <2>1. ASSUME NEW b \in Blocks, NEW n \in Sizes, BeginSend(b, n)
        PROVE  StreamInv'
    <3>1. \A i \in 1..Len(stream) : stream[i][1] # b
      BY <2>1 DEF BeginSend, StreamInv, StreamTyped
    <3>2. accepted = 0 /\ block' = <<b, n>>
          /\ UNCHANGED <<stream, received, accepted, told>>
      BY <2>1 DEF BeginSend, StreamInv, StreamTyped
    <3> QED
      BY <3>1, <3>2
         DEF StreamInv, StreamTyped, ReadInOrder, BytesOnce, BlocksInOrder,
             BlockProgress
  <2>2. ASSUME NEW k \in 1..(block[2] - accepted), Accept(k)
        PROVE  StreamInv'
    <3>1. k \in Nat \ {0}
      BY <2>2 DEF StreamInv, StreamTyped, Accept
    <3> QED
      BY <2>2, <3>1, AcceptStep
  <2>3. CASE EndSend
    BY <2>3 DEF EndSend, StreamInv, StreamTyped, ReadInOrder, BytesOnce,
                BlocksInOrder, BlockProgress
  <2>4. ASSUME NEW k \in 1..(Len(stream) - Len(received)), Receive(k)
        PROVE  StreamInv'
    BY <2>4, ReceiveStep
  <2>5. CASE Refuse \/ UNCHANGED streamVars
    BY <2>5 DEF Refuse, streamVars, StreamInv, StreamTyped, ReadInOrder,
                BytesOnce, BlocksInOrder, BlockProgress, NoBlock
  <2> QED
    BY <2>1, <2>2, <2>3, <2>4, <2>5 DEF Next
<1>3. StreamInv => ReadInOrder /\ BytesOnce /\ BlocksInOrder
  BY DEF StreamInv
<1> QED
  BY <1>1, <1>2, <1>3, PTL DEF Spec

=============================================================================
