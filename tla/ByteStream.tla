----------------------------- MODULE ByteStream -----------------------------
(***************************************************************************)
(* What Send and Receive promise of one direction of a connection.  Blocks *)
(* are sent one at a time; of each a prefix enters the stream, in order,   *)
(* and its length is what Send tells its caller.  The reader is handed the *)
(* stream in order.  A byte is a pair <<block, position>>.                 *)
(***************************************************************************)
EXTENDS Integers, Sequences

CONSTANTS
    Blocks,     \* names of the blocks that are sent
    Sizes       \* their lengths

VARIABLES
    stream,     \* the bytes accepted for the reader
    received,   \* the bytes handed to the reader
    block,      \* name and length of the block being sent, or NoBlock
    accepted,   \* how many of its bytes are in the stream
    told        \* result of the Send that returned last

streamVars == <<stream, received, block, accepted, told>>

NoBlock == <<0, 0>>

Init ==
    /\ stream = <<>>
    /\ received = <<>>
    /\ block \in {NoBlock} \cup (Blocks \X Sizes)
    /\ accepted = 0
    /\ told = 0

(* A Send of block b, of n bytes, starts. *)
BeginSend(b, n) ==
    /\ block = NoBlock
    /\ \A i \in DOMAIN stream : stream[i][1] # b
    /\ block' = <<b, n>>
    /\ UNCHANGED <<stream, received, accepted, told>>

(* The next k bytes of the block enter the stream. *)
Accept(k) ==
    /\ block # NoBlock
    /\ stream' = stream \o [i \in 1..k |-> <<block[1], accepted + i>>]
    /\ accepted' = accepted + k
    /\ UNCHANGED <<received, block, told>>

(* Send returns the number of bytes accepted, or -1 when there are none. *)
EndSend ==
    /\ block # NoBlock
    /\ block' = NoBlock
    /\ told' = IF accepted = 0 THEN -1 ELSE accepted
    /\ accepted' = 0
    /\ UNCHANGED <<stream, received>>

(* Send on an object without a socket. *)
Refuse ==
    /\ block = NoBlock
    /\ told' = 0
    /\ UNCHANGED <<stream, received, block, accepted>>

(* A Receive hands the next k bytes to the reader. *)
Receive(k) ==
    /\ received' = received \o SubSeq(stream, Len(received) + 1,
                                      Len(received) + k)
    /\ UNCHANGED <<stream, block, accepted, told>>

Next ==
    \/ \E b \in Blocks, n \in Sizes : BeginSend(b, n)
    \/ \E k \in 1..(block[2] - accepted) : Accept(k)
    \/ EndSend
    \/ Refuse
    \/ \E k \in 1..(Len(stream) - Len(received)) : Receive(k)

Spec == Init /\ [][Next]_streamVars

=============================================================================
