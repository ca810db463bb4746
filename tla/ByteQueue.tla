----------------------------- MODULE ByteQueue -----------------------------
(***************************************************************************)
(* What the circular buffer of xbee_cbuf.c promises: a bounded queue.      *)
(* Bytes leave in the order in which they came.  An append is refused only *)
(* when the queue is full and a removal only when it is empty; a flush     *)
(* drops the oldest bytes, and none that arrived after it.                 *)
(***************************************************************************)
EXTENDS Naturals, Sequences

CONSTANTS Byte,      \* what a place may hold
          Capacity,  \* number of bytes the queue holds
          None       \* answer of a removal from the empty queue

VARIABLES queue,     \* the bytes appended and not yet removed
          given,     \* the byte the writer wants to append, None if there is none
          taken,     \* what the last removal returned
          accepted   \* what the last append of a single byte returned

qvars == <<queue, given, taken, accepted>>

QInit == /\ queue = <<>>
         /\ given = None /\ taken = None
         /\ accepted = TRUE

QGive == /\ given = None
         /\ given' \in Byte
         /\ UNCHANGED <<queue, taken, accepted>>

QAppend == /\ given # None
           /\ Len(queue) < Capacity
           /\ queue' = Append(queue, given)
           /\ given' = None /\ accepted' = TRUE
           /\ UNCHANGED taken

QRefuse == /\ given # None
           /\ Len(queue) = Capacity
           /\ given' = None /\ accepted' = FALSE
           /\ UNCHANGED <<queue, taken>>

QRemove == /\ queue # <<>>
           /\ taken' = Head(queue)
           /\ queue' = Tail(queue)
           /\ UNCHANGED <<given, accepted>>

QEmpty == /\ queue = <<>>
          /\ taken' = None
          /\ UNCHANGED <<queue, given, accepted>>

QDrop == /\ \E k \in 0 .. Len(queue) :
               queue' = [i \in 1 .. Len(queue) - k |-> queue[k + i]]
         /\ UNCHANGED <<given, taken, accepted>>

QNext == QGive \/ QAppend \/ QRefuse \/ QRemove \/ QEmpty \/ QDrop

QSpec == QInit /\ [][QNext]_qvars
=============================================================================
