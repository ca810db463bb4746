------------------------------ MODULE XbeeCbuf ------------------------------
(***************************************************************************)
(* The circular buffer of xbee_cbuf.c, written by one side (a frame        *)
(* handler, or an interrupt handler, which cbuf.h allows) and read by      *)
(* another, without a lock: the field of that name is never used.          *)
(* Indices are single bytes, so a load or a store of one is indivisible,   *)
(* and every step below has one access to something the other side writes. *)
(*                                                                         *)
(* `mask' is 2^n - 1: x & mask is x modulo mask + 1.                       *)
(***************************************************************************)
EXTENDS Integers, Sequences

CONSTANTS Mask,      \* cbuf->mask, the capacity
          Byte,      \* what a byte may be
          None       \* the -1 of xbee_cbuf_getch

\* xbee_cbuf_init accepts sizes of at least 3.
ASSUME MaskAssumption == Mask \in Nat /\ Mask >= 3
ASSUME ByteAssumption == Byte # {} /\ None \notin Byte

VARIABLES head, tail,  \* index of the first byte, and of the first free place
          data,        \* Mask + 1 places, one of which separates tail from head
          ppc,         \* where the writer is
          given,       \* the byte the writer is appending, None between two
          stop,        \* xbee_cbuf_put: where tail has to stop
          pleft,       \* xbee_cbuf_put: bytes to copy
          room,        \* what the writer knows to be free: the last result of
                       \* xbee_cbuf_free, less what it has appended since
          accepted,    \* what the last xbee_cbuf_putch returned, TRUE after put
          cpc,         \* where the reader is
          mark,        \* xbee_cbuf_flush: the tail it has read
          cleft,       \* xbee_cbuf_get: bytes to copy
          avail,       \* what the reader knows to be there, from xbee_cbuf_used
          byte,        \* the byte being read
          taken        \* the last byte the caller got

writer == <<ppc, given, stop, pleft, room, accepted>>
reader == <<cpc, mark, cleft, avail, byte, taken>>
vars == <<head, tail, data, writer, reader>>

Place == 0 .. Mask

Wrap(i) == i % (Mask + 1)

\* Mutant: the index is not masked.
AfterUnmasked(i) == i + 1

\* The next place, and the number of places from a up to b.
After(i) == Wrap(i + 1)
Dist(a, b) == Wrap(b - a)

\* Mutant: the separating place is taken for a free one.
FreeWithoutGap == Wrap(head - tail)

Less(n) == IF n > 0 THEN n - 1 ELSE 0

\* xbee_cbuf_used and xbee_cbuf_free
Used == Dist(head, tail)
Free == Wrap(head - tail - 1)

Init == /\ head = 0 /\ tail = 0
        /\ data \in [Place -> Byte]
        /\ ppc = "idle" /\ given = None /\ stop = 0 /\ pleft = 0 /\ room = 0 /\ accepted = TRUE
        /\ cpc = "idle" /\ mark = 0 /\ cleft = 0 /\ avail = 0
        /\ byte = None /\ taken = None

-----------------------------------------------------------------------------
(* The writer *)

\* xbee_cbuf_putch stores the byte before it looks whether there is room.
Putch == /\ ppc = "idle"
         /\ given' \in Byte
         /\ data' = [data EXCEPT ![tail] = given']
         /\ ppc' = "check"
         /\ UNCHANGED <<head, tail, stop, pleft, room, accepted, reader>>

\* Mutant: a full buffer drops its oldest byte to make room.
PutchCheckOverwrite ==
   /\ ppc = "check"
   /\ head' = IF After(tail) = head THEN After(head) ELSE head
   /\ ppc' = "publish"
   /\ UNCHANGED <<tail, data, given, stop, pleft, room, accepted, reader>>

PutchCheck == /\ ppc = "check"
              /\ \/ /\ After(tail) = head
                    /\ ppc' = "idle" /\ given' = None /\ accepted' = FALSE
                 \/ /\ After(tail) # head
                    /\ ppc' = "publish" /\ UNCHANGED <<given, accepted>>
              /\ UNCHANGED <<head, tail, data, stop, pleft, room, reader>>

PutchPublish == /\ ppc = "publish"
                /\ tail' = After(tail)
                /\ ppc' = "idle" /\ given' = None
                /\ accepted' = TRUE /\ room' = Less(room)
                /\ UNCHANGED <<head, data, stop, pleft, reader>>

\* xbee_cbuf_put reads head once, and publishes the bytes one by one.
Put == /\ ppc = "idle"
       /\ pleft' \in 1 .. Mask
       /\ stop' = Wrap(head - 1)
       /\ ppc' = "put"
       /\ UNCHANGED <<head, tail, data, given, room, accepted, reader>>

PutStore == /\ ppc = "put" /\ pleft > 0 /\ tail # stop
            /\ given' \in Byte
            /\ data' = [data EXCEPT ![tail] = given']
            /\ ppc' = "stored"
            /\ UNCHANGED <<head, tail, stop, pleft, room, accepted, reader>>

PutAdvance == /\ ppc = "stored"
              /\ tail' = After(tail)
              /\ pleft' = pleft - 1 /\ room' = Less(room)
              /\ ppc' = "put" /\ given' = None /\ accepted' = TRUE
              /\ UNCHANGED <<head, data, stop, reader>>

PutDone == /\ ppc = "put" /\ (pleft = 0 \/ tail = stop)
           /\ ppc' = "idle" /\ stop' = 0 /\ pleft' = 0
           /\ UNCHANGED <<head, tail, data, given, room, accepted, reader>>

\* xbee_cbuf_free, called by the writer.
AskFree == /\ ppc = "idle"
           /\ room' = Free
           /\ UNCHANGED <<head, tail, data, ppc, given, stop, pleft, accepted, reader>>

-----------------------------------------------------------------------------
(* The reader *)

Getch == /\ cpc = "idle"
         /\ \/ head = tail /\ taken' = None /\ UNCHANGED cpc
            \/ head # tail /\ cpc' = "read" /\ UNCHANGED taken
         /\ UNCHANGED <<head, tail, data, writer, mark, cleft, avail, byte>>

GetchRead == /\ cpc = "read"
             /\ byte' = data[head]
             /\ cpc' = "advance"
             /\ UNCHANGED <<head, tail, data, writer, mark, cleft, avail, taken>>

GetchAdvance == /\ cpc = "advance"
                /\ head' = After(head)
                /\ taken' = byte /\ byte' = None /\ avail' = Less(avail)
                /\ cpc' = "idle"
                /\ UNCHANGED <<tail, data, writer, mark, cleft>>

\* xbee_cbuf_get reads tail again before every byte.
Get == /\ cpc = "idle"
       /\ cleft' \in 1 .. Mask
       /\ cpc' = "get"
       /\ UNCHANGED <<head, tail, data, writer, mark, avail, byte, taken>>

\* Mutant: the writer's index is not read again for every byte.
GetCopyUnchecked == /\ cpc = "get" /\ cleft > 0
                    /\ byte' = data[head]
                    /\ cpc' = "copied"
                    /\ UNCHANGED <<head, tail, data, writer, mark, cleft, avail, taken>>

GetCopy == /\ cpc = "get" /\ cleft > 0 /\ head # tail
           /\ byte' = data[head]
           /\ cpc' = "copied"
           /\ UNCHANGED <<head, tail, data, writer, mark, cleft, avail, taken>>

GetAdvance == /\ cpc = "copied"
              /\ head' = After(head)
              /\ taken' = byte /\ byte' = None
              /\ avail' = Less(avail) /\ cleft' = cleft - 1
              /\ cpc' = "get"
              /\ UNCHANGED <<tail, data, writer, mark>>

GetDone == /\ cpc = "get" /\ (cleft = 0 \/ head = tail)
           /\ cpc' = "idle" /\ cleft' = 0
           /\ UNCHANGED <<head, tail, data, writer, mark, avail, byte, taken>>

\* xbee_cbuf_flush loads tail and stores it into head.
Flush == /\ cpc = "idle"
         /\ mark' = tail
         /\ cpc' = "flush"
         /\ UNCHANGED <<head, tail, data, writer, cleft, avail, byte, taken>>

FlushDone == /\ cpc = "flush"
             /\ head' = mark /\ mark' = 0
             /\ avail' = 0
             /\ cpc' = "idle"
             /\ UNCHANGED <<tail, data, writer, cleft, byte, taken>>

\* xbee_cbuf_used, called by the reader.
AskUsed == /\ cpc = "idle"
           /\ avail' = Used
           /\ UNCHANGED <<head, tail, data, writer, cpc, mark, cleft, byte, taken>>

-----------------------------------------------------------------------------

Write == \/ Putch \/ PutchCheck \/ PutchPublish
         \/ Put \/ PutStore \/ PutAdvance \/ PutDone \/ AskFree

Read == \/ Getch \/ GetchRead \/ GetchAdvance
        \/ Get \/ GetCopy \/ GetAdvance \/ GetDone
        \/ Flush \/ FlushDone \/ AskUsed

Next == Write \/ Read

Spec == Init /\ [][Next]_vars

-----------------------------------------------------------------------------
(* Properties *)

TypeOK == /\ head \in Place /\ tail \in Place
          /\ data \in [Place -> Byte]
          /\ ppc \in {"idle", "check", "publish", "put", "stored"}
          /\ given \in Byte \cup {None}
          /\ stop \in Place /\ pleft \in Place /\ room \in Place
          /\ accepted \in BOOLEAN
          /\ cpc \in {"idle", "read", "advance", "get", "copied", "flush"}
          /\ mark \in Place /\ cleft \in Place /\ avail \in Place
          /\ byte \in Byte \cup {None}
          /\ taken \in Byte \cup {None}

\* What lies between head and tail.
Contents == [i \in 1 .. Used |-> data[Wrap(head + i - 1)]]

Q == INSTANCE ByteQueue WITH Capacity <- Mask, queue <- Contents

\* However the two sides interleave, the buffer is a queue: the byte the caller
\* gave is the one that is appended, none is lost, duplicated, reordered or read
\* before it was stored; putch returns 0 only when the buffer is full, getch
\* returns -1 only when it is empty.
IsQueue == Q!QSpec

\* What the writer has been told by xbee_cbuf_free stays free until it uses
\* it up, so a put of that many bytes is accepted in full.
RoomKept == /\ room <= Free
            /\ ppc \in {"put", "stored"} /\ room >= pleft
                  => pleft <= Dist(tail, stop)

\* What the reader has been told by xbee_cbuf_used stays there for it.
AvailKept == avail <= Used

\* The invariant that makes these inductive: what each side has found out
\* about the other's index remains true, since an index only moves away.
WriterSees ==
   /\ ppc \in {"check", "publish", "stored"} => given # None /\ given = data[tail]
   /\ ppc \in {"idle", "put"} => given = None
   /\ ppc = "publish" => After(tail) # head
   /\ ppc = "stored" => pleft > 0 /\ tail # stop
   /\ ppc \in {"put", "stored"} => Dist(tail, stop) <= Free

ReaderSees ==
   /\ cpc \in {"read", "advance", "copied"} => head # tail
   /\ cpc \in {"advance", "copied"} => byte = data[head]
   /\ cpc = "copied" => cleft > 0
   /\ cpc = "flush" => Dist(head, mark) <= Used

IInv == TypeOK /\ WriterSees /\ ReaderSees /\ RoomKept /\ AvailKept
=============================================================================
