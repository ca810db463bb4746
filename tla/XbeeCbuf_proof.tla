--------------------------- MODULE XbeeCbuf_proof ---------------------------
(***************************************************************************)
(* Proofs about the circular buffer, for every capacity and every set of   *)
(* byte values: the invariant of XbeeCbuf, and that it is a queue.         *)
(***************************************************************************)
EXTENDS XbeeCbuf, SequenceTheorems, TLAPS

USE MaskAssumption, ByteAssumption

-----------------------------------------------------------------------------
(* Arithmetic of the indices *)

LEMMA PlaceIs == \A i : i \in Place <=> i \in Int /\ 0 <= i /\ i <= Mask
BY DEF Place

\* Masking, within the range the code computes in.
LEMMA WrapIs ==
   \A i \in Int : /\ -(Mask + 1) <= i /\ i < 0 => Wrap(i) = i + Mask + 1
                  /\ 0 <= i /\ i <= Mask => Wrap(i) = i
                  /\ Mask < i /\ i <= 2 * Mask + 1 => Wrap(i) = i - (Mask + 1)
<1>1. \A i \in Int : -(Mask + 1) <= i /\ i < 0 => Wrap(i) = i + Mask + 1
      BY DEF Wrap
<1>2. \A i \in Int : 0 <= i /\ i <= Mask => Wrap(i) = i
      BY DEF Wrap
<1>3. \A i \in Int : Mask < i /\ i <= 2 * Mask + 1 => Wrap(i) = i - (Mask + 1)
      BY DEF Wrap
<1>4. QED BY <1>1, <1>2, <1>3

\* The distance from one place up to another.
LEMMA DistIs ==
   \A a, b \in Place :
      /\ Dist(a, b) = IF a <= b THEN b - a ELSE b - a + Mask + 1
      /\ Dist(a, b) \in Place
      /\ Dist(a, b) = 0 <=> a = b
BY WrapIs DEF Place, Dist

\* The place after another.
LEMMA AfterIs ==
   \A a \in Place : /\ After(a) = IF a = Mask THEN 0 ELSE a + 1
                    /\ After(a) \in Place
BY WrapIs DEF Place, After

\* An index that moves away from, or towards, another changes the distance by
\* one, unless it reaches it.
LEMMA Moves ==
   \A a, b \in Place : /\ After(b) # a => Dist(a, After(b)) = Dist(a, b) + 1
                       /\ a # b => Dist(After(a), b) = Dist(a, b) - 1
<1> SUFFICES ASSUME NEW a \in Place, NEW b \in Place
             PROVE  /\ After(b) # a => Dist(a, After(b)) = Dist(a, b) + 1
                    /\ a # b => Dist(After(a), b) = Dist(a, b) - 1
    OBVIOUS
<1>1. /\ After(a) \in Place /\ After(a) = IF a = Mask THEN 0 ELSE a + 1
      /\ After(b) \in Place /\ After(b) = IF b = Mask THEN 0 ELSE b + 1
      BY AfterIs
<1>2. /\ Dist(a, b) = IF a <= b THEN b - a ELSE b - a + Mask + 1
      /\ Dist(a, After(b)) = IF a <= After(b) THEN After(b) - a
                             ELSE After(b) - a + Mask + 1
      /\ Dist(After(a), b) = IF After(a) <= b THEN b - After(a)
                             ELSE b - After(a) + Mask + 1
      BY <1>1, DistIs
<1>3. /\ a \in Int /\ 0 <= a /\ a <= Mask
      /\ b \in Int /\ 0 <= b /\ b <= Mask
      BY PlaceIs
<1>4. After(b) # a => Dist(a, After(b)) = Dist(a, b) + 1
      BY <1>1, <1>2, <1>3
<1>5. a # b => Dist(After(a), b) = Dist(a, b) - 1
      BY <1>1, <1>2, <1>3
<1>6. QED BY <1>4, <1>5

\* What is left between tail and head is what the contents do not take.
LEMMA FreeIs ==
   \A h, t \in Place : Wrap(h - t - 1) = Mask - Dist(h, t)
<1> SUFFICES ASSUME NEW h \in Place, NEW t \in Place
             PROVE  Wrap(h - t - 1) = Mask - Dist(h, t)
    OBVIOUS
<1>1. Wrap(h - t - 1) = IF t < h THEN h - t - 1 ELSE h - t + Mask
      BY WrapIs DEF Place
<1>2. Dist(h, t) = IF h <= t THEN t - h ELSE t - h + Mask + 1
      BY DistIs
<1>3. QED BY <1>1, <1>2, PlaceIs

\* The place at which xbee_cbuf_put stops is as far as the free places go.
LEMMA StopIs ==
   \A h, t \in Place : /\ Wrap(h - 1) \in Place
                       /\ Dist(t, Wrap(h - 1)) = Mask - Dist(h, t)
<1> SUFFICES ASSUME NEW h \in Place, NEW t \in Place
             PROVE  /\ Wrap(h - 1) \in Place
                    /\ Dist(t, Wrap(h - 1)) = Mask - Dist(h, t)
    OBVIOUS
<1>1. Wrap(h - 1) = IF h = 0 THEN Mask ELSE h - 1
      BY WrapIs DEF Place
<1>2. Wrap(h - 1) \in Place
      BY <1>1, PlaceIs
<1>3. /\ Dist(h, t) = IF h <= t THEN t - h ELSE t - h + Mask + 1
      /\ Dist(t, Wrap(h - 1)) = IF t <= Wrap(h - 1) THEN Wrap(h - 1) - t
                                ELSE Wrap(h - 1) - t + Mask + 1
      BY <1>2, DistIs
<1>4. QED BY <1>1, <1>2, <1>3, PlaceIs

\* The next place is the other one exactly when all places but one are between.
LEMMA FullIs == \A a, b \in Place : After(b) = a <=> Dist(a, b) = Mask
<1> SUFFICES ASSUME NEW a \in Place, NEW b \in Place
             PROVE  After(b) = a <=> Dist(a, b) = Mask
    OBVIOUS
<1>1. /\ Dist(a, b) = IF a <= b THEN b - a ELSE b - a + Mask + 1
      /\ After(b) = IF b = Mask THEN 0 ELSE b + 1
      BY DistIs, AfterIs
<1>2. /\ a \in Int /\ 0 <= a /\ a <= Mask
      /\ b \in Int /\ 0 <= b /\ b <= Mask
      BY PlaceIs
<1>3. QED BY <1>1, <1>2

\* An index that jumps to a place on the way to another.
LEMMA Jumps ==
   \A a, m, b \in Place :
      Dist(a, m) <= Dist(a, b) => Dist(m, b) = Dist(a, b) - Dist(a, m)
<1> SUFFICES ASSUME NEW a \in Place, NEW m \in Place, NEW b \in Place,
                    Dist(a, m) <= Dist(a, b)
             PROVE  Dist(m, b) = Dist(a, b) - Dist(a, m)
    OBVIOUS
<1>1. /\ Dist(a, b) = IF a <= b THEN b - a ELSE b - a + Mask + 1
      /\ Dist(a, m) = IF a <= m THEN m - a ELSE m - a + Mask + 1
      /\ Dist(m, b) = IF m <= b THEN b - m ELSE b - m + Mask + 1
      BY DistIs
<1>2. /\ a \in Int /\ 0 <= a /\ a <= Mask
      /\ m \in Int /\ 0 <= m /\ m <= Mask
      /\ b \in Int /\ 0 <= b /\ b <= Mask
      BY PlaceIs
<1>3. QED BY <1>1, <1>2

-----------------------------------------------------------------------------
(* The invariant *)

LEMMA Initial == Init => IInv
<1>1. Dist(0, 0) = 0 /\ 0 \in Place BY DistIs DEF Place
<1>2. Wrap(0 - 0 - 1) = Mask BY <1>1, FreeIs DEF Place
<1>3. QED BY <1>1, <1>2
          DEF Init, IInv, TypeOK, WriterSees, ReaderSees, RoomKept, AvailKept,
              Place, Used, Free

\* The distances as numbers.
LEMMA Distances ==
   ASSUME TypeOK
   PROVE  /\ Used = Dist(head, tail) /\ Free = Mask - Dist(head, tail)
          /\ Dist(head, tail) \in Place
          /\ Dist(tail, stop) \in Place /\ Dist(head, mark) \in Place
<1>1. head \in Place /\ tail \in Place /\ stop \in Place /\ mark \in Place
      BY DEF TypeOK
<1>2. QED BY <1>1, DistIs, FreeIs DEF Used, Free

\* What the prover needs of the distances after a step.
LEMMA DistancesAfter ==
   ASSUME TypeOK'
   PROVE  /\ Used' = Dist(head', tail') /\ Free' = Mask - Dist(head', tail')
          /\ Dist(head', tail') \in Place
<1>1. head' \in Place /\ tail' \in Place
      BY DEF TypeOK
<1>2. QED BY <1>1, DistIs, FreeIs DEF Used, Free

LEMMA LessIs ==
   \A n \in Place : /\ Less(n) \in Place
                    /\ Less(n) = n - 1 \/ (Less(n) = 0 /\ n = 0)
BY DEF Less, Place

\* A byte has been appended: the effect on what both sides know.
LEMMA AppendKeeps ==
   ASSUME IInv, TypeOK', After(tail) # head,
          tail' = After(tail), head' = head, room' = Less(room), avail' = avail
   PROVE  /\ Used' = Used + 1 /\ Free' = Free - 1
          /\ head' # tail'
          /\ room' <= Free' /\ avail' <= Used'
<1>1. TypeOK /\ room <= Free /\ avail <= Used
      BY DEF IInv, RoomKept, AvailKept
<1>2. Dist(head', tail') = Dist(head, tail) + 1
      BY <1>1, Moves DEF TypeOK
<1>3. /\ Used = Dist(head, tail) /\ Free = Mask - Dist(head, tail)
      /\ Used' = Dist(head', tail') /\ Free' = Mask - Dist(head', tail')
      BY <1>1, Distances, DistancesAfter
<1>4. /\ Dist(head, tail) \in Int /\ Dist(head', tail') \in Int
      /\ Dist(head', tail') <= Mask
      /\ room \in Int /\ avail \in Int /\ avail' \in Int
      BY <1>1, Distances, DistancesAfter, PlaceIs DEF TypeOK
<1>5. room' = room - 1 \/ room' = 0
      BY <1>1, LessIs DEF TypeOK
<1>6. QED BY <1>1, <1>2, <1>3, <1>4, <1>5

\* A byte has been removed: the same.
LEMMA RemoveKeeps ==
   ASSUME IInv, TypeOK', head # tail,
          head' = After(head), tail' = tail, room' = room, avail' = Less(avail)
   PROVE  /\ Used' = Used - 1 /\ Free' = Free + 1
          /\ room' <= Free' /\ avail' <= Used'
<1>1. TypeOK /\ room <= Free /\ avail <= Used
      BY DEF IInv, RoomKept, AvailKept
<1>2. Dist(head', tail') = Dist(head, tail) - 1
      BY <1>1, Moves DEF TypeOK
<1>3. /\ Used = Dist(head, tail) /\ Free = Mask - Dist(head, tail)
      /\ Used' = Dist(head', tail') /\ Free' = Mask - Dist(head', tail')
      BY <1>1, Distances, DistancesAfter
<1>4. /\ Dist(head, tail) \in Int /\ Dist(head', tail') \in Int
      /\ 0 <= Dist(head', tail')
      /\ room \in Int /\ avail \in Int /\ avail' \in Int
      BY <1>1, Distances, DistancesAfter, PlaceIs DEF TypeOK
<1>5. avail' = avail - 1 \/ avail' = 0
      BY <1>1, LessIs DEF TypeOK
<1>6. QED BY <1>1, <1>2, <1>3, <1>4, <1>5

\* While a put is not at its stop, the next place is free.
LEMMA RoomToPut ==
   ASSUME IInv, ppc = "stored"
   PROVE  /\ After(tail) # head
          /\ Dist(After(tail), stop) = Dist(tail, stop) - 1
          /\ Dist(tail, stop) > 0
<1>1. /\ head \in Place /\ tail \in Place /\ stop \in Place /\ tail # stop
      /\ Dist(tail, stop) <= Mask - Dist(head, tail)
      BY Distances DEF IInv, TypeOK, WriterSees
<1>2. /\ Dist(tail, stop) # 0 /\ Dist(tail, stop) \in Place
      /\ Dist(After(tail), stop) = Dist(tail, stop) - 1
      BY <1>1, DistIs, Moves
<1>3. /\ Dist(tail, stop) \in Int /\ Dist(tail, stop) > 0
      BY <1>2, PlaceIs
<1>4. Dist(head, tail) < Mask /\ Dist(head, tail) \in Int
      BY <1>1, <1>3, DistIs, PlaceIs
<1>5. After(tail) # head
      BY <1>1, <1>4, FullIs
<1>6. QED BY <1>2, <1>3, <1>5

\* A step of the writer keeps the invariant: it moves tail only into free
\* places, and stores only into the place tail names, which the reader never
\* looks at.
LEMMA WriteKeeps == IInv /\ Write => IInv'
<1> SUFFICES ASSUME IInv, Write PROVE IInv'
    OBVIOUS
<1>0. TypeOK /\ WriterSees /\ ReaderSees /\ RoomKept /\ AvailKept
      BY DEF IInv
<1> USE DEF reader, writer
<1>1. CASE Putch
  <2>1. TypeOK' BY <1>0, <1>1 DEF Putch, TypeOK
  <2>2. /\ head # tail => data'[head] = data[head]
        /\ data'[tail'] = given' /\ given' # None
        BY <1>0, <1>1, ByteAssumption DEF Putch, TypeOK
  <2>3. QED BY <1>0, <1>1, <2>1, <2>2
            DEF Putch, IInv, WriterSees, ReaderSees, RoomKept, AvailKept, Used, Free
<1>2. CASE PutchCheck
      BY <1>0, <1>2 DEF PutchCheck, IInv, TypeOK, WriterSees, ReaderSees,
                        RoomKept, AvailKept, Used, Free
<1>3. CASE PutchPublish
  <2>1. TypeOK'
        BY <1>0, <1>3, AfterIs, LessIs DEF PutchPublish, TypeOK
  <2>2. /\ Used' = Used + 1 /\ head' # tail'
        /\ room' <= Free' /\ avail' <= Used'
        BY <1>0, <1>3, <2>1, AppendKeeps DEF PutchPublish, WriterSees
  <2>3. RoomKept' /\ AvailKept' /\ WriterSees'
        BY <1>3, <2>2 DEF PutchPublish, RoomKept, AvailKept, WriterSees
  <2>4. ReaderSees'
    <3>1. Dist(head', mark') = Dist(head, mark) /\ Dist(head, mark) \in Int
          BY <1>0, <1>3, Distances, PlaceIs DEF PutchPublish
    <3>2. Used \in Int BY <1>0, Distances, PlaceIs
    <3>3. QED BY <1>0, <1>3, <2>2, <3>1, <3>2 DEF PutchPublish, ReaderSees
  <2>5. QED BY <2>1, <2>3, <2>4 DEF IInv
<1>4. CASE Put
  <2>1. /\ Wrap(head - 1) \in Place
        /\ Dist(tail, Wrap(head - 1)) = Free /\ Free \in Int
        BY <1>0, StopIs, Distances, PlaceIs DEF TypeOK
  <2>2. TypeOK' BY <1>0, <1>4, <2>1 DEF Put, TypeOK, Place
  <2>3. /\ pleft' \in Int /\ room \in Int
        BY <1>0, <2>2, PlaceIs DEF TypeOK
  <2>4. QED BY <1>0, <1>4, <2>1, <2>2, <2>3
            DEF Put, IInv, WriterSees, ReaderSees, RoomKept, AvailKept, Used, Free
<1>5. CASE PutStore
  <2>1. TypeOK' BY <1>0, <1>5 DEF PutStore, TypeOK
  <2>2. /\ head # tail => data'[head] = data[head]
        /\ data'[tail'] = given' /\ given' # None
        BY <1>0, <1>5, ByteAssumption DEF PutStore, TypeOK
  <2>3. QED BY <1>0, <1>5, <2>1, <2>2
            DEF PutStore, IInv, WriterSees, ReaderSees, RoomKept, AvailKept, Used, Free
<1>6. CASE PutAdvance
  <2>1. /\ After(tail) # head
        /\ Dist(tail', stop') = Dist(tail, stop) - 1 /\ Dist(tail, stop) > 0
        BY <1>6, RoomToPut DEF PutAdvance
  <2>2. /\ pleft \in Int /\ pleft > 0 /\ pleft' = pleft - 1 /\ pleft' \in Place
        BY <1>0, <1>6, PlaceIs DEF PutAdvance, TypeOK, WriterSees
  <2>3. TypeOK'
        BY <1>0, <1>6, <2>2, AfterIs, LessIs DEF PutAdvance, TypeOK
  <2>4. /\ Used' = Used + 1 /\ Free' = Free - 1 /\ head' # tail'
        /\ room' <= Free' /\ avail' <= Used'
        BY <1>0, <1>6, <2>1, <2>3, AppendKeeps DEF PutAdvance
  <2>5. /\ Dist(tail, stop) \in Int /\ Free \in Int /\ Used \in Int
        /\ room \in Int
        BY <1>0, Distances, PlaceIs DEF TypeOK
  <2>6. WriterSees'
        BY <1>0, <1>6, <2>1, <2>4, <2>5 DEF PutAdvance, WriterSees
  <2>7. RoomKept' /\ AvailKept'
    <3>1. room' = room - 1 \/ (room' = 0 /\ room = 0)
          BY <1>0, <1>6, LessIs DEF PutAdvance, TypeOK
    <3>2. room' >= pleft' => room >= pleft \/ pleft' = 0
          BY <2>2, <2>5, <3>1, PlaceIs
    <3>3. room' >= pleft' => pleft' <= Dist(tail', stop')
          BY <1>0, <1>6, <2>1, <2>2, <2>5, <3>2 DEF PutAdvance, RoomKept
    <3>4. QED BY <2>4, <3>3 DEF RoomKept, AvailKept
  <2>8. ReaderSees'
    <3>1. Dist(head', mark') = Dist(head, mark) /\ Dist(head, mark) \in Int
          BY <1>0, <1>6, Distances, PlaceIs DEF PutAdvance
    <3>2. QED BY <1>0, <1>6, <2>4, <2>5, <3>1 DEF PutAdvance, ReaderSees
  <2>9. QED BY <2>3, <2>6, <2>7, <2>8 DEF IInv
<1>7. CASE PutDone
  <2>1. TypeOK' BY <1>0, <1>7 DEF PutDone, TypeOK, Place
  <2>2. QED BY <1>0, <1>7, <2>1
            DEF PutDone, IInv, WriterSees, ReaderSees, RoomKept, AvailKept, Used, Free
<1>8. CASE AskFree
  <2>1. Free \in Place
        BY <1>0, Distances, PlaceIs
  <2>2. Free <= Free BY <2>1, PlaceIs
  <2>3. QED BY <1>0, <1>8, <2>1, <2>2
            DEF AskFree, IInv, TypeOK, WriterSees, ReaderSees, RoomKept, AvailKept,
                Used, Free
<1>9. QED BY <1>1, <1>2, <1>3, <1>4, <1>5, <1>6, <1>7, <1>8 DEF Write

\* A step of the reader keeps the invariant: the free places only grow.
LEMMA ReadKeeps == IInv /\ Read => IInv'
<1> SUFFICES ASSUME IInv, Read PROVE IInv'
    OBVIOUS
<1>0. TypeOK /\ WriterSees /\ ReaderSees /\ RoomKept /\ AvailKept
      BY DEF IInv
<1> USE DEF reader, writer
<1>1. CASE Getch
      BY <1>0, <1>1 DEF Getch, IInv, TypeOK, WriterSees, ReaderSees,
                        RoomKept, AvailKept, Used, Free
<1>2. CASE GetchRead
      BY <1>0, <1>2 DEF GetchRead, IInv, TypeOK, WriterSees, ReaderSees,
                        RoomKept, AvailKept, Used, Free
<1>3. ASSUME TypeOK', head # tail, head' = After(head), tail' = tail,
             room' = room, avail' = Less(avail), cpc' \in {"idle", "get"},
             ppc' = ppc, given' = given, stop' = stop, pleft' = pleft, data' = data
      PROVE  IInv'
  <2>1. /\ Used' = Used - 1 /\ Free' = Free + 1
        /\ room' <= Free' /\ avail' <= Used'
        BY <1>0, <1>3, RemoveKeeps
  <2>2. After(tail) # head => After(tail') # head'
        BY <1>0, <1>3, AfterIs, PlaceIs DEF TypeOK
  <2>3. Free \in Int /\ Dist(tail, stop) \in Int
        BY <1>0, Distances, PlaceIs
  <2>4. WriterSees' BY <1>0, <1>3, <2>1, <2>2, <2>3 DEF WriterSees
  <2>5. ReaderSees' BY <1>3 DEF ReaderSees
  <2>6. RoomKept' /\ AvailKept'
        BY <1>0, <1>3, <2>1 DEF RoomKept, AvailKept
  <2>7. QED BY <1>3, <2>4, <2>5, <2>6 DEF IInv
<1>4. CASE GetchAdvance
  <2>1. TypeOK'
        BY <1>0, <1>4, AfterIs, LessIs DEF GetchAdvance, TypeOK
  <2>2. QED BY <1>0, <1>3, <1>4, <2>1 DEF GetchAdvance, ReaderSees
<1>5. CASE Get
  <2>1. TypeOK' BY <1>0, <1>5 DEF Get, TypeOK, Place
  <2>2. QED BY <1>0, <1>5, <2>1
            DEF Get, IInv, WriterSees, ReaderSees, RoomKept, AvailKept, Used, Free
<1>6. CASE GetCopy
      BY <1>0, <1>6 DEF GetCopy, IInv, TypeOK, WriterSees, ReaderSees,
                        RoomKept, AvailKept, Used, Free
<1>7. CASE GetAdvance
  <2>1. cleft' \in Place
        BY <1>0, <1>7, PlaceIs DEF GetAdvance, TypeOK, ReaderSees
  <2>2. TypeOK'
        BY <1>0, <1>7, <2>1, AfterIs, LessIs DEF GetAdvance, TypeOK
  <2>3. QED BY <1>0, <1>3, <1>7, <2>2 DEF GetAdvance, ReaderSees
<1>8. CASE GetDone
  <2>1. TypeOK' BY <1>0, <1>8 DEF GetDone, TypeOK, Place
  <2>2. QED BY <1>0, <1>8, <2>1
            DEF GetDone, IInv, WriterSees, ReaderSees, RoomKept, AvailKept, Used, Free
<1>9. CASE Flush
  <2>1. TypeOK' BY <1>0, <1>9 DEF Flush, TypeOK
  <2>2. Used <= Used BY <1>0, Distances, PlaceIs
  <2>3. QED BY <1>0, <1>9, <2>1, <2>2
            DEF Flush, IInv, WriterSees, ReaderSees, RoomKept, AvailKept, Used, Free
<1>10. CASE FlushDone
  <2>1. TypeOK' BY <1>0, <1>10 DEF FlushDone, TypeOK, Place
  <2>2. Dist(head', tail') = Dist(head, tail) - Dist(head, mark)
        BY <1>0, <1>10, Jumps, Distances DEF FlushDone, TypeOK, ReaderSees
  <2>3. /\ Used = Dist(head, tail) /\ Free = Mask - Dist(head, tail)
        /\ Used' = Dist(head', tail') /\ Free' = Mask - Dist(head', tail')
        BY <1>0, <2>1, Distances, DistancesAfter
  <2>4. /\ Dist(head, tail) \in Int /\ Dist(head', tail') \in Int
        /\ Dist(head, tail) <= Mask /\ 0 <= Dist(head', tail')
        /\ Dist(head, mark) \in Int /\ 0 <= Dist(head, mark)
        /\ room \in Int /\ Dist(tail, stop) \in Int
        BY <1>0, <2>1, Distances, DistancesAfter, PlaceIs DEF TypeOK
  <2>5. After(tail) # head => After(tail') # head'
    <3>1. After(tail) # head => Dist(head, tail) # Mask
          BY <1>0, FullIs DEF TypeOK
    <3>2. Dist(head', tail') # Mask => After(tail') # head'
          BY <2>1, FullIs DEF TypeOK
    <3>3. QED BY <2>2, <2>4, <3>1, <3>2
  <2>6. Free <= Free' BY <2>2, <2>3, <2>4
  <2>7. WriterSees'
        BY <1>0, <1>10, <2>3, <2>4, <2>5, <2>6 DEF FlushDone, WriterSees
  <2>8. RoomKept' /\ AvailKept'
        BY <1>0, <1>10, <2>3, <2>4, <2>6 DEF FlushDone, RoomKept, AvailKept
  <2>9. QED BY <1>10, <2>1, <2>7, <2>8 DEF FlushDone, IInv, ReaderSees
<1>11. CASE AskUsed
  <2>1. Used \in Place BY <1>0, Distances
  <2>2. Used <= Used BY <2>1, PlaceIs
  <2>3. QED BY <1>0, <1>11, <2>1, <2>2
            DEF AskUsed, IInv, TypeOK, WriterSees, ReaderSees, RoomKept, AvailKept,
                Used, Free
<1>12. QED BY <1>1, <1>2, <1>4, <1>5, <1>6, <1>7, <1>8, <1>9, <1>10, <1>11 DEF Read

\* The invariant holds in every reachable state: the indices stay in the
\* buffer, and what one side knows of the other remains true.
THEOREM Invariance == Spec => []IInv
<1>1. IInv /\ [Next]_vars => IInv'
  <2> SUFFICES ASSUME IInv, [Next]_vars PROVE IInv'
      OBVIOUS
  <2>1. CASE Next BY <2>1, WriteKeeps, ReadKeeps DEF Next
  <2>2. CASE UNCHANGED vars
        BY <2>2 DEF vars, writer, reader, IInv, TypeOK, WriterSees, ReaderSees,
                    RoomKept, AvailKept, Used, Free
  <2>3. QED BY <2>1, <2>2
<1>2. QED BY <1>1, Initial, PTL DEF Spec

\* What xbee_cbuf_free has told the writer stays true until it is used up.
THEOREM RoomStays == Spec => []RoomKept
<1>1. IInv => RoomKept BY DEF IInv
<1>2. QED BY <1>1, Invariance, PTL

\* What xbee_cbuf_used has told the reader stays true until it is used up.
THEOREM AvailStays == Spec => []AvailKept
<1>1. IInv => AvailKept BY DEF IInv
<1>2. QED BY <1>1, Invariance, PTL

-----------------------------------------------------------------------------
(* The buffer is a queue *)

\* The place of the i-th byte, counted from h, and n bytes from there.
At(h, i) == Wrap(h + i - 1)
Bytes(d, h, n) == [i \in 1 .. n |-> d[At(h, i)]]

LEMMA AtIs ==
   \A h \in Place, i \in 1 .. Mask :
      /\ At(h, i) = IF h + i - 1 <= Mask THEN h + i - 1 ELSE h + i - 2 - Mask
      /\ At(h, i) \in Place
BY WrapIs DEF Place, At

\* Bytes lie before the end, the next one at the end.
LEMMA AtEnd ==
   ASSUME NEW h \in Place, NEW t \in Place, NEW i \in 1 .. Mask
   PROVE  /\ i <= Dist(h, t) => At(h, i) # t
          /\ i = Dist(h, t) + 1 => At(h, i) = t
<1>1. /\ Dist(h, t) = IF h <= t THEN t - h ELSE t - h + Mask + 1
      /\ At(h, i) = IF h + i - 1 <= Mask THEN h + i - 1 ELSE h + i - 2 - Mask
      BY DistIs, AtIs
<1>2. /\ h \in Int /\ 0 <= h /\ h <= Mask
      /\ t \in Int /\ 0 <= t /\ t <= Mask
      BY PlaceIs
<1>3. QED BY <1>1, <1>2

\* Counting from a later place.
LEMMA AtLater ==
   ASSUME NEW h \in Place, NEW m \in Place, NEW i \in 1 .. Mask,
          Dist(h, m) + i <= Mask
   PROVE  Dist(h, m) + i \in 1 .. Mask /\ At(h, Dist(h, m) + i) = At(m, i)
<1>1. /\ Dist(h, m) = IF h <= m THEN m - h ELSE m - h + Mask + 1
      /\ At(m, i) = IF m + i - 1 <= Mask THEN m + i - 1 ELSE m + i - 2 - Mask
      BY DistIs, AtIs
<1>2. /\ h \in Int /\ 0 <= h /\ h <= Mask
      /\ m \in Int /\ 0 <= m /\ m <= Mask
      BY PlaceIs
<1>3. Dist(h, m) + i \in 1 .. Mask
      BY <1>1, <1>2
<1>4. At(h, Dist(h, m) + i) = IF h + (Dist(h, m) + i) - 1 <= Mask
                              THEN h + (Dist(h, m) + i) - 1
                              ELSE h + (Dist(h, m) + i) - 2 - Mask
      BY <1>3, AtIs
<1>5. QED BY <1>1, <1>2, <1>3, <1>4

LEMMA HeadAt == \A h \in Place : At(h, 1) = h
BY AtIs DEF Place

LEMMA BytesSeq ==
   ASSUME NEW d \in [Place -> Byte], NEW h \in Place, NEW n \in Place
   PROVE  /\ Bytes(d, h, n) \in Seq(Byte)
          /\ Len(Bytes(d, h, n)) = n
          /\ \A i \in 1 .. n : Bytes(d, h, n)[i] = d[At(h, i)]
<1>1. n \in Nat /\ \A i \in 1 .. n : i \in 1 .. Mask
      BY PlaceIs
<1>2. \A i \in 1 .. n : d[At(h, i)] \in Byte
      BY <1>1, AtIs
<1>3. Bytes(d, h, n) \in [1 .. n -> Byte]
      BY <1>2 DEF Bytes
<1>4. QED BY <1>1, <1>3, SeqDef DEF Bytes

LEMMA ContentsIs ==
   ASSUME TypeOK
   PROVE  /\ Contents \in Seq(Byte) /\ Len(Contents) = Used
          /\ \A i \in 1 .. Used : Contents[i] = data[At(head, i)]
<1>1. Contents = Bytes(data, head, Used)
      BY DEF Contents, Bytes, At
<1>2. data \in [Place -> Byte] /\ head \in Place /\ Used \in Place
      BY Distances DEF TypeOK
<1>3. QED BY <1>1, <1>2, BytesSeq, Zenon

\* The same after a step.
LEMMA ContentsAfter ==
   ASSUME TypeOK'
   PROVE  /\ Contents' \in Seq(Byte) /\ Len(Contents') = Used'
          /\ \A i \in 1 .. Used' : Contents'[i] = data'[At(head', i)]
<1>1. Contents' = Bytes(data', head', Used')
      BY DEF Contents, Bytes, At
<1>2. data' \in [Place -> Byte] /\ head' \in Place /\ Used' \in Place
      BY DistancesAfter DEF TypeOK
<1>3. QED BY <1>1, <1>2, BytesSeq, Zenon

\* Storing into the separating place does not change the contents.
LEMMA StoreOutside ==
   ASSUME TypeOK, NEW b \in Byte, data' = [data EXCEPT ![tail] = b],
          head' = head, tail' = tail
   PROVE  Contents' = Contents
<1>1. Used' = Used /\ Used = Dist(head, tail) /\ Used \in Place
      BY Distances DEF Used
<1>2. \A i \in 1 .. Used : data'[At(head, i)] = data[At(head, i)]
  <2> SUFFICES ASSUME NEW i \in 1 .. Used
               PROVE  data'[At(head, i)] = data[At(head, i)]
      OBVIOUS
  <2>1. i \in 1 .. Mask /\ i <= Dist(head, tail) BY <1>1, PlaceIs
  <2>2. At(head, i) \in Place /\ At(head, i) # tail
        BY <2>1, AtIs, AtEnd DEF TypeOK
  <2>3. QED BY <2>2 DEF TypeOK
<1>3. QED BY <1>1, <1>2 DEF Contents, At

\* Moving tail appends the byte that was stored there.
LEMMA TailAppends ==
   ASSUME TypeOK, TypeOK', After(tail) # head,
          tail' = After(tail), head' = head, data' = data
   PROVE  /\ Len(Contents) < Mask
          /\ Contents' = Append(Contents, data[tail])
<1>1. /\ Used = Dist(head, tail) /\ Used \in Place /\ Used < Mask
      /\ Used' = Used + 1 /\ Used' \in Place /\ Used \in Nat
  <2>1. Used = Dist(head, tail) /\ Used \in Place /\ Used # Mask
        BY Distances, FullIs DEF TypeOK
  <2>2. Used' = Dist(head, tail) + 1 /\ Used' \in Place
        BY DistancesAfter, Moves DEF TypeOK
  <2>3. QED BY <2>1, <2>2, PlaceIs
<1>2. /\ Contents \in Seq(Byte) /\ Len(Contents) = Used
      /\ \A i \in 1 .. Used : Contents[i] = data[At(head, i)]
      BY ContentsIs
<1>4. /\ Contents' \in Seq(Byte) /\ Len(Contents') = Used + 1
      /\ \A i \in 1 .. Used + 1 : Contents'[i] = data[At(head, i)]
      BY <1>1, ContentsAfter
<1>5. At(head, Used + 1) = tail
      BY <1>1, AtEnd DEF TypeOK
<1>6. data[tail] \in Byte BY DEF TypeOK
<1>7. /\ Append(Contents, data[tail]) \in Seq(Byte)
      /\ Len(Append(Contents, data[tail])) = Used + 1
      /\ \A i \in 1 .. Used : Append(Contents, data[tail])[i] = Contents[i]
      /\ Append(Contents, data[tail])[Used + 1] = data[tail]
      BY <1>2, <1>6, AppendProperties
<1>8. \A i \in 1 .. Used + 1 : Contents'[i] = Append(Contents, data[tail])[i]
  <2> SUFFICES ASSUME NEW i \in 1 .. Used + 1
               PROVE  Contents'[i] = Append(Contents, data[tail])[i]
      OBVIOUS
  <2>1. CASE i \in 1 .. Used BY <2>1, <1>2, <1>4, <1>7
  <2>2. CASE i = Used + 1 BY <2>2, <1>4, <1>5, <1>7
  <2>3. i \in 1 .. Used \/ i = Used + 1 BY <1>1
  <2>4. QED BY <2>1, <2>2, <2>3
<1>9. QED BY <1>1, <1>2, <1>4, <1>7, <1>8, SeqEqual

\* Moving head to a later place drops the bytes before it.
LEMMA HeadDrops ==
   ASSUME TypeOK, TypeOK', NEW m \in Place, Dist(head, m) <= Used,
          head' = m, tail' = tail, data' = data
   PROVE  /\ Contents \in Seq(Byte) /\ Len(Contents) = Used
          /\ Contents' \in Seq(Byte) /\ Len(Contents') = Used - Dist(head, m)
          /\ Used \in Nat /\ Dist(head, m) \in Nat
          /\ \A i \in 1 .. Used - Dist(head, m) :
                Contents'[i] = Contents[Dist(head, m) + i]
<1>1. /\ Used = Dist(head, tail) /\ Used \in Place /\ Used \in Nat /\ Used <= Mask
      /\ Dist(head, m) \in Nat
      BY Distances, DistIs, PlaceIs DEF TypeOK
<1>2. Used' = Used - Dist(head, m) /\ Used' \in Place
      BY <1>1, DistancesAfter, Jumps DEF TypeOK
<1>3. /\ Contents \in Seq(Byte) /\ Len(Contents) = Used
      /\ \A i \in 1 .. Used : Contents[i] = data[At(head, i)]
      BY ContentsIs
<1>5. /\ Contents' \in Seq(Byte) /\ Len(Contents') = Used'
      /\ \A i \in 1 .. Used' : Contents'[i] = data[At(m, i)]
      BY ContentsAfter
<1>6. ASSUME NEW i \in 1 .. Used - Dist(head, m)
      PROVE  Contents'[i] = Contents[Dist(head, m) + i]
  <2>1. i \in 1 .. Mask /\ Dist(head, m) + i <= Mask /\ i \in 1 .. Used'
        BY <1>1, <1>2
  <2>2. At(head, Dist(head, m) + i) = At(m, i)
        BY <2>1, AtLater DEF TypeOK
  <2>3. Dist(head, m) + i \in 1 .. Used BY <1>1
  <2>4. QED BY <1>3, <1>5, <2>1, <2>2, <2>3
<1>7. QED BY <1>1, <1>2, <1>3, <1>5, <1>6

\* Moving head by one removes the byte that was there.
LEMMA HeadRemoves ==
   ASSUME TypeOK, TypeOK', head # tail,
          head' = After(head), tail' = tail, data' = data
   PROVE  /\ Contents # <<>> /\ Head(Contents) = data[head]
          /\ Contents' = Tail(Contents)
<1>1. Dist(head, After(head)) = 1
  <2>1. After(head) # head BY AfterIs, PlaceIs DEF TypeOK
  <2>2. Dist(head, head) = 0 BY DistIs DEF TypeOK
  <2>3. QED BY <2>1, <2>2, Moves DEF TypeOK
<1>2. Used = Dist(head, tail) /\ Used \in Place /\ Used # 0 /\ After(head) \in Place
      BY Distances, DistIs, AfterIs DEF TypeOK
<1>3. /\ Contents \in Seq(Byte) /\ Len(Contents) = Used /\ Used \in Nat
      /\ Contents' \in Seq(Byte) /\ Len(Contents') = Used - 1
      /\ \A i \in 1 .. Used - 1 : Contents'[i] = Contents[1 + i]
      BY <1>1, <1>2, HeadDrops, PlaceIs
<1>4. Contents # <<>> BY <1>2, <1>3, EmptySeq
<1>5. Contents[1] = data[head]
  <2>1. 1 \in 1 .. Used BY <1>2, <1>3
  <2>2. Contents[1] = data[At(head, 1)]
        BY <2>1, ContentsIs
  <2>3. QED BY <2>2, HeadAt DEF TypeOK
<1>6. Head(Contents) = Contents[1] BY DEF Head
<1>7. /\ Tail(Contents) \in Seq(Byte) /\ Len(Tail(Contents)) = Used - 1
      /\ \A i \in 1 .. Used - 1 : Tail(Contents)[i] = Contents[i + 1]
      BY <1>3, <1>4, HeadTailProperties
<1>8. \A i \in 1 .. Used - 1 : Contents'[i] = Tail(Contents)[i]
      BY <1>3, <1>7
<1>9. QED BY <1>3, <1>4, <1>5, <1>6, <1>7, <1>8, SeqEqual

\* Every step of the code is a step of the queue, or leaves it alone.
LEMMA StepIsQueue == IInv /\ IInv' /\ [Next]_vars => [Q!QNext]_(Q!qvars)
<1> SUFFICES ASSUME IInv, IInv', [Next]_vars
             PROVE  Q!QNext \/ UNCHANGED <<Contents, given, taken, accepted>>
    BY DEF Q!qvars
<1> USE DEF reader, writer
<1>0. TypeOK /\ TypeOK' /\ WriterSees /\ ReaderSees
      BY DEF IInv
<1>1. CASE Putch \/ PutStore
  <2>1. /\ given = None /\ given' \in Byte /\ data' = [data EXCEPT ![tail] = given']
        /\ UNCHANGED <<head, tail, taken, accepted>>
        BY <1>0, <1>1 DEF Putch, PutStore, WriterSees
  <2>2. Contents' = Contents BY <1>0, <2>1, StoreOutside
  <2>3. Q!QGive BY <2>1, <2>2 DEF Q!QGive
  <2>4. QED BY <2>3 DEF Q!QNext
<1>2. CASE PutchCheck
  <2>1. Contents' = Contents
        BY <1>2 DEF PutchCheck, Contents, Used
  <2>2. CASE After(tail) # head BY <1>2, <2>1, <2>2 DEF PutchCheck
  <2>3. CASE After(tail) = head
    <3>1. Used = Mask BY <1>0, <2>3, Distances, FullIs DEF TypeOK
    <3>2. Len(Contents) = Mask BY <1>0, <3>1, ContentsIs
    <3>3. Q!QRefuse
          BY <1>0, <1>2, <2>1, <2>3, <3>2 DEF PutchCheck, WriterSees, Q!QRefuse
    <3>4. QED BY <3>3 DEF Q!QNext
  <2>4. QED BY <2>2, <2>3
<1>3. CASE PutchPublish \/ PutAdvance
  <2>1. /\ After(tail) # head /\ tail' = After(tail) /\ head' = head
        /\ data' = data /\ taken' = taken /\ accepted' = TRUE
        /\ given # None /\ given = data[tail] /\ given' = None
        BY <1>0, <1>3, RoomToPut DEF PutchPublish, PutAdvance, WriterSees
  <2>2. Len(Contents) < Mask /\ Contents' = Append(Contents, data[tail])
        BY <1>0, <2>1, TailAppends
  <2>4. Q!QAppend BY <2>1, <2>2 DEF Q!QAppend
  <2>5. QED BY <2>4 DEF Q!QNext
<1>5. CASE GetchAdvance \/ GetAdvance
  <2>1. /\ head # tail /\ head' = After(head) /\ tail' = tail /\ data' = data
        /\ taken' = data[head] /\ accepted' = accepted /\ given' = given
        BY <1>0, <1>5 DEF GetchAdvance, GetAdvance, ReaderSees
  <2>2. /\ Contents # <<>> /\ Head(Contents) = data[head]
        /\ Contents' = Tail(Contents)
        BY <1>0, <2>1, HeadRemoves
  <2>3. Q!QRemove BY <2>1, <2>2 DEF Q!QRemove
  <2>4. QED BY <2>3 DEF Q!QNext
<1>6. CASE Getch
  <2>1. Contents' = Contents BY <1>6 DEF Getch, Contents, Used
  <2>2. CASE head # tail BY <1>6, <2>1, <2>2 DEF Getch
  <2>3. CASE head = tail
    <3>1. Used = 0 BY <1>0, <2>3, Distances, DistIs DEF TypeOK
    <3>2. Contents = <<>> BY <1>0, <3>1, ContentsIs, EmptySeq
    <3>3. Q!QEmpty BY <1>6, <2>1, <2>3, <3>2 DEF Getch, Q!QEmpty
    <3>4. QED BY <3>3 DEF Q!QNext
  <2>4. QED BY <2>2, <2>3
<1>7. CASE FlushDone
  <2>1. /\ mark \in Place /\ Dist(head, mark) <= Used
        /\ head' = mark /\ tail' = tail /\ data' = data
        BY <1>0, <1>7 DEF FlushDone, ReaderSees, TypeOK
  <2> DEFINE k == Dist(head, mark)
  <2>2. /\ Contents \in Seq(Byte) /\ Len(Contents) = Used
        /\ Contents' \in Seq(Byte) /\ Len(Contents') = Used - k
        /\ Used \in Nat /\ k \in Nat /\ k <= Used
        /\ \A i \in 1 .. Used - k : Contents'[i] = Contents[k + i]
        BY <1>0, <2>1, HeadDrops
  <2>3. Contents' = [i \in 1 .. Len(Contents) - k |-> Contents[k + i]]
    <3>1. Contents' \in [1 .. Used - k -> Byte]
          BY <2>2, LenProperties
    <3>2. QED BY <2>2, <3>1
  <2>4. k \in 0 .. Len(Contents) BY <2>2
  <2>5. Q!QDrop
        BY <1>7, <2>3, <2>4 DEF FlushDone, Q!QDrop
  <2>6. QED BY <2>5 DEF Q!QNext
<1>8. CASE Put \/ PutDone \/ AskFree
      BY <1>8 DEF Put, PutDone, AskFree, Contents, Used
<1>9. CASE GetchRead \/ Get \/ GetCopy \/ GetDone \/ Flush \/ AskUsed
      BY <1>9 DEF GetchRead, Get, GetCopy, GetDone, Flush, AskUsed, Contents, Used
<1>10. CASE UNCHANGED vars
      BY <1>10 DEF vars, Contents, Used
<1>11. QED BY <1>1, <1>2, <1>3, <1>5, <1>6, <1>7, <1>8, <1>9, <1>10
           DEF Next, Write, Read

\* The buffer implements the queue: whatever the interleaving of writer and
\* reader, bytes come out as they went in.
THEOREM Refinement == Spec => IsQueue
<1>1. Init => Q!QInit
  <2> SUFFICES ASSUME Init PROVE Q!QInit OBVIOUS
  <2>1. TypeOK BY Initial DEF IInv
  <2>2. Used = 0 BY <2>1, Distances, DistIs DEF Init, TypeOK
  <2>3. Contents = <<>> BY <2>1, <2>2, ContentsIs, EmptySeq
  <2>4. QED BY <2>3 DEF Init, Q!QInit
<1>2. QED BY <1>1, StepIsQueue, Invariance, PTL DEF Spec, IsQueue, Q!QSpec
=============================================================================
