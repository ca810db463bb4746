-------------------------- MODULE FtcContents_proof --------------------------
(***************************************************************************)
(* Proofs about what is in the sector cache of FATFTC.LIB (FtcCache), on   *)
(* top of the invariant of FtcCache_proof:                                 *)
(*                                                                         *)
(*   ReadsCurrent        fatftc_read returns the sector as it is now       *)
(*   CleanEntriesMatch   an entry that is not dirty is on its device       *)
(*   FlushesAll          a flush that succeeds has written all of it       *)
(*   StoresSectors       the cache implements SectorStore                  *)
(*                                                                         *)
(* The first has no hypothesis.  Those of the others (Careful, Steady,     *)
(* Whole) are about devices, waiting and power; where they do not hold,    *)
(* the code breaks the property.                                           *)
(***************************************************************************)
EXTENDS FtcCache_proof

-----------------------------------------------------------------------------
(* What the steps of _fatftc_devwrite and fat_tick do, entry by entry and  *)
(* device by device                                                        *)

\* Only entry e changes, and becomes t.
Becomes(e, t) == /\ status'[e] = t
                 /\ \A j \in Buf \ {e} : status'[j] = status[j]

\* The operation of device d ends, and no other changes.
Ended(d) == /\ busy'[d] = 0 /\ list'[d] = <<>> /\ bcount'[d] = 0 /\ ~ bpurge'[d]
            /\ \A x \in Dev \ {d} : /\ busy'[x] = busy[x] /\ list'[x] = list[x]
                                    /\ bcount'[x] = bcount[x] /\ bpurge'[x] = bpurge[x]

LEMMA ReleaseEnds ==
  ASSUME TypeOK, NEW d \in Dev, Release(d)
  PROVE  Ended(d)
<1>1. bpurge' = [bpurge EXCEPT ![d] = FALSE] /\ bpurge \in [Dev -> BOOLEAN]
  BY DEF Release, TypeOK
<1>2. ~ bpurge'[d] /\ \A x \in Dev \ {d} : bpurge'[x] = bpurge[x]
  BY <1>1
<1> QED BY <1>2, ReleaseFacts DEF Ended

\* How a write goes on from entry e, the sector number k of the list: the
\* driver has taken it, is to be asked again, or has failed.
Going(d, e, k) == /\ Becomes(e, status[e] \ {"BUSY"})
                  /\ wr' = [dev |-> d, len |-> k - 1, purge |-> wr.purge]
                  /\ UNCHANGED <<busy, list, bcount, bpurge, res, poll>>
Left(d, e, n) == /\ Becomes(e, status[e] \cup {"BUSY"})
                 /\ UNCHANGED <<busy, list>>
                 /\ bcount'[d] = n /\ bpurge'[d] = wr.purge
                 /\ \A x \in Dev \ {d} : bcount'[x] = bcount[x] /\ bpurge'[x] = bpurge[x]
                 /\ EndWrite("busy")
Failed(d) == /\ \A j \in Buf : ~ AtList(d, j) => status'[j] = status[j]
             /\ \A j \in Buf : \E drop \in {{}, {"BUSY"}, {"BUSY", "DIRTY"}} :
                   /\ status'[j] = status[j] \ drop
                   /\ ReadOnly = {} => "DIRTY" \notin drop
             /\ Ended(d) /\ EndWrite("err")

\* What the devices are given.
Stored(d, e) == /\ disk'[d][SecOf(e)] = buf[e]
                /\ \A s \in Sec \ {SecOf(e)} : disk'[d][s] = disk[d][s]
                /\ \A x \in Dev \ {d} : disk'[x] = disk[x]
                /\ UNCHANGED <<chip, inflight>>
Queued(d, e, c) == /\ inflight'[d] = inflight[d] \cup {[sec |-> SecOf(e), val |-> buf[e]]}
                   /\ chip'[d] = c
                   /\ \A x \in Dev \ {d} : inflight'[x] = inflight[x] /\ chip'[x] = chip[x]
                   /\ UNCHANGED disk

LEMMA EntryFacts ==
  ASSUME CacheInv, WriteEntry
  PROVE  \E d \in Dev, k \in 1 .. WriteSize, e \in Buf :
            /\ wr # NoWr /\ d = wr.dev /\ k = wr.len /\ e = list[d][k] /\ wr.purge \in BOOLEAN
            /\ WriteList(d) /\ DOMAIN list[d] = 1 .. WriteSize /\ pc \notin Storing
            /\ UNCHANGED <<of, buf, call, pc, ent, ret>>
            /\ \/ d \notin Queueing /\ chip[d] = "idle" /\ Stored(d, e) /\ Going(d, e, k)
               \/ /\ d \in Queueing /\ k > 1 /\ chip[d] \in {"idle", "loading"}
                  /\ Queued(d, e, "loading") /\ Going(d, e, k)
               \/ /\ d \in Queueing /\ k = 1 /\ chip[d] \in {"idle", "loading"}
                  /\ Queued(d, e, "program") /\ Left(d, e, 0)
               \/ chip[d] = "background" /\ UNCHANGED devvars /\ Left(d, e, k)
               \/ chip[d] = "idle" /\ UNCHANGED devvars /\ Failed(d)
<1>a. TypeOK /\ Lists
  BY DEF CacheInv, Data
<1>b. wr # NoWr /\ wr.len > 0 /\ UNCHANGED <<of, buf, lru, call, pc, ent, ret>>
  BY DEF WriteEntry
<1>c. /\ wr.dev \in Dev /\ wr.len \in 1 .. WriteSize /\ wr.purge \in BOOLEAN
      /\ wr \in [dev : Dev, len : 0 .. WriteSize, purge : BOOLEAN]
      /\ WriteList(wr.dev) /\ pc \notin Storing
      /\ \A k \in 1 .. WriteSize : list[wr.dev][k] \in Buf
  BY <1>b, WritingFacts
<1>d. PICK d \in Dev, k \in 1 .. WriteSize, e \in Buf :
         d = wr.dev /\ k = wr.len /\ e = list[wr.dev][wr.len]
  BY <1>c
<1>e. /\ WriteList(d) /\ DOMAIN list[d] = 1 .. WriteSize /\ busy[d] = WriteSize
      /\ SecOf(e) \in Sec
  BY <1>a, <1>c, <1>d, SeqFacts DEF TypeOK, WriteList, SecOf
<1> DEFINE sector == [sec |-> SecOf(e), val |-> buf[e]]
           Fails(drop) == status' = [i \in Buf |-> IF \E m \in k .. busy[d] : list[d][m] = i
                                                   THEN status[i] \ drop ELSE status[i]]
<1>1. \/ /\ d \notin Queueing \cup ReadOnly /\ chip[d] = "idle"
         /\ disk' = [disk EXCEPT ![d][SecOf(e)] = buf[e]]
         /\ status' = ClearBusy(e) /\ wr' = [wr EXCEPT !.len = @ - 1]
         /\ UNCHANGED <<chip, inflight, drvars, res, poll>>
      \/ /\ d \in Queueing \ ReadOnly /\ k > 1 /\ chip[d] \in {"idle", "loading"}
         /\ inflight' = [inflight EXCEPT ![d] = @ \cup {sector}]
         /\ chip' = [chip EXCEPT ![d] = "loading"]
         /\ status' = ClearBusy(e) /\ wr' = [wr EXCEPT !.len = @ - 1]
         /\ UNCHANGED <<disk, drvars, res, poll>>
      \/ /\ d \in Queueing \ ReadOnly /\ k = 1 /\ chip[d] \in {"idle", "loading"}
         /\ inflight' = [inflight EXCEPT ![d] = @ \cup {sector}]
         /\ chip' = [chip EXCEPT ![d] = "program"]
         /\ status' = [status EXCEPT ![e] = @ \cup {"BUSY"}] /\ Suspend(d, 0)
         /\ UNCHANGED <<disk, busy, list>>
      \/ /\ chip[d] = "background"
         /\ status' = [status EXCEPT ![e] = @ \cup {"BUSY"}] /\ Suspend(d, k)
         /\ UNCHANGED <<devvars, busy, list>>
      \/ /\ chip[d] = "idle"
         /\ Fails(IF d \in ReadOnly THEN {"BUSY", "DIRTY"} ELSE {"BUSY"})
         /\ Release(d) /\ EndWrite("err") /\ UNCHANGED devvars
  BY <1>d, Zenon DEF WriteEntry
<1>2. ASSUME status' = ClearBusy(e), wr' = [wr EXCEPT !.len = @ - 1],
             UNCHANGED <<drvars, res, poll>>
      PROVE  Going(d, e, k)
  <2>1. Becomes(e, status[e] \ {"BUSY"})
    BY <1>a, <1>2 DEF ClearBusy, TypeOK, Becomes
  <2>2. wr' = [dev |-> d, len |-> k - 1, purge |-> wr.purge]
    BY <1>c, <1>d, <1>2
  <2> QED BY <1>2, <2>1, <2>2 DEF Going, drvars
<1>3. ASSUME NEW n \in {0, k}, status' = [status EXCEPT ![e] = @ \cup {"BUSY"}],
             Suspend(d, n), UNCHANGED <<busy, list>>
      PROVE  Left(d, e, n)
  <2>1. Becomes(e, status[e] \cup {"BUSY"})
    BY <1>a, <1>3 DEF TypeOK, Becomes
  <2>2. /\ bcount' = [bcount EXCEPT ![d] = n] /\ bpurge' = [bpurge EXCEPT ![d] = wr.purge]
        /\ EndWrite("busy")
    BY <1>3 DEF Suspend
  <2>3. /\ bcount'[d] = n /\ bpurge'[d] = wr.purge
        /\ \A x \in Dev \ {d} : bcount'[x] = bcount[x] /\ bpurge'[x] = bpurge[x]
    BY <1>a, <2>2 DEF TypeOK
  <2> QED BY <1>3, <2>1, <2>2, <2>3 DEF Left
<1>4. ASSUME Fails(IF d \in ReadOnly THEN {"BUSY", "DIRTY"} ELSE {"BUSY"}),
             Release(d), EndWrite("err")
      PROVE  Failed(d)
  <2>1. PICK drop \in {{"BUSY"}, {"BUSY", "DIRTY"}} :
           Fails(drop) /\ (ReadOnly = {} => "DIRTY" \notin drop)
    <3> HIDE DEF Fails
    <3> QED BY <1>4
  <2>2. ASSUME NEW j \in Buf, ~ AtList(d, j) PROVE status'[j] = status[j]
    <3>1. \A m \in k .. WriteSize : m \in 1 .. WriteSize
      BY Sizes
    <3> QED BY <1>e, <2>1, <2>2, <3>1 DEF AtList
  <2>3. \A j \in Buf : status'[j] = status[j] \/ status'[j] = status[j] \ drop
    BY <2>1
  <2>4. ASSUME NEW j \in Buf
        PROVE  \E x \in {{}, {"BUSY"}, {"BUSY", "DIRTY"}} :
                  status'[j] = status[j] \ x /\ (ReadOnly = {} => "DIRTY" \notin x)
    <3>1. CASE status'[j] = status[j]
      <4>1. status'[j] = status[j] \ {}
        BY <3>1
      <4> QED BY <4>1
    <3>2. CASE status'[j] = status[j] \ drop
      BY <2>1, <3>2
    <3> QED BY <2>3, <3>1, <3>2
  <2>5. Ended(d)
    BY <1>a, <1>4, ReleaseEnds
  <2> QED BY <1>4, <2>2, <2>4, <2>5 DEF Failed
<1>5. ASSUME disk' = [disk EXCEPT ![d][SecOf(e)] = buf[e]], UNCHANGED <<chip, inflight>>
      PROVE  Stored(d, e)
  BY <1>a, <1>e, <1>5 DEF TypeOK, Stored
<1>6. ASSUME NEW c, inflight' = [inflight EXCEPT ![d] = @ \cup {sector}],
             chip' = [chip EXCEPT ![d] = c], disk' = disk
      PROVE  Queued(d, e, c)
  BY <1>a, <1>6 DEF TypeOK, Queued
<1>7. \/ d \notin Queueing /\ chip[d] = "idle" /\ Stored(d, e) /\ Going(d, e, k)
      \/ /\ d \in Queueing /\ k > 1 /\ chip[d] \in {"idle", "loading"}
         /\ Queued(d, e, "loading") /\ Going(d, e, k)
      \/ /\ d \in Queueing /\ k = 1 /\ chip[d] \in {"idle", "loading"}
         /\ Queued(d, e, "program") /\ Left(d, e, 0)
      \/ chip[d] = "background" /\ UNCHANGED devvars /\ Left(d, e, k)
      \/ chip[d] = "idle" /\ UNCHANGED devvars /\ Failed(d)
  <2> HIDE DEF sector, Fails
  <2> QED BY <1>1, <1>2, <1>3, <1>4, <1>5, <1>6
<1>8. /\ wr # NoWr /\ e = list[d][k] /\ pc \notin Storing
      /\ UNCHANGED <<of, buf, call, pc, ent, ret>>
  BY <1>b, <1>c, <1>d
<1> HIDE DEF sector, Fails
<1> QED BY <1>c, <1>d, <1>e, <1>7, <1>8, Zenon

\* All of the list has been written: its entries are clean, or dropped.
LEMMA DoneFacts ==
  ASSUME CacheInv, WriteDone
  PROVE  \E d \in Dev :
            /\ wr # NoWr /\ d = wr.dev /\ wr.len = 0 /\ wr.purge \in BOOLEAN
            /\ WriteList(d) /\ DOMAIN list[d] = 1 .. WriteSize /\ pc \notin Storing
            /\ UNCHANGED <<of, buf, disk, chip, inflight, call, pc, ent, ret>>
            /\ Ended(d) /\ EndWrite("ok")
            /\ \A j \in Buf : ~ AtList(d, j) => status'[j] = status[j]
            /\ \A j \in Idx : AtList(d, j) =>
                  /\ "DIRTY" \in status[j] /\ "BUSY" \notin status[j] /\ DevOf(j) = d
                  /\ status'[j] = IF wr.purge THEN {} ELSE status[j] \ {"DIRTY"}
            /\ \A j \in Page : AtList(d, j) => status'[j] = {}
<1>a. TypeOK /\ Lists
  BY DEF CacheInv, Data
<1>b. wr # NoWr /\ wr.len = 0 /\ UNCHANGED <<of, buf, disk, chip, inflight, call, pc, ent, ret>>
  BY DEF WriteDone, devvars
<1>c. /\ wr.dev \in Dev /\ WriteList(wr.dev) /\ pc \notin Storing /\ wr.purge \in BOOLEAN
      /\ \A k \in 1 .. WriteSize : list[wr.dev][k] \in Idx =>
            "BUSY" \notin status[list[wr.dev][k]]
  <2>1. \A k \in 1 .. WriteSize : k # 0
    BY Sizes
  <2> QED BY <1>b, <2>1, WritingFacts
<1>d. PICK d \in Dev : d = wr.dev
  BY <1>c
<1>e. DOMAIN list[d] = 1 .. WriteSize /\ busy[d] = WriteSize
  BY <1>a, <1>c, <1>d, SeqFacts DEF TypeOK, WriteList
<1> DEFINE done == {list[wr.dev][k] : k \in 1 .. busy[wr.dev]}
           gone == Gone(done)
<1>1. /\ status' = [i \in Buf |-> CASE i \in gone        -> Unused
                                 [] i \in done \ gone -> status[i] \ {"DIRTY"}
                                 [] OTHER             -> status[i]]
      /\ Release(d) /\ EndWrite("ok")
  BY <1>d DEF WriteDone
<1>2. \A j : j \in done <=> AtList(d, j)
  BY <1>d, <1>e DEF AtList
<1>3. \A j : j \in gone <=> j \in done /\ (wr.purge \/ j \in Page)
  BY DEF Gone
<1> HIDE DEF done, gone
<1>4. ASSUME NEW j \in Buf, ~ AtList(d, j) PROVE status'[j] = status[j]
  BY <1>1, <1>2, <1>3, <1>4
<1>5. ASSUME NEW j \in Idx, AtList(d, j)
      PROVE  /\ "DIRTY" \in status[j] /\ "BUSY" \notin status[j] /\ DevOf(j) = d
             /\ status'[j] = IF wr.purge THEN {} ELSE status[j] \ {"DIRTY"}
  <2>1. "DIRTY" \in status[j] /\ "BUSY" \notin status[j] /\ DevOf(j) = d
    BY <1>c, <1>d, <1>e, <1>5 DEF AtList, WriteList
  <2>2. j \in Buf /\ j \notin Page /\ j \in done
    BY <1>2, <1>5, FiniteIdx
  <2>3. j \in gone <=> wr.purge
    BY <1>3, <2>2
  <2> QED BY <1>1, <2>1, <2>2, <2>3 DEF Unused
<1>6. ASSUME NEW j \in Page, AtList(d, j) PROVE status'[j] = {}
  <2>1. j \in Buf /\ j \in gone
    BY <1>2, <1>3, <1>6, FiniteIdx
  <2> QED BY <1>1, <2>1 DEF Unused
<1>7. Ended(d)
  BY <1>1, <1>a, ReleaseEnds
<1> QED BY <1>1, <1>4, <1>5, <1>6, <1>7, <1>b, <1>c, <1>d, <1>e

\* fat_tick goes on with a write, ...
LEMMA PollWriteFacts ==
  ASSUME CacheInv, PollWrite
  PROVE  \E d \in Dev :
            /\ poll = d /\ wr = NoWr /\ chip[d] = "idle" /\ WriteList(d) /\ pc \notin Storing
            /\ wr' = [dev |-> d, len |-> bcount[d], purge |-> bpurge[d]]
            /\ UNCHANGED <<of, buf, busy, list, bcount, bpurge, disk, chip, inflight,
                           call, pc, ent, res, ret, poll>>
            /\ \A j \in Idx : \/ status'[j] = status[j]
                              \/ "DIRTY" \in status[j] /\ status'[j] = status[j] \ {"BUSY"}
<1>a. TypeOK /\ CallOK /\ Lists
  BY DEF CacheInv, Control, Data
<1>b. /\ poll # 0 /\ wr = NoWr /\ busy[poll] \in 1 .. WriteSize /\ chip[poll] = "idle"
      /\ UNCHANGED <<of, buf, lru, busy, list, bcount, bpurge, disk, chip, inflight, call,
            pc, ent, res, ret, poll>>
  BY DEF PollWrite, Polling, drvars, devvars, cvars
<1>c. PICK d \in Dev : d = poll
  BY <1>a, <1>b, PollTyped
<1>d. WriteList(d) /\ pc \notin Storing
  <2>1. busy[d] # READ /\ busy[d] # 0
    BY <1>b, <1>c, SizeAssumption, Sizes
  <2> QED BY <1>a, <1>b, <2>1 DEF Lists, ReadList, CallOK
<1>e. /\ \A k \in 1 .. WriteSize : list[d][k] \in Buf
      /\ bcount[d] < WriteSize => bcount[d] + 1 \in 1 .. WriteSize
  BY <1>a, <1>d, Sizes, SeqFacts DEF TypeOK, WriteList
<1>1. /\ bcount[d] < WriteSize => status' = ClearBusy(list[d][bcount[d] + 1])
      /\ ~ (bcount[d] < WriteSize) => status' = status
      /\ wr' = [dev |-> d, len |-> bcount[d], purge |-> bpurge[d]]
  BY <1>c DEF PollWrite
<1>2. ASSUME NEW j \in Idx
      PROVE  \/ status'[j] = status[j]
             \/ "DIRTY" \in status[j] /\ status'[j] = status[j] \ {"BUSY"}
  <2>1. CASE bcount[d] < WriteSize
    BY <1>1, <1>a, <1>d, <1>e, <2>1, FiniteIdx DEF WriteList, ClearBusy, TypeOK
  <2> QED BY <1>1, <2>1
<1> QED BY <1>1, <1>2, <1>b, <1>c, <1>d

\* ... or a read, which fills its entry or frees it.
LEMMA PollReadFacts ==
  ASSUME CacheInv, PollRead
  PROVE  \E d \in Dev, i \in Idx :
            /\ poll = d /\ wr = NoWr /\ chip[d] = "idle" /\ ReadList(d) /\ i = list[d][1]
            /\ pc \notin Storing /\ Reading(i) /\ DevOf(i) = d
            /\ \A j \in Idx : AtList(d, j) => j = i
            /\ UNCHANGED <<of, disk, chip, inflight, call, pc, ent, res, ret, wr>>
            /\ Ended(d)
            /\ \/ /\ Becomes(i, status[i] \ {"BUSY"}) /\ buf'[i] = disk[d][SecOf(i)]
                  /\ \A j \in Buf \ {i} : buf'[j] = buf[j]
               \/ Becomes(i, {}) /\ buf' = buf
<1>a. TypeOK /\ CallOK /\ Lists
  BY DEF CacheInv, Control, Data
<1>b. /\ poll # 0 /\ wr = NoWr /\ busy[poll] = READ /\ Release(poll) /\ chip[poll] = "idle"
      /\ UNCHANGED <<of, disk, chip, inflight, call, pc, ent, res, ret, wr>>
  BY DEF PollRead, Polling, devvars, cvars
<1>c. PICK d \in Dev, i \in {list[poll][1]} : d = poll /\ i = list[poll][1]
  BY <1>a, <1>b, PollTyped
<1>d. ReadList(d) /\ pc \notin Storing
  <2>1. ReadList(d)
    BY <1>a, <1>b, <1>c, Sizes DEF Lists, WriteList
  <2> QED BY <1>a, <1>b, <2>1 DEF CallOK
<1>e. i \in Idx /\ i \in Buf /\ DevOf(i) = d /\ Reading(i)
  BY <1>c, <1>d, FiniteIdx DEF ReadList
<1>f. \A j \in Idx : AtList(d, j) => j = i
  <2>1. DOMAIN list[d] = {1}
    BY <1>a, <1>d, SeqFacts DEF ReadList, TypeOK
  <2> QED BY <1>c, <2>1 DEF AtList
<1>1. \/ buf' = [buf EXCEPT ![i] = disk[d][SecOf(i)]] /\ status' = ClearBusy(i)
      \/ status' = [status EXCEPT ![i] = {}] /\ buf' = buf
  BY <1>c DEF PollRead, Unused
<1>2. \/ /\ Becomes(i, status[i] \ {"BUSY"}) /\ buf'[i] = disk[d][SecOf(i)]
         /\ \A j \in Buf \ {i} : buf'[j] = buf[j]
      \/ Becomes(i, {}) /\ buf' = buf
  BY <1>1, <1>a, <1>e DEF ClearBusy, Becomes, TypeOK
<1>3. Ended(d)
  BY <1>a, <1>b, <1>c, ReleaseEnds
<1> QED BY <1>2, <1>3, <1>b, <1>c, <1>d, <1>e, <1>f
-----------------------------------------------------------------------------
(* Cached *)

LEMMA MaxIn ==
  ASSUME NEW T \in SUBSET Idx, T # {}
  PROVE  Max(T) \in T
<1>1. T \in SUBSET Nat /\ MaxBufs \in Nat /\ \A x \in T : x <= MaxBufs
  BY FiniteIdx, Sizes DEF Idx
<1> DEFINE R == {n \in 0 .. MaxBufs : MaxBufs - n \in T}
<1>2. R \in SUBSET Nat /\ R # {}
  <2>1. \A x \in T : /\ x \in 0 .. MaxBufs /\ MaxBufs - x \in 0 .. MaxBufs
                     /\ MaxBufs - (MaxBufs - x) = x
    BY <1>1
  <2>2. PICK x \in T : TRUE
    OBVIOUS
  <2>3. MaxBufs - x \in R
    BY <2>1
  <2>4. R \in SUBSET Nat
    BY <1>1
  <2> HIDE DEF R
  <2> QED BY <2>3, <2>4
<1>3. PICK m \in R : \A k \in R : m <= k
  BY <1>2, LeastNat
<1>4. \A x \in T : MaxBufs - m >= x
  <2> SUFFICES ASSUME NEW x \in T PROVE MaxBufs - m >= x
    OBVIOUS
  <2>1. MaxBufs - x \in R
    BY <1>1
  <2> QED BY <1>1, <1>2, <1>3, <2>1
<1>5. \E y \in T : \A x \in T : y >= x
  BY <1>3, <1>4
<1> QED BY <1>5, Zenon DEF Max

\* What _fatftc_find finds.
LEMMA CachedMax ==
  ASSUME NEW d, NEW s
  PROVE  /\ Cached(d, s) \in SUBSET Idx
         /\ Cached(d, s) # {} => Max(Cached(d, s)) \in Cached(d, s)
<1>1. Cached(d, s) \in SUBSET Idx
  BY DEF Cached
<1> QED BY <1>1, MaxIn

-----------------------------------------------------------------------------
(* The order in which a call goes on *)

\* What _fatftc_devwrite reports is kept only until it has been looked at.
Outcome == pc \notin {"evict", "flush"} => res = "none"

\* Between two calls nothing is polled or written; in a call, only
\* _fatftc_getfree and fatftc_flushdev write.
Rest == /\ pc = "idle" => poll = 0 /\ wr = NoWr
        /\ wr # NoWr /\ poll = 0 => pc \in {"evict", "flush"} /\ res = "none"
        /\ wr # NoWr /\ poll = 0 /\ pc = "evict" => wr.purge
        /\ pc = "ticked" => call.op = "tick"

\* Entries are dropped once they are written only for _fatftc_getfree, which
\* does not go on before that.
Purges(d) == bpurge[d] \/ (wr.dev = d /\ wr.purge)
Purging == \A d \in Dev : Purges(d) => /\ pc = "evict" /\ res \notin {"ok", "err"}
                                       /\ busy[d] = WriteSize /\ AtList(d, ent)

\* The entry that was found, or taken, is the one of the sector asked for.
Settled == {"hit", "fill", "filled", "copy", "overwrite", "mark"}
Found == /\ pc \in Settled => /\ "USED" \in status[ent] /\ ~ Reading(ent)
                              /\ of[ent] = [dev |-> call.dev, sec |-> call.sec]
         /\ pc = "overwrite" => status[ent] = {"USED"}

Order == Outcome /\ Rest /\ Purging /\ Found

LEMMA InitOrder == Init => Order
<1> SUFFICES ASSUME Init PROVE Order
  OBVIOUS
<1>1. \A d \in Dev : ~ bpurge[d] /\ wr.dev # d
  BY Sizes DEF Init, NoWr
<1> QED BY <1>1 DEF Init, Order, Outcome, Rest, Purging, Purges, Found, Settled, NoCall

\* A call that is not in _fatftc_getfree purges nothing, and so it stays.
LEMMA NotPurging ==
  ASSUME Purging, pc # "evict", UNCHANGED <<bpurge, wr>>
  PROVE  Purging'
BY DEF Purging, Purges

\* Nothing is purged, and nothing changes on devices or in lists.
LEMMA QuietOrder ==
  ASSUME CacheInv, Order,
         \/ Begin \/ Ticked \/ Find \/ Lookup \/ Hit \/ Miss \/ GetFree
         \/ FlushWait \/ FlushBusy \/ FlushPoll \/ FlushNext \/ PollIdle
  PROVE  Order'
<1>a. Outcome /\ Rest /\ Purging /\ Found /\ CallOK
  BY DEF Order, CacheInv, Control
<1>b. UNCHANGED <<status, of, busy, list, bpurge, wr>>
  BY DEF Begin, Ticked, Find, Lookup, Hit, Miss, GetFree, FlushWait, FlushBusy, FlushPoll,
     FlushNext, PollIdle, bbvars, drvars
<1>1. CASE PollIdle
  <2>1. UNCHANGED <<call, pc, ent, res>> /\ poll # 0 /\ wr = NoWr
    BY <1>1 DEF PollIdle, Polling, cvars
  <2>2. Purging' /\ Found'
    BY <1>a, <1>b, <2>1 DEF Purging, Purges, AtList, Found, Settled, Reading
  <2> QED BY <1>a, <1>b, <2>1, <2>2 DEF Order, Outcome, Rest
<1>2. CASE \/ Begin \/ Ticked \/ Find \/ Lookup \/ Hit \/ Miss \/ GetFree
           \/ FlushWait \/ FlushBusy \/ FlushPoll \/ FlushNext
  <2>1. pc # "evict" /\ poll = 0 /\ wr = NoWr
    BY <1>2 DEF Begin, Ticked, Find, Lookup, Hit, Miss, GetFree, FlushWait, FlushBusy,
       FlushPoll, FlushNext, AtStep
  <2>2. Purging'
    BY <1>a, <1>b, <2>1, NotPurging
  <2>3. (pc' = "idle" => poll' = 0) /\ (pc' = "ticked" => call'.op = "tick")
    <3>1. CASE Begin
      BY <3>1 DEF Begin, Tick, NoTick
    <3>2. CASE Lookup
      BY <3>2 DEF Lookup, AtStep, Tick, NoTick, Goto, GotoWith, Return
    <3>3. CASE FlushNext
      <4>1. poll' = poll /\ (pc' = "idle" \/ pc' = pc) /\ pc = "flush"
        BY <3>3, Zenon DEF FlushNext, Return, AtStep
      <4> QED BY <2>1, <4>1
    <3>4. CASE \/ Ticked \/ Find \/ Hit \/ Miss \/ GetFree \/ FlushWait \/ FlushBusy
               \/ FlushPoll
      BY <2>1, <3>4 DEF Ticked, Find, Hit, Miss, GetFree, FlushWait, FlushBusy, FlushPoll,
         AtStep, Tick, NoTick, Stay, Goto, GotoWith, Return, Deliver
    <3> QED BY <1>2, <3>1, <3>2, <3>3, <3>4
  <2>5. Rest'
    BY <1>b, <2>1, <2>3 DEF Rest
  <2>6. Outcome'
    <3>1. CASE \/ Begin \/ Ticked \/ Find \/ Lookup \/ Hit \/ Miss \/ GetFree
               \/ FlushWait \/ FlushBusy
      BY <1>a, <3>1 DEF Begin, Ticked, Find, Lookup, Hit, Miss, GetFree, FlushWait, FlushBusy,
         AtStep, Outcome
    <3>2. CASE FlushPoll \/ FlushNext
      BY <1>a, <3>2 DEF FlushPoll, FlushNext, AtStep, Stay, Goto, GotoWith, Outcome
    <3> QED BY <1>2, <3>1, <3>2
  <2>7. Found'
    <3>1. CASE Lookup
      <4> DEFINE S == Cached(call.dev, call.sec)
      <4>1. pc' \in Settled => /\ S # {} /\ ent' = Max(S) /\ ~ Reading(Max(S))
                               /\ pc' = "hit" /\ call' = call
        BY <3>1, Zenon DEF Lookup, AtStep, Tick, NoTick, Goto, GotoWith, Return, Settled
      <4>2. S \in SUBSET Idx /\ (S # {} => Max(S) \in S)
        BY CachedMax DEF Cached
      <4>3. \A i \in S : "USED" \in status[i] /\ of[i] = [dev |-> call.dev, sec |-> call.sec]
        BY DEF Cached
      <4> HIDE DEF S
      <4> QED BY <1>b, <4>1, <4>2, <4>3 DEF Found, Settled, Reading
    <3>2. CASE Hit
      <4>1. pc = "hit" /\ (pc' = "idle" \/ (pc' = "copy" /\ ent' = ent /\ call' = call))
        BY <3>2 DEF Hit, AtStep, Deliver, Goto, GotoWith, Return
      <4> QED BY <1>a, <1>b, <4>1 DEF Found, Settled, Reading
    <3>3. CASE \/ Begin \/ Ticked \/ Find \/ Miss \/ GetFree
               \/ FlushWait \/ FlushBusy \/ FlushPoll \/ FlushNext
      <4>1. pc' \notin Settled
        BY <3>3 DEF Begin, Ticked, Find, Miss, GetFree, FlushWait, FlushBusy, FlushPoll,
           FlushNext, AtStep, Stay, Goto, GotoWith, Return, Settled
      <4> QED BY <4>1 DEF Found, Settled
    <3> QED BY <1>2, <3>1, <3>2, <3>3
  <2> QED BY <2>2, <2>5, <2>6, <2>7 DEF Order
<1> QED BY <1>1, <1>2
\* A step of fat_tick or of a device, which goes on in the same place.
LEMMA FoundFrame ==
  ASSUME TypeOK, CallOK, Found, UNCHANGED <<call, pc, ent>>, pc \notin Storing,
         \A j \in Idx : of'[j] = of[j],
         \A j \in Idx : "USED" \in status[j] /\ ~ Reading(j) /\ pc # "evict" =>
                           "USED" \in status'[j] /\ ~ Reading(j)'
  PROVE  Found'
<1>1. ent \in Idx
  BY DEF TypeOK
<1> QED BY <1>1 DEF Found, Settled, Storing

\* The end of _fatftc_devwrite on device d, for which nothing is purged then.
LEMMA EndOrder ==
  ASSUME CacheInv, Order, NEW d \in Dev, wr # NoWr, d = wr.dev, UNCHANGED <<call, pc, ent>>,
         NEW r \in {"ok", "busy", "err"}, EndWrite(r),
         \A x \in Dev \ {d} : /\ busy'[x] = busy[x] /\ list'[x] = list[x]
                              /\ bpurge'[x] = bpurge[x],
         \/ ~ bpurge'[d]
         \/ /\ r = "busy" /\ busy'[d] = busy[d] /\ list'[d] = list[d]
            /\ bpurge'[d] = wr.purge
  PROVE  Outcome' /\ Rest' /\ Purging'
<1>a. Outcome /\ Rest /\ Purging /\ TypeOK /\ Lists /\ poll \in 0 .. MaxDevs
  BY DEF Order, CacheInv, Data, TypeOK
<1>1. /\ wr' = NoWr
      /\ \/ poll = 0 /\ res' = r /\ poll' = 0
         \/ poll # 0 /\ res' = res
  BY DEF EndWrite
<1>2. \A x \in Dev : wr'.dev # x
  BY <1>1, Sizes DEF NoWr
<1>3. Outcome'
  BY <1>1, <1>a DEF Outcome, Rest
<1>4. Rest'
  BY <1>1, <1>a DEF Rest
<1>5. ASSUME NEW x \in Dev, bpurge'[x]
      PROVE  pc = "evict" /\ res' \notin {"ok", "err"} /\ busy'[x] = WriteSize /\ AtList(x, ent)'
  <2>1. Purges(x) /\ busy'[x] = busy[x] /\ list'[x] = list[x] /\ (x = d => r = "busy")
    <3>1. CASE x = d
      BY <1>5, <3>1 DEF Purges
    <3>2. CASE x # d
      BY <1>5, <3>2 DEF Purges
    <3> QED BY <3>1, <3>2
  <2>2. /\ pc = "evict" /\ res \notin {"ok", "err"} /\ busy[x] = WriteSize /\ AtList(x, ent)
        /\ AtList(x, ent)'
    BY <1>a, <2>1 DEF Purging, AtList
  <2>3. poll = 0 => x = d
    <3> SUFFICES ASSUME poll = 0 PROVE x = d
      OBVIOUS
    <3>1. Purges(d)
      BY <1>a, <2>2 DEF Rest, Purges
    <3>2. AtList(d, ent) /\ ent \in Idx
      BY <1>a, <3>1 DEF Purging, TypeOK
    <3>3. DevOf(ent) = d /\ DevOf(ent) = x
      <4>1. PICK k \in DOMAIN list[d] : list[d][k] = ent
        BY <3>2 DEF AtList
      <4>2. PICK m \in DOMAIN list[x] : list[x][m] = ent
        BY <2>2 DEF AtList
      <4> QED BY <1>a, <3>2, <4>1, <4>2, AtListFacts
    <3> QED BY <3>3
  <2> QED BY <1>1, <2>1, <2>2, <2>3
<1>6. Purging'
  BY <1>2, <1>5 DEF Purging, Purges
<1> QED BY <1>3, <1>4, <1>6

LEMMA WritingOrder ==
  ASSUME CacheInv, Order, WriteEntry \/ WriteDone
  PROVE  Order'
<1>a. Outcome /\ Rest /\ Purging /\ Found /\ CallOK /\ TypeOK /\ MarksUsed /\ Lists
  BY DEF Order, CacheInv, Control, Data
<1>1. CASE WriteEntry
  <2>1. PICK d \in Dev, k \in 1 .. WriteSize, e \in Buf :
           /\ wr # NoWr /\ d = wr.dev /\ k = wr.len /\ e = list[d][k] /\ wr.purge \in BOOLEAN
           /\ WriteList(d) /\ DOMAIN list[d] = 1 .. WriteSize /\ pc \notin Storing
           /\ UNCHANGED <<of, buf, call, pc, ent, ret>>
           /\ Going(d, e, k) \/ Left(d, e, 0) \/ Left(d, e, k) \/ Failed(d)
    BY <1>1, EntryFacts
  <2>2. ASSUME NEW j \in Idx, "USED" \in status[j], ~ Reading(j)
        PROVE  "USED" \in status'[j] /\ ~ Reading(j)'
    <3>1. j \in Buf /\ (j = e => "DIRTY" \in status[e])
      BY <2>1, FiniteIdx DEF WriteList
    <3>2. CASE Failed(d)
      <4>1. PICK drop \in {{}, {"BUSY"}, {"BUSY", "DIRTY"}} : status'[j] = status[j] \ drop
        BY <3>1, <3>2 DEF Failed
      <4> QED BY <2>2, <4>1 DEF Reading
    <3>3. CASE Going(d, e, k) \/ Left(d, e, 0) \/ Left(d, e, k)
      <4>1. \/ status'[j] = status[j]
            \/ j = e /\ status'[j] \in {status[e] \ {"BUSY"}, status[e] \cup {"BUSY"}}
        BY <3>1, <3>3 DEF Going, Left, Becomes
      <4> QED BY <2>2, <3>1, <4>1 DEF Reading
    <3> QED BY <2>1, <3>2, <3>3
  <2>3. Found'
    BY <1>a, <2>1, <2>2, FoundFrame
  <2>4. CASE Going(d, e, k)
    <3>1. /\ UNCHANGED <<busy, list, bpurge, res, poll>> /\ wr'.dev = d /\ wr'.purge = wr.purge
          /\ wr' # NoWr
      BY <2>4, Sizes DEF Going, NoWr
    <3>2. \A x \in Dev : Purges(x)' => Purges(x)
      BY <2>1, <3>1 DEF Purges
    <3>3. Purging'
      BY <1>a, <2>1, <3>1, <3>2 DEF Purging, AtList
    <3>4. Outcome' /\ Rest'
      BY <1>a, <2>1, <3>1 DEF Outcome, Rest
    <3> QED BY <2>3, <3>3, <3>4 DEF Order
  <2>5. CASE Left(d, e, 0) \/ Left(d, e, k)
    <3>1. /\ UNCHANGED <<busy, list>> /\ EndWrite("busy") /\ bpurge'[d] = wr.purge
          /\ \A x \in Dev \ {d} : bpurge'[x] = bpurge[x]
      BY <2>5 DEF Left
    <3> QED BY <2>1, <2>3, <3>1, EndOrder DEF Order
  <2>6. CASE Failed(d)
    <3>1. EndWrite("err") /\ ~ bpurge'[d] /\
          \A x \in Dev \ {d} : busy'[x] = busy[x] /\ list'[x] = list[x] /\ bpurge'[x] = bpurge[x]
      BY <2>6 DEF Failed, Ended
    <3> QED BY <2>1, <2>3, <3>1, EndOrder DEF Order
  <2> QED BY <2>1, <2>4, <2>5, <2>6
<1>2. CASE WriteDone
  <2>1. PICK d \in Dev :
            /\ wr # NoWr /\ d = wr.dev /\ wr.len = 0 /\ wr.purge \in BOOLEAN
            /\ WriteList(d) /\ DOMAIN list[d] = 1 .. WriteSize /\ pc \notin Storing
            /\ UNCHANGED <<of, buf, disk, chip, inflight, call, pc, ent, ret>>
            /\ Ended(d) /\ EndWrite("ok")
            /\ \A j \in Buf : ~ AtList(d, j) => status'[j] = status[j]
            /\ \A j \in Idx : AtList(d, j) =>
                  /\ "DIRTY" \in status[j] /\ "BUSY" \notin status[j] /\ DevOf(j) = d
                  /\ status'[j] = IF wr.purge THEN {} ELSE status[j] \ {"DIRTY"}
    BY <1>2, DoneFacts
  <2>2. wr.purge => pc = "evict"
    BY <1>a, <2>1 DEF Purging, Purges
  <2>3. ASSUME NEW j \in Idx, "USED" \in status[j], ~ Reading(j), pc # "evict"
        PROVE  "USED" \in status'[j] /\ ~ Reading(j)'
    BY <2>1, <2>2, <2>3, FiniteIdx DEF Reading
  <2>4. Found'
    BY <1>a, <2>1, <2>3, FoundFrame
  <2>5. Outcome' /\ Rest' /\ Purging'
    <3>1. ~ bpurge'[d] /\
          \A x \in Dev \ {d} : busy'[x] = busy[x] /\ list'[x] = list[x] /\ bpurge'[x] = bpurge[x]
      BY <2>1 DEF Ended
    <3> QED BY <2>1, <3>1, EndOrder
  <2> QED BY <2>4, <2>5 DEF Order
<1> QED BY <1>1, <1>2

LEMMA PollingOrder ==
  ASSUME CacheInv, Order, PollWrite \/ PollRead
  PROVE  Order'
<1>a. Outcome /\ Rest /\ Purging /\ Found /\ CallOK /\ TypeOK /\ MarksUsed
  BY DEF Order, CacheInv, Control, Data
<1>b. poll # 0
  BY DEF PollWrite, PollRead, Polling
<1>1. CASE PollWrite
  <2>1. PICK d \in Dev :
            /\ poll = d /\ wr = NoWr /\ WriteList(d) /\ pc \notin Storing
            /\ wr' = [dev |-> d, len |-> bcount[d], purge |-> bpurge[d]]
            /\ UNCHANGED <<of, buf, busy, list, bcount, bpurge, disk, chip, inflight,
                           call, pc, ent, res, ret, poll>>
            /\ \A j \in Idx : \/ status'[j] = status[j]
                              \/ "DIRTY" \in status[j] /\ status'[j] = status[j] \ {"BUSY"}
    BY <1>1, PollWriteFacts
  <2>2. \A j \in Idx : "USED" \in status[j] /\ ~ Reading(j) =>
                          "USED" \in status'[j] /\ ~ Reading(j)'
    BY <2>1 DEF Reading
  <2>3. Found'
    BY <1>a, <2>1, <2>2, FoundFrame
  <2>4. \A x \in Dev : Purges(x)' => Purges(x)
    BY <2>1 DEF Purges
  <2>5. Purging'
    BY <1>a, <2>1, <2>4 DEF Purging, AtList
  <2>6. Outcome' /\ Rest'
    BY <1>a, <1>b, <2>1 DEF Outcome, Rest
  <2> QED BY <2>3, <2>5, <2>6 DEF Order
<1>2. CASE PollRead
  <2>1. PICK d \in Dev, i \in Idx :
            /\ poll = d /\ wr = NoWr /\ ReadList(d) /\ pc \notin Storing /\ Reading(i)
            /\ UNCHANGED <<of, disk, chip, inflight, call, pc, ent, res, ret, wr>>
            /\ Ended(d)
            /\ Becomes(i, status[i] \ {"BUSY"}) \/ Becomes(i, {})
    BY <1>2, PollReadFacts
  <2>2. ASSUME NEW j \in Idx, ~ Reading(j) PROVE status'[j] = status[j]
    BY <2>1, <2>2, FiniteIdx DEF Becomes
  <2>3. Found'
    <3>1. \A j \in Idx : "USED" \in status[j] /\ ~ Reading(j) =>
                            "USED" \in status'[j] /\ ~ Reading(j)'
      BY <2>2 DEF Reading
    <3> QED BY <1>a, <2>1, <3>1, FoundFrame
  <2>4. /\ busy[d] = READ /\ ~ bpurge'[d] /\ \A x \in Dev : wr.dev # x
        /\ \A x \in Dev \ {d} : busy'[x] = busy[x] /\ list'[x] = list[x] /\
           bpurge'[x] = bpurge[x]
    BY <2>1, Sizes DEF Ended, ReadList, NoWr
  <2>5. Purging'
    BY <1>a, <2>1, <2>4 DEF Purging, Purges, AtList
  <2>6. Outcome' /\ Rest'
    BY <1>a, <1>b, <2>1 DEF Outcome, Rest
  <2> QED BY <2>3, <2>5, <2>6 DEF Order
<1> QED BY <1>1, <1>2

-----------------------------------------------------------------------------
(* What _fatftc_devwrite begins with *)

\* The sectors that no dirty entry of the page holds: each once.
LEMMA MissingFacts ==
  ASSUME NEW i \in Idx
  PROVE  /\ \A k, m \in DOMAIN Missing(i) : Missing(i)[k] = Missing(i)[m] => k = m
         /\ \A m \in DOMAIN Missing(i) : /\ Missing(i)[m] \in Sec
                                         /\ \A k \in DOMAIN DirtyList(i) :
                                               SecOf(DirtyList(i)[k]) # Missing(i)[m]
<1> DEFINE S == {s \in Sec : /\ Lbn(s) = Lbn(SecOf(i))
                             /\ \A k \in DOMAIN DirtyList(i) : SecOf(DirtyList(i)[k]) # s}
           key == [s \in Sec |-> s]
           M == Ordered(S, key)
<1>1. S \in SUBSET Sec /\ IsFiniteSet(S)
  <2>1. IsFiniteSet(Sec)
    BY SizeAssumption, FS_Interval DEF Sec
  <2> QED BY <2>1, FS_Subset
<1>2. key \in [Sec -> Int] /\ \A x, y \in S : key[x] = key[y] => x = y
  BY SizeAssumption DEF Sec
<1>3. \A x \in S : \A k \in DOMAIN DirtyList(i) : SecOf(DirtyList(i)[k]) # x
  OBVIOUS
<1>4. Missing(i) = M
  BY DEF Missing
<1> HIDE DEF S, key
<1>5. /\ M \in Seq(S) /\ DOMAIN M = 1 .. Cardinality(S)
      /\ \A n, m \in 1 .. Cardinality(S) : M[n] = M[m] => n = m
  BY <1>1, <1>2, OrderedFacts
<1>6. \A m \in DOMAIN M : M[m] \in S
  BY <1>5, SeqFacts
<1> HIDE DEF M
<1> QED BY <1>1, <1>3, <1>4, <1>5, <1>6

\* A write that begins: what is on the page is in the list, each sector once,
\* and the sectors that are in no entry have been read into page buffers.
OnlyPages(d) == \A j \in Buf : ~ (j \in Page /\ AtList(d, j)') =>
                   status'[j] = status[j] /\ of'[j] = of[j] /\ buf'[j] = buf[j]
WriteBegins(d, i, purge) ==
  /\ "DIRTY" \in status[i] /\ busy[d] = 0 /\ chip[d] = "idle" /\ res' = res
  /\ wr' = [dev |-> d, len |-> WriteSize, purge |-> purge]
  /\ busy'[d] = WriteSize /\ list'[d] \in Seq(Buf) /\ DOMAIN list'[d] = 1 .. WriteSize
  /\ \A x \in Dev \ {d} : busy'[x] = busy[x] /\ list'[x] = list[x]
  /\ OnlyPages(d)
  /\ list'[d][1] = i
  /\ \A k, m \in 1 .. WriteSize : of'[list'[d][k]].sec = of'[list'[d][m]].sec => k = m
  /\ \A k \in 1 .. WriteSize : list'[d][k] \in Page =>
        buf'[list'[d][k]] = disk[d][of'[list'[d][k]].sec]
WriteRefused(d, i) ==
  /\ chip[d] # "idle" \/ busy[d] # 0 \/ ("DIRTY" \in status[i] /\ PagesInUse(i))
  /\ res' = "busy" /\ UNCHANGED <<status, of, buf, busy, list, wr>>
WriteNeedless(d, i) ==
  /\ "DIRTY" \notin status[i] /\ busy[d] = 0
  /\ res' = "ok" /\ UNCHANGED <<status, of, buf, busy, list, wr>>
WriteUnread(d, i) ==
  /\ IoErrors /\ WriteSize > 1 /\ "DIRTY" \in status[i] /\ busy[d] = 0
  /\ \A j \in Idx : status'[j] = status[j] /\ of'[j] = of[j] /\ buf'[j] = buf[j]
  /\ res' = "err" /\ UNCHANGED <<busy, list, wr>>

LEMMA DevWriteCases ==
  ASSUME CacheInv, NEW i \in Idx, NEW purge \in BOOLEAN, wr = NoWr, DevWrite(i, purge)
  PROVE  \E d \in Dev : /\ d = DevOf(i)
                        /\ \/ WriteRefused(d, i) \/ WriteNeedless(d, i)
                           \/ WriteBegins(d, i, purge) \/ WriteUnread(d, i)
<1>a. /\ TypeOK /\ MarksUsed /\ NoDuplicates
      /\ status \in [Buf -> SUBSET {"USED", "BUSY", "DIRTY"}]
      /\ of \in [Buf -> [dev : Dev, sec : Sec]]
      /\ \A j \in Idx : status[j] # {} => "USED" \in status[j]
  BY DEF CacheInv, Data, TypeOK, MarksUsed
<1>b. i \in Buf /\ DevOf(i) \in Dev
  BY <1>a, FiniteIdx DEF DevOf
<1>c. PICK d \in Dev : d = DevOf(i)
  BY <1>b
<1> DEFINE D == DirtyList(i)
           M == Missing(i)
           n == Len(M)
           pages == [k \in 1 .. n |-> MaxBufs + k]
           L == D \o pages
<1>1. \/ WriteRefused(d, i)
      \/ WriteNeedless(d, i)
      \/ /\ chip[d] = "idle" /\ busy[d] = 0 /\ "DIRTY" \in status[i]
         /\ \/ /\ MakeList(i, n) /\ list' = [list EXCEPT ![d] = L]
               /\ busy' = [busy EXCEPT ![d] = Len(D) + n]
               /\ wr' = [dev |-> d, len |-> Len(D) + n, purge |-> purge]
               /\ res' = res
            \/ /\ IoErrors /\ \E k \in 1 .. n : MakeList(i, k)
               /\ res' = "err" /\ UNCHANGED <<busy, list, wr>>
  BY <1>c, Zenon DEF DevWrite, WriteRefused, WriteNeedless, bbvars
<1>2. ASSUME "DIRTY" \in status[i]
      PROVE  /\ D \in Seq(Idx) /\ Len(D) \in Nat /\ Len(D) >= 1 /\ D[1] = i
             /\ DOMAIN D = 1 .. Len(D)
             /\ \A k \in 1 .. Len(D) : /\ D[k] \in Idx /\ "DIRTY" \in status[D[k]]
                                       /\ DevOf(D[k]) = d
             /\ \A k, m \in 1 .. Len(D) : D[k] = D[m] => k = m
             /\ M \in Seq(Sec) /\ n \in Nat /\ DOMAIN M = 1 .. n
             /\ Len(D) + n = WriteSize /\ n <= PageBufs
  <2>1. /\ D \in Seq(Idx) /\ Len(D) >= 1 /\ D[1] = i
        /\ \A k \in 1 .. Len(D) : "DIRTY" \in status[D[k]] /\ DevOf(D[k]) = d
        /\ \A k, m \in 1 .. Len(D) : D[k] = D[m] => k = m
        /\ M \in Seq(Sec) /\ Len(D) + n = WriteSize
    BY <1>2, <1>a, <1>c, ListFacts
  <2> HIDE DEF D, M
  <2>2. /\ Len(D) \in Nat /\ n \in Nat /\ DOMAIN D = 1 .. Len(D) /\ DOMAIN M = 1 .. n
        /\ \A k \in 1 .. Len(D) : D[k] \in Idx
    BY <2>1, SeqFacts
  <2>3. n <= PageBufs
    <3> HIDE DEF n
    <3> QED BY <2>1, <2>2, Sizes
  <2> QED BY <2>1, <2>2, <2>3
<1>3. ASSUME NEW k \in Nat, MakeList(i, k)
      PROVE  /\ \A j \in Buf : j \notin (MaxBufs + 1) .. (MaxBufs + k) =>
                   status'[j] = status[j] /\ of'[j] = of[j] /\ buf'[j] = buf[j]
             /\ \A j \in Idx : status'[j] = status[j] /\ of'[j] = of[j] /\ buf'[j] = buf[j]
             /\ \A m \in 1 .. k : MaxBufs + m \in Buf =>
                   of'[MaxBufs + m].sec = M[m] /\ buf'[MaxBufs + m] = disk[d][M[m]]
  <2> HIDE DEF M, D
  <2> DEFINE used == (MaxBufs + 1) .. (MaxBufs + k)
  <2>1. /\ status' = [j \in Buf |-> IF j \in used THEN {"USED", "BUSY"} ELSE status[j]]
        /\ of' = [j \in Buf |-> IF j \in used THEN [of[j] EXCEPT !.sec = M[j - MaxBufs]]
                                ELSE of[j]]
        /\ buf' = [j \in Buf |-> IF j \in used THEN disk[d][M[j - MaxBufs]] ELSE buf[j]]
    BY <1>3, <1>c DEF MakeList, PageData, M
  <2>2. \A j \in Idx : j \notin used /\ j \in Buf
    BY FiniteIdx, Sizes DEF Idx
  <2>3. \A m \in 1 .. k : MaxBufs + m \in used /\ (MaxBufs + m) - MaxBufs = m
    BY Sizes
  <2> HIDE DEF used
  <2>4. \A j \in Buf : j \notin used =>
           status'[j] = status[j] /\ of'[j] = of[j] /\ buf'[j] = buf[j]
    BY <2>1
  <2>5. \A m \in 1 .. k : MaxBufs + m \in Buf =>
           of'[MaxBufs + m].sec = M[m] /\ buf'[MaxBufs + m] = disk[d][M[m]]
    <3> SUFFICES ASSUME NEW m \in 1 .. k, MaxBufs + m \in Buf
                 PROVE  of'[MaxBufs + m].sec = M[m] /\ buf'[MaxBufs + m] = disk[d][M[m]]
      OBVIOUS
    <3> DEFINE p == MaxBufs + m
    <3>1. p \in Buf /\ p \in used /\ p - MaxBufs = m
      BY <2>3
    <3> HIDE DEF p
    <3>2. of[p] \in [dev : Dev, sec : Sec] /\ of'[p] = [of[p] EXCEPT !.sec = M[m]]
      BY <1>a, <2>1, <3>1
    <3>3. of'[p].sec = M[m] /\ buf'[p] = disk[d][M[m]]
      BY <2>1, <3>1, <3>2
    <3> QED BY <3>3 DEF p
  <2> QED BY <2>2, <2>4, <2>5 DEF used
<1>4. ASSUME "DIRTY" \in status[i], busy[d] = 0,
             IoErrors, \E k \in 1 .. n : MakeList(i, k),
             res' = "err", UNCHANGED <<busy, list, wr>>
      PROVE  WriteUnread(d, i)
  <2>1. PICK k \in 1 .. n : MakeList(i, k)
    BY <1>4
  <2>2. \A j \in Idx : status'[j] = status[j] /\ of'[j] = of[j] /\ buf'[j] = buf[j]
    BY <1>2, <1>4, <2>1, <1>3
  <2>3. n \in Nat /\ n >= 1 /\ Len(D) \in Nat /\ Len(D) >= 1 /\ Len(D) + n = WriteSize
    <3> HIDE DEF D, M
    <3>1. n \in Nat /\ Len(D) \in Nat /\ Len(D) >= 1 /\ Len(D) + n = WriteSize
      BY <1>2, <1>4
    <3> HIDE DEF n
    <3> QED BY <2>1, <3>1
  <2>4. WriteSize > 1
    <3> HIDE DEF D, n
    <3> QED BY <2>3, Sizes
  <2> QED BY <1>4, <2>2, <2>4 DEF WriteUnread
<1>5. ASSUME "DIRTY" \in status[i], busy[d] = 0, chip[d] = "idle", MakeList(i, n),
             list' = [list EXCEPT ![d] = L], busy' = [busy EXCEPT ![d] = Len(D) + n],
             wr' = [dev |-> d, len |-> Len(D) + n, purge |-> purge], res' = res
      PROVE  WriteBegins(d, i, purge)
  <2>a. /\ D \in Seq(Idx) /\ Len(D) \in Nat /\ Len(D) >= 1 /\ D[1] = i
        /\ DOMAIN D = 1 .. Len(D)
        /\ \A k \in 1 .. Len(D) : /\ D[k] \in Idx /\ "DIRTY" \in status[D[k]]
                                  /\ DevOf(D[k]) = d
        /\ \A k, m \in 1 .. Len(D) : D[k] = D[m] => k = m
        /\ M \in Seq(Sec) /\ n \in Nat /\ DOMAIN M = 1 .. n
        /\ Len(D) + n = WriteSize /\ n <= PageBufs
    BY <1>2, <1>5
  <2>b. /\ \A j \in Buf : j \notin (MaxBufs + 1) .. (MaxBufs + n) =>
              status'[j] = status[j] /\ of'[j] = of[j] /\ buf'[j] = buf[j]
        /\ \A j \in Idx : status'[j] = status[j] /\ of'[j] = of[j] /\ buf'[j] = buf[j]
        /\ \A m \in 1 .. n : MaxBufs + m \in Buf =>
              of'[MaxBufs + m].sec = M[m] /\ buf'[MaxBufs + m] = disk[d][M[m]]
    BY <1>3, <1>5, <2>a
  <2>c. /\ \A k, m \in 1 .. n : M[k] = M[m] => k = m
        /\ \A m \in 1 .. n : \A k \in 1 .. Len(D) : SecOf(D[k]) # M[m]
    BY <2>a, MissingFacts
  <2>d. /\ busy' = [busy EXCEPT ![d] = WriteSize]
        /\ wr' = [dev |-> d, len |-> WriteSize, purge |-> purge]
    BY <1>5, <2>a
  <2> HIDE DEF D, M
  <2>1. /\ n \in Nat /\ \A k \in 1 .. n : MaxBufs + k \in Page /\ MaxBufs + k \in Buf
    BY <2>a, Sizes DEF Buf, Page
  <2>2. /\ pages \in Seq(Buf) /\ Len(pages) = n /\ \A k \in 1 .. n : pages[k] = MaxBufs + k
    <3>1. pages \in [1 .. n -> Buf] /\ n \in Nat
      BY <2>1
    <3>2. pages \in Seq(Buf) /\ DOMAIN pages = 1 .. n
      BY <3>1, SeqDef
    <3> QED BY <3>1, <3>2, LenProperties
  <2> HIDE DEF pages
  <2>3. /\ L \in Seq(Buf) /\ Len(L) = Len(D) + Len(pages)
        /\ \A k \in 1 .. Len(D) + Len(pages) :
              L[k] = IF k <= Len(D) THEN D[k] ELSE pages[k - Len(D)]
    <3>1. D \in Seq(Buf)
      BY <2>a, FiniteIdx
    <3> QED BY <2>2, <3>1, ConcatProperties
  <2> HIDE DEF L, n
  <2>4. /\ DOMAIN L = 1 .. WriteSize
        /\ \A k \in 1 .. WriteSize :
              \/ k \in 1 .. Len(D) /\ L[k] = D[k]
              \/ k - Len(D) \in 1 .. n /\ L[k] = MaxBufs + (k - Len(D))
    <3>1. DOMAIN L = 1 .. WriteSize
      BY <2>a, <2>2, <2>3, SeqFacts
    <3>2. ASSUME NEW k \in 1 .. WriteSize
          PROVE  \/ k \in 1 .. Len(D) /\ L[k] = D[k]
                 \/ k - Len(D) \in 1 .. n /\ L[k] = MaxBufs + (k - Len(D))
      <4>1. CASE k <= Len(D)
        BY <2>a, <2>2, <2>3, <4>1, Sizes
      <4>2. CASE k > Len(D)
        BY <2>a, <2>2, <2>3, <4>2, Sizes
      <4> QED BY <2>a, <4>1, <4>2, Sizes
    <3> QED BY <3>1, <3>2
  <2>5. \A k \in 1 .. n : \E m \in 1 .. WriteSize : L[m] = MaxBufs + k
    <3> SUFFICES ASSUME NEW k \in 1 .. n PROVE \E m \in 1 .. WriteSize : L[m] = MaxBufs + k
      OBVIOUS
    <3>1. /\ Len(D) + k \in 1 .. WriteSize /\ ~ (Len(D) + k \in 1 .. Len(D))
          /\ (Len(D) + k) - Len(D) = k
      BY <2>a, Sizes
    <3>2. L[Len(D) + k] = MaxBufs + ((Len(D) + k) - Len(D))
      BY <2>4, <3>1
    <3> QED BY <3>1, <3>2
  <2>6. /\ busy'[d] = WriteSize /\ list'[d] = L
        /\ \A x \in Dev \ {d} : busy'[x] = busy[x] /\ list'[x] = list[x]
    BY <1>5, <1>a, <2>d DEF TypeOK
  <2>7. OnlyPages(d)
    <3> SUFFICES ASSUME NEW j \in Buf, ~ (j \in Page /\ AtList(d, j)')
                 PROVE  status'[j] = status[j] /\ of'[j] = of[j] /\ buf'[j] = buf[j]
      BY DEF OnlyPages
    <3>1. CASE j \notin (MaxBufs + 1) .. (MaxBufs + n)
      BY <2>b, <3>1
    <3>2. CASE j \in (MaxBufs + 1) .. (MaxBufs + n)
      <4>1. j - MaxBufs \in 1 .. n /\ j = MaxBufs + (j - MaxBufs)
        BY <2>a, <3>2, Sizes
      <4>2. PICK m \in 1 .. WriteSize : L[m] = j
        BY <2>5, <4>1
      <4>3. j \in Page
        BY <2>a, <3>2, Sizes DEF Page
      <4> QED BY <2>4, <2>6, <4>2, <4>3 DEF AtList
    <3> QED BY <3>1, <3>2
  <2>8. 1 \in 1 .. WriteSize /\ L[1] = i
    <3>1. 1 \in 1 .. WriteSize /\ 1 - Len(D) \notin 1 .. n
      BY <2>a, Sizes
    <3> QED BY <2>4, <2>a, <3>1
  <2>9. ASSUME NEW k \in 1 .. WriteSize
        PROVE  \/ /\ k \in 1 .. Len(D) /\ L[k] = D[k] /\ D[k] \in Idx
                  /\ of'[L[k]].sec = SecOf(D[k])
               \/ /\ k - Len(D) \in 1 .. n /\ of'[L[k]].sec = M[k - Len(D)]
                  /\ buf'[L[k]] = disk[d][M[k - Len(D)]]
    <3>1. CASE k \in 1 .. Len(D) /\ L[k] = D[k]
      BY <2>a, <2>b, <2>d, <3>1 DEF SecOf
    <3>2. CASE k - Len(D) \in 1 .. n /\ L[k] = MaxBufs + (k - Len(D))
      <4> DEFINE m == k - Len(D)
      <4>1. m \in 1 .. n /\ L[k] = MaxBufs + m /\ MaxBufs + m \in Buf
        BY <2>1, <3>2
      <4> HIDE DEF m
      <4>2. of'[L[k]].sec = M[m] /\ buf'[L[k]] = disk[d][M[m]]
        BY <2>b, <4>1
      <4> QED BY <3>2, <4>2 DEF SecOf, m
    <3> QED BY <2>4, <3>1, <3>2
  <2>10. ASSUME NEW k \in 1 .. WriteSize, NEW m \in 1 .. WriteSize,
                of'[L[k]].sec = of'[L[m]].sec
         PROVE  k = m
    <3>1. CASE k \in 1 .. Len(D) /\ m \in 1 .. Len(D) /\ SecOf(D[k]) = SecOf(D[m])
      <4>1. /\ D[k] \in Idx /\ D[m] \in Idx /\ D[k] \in Buf /\ D[m] \in Buf
            /\ "DIRTY" \in status[D[k]] /\ "DIRTY" \in status[D[m]]
            /\ DevOf(D[k]) = DevOf(D[m])
        BY <2>a, <3>1, FiniteIdx
      <4>2. of[D[k]] = of[D[m]]
        <5>1. of[D[k]] \in [dev : Dev, sec : Sec] /\ of[D[m]] \in [dev : Dev, sec : Sec]
          BY <1>a, <4>1
        <5> QED BY <3>1, <4>1, <5>1 DEF DevOf, SecOf
      <4>3. "USED" \in status[D[k]] /\ "USED" \in status[D[m]]
        BY <1>a, <4>1
      <4>4. D[k] = D[m]
        BY <1>a, <4>1, <4>2, <4>3 DEF NoDuplicates
      <4> QED BY <2>a, <3>1, <4>4
    <3>2. CASE /\ k - Len(D) \in 1 .. n /\ m - Len(D) \in 1 .. n
               /\ M[k - Len(D)] = M[m - Len(D)]
      <4>1. k - Len(D) = m - Len(D)
        BY <2>c, <3>2
      <4>2. k \in Nat /\ m \in Nat /\ Len(D) \in Nat
        BY <2>a, Sizes
      <4> QED BY <4>1, <4>2
    <3>3. \/ k \in 1 .. Len(D) /\ m \in 1 .. Len(D) /\ SecOf(D[k]) = SecOf(D[m])
          \/ k - Len(D) \in 1 .. n /\ m - Len(D) \in 1 .. n /\ M[k - Len(D)] = M[m - Len(D)]
      BY <2>9, <2>10, <2>c
    <3> QED BY <3>1, <3>2, <3>3
  <2>11. ASSUME NEW k \in 1 .. WriteSize, L[k] \in Page
         PROVE  buf'[L[k]] = disk[d][of'[L[k]].sec]
    BY <2>9, <2>11, FiniteIdx
  <2> QED BY <1>5, <2>d, <2>3, <2>4, <2>6, <2>7, <2>8, <2>10, <2>11 DEF WriteBegins
<1> HIDE DEF D, M, n, pages, L
<1>6. \/ WriteRefused(d, i) \/ WriteNeedless(d, i)
      \/ WriteBegins(d, i, purge) \/ WriteUnread(d, i)
  BY <1>1, <1>4, <1>5
<1> QED BY <1>c, <1>6

-----------------------------------------------------------------------------
(* The order in which a call goes on: the other steps *)

LEMMA WriteOutOrder ==
  ASSUME CacheInv, Order, Evict \/ FlushEntry
  PROVE  Order'
<1>a. Outcome /\ Rest /\ Purging /\ Found /\ TypeOK /\ Lists /\ ent \in Idx
  BY DEF Order, CacheInv, Data, TypeOK
<1>b. bpurge' = bpurge /\ wr = NoWr /\ poll = 0 /\ \A x \in Dev : wr.dev # x
  <2>1. bpurge' = bpurge /\ wr = NoWr /\ poll = 0
    BY Zenon DEF Evict, FlushEntry, AtStep
  <2> QED BY <2>1, Sizes DEF NoWr
<1>c. ASSUME NEW x \in Dev, bpurge[x]
      PROVE  /\ pc = "evict" /\ res \notin {"ok", "err"} /\ busy[x] = WriteSize
             /\ AtList(x, ent) /\ DevOf(ent) = x
  <2>1. /\ pc = "evict" /\ res \notin {"ok", "err"} /\ busy[x] = WriteSize /\ AtList(x, ent)
    BY <1>a, <1>c DEF Purging, Purges
  <2>2. PICK k \in DOMAIN list[x] : list[x][k] = ent
    BY <2>1 DEF AtList
  <2>3. DevOf(ent) = x
    BY <1>a, <2>2, AtListFacts
  <2> QED BY <2>1, <2>3
<1>1. ASSUME NEW purge \in BOOLEAN, DevWrite(ent, purge), res = "none",
             UNCHANGED <<pc, ent, poll, call>>,
             \/ pc = "evict" /\ "DIRTY" \in status[ent] /\ purge
             \/ pc = "flush" /\ ~ purge
      PROVE  Order'
  <2>1. PICK d \in Dev : /\ d = DevOf(ent)
                         /\ \/ WriteRefused(d, ent) \/ WriteNeedless(d, ent)
                            \/ WriteBegins(d, ent, purge) \/ WriteUnread(d, ent)
    BY <1>a, <1>b, <1>1, DevWriteCases
  <2>2. Found' /\ Outcome'
    BY <1>1 DEF Found, Settled, Outcome
  <2>3. CASE wr' = wr /\ UNCHANGED <<busy, list>> /\ res' = "busy"
    <3>1. Purging'
      BY <1>1, <1>b, <1>c, <2>3 DEF Purging, Purges, AtList
    <3> QED BY <1>1, <1>a, <1>b, <2>2, <2>3, <3>1 DEF Order, Rest
  <2>4. CASE wr' = wr /\ UNCHANGED <<busy, list>> /\ busy[d] = 0
    <3>1. Purging'
      BY <1>1, <1>b, <1>c, <2>1, <2>4, Sizes DEF Purging, Purges
    <3> QED BY <1>1, <1>a, <1>b, <2>2, <2>4, <3>1 DEF Order, Rest
  <2>5. CASE WriteBegins(d, ent, purge)
    <3>1. /\ busy[d] = 0 /\ res' = "none" /\ wr'.dev = d /\ wr'.purge = purge
          /\ busy'[d] = WriteSize /\ list'[d][1] = ent /\ DOMAIN list'[d] = 1 .. WriteSize
      BY <1>1, <2>5 DEF WriteBegins
    <3>2. 1 \in 1 .. WriteSize
      BY Sizes
    <3>3. AtList(d, ent)'
      BY <1>1, <3>1, <3>2 DEF AtList
    <3>4. \A x \in Dev : ~ bpurge[x]
      BY <1>1, <1>c, <2>1, <3>1, Sizes
    <3>5. Purging'
      BY <1>1, <1>b, <3>1, <3>3, <3>4 DEF Purging, Purges
    <3>6. Rest'
      BY <1>1, <1>b, <3>1 DEF Rest
    <3> QED BY <2>2, <3>5, <3>6 DEF Order
  <2> QED BY <2>1, <2>3, <2>4, <2>5 DEF WriteRefused, WriteNeedless, WriteUnread
<1>2. CASE FlushEntry
  <2>1. DevWrite(ent, FALSE) /\ res = "none" /\ UNCHANGED <<pc, ent, poll, call>> /\ pc = "flush"
    BY <1>2 DEF FlushEntry, AtStep
  <2>2. FALSE \in BOOLEAN
    OBVIOUS
  <2> QED BY <1>1, <2>1, <2>2
<1>3. CASE Evict
  <2>1. pc = "evict" /\ "DIRTY" \in status[ent] /\ call' = call
    BY <1>3 DEF Evict, AtStep
  <2>2. CASE res = "none" /\ DevWrite(ent, TRUE) /\ Stay /\ UNCHANGED poll
    <3>1. UNCHANGED <<pc, ent, poll, call>> /\ TRUE \in BOOLEAN
      BY <2>1, <2>2 DEF Stay, Goto, GotoWith
    <3> QED BY <1>1, <2>1, <2>2, <3>1
  <2>3. CASE /\ res = "busy" /\ res' = "none" /\ Tick /\ Stay
             /\ UNCHANGED <<bbvars, lru, busy, list, wr>>
    <3>1. UNCHANGED <<pc, ent, wr, busy, list>> /\ poll' # 0
      BY <2>3 DEF Stay, Goto, GotoWith, Tick
    <3>2. Purging'
      BY <1>b, <1>c, <2>1, <2>3, <3>1 DEF Purging, Purges, AtList
    <3> QED BY <1>b, <2>1, <2>3, <3>1, <3>2 DEF Order, Outcome, Rest, Found, Settled
  <2>4. CASE /\ res = "err" /\ res' = "none" /\ Return("err")
             /\ UNCHANGED <<poll, bbvars, lru, busy, list, wr>>
    <3>1. wr' = wr /\ poll' = 0 /\ pc' = "idle"
      BY <1>b, <2>4 DEF Return
    <3>2. Purging'
      BY <1>b, <1>c, <2>4, <3>1 DEF Purging, Purges
    <3> QED BY <1>b, <2>4, <3>1, <3>2 DEF Order, Outcome, Rest, Found, Settled
  <2> QED BY <1>3, <2>2, <2>3, <2>4, Zenon DEF Evict
<1> QED BY <1>2, <1>3

\* The steps of a call between _fatftc_getfree and its end.
LEMMA TakingOrder ==
  ASSUME CacheInv, Order, Assign \/ Fill \/ Filled \/ Copy \/ Mark
  PROVE  Order'
<1>a. Outcome /\ Rest /\ Purging /\ Found /\ TypeOK /\ Lists /\ Filling /\ CallOK
      /\ ent \in Idx /\ ent \in Buf
  BY FiniteIdx DEF Order, CacheInv, Control, Data, TypeOK
<1>b. poll = 0 /\ UNCHANGED <<bpurge, wr, call>> /\ wr = NoWr /\ \A x \in Dev : wr.dev # x
  BY Sizes DEF Assign, Fill, Filled, Copy, Mark, AtStep, NoWr, drvars
<1>1. Purging'
  <2>1. CASE Assign
    <3>1. ASSUME NEW x \in Dev, bpurge[x] PROVE FALSE
      <4>1. busy[x] = WriteSize /\ AtList(x, ent)
        BY <1>a, <3>1 DEF Purging, Purges
      <4>2. PICK k \in DOMAIN list[x] : list[x][k] = ent
        BY <4>1 DEF AtList
      <4>3. WriteList(x) /\ k \in 1 .. WriteSize
        BY <1>a, <4>1, <4>2, AtListFacts, Sizes DEF ReadList
      <4> QED BY <1>a, <2>1, <4>2, <4>3 DEF WriteList, Assign
    <3> QED BY <1>b, <3>1 DEF Purging, Purges
  <2>2. CASE Fill \/ Filled \/ Copy \/ Mark
    <3>1. pc # "evict"
      BY <2>2 DEF Fill, Filled, Copy, Mark, AtStep
    <3> QED BY <1>a, <1>b, <3>1, NotPurging
  <2> QED BY <2>1, <2>2
<1>2. /\ pc' = "idle" => poll' = 0
      /\ pc' \in {"idle", "overwrite", "fill", "filled", "copy", "mark"} /\ res' = "none"
  <2>1. CASE Assign
    BY <2>1 DEF Assign, Goto, GotoWith
  <2>2. CASE Fill
    BY <1>a, <2>2 DEF Fill, AtStep, Tick, NoTick, Stay, Goto, GotoWith, Return, Outcome
  <2>3. CASE Filled \/ Copy \/ Mark
    BY <1>a, <1>b, <2>3 DEF Filled, Copy, Mark, AtStep, Deliver, Goto, GotoWith, Return, Outcome
  <2> QED BY <2>1, <2>2, <2>3
<1>3. Outcome' /\ Rest'
  BY <1>b, <1>2 DEF Outcome, Rest
<1>4. Found'
  <2>1. CASE Assign
    <3>1. status' = [status EXCEPT ![ent] = {"USED"}] /\ ent' = ent
          /\ of' = [of EXCEPT ![ent] = [dev |-> call.dev, sec |-> call.sec]]
      BY <2>1 DEF Assign, Goto, GotoWith
    <3>2. status'[ent] = {"USED"} /\ of'[ent] = [dev |-> call.dev, sec |-> call.sec]
      BY <1>a, <3>1 DEF TypeOK
    <3> QED BY <1>b, <3>1, <3>2 DEF Found, Reading
  <2>2. CASE Fill
    <3>1. \/ pc' = "idle"
          \/ pc' \in {"fill", "filled"} /\ UNCHANGED <<status, of, ent>>
      BY <2>2 DEF Fill, AtStep, Stay, Goto, GotoWith, Return
    <3> QED BY <1>a, <1>b, <2>2, <3>1 DEF Found, Settled, Reading, Fill, AtStep
  <2>3. CASE Filled
    <3>1. \/ pc' = "idle"
          \/ pc' = "copy" /\ UNCHANGED <<of, ent>> /\ status' = ClearBusy(ent)
      BY <2>3 DEF Filled, Deliver, Goto, GotoWith, Return
    <3>2. status'[ent] = status[ent] \ {"BUSY"} \/ pc' = "idle"
      BY <1>a, <3>1 DEF ClearBusy, TypeOK
    <3> QED BY <1>a, <1>b, <2>3, <3>1, <3>2 DEF Found, Settled, Reading, Filled, AtStep
  <2>4. CASE Copy
    <3>1. pc \in Settled /\ pc' = "mark" /\ UNCHANGED <<status, of, ent>>
      BY <2>4 DEF Copy, Goto, GotoWith, AtStep, Settled
    <3> QED BY <1>a, <1>b, <3>1 DEF Found, Settled, Reading
  <2>5. CASE Mark
    BY <2>5 DEF Mark, Return, Found, Settled
  <2> QED BY <2>1, <2>2, <2>3, <2>4, <2>5
<1> QED BY <1>1, <1>3, <1>4 DEF Order

LEMMA NextOrder ==
  ASSUME CacheInv, Order, [Next]_vars
  PROVE  Order'
<1>a. Outcome /\ Rest /\ Purging /\ Found
  BY DEF Order
<1>1. CASE PowerFail
  <2>1. /\ pc' = "idle" /\ res' = "none" /\ wr' = NoWr /\ poll' = 0 /\ call' = NoCall
        /\ bpurge' = [d \in Dev |-> FALSE]
    BY <1>1 DEF PowerFail
  <2>2. \A d \in Dev : ~ bpurge'[d] /\ wr'.dev # d
    BY <2>1, Sizes DEF NoWr
  <2> QED BY <2>1, <2>2 DEF Order, Outcome, Rest, Purging, Purges, Found, Settled
<1>2. CASE (\E d \in Dev : Device(d) \/ BackgroundBegins(d)) \/ UNCHANGED vars
  <2>1. UNCHANGED <<status, of, busy, list, bpurge, call, pc, ent, res, wr, poll>>
    BY <1>2 DEF Device, Programmed, BackgroundDone, BackgroundBegins, vars, bbvars, drvars, cvars
  <2> QED BY <1>a, <2>1 DEF Order, Outcome, Rest, Purging, Purges, AtList, Found, Settled, Reading
<1>3. CASE Begin \/ Run
  <2>1. CASE \/ Begin \/ Ticked \/ Find \/ Lookup \/ Hit \/ Miss \/ GetFree
             \/ FlushWait \/ FlushBusy \/ FlushPoll \/ FlushNext \/ PollIdle
    BY <2>1, QuietOrder
  <2>2. CASE WriteEntry \/ WriteDone
    BY <2>2, WritingOrder
  <2>3. CASE PollWrite \/ PollRead
    BY <2>3, PollingOrder
  <2>4. CASE Evict \/ FlushEntry
    BY <2>4, WriteOutOrder
  <2>5. CASE Assign \/ Fill \/ Filled \/ Copy \/ Mark
    BY <2>5, TakingOrder
  <2> QED BY <1>3, <2>1, <2>2, <2>3, <2>4, <2>5 DEF Run
<1> QED BY <1>1, <1>2, <1>3 DEF Next

LEMMA OrderAlways == Spec => [](CacheInv /\ Order)
<1>1. Init => CacheInv /\ Order
  BY InitInv, InitOrder
<1>2. CacheInv /\ Order /\ [Next]_vars => CacheInv' /\ Order'
  BY NextInv, NextOrder
<1> QED BY <1>1, <1>2, PTL DEF Spec

-----------------------------------------------------------------------------
(* fatftc_read *)

\* The only entry a reader finds is the one that was found or filled.
LEMMA OnlyEntry ==
  ASSUME NoDuplicates, NEW i \in Idx, "USED" \in status[i], ~ Reading(i), ~ Pending(i),
         NEW d \in Dev, NEW s \in Sec, of[i] = [dev |-> d, sec |-> s]
  PROVE  view[<<d, s>>] = buf[i]
<1> DEFINE S == {j \in Cached(d, s) : Holds(j)}
<1>1. S = {i}
  <2>1. i \in S
    BY DEF Cached, Holds
  <2>2. ASSUME NEW j \in S PROVE j = i
    BY DEF Cached, NoDuplicates
  <2> HIDE DEF S
  <2> QED BY <2>1, <2>2
<1>2. Max(S) = i
  <2>1. S \in SUBSET Idx /\ S # {}
    BY <1>1
  <2> HIDE DEF S
  <2>2. Max(S) \in S
    BY <2>1, MaxIn
  <2> QED BY <1>1, <2>2
<1>3. <<d, s>> \in Dev \X Sec /\ <<d, s>>[1] = d /\ <<d, s>>[2] = s
  OBVIOUS
<1>4. view[<<d, s>>] = IF S = {} THEN OnDisk(d, s) ELSE buf[Max(S)]
  BY <1>3 DEF view
<1> HIDE DEF S
<1> QED BY <1>1, <1>2, <1>4

\* fatftc_read returns a buffer that holds the sector asked for: ReadCurrent
\* is about what it returns, whatever the devices did and whatever fat_tick
\* wrote, read or freed while the call waited.
THEOREM ReadsCurrent == Spec => ReadCurrent
<1> DEFINE Right == (call.op = "read" /\ pc # "idle" /\ pc' = "idle" /\ ret' = "ok")
                       => view[<<call.dev, call.sec>>] = buf[ent]
                          /\ of'[ent] = [dev |-> call.dev, sec |-> call.sec]
<1>1. ASSUME CacheInv, Order, Next PROVE Right
  <2> SUFFICES ASSUME call.op = "read", pc # "idle", pc' = "idle", ret' = "ok"
               PROVE  /\ view[<<call.dev, call.sec>>] = buf[ent]
                      /\ of'[ent] = [dev |-> call.dev, sec |-> call.sec]
    OBVIOUS
  <2>a. TypeOK /\ CallOK /\ NoDuplicates /\ Rest /\ Found
    BY <1>1 DEF CacheInv, Control, Data, Order
  <2>1. Hit \/ Filled
    <3>1. CASE PowerFail \/ \E d \in Dev : Device(d) \/ BackgroundBegins(d)
      BY <3>1 DEF PowerFail, Device, Programmed, BackgroundDone, BackgroundBegins, cvars
    <3>2. CASE Begin \/ Ticked
      BY <2>a, <3>2 DEF Begin, Ticked, AtStep, Rest
    <3>3. CASE Lookup
      BY <3>3, Zenon DEF Lookup, Goto, GotoWith, Return
    <3>4. CASE Find \/ Miss \/ GetFree \/ Evict \/ Assign \/ Fill
      BY <3>4 DEF Find, Miss, GetFree, Evict, Assign, Fill, AtStep, Stay, Goto, GotoWith, Return
    <3>5. CASE Copy \/ Mark
      BY <2>a, <3>5 DEF Copy, Mark, AtStep, CallOK, Storing, Writing
    <3>6. CASE FlushWait \/ FlushBusy \/ FlushEntry \/ FlushPoll \/ FlushNext
      <4>1. pc \in Flushing
        BY <3>6 DEF FlushWait, FlushBusy, FlushEntry, FlushPoll, FlushNext, AtStep, Flushing
      <4> QED BY <2>a, <4>1 DEF CallOK
    <3>7. CASE WriteEntry \/ WriteDone \/ PollIdle \/ PollWrite \/ PollRead
      BY <3>7 DEF WriteEntry, WriteDone, PollIdle, PollWrite, PollRead, cvars
    <3> QED BY <1>1, <3>1, <3>2, <3>3, <3>4, <3>5, <3>6, <3>7 DEF Next, Run
  <2>2. /\ of' = of /\ pc \in {"hit", "filled"}
    BY <2>1 DEF Hit, Filled, AtStep, bbvars
  <2>3. /\ ent \in Idx /\ "USED" \in status[ent] /\ ~ Reading(ent) /\ ~ Pending(ent)
        /\ of[ent] = [dev |-> call.dev, sec |-> call.sec]
    BY <2>a, <2>2 DEF TypeOK, Found, Settled, Pending
  <2>4. call.dev \in Dev /\ call.sec \in Sec
    BY <2>a, <2>2, CallFacts DEF Asking
  <2>5. view[<<call.dev, call.sec>>] = buf[ent]
    <3> DEFINE d == call.dev
               s == call.sec
    <3>1. d \in Dev /\ s \in Sec /\ of[ent] = [dev |-> d, sec |-> s]
      BY <2>3, <2>4
    <3> HIDE DEF d, s
    <3>2. view[<<d, s>>] = buf[ent]
      BY <2>a, <2>3, <3>1, OnlyEntry
    <3> QED BY <3>2 DEF d, s
  <2> QED BY <2>2, <2>3, <2>5
<1>2. CacheInv /\ Order /\ [Next]_vars => [Right]_vars
  BY <1>1
<1>3. Spec => [](CacheInv /\ Order)
  BY OrderAlways
<1> HIDE DEF Right
<1>4. Spec => [][Right]_vars
  BY <1>2, <1>3, PTL DEF Spec
<1> QED BY <1>4 DEF Right, ReadCurrent

-----------------------------------------------------------------------------
(* What the devices are doing *)

\* A call with FTC_WAIT leaves nothing to fat_tick: a device is busy only with
\* the write the call waits for.
WaitedFor(d) == /\ pc \in {"evict", "flush"} /\ res \in {"none", "busy"} /\ busy[d] = WriteSize
                /\ pc = "evict" => AtList(d, ent)
                /\ pc = "flush" => d = call.dev /\ (res = "busy" \/ (wr # NoWr /\ poll = 0))
Waited == FALSE \notin Waits => \A d \in Dev : busy[d] # 0 => WaitedFor(d)

\* Sectors are queued only in devices that queue, and only for a write in progress.
Chips == \A d \in Dev : /\ chip[d] \in {"idle", "background"} => inflight[d] = {}
                        /\ chip[d] = "loading" => wr.dev = d /\ wr.len > 0
                        /\ chip[d] = "program" => wr.dev # d /\ busy[d] = WriteSize
                        /\ chip[d] \in {"loading", "program"} => d \in Queueing

\* Any other device is left with sectors to write.
Suspended == \A d \in Dev : busy[d] = WriteSize /\ wr.dev # d /\ d \notin Queueing
                               => bcount[d] > 0

Devices == Waited /\ Chips /\ Suspended

LEMMA InitDevices == Init => Devices
<1> SUFFICES ASSUME Init PROVE Devices
  OBVIOUS
<1>1. \A d \in Dev : busy[d] = 0 /\ chip[d] = "idle" /\ inflight[d] = {}
  BY DEF Init
<1> QED BY <1>1, Sizes DEF Devices, Waited, Chips, Suspended

\* With FTC_WAIT one device is busy at most.
LEMMA OneBusy ==
  ASSUME TypeOK, Lists, Waited, FALSE \notin Waits, NEW d \in Dev, busy[d] # 0
  PROVE  /\ WaitedFor(d)
         /\ pc = "evict" => DevOf(ent) = d
         /\ \A x \in Dev : busy[x] # 0 => x = d
<1>1. ASSUME NEW x \in Dev, busy[x] # 0
      PROVE  WaitedFor(x) /\ (pc = "evict" => DevOf(ent) = x)
  <2>1. WaitedFor(x) /\ ent \in Idx
    BY <1>1 DEF Waited, TypeOK
  <2>2. ASSUME pc = "evict" PROVE DevOf(ent) = x
    <3>1. PICK k \in DOMAIN list[x] : list[x][k] = ent
      BY <2>1, <2>2 DEF WaitedFor, AtList
    <3> QED BY <2>1, <3>1, AtListFacts
  <2> QED BY <2>1, <2>2
<1>2. \A x \in Dev : busy[x] # 0 => x = d
  <2> SUFFICES ASSUME NEW x \in Dev, busy[x] # 0 PROVE x = d
    OBVIOUS
  <2>1. /\ WaitedFor(x) /\ (pc = "evict" => DevOf(ent) = x)
        /\ WaitedFor(d) /\ (pc = "evict" => DevOf(ent) = d)
    BY <1>1
  <2> QED BY <2>1 DEF WaitedFor
<1> QED BY <1>1, <1>2

\* Every call waits.
LEMMA AllWait ==
  ASSUME TypeOK, CallOK, FALSE \notin Waits, pc \in Asking \cup Flushing
  PROVE  call.wait
<1>1. /\ call.op \in {"write", "overwrite"} => call.wait \in Waits
      /\ call.op = "read" => call.wait \in Waits
      /\ call.op = "flush" => call.wait \in Waits
  BY DEF TypeOK, Calls, NoCall
<1>2. call.wait \in Waits
  BY <1>1 DEF CallOK
<1> QED BY <1>2, FlagAssumption

\* Steps of a call that leave devices and lists alone.
LEMMA QuietDevices ==
  ASSUME CacheInv, Devices, UNCHANGED <<busy, list, bcount, chip, inflight, wr>>,
         FALSE \notin Waits => \A d \in Dev : busy[d] # 0 => WaitedFor(d)'
  PROVE  Devices'
BY DEF Devices, Waited, Chips, Suspended

LEMMA CallDevices ==
  ASSUME CacheInv, Order, Devices,
         \/ Begin \/ Ticked \/ Find \/ Lookup \/ Hit \/ Miss \/ GetFree \/ Assign \/ Filled
         \/ Copy \/ Mark \/ FlushWait \/ FlushBusy \/ FlushPoll \/ FlushNext \/ PollIdle
  PROVE  Devices'
<1>a. TypeOK /\ CallOK /\ Lists /\ Waited /\ Outcome
  BY DEF CacheInv, Control, Data, Devices, Order
<1>b. UNCHANGED <<busy, list, bcount, chip, inflight, wr>>
  BY DEF Begin, Ticked, Find, Lookup, Hit, Miss, GetFree, Assign, Filled, Copy, Mark, FlushWait,
     FlushBusy, FlushPoll, FlushNext, PollIdle, drvars, devvars
<1>1. ASSUME FALSE \notin Waits, NEW d \in Dev, busy[d] # 0 PROVE WaitedFor(d)'
  <2>1. WaitedFor(d)
    BY <1>1, <1>a, OneBusy
  <2>2. CASE PollIdle
    <3>1. UNCHANGED <<call, pc, ent, res>> /\ wr = NoWr
      BY <2>2 DEF PollIdle, Polling, cvars
    <3> QED BY <2>1, <1>b, <3>1 DEF WaitedFor, AtList
  <2>3. CASE FlushPoll
    <3>1. pc = "flush" /\ res = "busy" /\ call' = call
      BY <2>3 DEF FlushPoll, AtStep
    <3>2. call.wait
      BY <1>a, <1>1, <3>1, AllWait DEF Flushing
    <3>3. UNCHANGED <<pc, ent, res>>
      BY <2>3, <3>2 DEF FlushPoll, Stay, Goto, GotoWith
    <3> QED BY <2>1, <1>b, <3>1, <3>3 DEF WaitedFor, AtList
  <2>4. CASE FlushNext
    <3>1. pc = "flush" /\ wr = NoWr /\ Flushed
      BY <2>4, Zenon DEF FlushNext, AtStep
    <3> QED BY <2>1, <1>1, <3>1 DEF WaitedFor, Flushed
  <2>5. CASE Assign
    <3>1. pc = "evict" /\ "DIRTY" \notin status[ent] /\ ent \in Idx
      BY <1>a, <2>5 DEF Assign, AtStep, TypeOK
    <3>2. PICK k \in DOMAIN list[d] : list[d][k] = ent
      BY <2>1, <3>1 DEF WaitedFor, AtList
    <3>3. WriteList(d) /\ k \in 1 .. WriteSize
      BY <1>a, <2>1, <3>2, AtListFacts, Sizes DEF ReadList, WaitedFor
    <3> QED BY <3>1, <3>2, <3>3 DEF WriteList
  <2>6. CASE \/ Begin \/ Ticked \/ Find \/ Lookup \/ Hit \/ Miss \/ GetFree \/ Filled
             \/ Copy \/ Mark \/ FlushWait \/ FlushBusy
    <3>1. pc \notin {"evict", "flush"}
      BY <2>6 DEF Begin, Ticked, Find, Lookup, Hit, Miss, GetFree, Filled, Copy, Mark, FlushWait,
         FlushBusy, AtStep
    <3> QED BY <2>1, <3>1 DEF WaitedFor
  <2> QED BY <2>2, <2>3, <2>4, <2>5, <2>6
<1> QED BY <1>b, <1>1, QuietDevices

LEMMA FillDevices ==
  ASSUME CacheInv, Devices, Fill
  PROVE  Devices'
<1>a. /\ TypeOK /\ CallOK /\ Lists /\ Filling /\ Waited /\ Chips /\ Suspended
      /\ UNCHANGED <<bcount, chip, inflight, wr>> /\ pc = "fill"
  BY DEF CacheInv, Control, Data, Devices, Fill, AtStep, devvars
<1>b. call.dev \in Dev /\ busy[call.dev] = 0 /\ (FALSE \notin Waits => call.wait)
  BY <1>a, CallFacts, AllWait DEF Filling, Asking
<1>c. ASSUME FALSE \notin Waits, NEW d \in Dev, busy[d] # 0 PROVE FALSE
  BY <1>a, <1>c, OneBusy DEF WaitedFor
<1>1. CASE UNCHANGED <<busy, list>>
  BY <1>1, <1>a, <1>c, QuietDevices
<1>2. CASE ~ call.wait /\ busy' = [busy EXCEPT ![call.dev] = READ]
  <2>1. FALSE \in Waits
    BY <1>b, <1>2
  <2>2. \A d \in Dev : busy'[d] = WriteSize <=> busy[d] = WriteSize
    BY <1>a, <1>b, <1>2, Sizes DEF TypeOK
  <2> QED BY <1>a, <2>1, <2>2 DEF Devices, Waited, Chips, Suspended
<1> QED BY <1>1, <1>2 DEF Fill

LEMMA WriteOutDevices ==
  ASSUME CacheInv, Order, Devices, Evict \/ FlushEntry
  PROVE  Devices'
<1>a. /\ TypeOK /\ CallOK /\ Lists /\ ent \in Idx /\ Waited /\ Chips /\ Suspended
      /\ UNCHANGED <<bcount, chip, inflight, call>> /\ wr = NoWr /\ poll = 0
  BY DEF CacheInv, Control, Data, Devices, Evict, FlushEntry, AtStep, devvars, TypeOK
<1>b. \A d \in Dev : NoWr.dev # d
  BY Sizes DEF NoWr
<1>1. ASSUME NEW purge \in BOOLEAN, DevWrite(ent, purge), res = "none",
             UNCHANGED <<pc, ent, poll>>,
             \/ pc = "evict" /\ "DIRTY" \in status[ent]
             \/ pc = "flush" /\ DevOf(ent) = call.dev
      PROVE  Devices'
  <2>1. PICK d \in Dev : /\ d = DevOf(ent)
                         /\ \/ WriteRefused(d, ent) \/ WriteNeedless(d, ent)
                            \/ WriteBegins(d, ent, purge) \/ WriteUnread(d, ent)
    BY <1>a, <1>1, DevWriteCases
  <2>2. ASSUME FALSE \notin Waits, NEW x \in Dev, busy[x] # 0
        PROVE  WaitedFor(x) /\ pc = "evict" /\ x = d
    <3>1. WaitedFor(x) /\ (pc = "evict" => DevOf(ent) = x)
      BY <1>a, <2>2, OneBusy
    <3> QED BY <1>a, <1>1, <2>1, <3>1 DEF WaitedFor
  <2>3. CASE wr' = wr /\ UNCHANGED <<busy, list>> /\ (res' = "busy" \/ busy[d] = 0)
    <3>1. ASSUME FALSE \notin Waits, NEW x \in Dev, busy[x] # 0 PROVE WaitedFor(x)'
      BY <1>1, <1>a, <2>2, <2>3, <3>1 DEF WaitedFor, AtList
    <3> QED BY <1>a, <2>3, <3>1, QuietDevices
  <2>4. CASE WriteBegins(d, ent, purge)
    <3>1. /\ busy[d] = 0 /\ chip[d] = "idle" /\ res' = res
          /\ wr' = [dev |-> d, len |-> WriteSize, purge |-> purge]
          /\ busy'[d] = WriteSize /\ DOMAIN list'[d] = 1 .. WriteSize /\ list'[d][1] = ent
          /\ \A x \in Dev \ {d} : busy'[x] = busy[x] /\ list'[x] = list[x]
      BY <2>4 DEF WriteBegins
    <3>2. AtList(d, ent)' /\ wr' # NoWr
      <4>1. 1 \in 1 .. WriteSize /\ wr'.dev = d
        BY <3>1, Sizes
      <4> QED BY <1>1, <1>b, <3>1, <4>1 DEF AtList
    <3>3. Waited'
      <4> SUFFICES ASSUME FALSE \notin Waits, NEW x \in Dev, busy'[x] # 0 PROVE WaitedFor(x)'
        BY DEF Waited
      <4>1. x = d
        BY <2>2, <3>1
      <4> QED BY <1>1, <1>a, <2>1, <3>1, <3>2, <4>1 DEF WaitedFor
    <3>4. Chips'
      <4>1. \A x \in Dev \ {d} : chip[x] # "loading"
        BY <1>a, <1>b DEF Chips
      <4> QED BY <1>a, <3>1, <4>1 DEF Chips
    <3>5. Suspended'
      BY <1>a, <1>b, <3>1 DEF Suspended
    <3> QED BY <3>3, <3>4, <3>5 DEF Devices
  <2> QED BY <2>1, <2>3, <2>4 DEF WriteRefused, WriteNeedless, WriteUnread
<1>2. CASE FlushEntry
  <2>1. /\ DevWrite(ent, FALSE) /\ res = "none" /\ UNCHANGED <<pc, ent, poll>> /\ pc = "flush"
        /\ DevOf(ent) = call.dev /\ FALSE \in BOOLEAN
    BY <1>2 DEF FlushEntry, AtStep, OnDevice
  <2> QED BY <1>1, <2>1
<1>3. CASE Evict
  <2>1. pc = "evict" /\ "DIRTY" \in status[ent]
    BY <1>3 DEF Evict, AtStep
  <2>2. CASE res = "none" /\ DevWrite(ent, TRUE) /\ Stay /\ UNCHANGED poll
    <3>1. UNCHANGED <<pc, ent, poll>> /\ TRUE \in BOOLEAN
      BY <2>2 DEF Stay, Goto, GotoWith
    <3> QED BY <1>1, <2>1, <2>2, <3>1
  <2>3. CASE /\ res = "busy" /\ res' = "none" /\ Tick /\ Stay
             /\ UNCHANGED <<bbvars, lru, busy, list, wr>>
    <3>1. UNCHANGED <<pc, ent, wr, busy, list>>
      BY <2>3 DEF Stay, Goto, GotoWith
    <3>2. ASSUME FALSE \notin Waits, NEW x \in Dev, busy[x] # 0 PROVE WaitedFor(x)'
      BY <1>a, <2>1, <2>3, <3>1, <3>2, OneBusy DEF WaitedFor, AtList
    <3> QED BY <1>a, <3>1, <3>2, QuietDevices
  <2>4. CASE /\ res = "err" /\ res' = "none" /\ Return("err")
             /\ UNCHANGED <<poll, bbvars, lru, busy, list, wr>>
    <3>1. ASSUME FALSE \notin Waits, NEW x \in Dev, busy[x] # 0 PROVE FALSE
      BY <1>a, <2>4, <3>1, OneBusy DEF WaitedFor
    <3> QED BY <1>a, <2>4, <3>1, QuietDevices
  <2> QED BY <1>3, <2>2, <2>3, <2>4, Zenon DEF Evict
<1> QED BY <1>2, <1>3

\* The end of a write on device d: with FTC_WAIT nothing is left, or the call waits.
LEMMA EndWaited ==
  ASSUME CacheInv, Order, Waited, NEW d \in Dev, wr # NoWr, wr.dev = d, busy[d] # 0,
         NEW r \in {"ok", "busy", "err"}, EndWrite(r), UNCHANGED <<call, pc, ent>>,
         \A x \in Dev \ {d} : busy'[x] = busy[x] /\ list'[x] = list[x],
         busy'[d] = 0 \/ (r = "busy" /\ busy'[d] = busy[d] /\ list'[d] = list[d])
  PROVE  Waited'
<1> SUFFICES ASSUME FALSE \notin Waits, NEW x \in Dev, busy'[x] # 0 PROVE WaitedFor(x)'
  BY DEF Waited
<1>a. TypeOK /\ Lists
  BY DEF CacheInv, Data
<1>1. \A y \in Dev : busy[y] # 0 => y = d
  BY <1>a, OneBusy
<1>2. x = d /\ r = "busy" /\ busy'[d] = busy[d] /\ list'[d] = list[d]
  BY <1>1
<1>3. WaitedFor(d)
  BY <1>a, OneBusy
<1>4. res' = "busy" \/ (res' = res /\ poll # 0)
  BY <1>2 DEF EndWrite
<1> QED BY <1>2, <1>3, <1>4 DEF WaitedFor, AtList

LEMMA WritingDevices ==
  ASSUME CacheInv, Order, Devices, WriteEntry \/ WriteDone
  PROVE  Devices'
<1>a. /\ TypeOK /\ Lists /\ Waited /\ Chips /\ Suspended
      /\ \A x \in Dev : NoWr.dev # x
  BY Sizes DEF CacheInv, Data, Devices, NoWr
<1>1. CASE WriteEntry
  <2>1. PICK d \in Dev, k \in 1 .. WriteSize, e \in Buf :
            /\ wr # NoWr /\ d = wr.dev /\ k = wr.len /\ WriteList(d)
            /\ UNCHANGED <<of, buf, call, pc, ent, ret>>
            /\ \/ d \notin Queueing /\ chip[d] = "idle" /\ Stored(d, e) /\ Going(d, e, k)
               \/ /\ d \in Queueing /\ k > 1 /\ chip[d] \in {"idle", "loading"}
                  /\ Queued(d, e, "loading") /\ Going(d, e, k)
               \/ /\ d \in Queueing /\ k = 1 /\ chip[d] \in {"idle", "loading"}
                  /\ Queued(d, e, "program") /\ Left(d, e, 0)
               \/ chip[d] = "background" /\ UNCHANGED devvars /\ Left(d, e, k)
               \/ chip[d] = "idle" /\ UNCHANGED devvars /\ Failed(d)
    BY <1>1, EntryFacts
  <2>2. /\ busy[d] = WriteSize /\ busy[d] # 0 /\ k \in Nat /\ k > 0
        /\ \A x \in Dev \ {d} : wr.dev # x /\ chip[x] # "loading"
    BY <1>a, <2>1, Sizes DEF WriteList, Chips
  <2>3. CASE Going(d, e, k)
    <3>1. /\ UNCHANGED <<busy, list, bcount, res, poll>>
          /\ wr' = [dev |-> d, len |-> k - 1, purge |-> wr.purge] /\ wr' # NoWr
      <4>1. /\ UNCHANGED <<busy, list, bcount, res, poll>>
            /\ wr' = [dev |-> d, len |-> k - 1, purge |-> wr.purge]
        BY <2>3 DEF Going
      <4>2. wr'.dev = d
        BY <4>1
      <4> QED BY <1>a, <4>1, <4>2
    <3>2. Waited'
      BY <1>a, <2>1, <3>1 DEF Waited, WaitedFor, AtList
    <3>3. Suspended'
      BY <1>a, <2>1, <3>1 DEF Suspended
    <3>4. Chips'
      <4>1. CASE chip[d] = "idle" /\ Stored(d, e)
        BY <1>a, <2>1, <2>2, <3>1, <4>1 DEF Chips, Stored
      <4>2. CASE k > 1 /\ d \in Queueing /\ Queued(d, e, "loading")
        <5>1. /\ chip'[d] = "loading" /\ wr'.dev = d /\ wr'.len > 0
              /\ \A x \in Dev \ {d} : inflight'[x] = inflight[x] /\ chip'[x] = chip[x]
          BY <2>2, <3>1, <4>2 DEF Queued
        <5> QED BY <1>a, <2>1, <2>2, <3>1, <4>2, <5>1 DEF Chips
      <4>3. CASE Left(d, e, 0) \/ Left(d, e, k) \/ Failed(d)
        BY <2>1, <3>1, <4>3 DEF Left, Failed, EndWrite
      <4> QED BY <2>1, <4>1, <4>2, <4>3
    <3> QED BY <3>2, <3>3, <3>4 DEF Devices
  <2>4. CASE Left(d, e, 0) \/ Left(d, e, k)
    <3>1. /\ UNCHANGED <<busy, list>> /\ EndWrite("busy") /\ wr' = NoWr
          /\ \A x \in Dev \ {d} : bcount'[x] = bcount[x]
      BY <2>4 DEF Left, EndWrite
    <3>2. Waited'
      BY <1>a, <2>1, <2>2, <3>1, EndWaited
    <3>3. CASE d \in Queueing /\ Queued(d, e, "program")
      <4>1. /\ chip'[d] = "program"
            /\ \A x \in Dev \ {d} : inflight'[x] = inflight[x] /\ chip'[x] = chip[x]
        BY <3>3 DEF Queued
      <4>2. Chips'
        BY <1>a, <2>2, <3>1, <3>3, <4>1 DEF Chips
      <4>3. Suspended'
        BY <1>a, <2>1, <3>1, <3>3 DEF Suspended
      <4> QED BY <3>2, <4>2, <4>3 DEF Devices
    <3>4. CASE chip[d] = "background" /\ UNCHANGED devvars /\ Left(d, e, k)
      <4>1. Chips'
        BY <1>a, <2>2, <3>1, <3>4 DEF Chips, devvars
      <4>2. Suspended'
        BY <1>a, <2>1, <2>2, <3>1, <3>4 DEF Suspended, Left
      <4> QED BY <3>2, <4>1, <4>2 DEF Devices
    <3>5. ASSUME Going(d, e, k) \/ Failed(d) PROVE FALSE
      <4>1. ASSUME Going(d, e, k) PROVE FALSE
        BY <1>a, <2>1, <3>1, <4>1 DEF Going
      <4>2. ASSUME Failed(d) PROVE FALSE
        BY <2>2, <3>1, <4>2 DEF Failed, Ended
      <4> QED BY <3>5, <4>1, <4>2
    <3> QED BY <2>1, <3>3, <3>4, <3>5
  <2>5. CASE Failed(d) /\ chip[d] = "idle" /\ UNCHANGED devvars
    <3>1. /\ busy'[d] = 0 /\ EndWrite("err") /\ wr' = NoWr
          /\ \A x \in Dev \ {d} : /\ busy'[x] = busy[x] /\ list'[x] = list[x]
                                   /\ bcount'[x] = bcount[x]
      BY <2>5 DEF Failed, Ended, EndWrite
    <3>2. Waited'
      BY <1>a, <2>1, <2>2, <3>1, EndWaited
    <3>3. Chips'
      BY <1>a, <2>2, <2>5, <3>1 DEF Chips, devvars
    <3>4. Suspended'
      BY <1>a, <2>1, <3>1, Sizes DEF Suspended
    <3> QED BY <3>2, <3>3, <3>4 DEF Devices
  <2> QED BY <2>1, <2>3, <2>4, <2>5
<1>2. CASE WriteDone
  <2>1. PICK d \in Dev :
            /\ wr # NoWr /\ d = wr.dev /\ wr.len = 0 /\ WriteList(d)
            /\ UNCHANGED <<chip, inflight, call, pc, ent>>
            /\ Ended(d) /\ EndWrite("ok")
    BY <1>2, DoneFacts
  <2>2. /\ busy[d] # 0 /\ chip[d] \notin {"loading", "program"}
        /\ \A x \in Dev \ {d} : wr.dev # x /\ chip[x] # "loading"
    BY <1>a, <2>1, Sizes DEF WriteList, Chips
  <2>3. /\ busy'[d] = 0 /\ wr' = NoWr
        /\ \A x \in Dev \ {d} : busy'[x] = busy[x] /\ list'[x] = list[x] /\ bcount'[x] = bcount[x]
    BY <2>1 DEF Ended, EndWrite
  <2>4. Waited'
    BY <1>a, <2>1, <2>2, <2>3, EndWaited
  <2>5. Chips'
    BY <1>a, <2>1, <2>2, <2>3 DEF Chips
  <2>6. Suspended'
    BY <1>a, <2>1, <2>3, Sizes DEF Suspended
  <2> QED BY <2>4, <2>5, <2>6 DEF Devices
<1> QED BY <1>1, <1>2

LEMMA PollingDevices ==
  ASSUME CacheInv, Devices, PollWrite \/ PollRead
  PROVE  Devices'
<1>a. /\ TypeOK /\ Lists /\ Waited /\ Chips /\ Suspended /\ poll # 0
      /\ \A x \in Dev : NoWr.dev # x
  BY Sizes DEF CacheInv, Data, Devices, NoWr, PollWrite, PollRead, Polling
<1>1. CASE PollWrite
  <2>1. PICK d \in Dev :
            /\ poll = d /\ wr = NoWr /\ chip[d] = "idle"
            /\ wr' = [dev |-> d, len |-> bcount[d], purge |-> bpurge[d]]
            /\ UNCHANGED <<of, buf, busy, list, bcount, bpurge, disk, chip, inflight,
                           call, pc, ent, res, ret, poll>>
    BY <1>1, PollWriteFacts
  <2>2. Waited'
    BY <1>a, <2>1 DEF Waited, WaitedFor, AtList
  <2>3. Chips' /\ Suspended'
    BY <1>a, <2>1 DEF Chips, Suspended
  <2> QED BY <2>2, <2>3 DEF Devices
<1>2. CASE PollRead
  <2>1. PICK d \in Dev :
            /\ poll = d /\ wr = NoWr /\ chip[d] = "idle" /\ ReadList(d)
            /\ UNCHANGED <<of, disk, chip, inflight, call, pc, ent, res, ret, wr>>
            /\ Ended(d)
    BY <1>2, PollReadFacts
  <2>2. FALSE \in Waits
    <3> SUFFICES ASSUME FALSE \notin Waits PROVE FALSE
      OBVIOUS
    <3>1. busy[d] = READ /\ busy[d] # 0
      BY <2>1, Sizes DEF ReadList
    <3> QED BY <1>a, <3>1, OneBusy, Sizes DEF WaitedFor
  <2>3. /\ busy'[d] = 0
        /\ \A x \in Dev \ {d} : busy'[x] = busy[x] /\ bcount'[x] = bcount[x]
    BY <2>1 DEF Ended
  <2>4. Chips'
    BY <1>a, <2>1, <2>3 DEF Chips
  <2>5. Suspended'
    BY <1>a, <2>1, <2>3, Sizes DEF Suspended
  <2> QED BY <2>2, <2>4, <2>5 DEF Devices, Waited
<1> QED BY <1>1, <1>2

LEMMA NextDevices ==
  ASSUME CacheInv, Order, Devices, [Next]_vars
  PROVE  Devices'
<1>a. TypeOK /\ Waited /\ Chips /\ Suspended
  BY DEF CacheInv, Devices
<1>1. CASE PowerFail
  <2>1. /\ busy' = [d \in Dev |-> 0] /\ wr' = NoWr /\ chip' = [d \in Dev |-> "idle"]
        /\ inflight' = [d \in Dev |-> {}]
    BY <1>1 DEF PowerFail
  <2>2. \A d \in Dev : busy'[d] = 0 /\ chip'[d] = "idle" /\ inflight'[d] = {}
    BY <2>1
  <2> QED BY <2>2, Sizes DEF Devices, Waited, Chips, Suspended
<1>2. CASE \E d \in Dev : Device(d) \/ BackgroundBegins(d)
  <2>1. PICK d \in Dev : Programmed(d) \/ BackgroundDone(d) \/ BackgroundBegins(d)
    BY <1>2 DEF Device
  <2>2. UNCHANGED <<busy, list, bcount, call, pc, ent, res, wr, poll>>
    BY <2>1 DEF Programmed, BackgroundDone, BackgroundBegins, drvars, cvars
  <2>3. Waited' /\ Suspended'
    BY <1>a, <2>2 DEF Waited, WaitedFor, AtList, Suspended
  <2>4. Chips'
    BY <1>a, <2>1, <2>2 DEF Chips, Programmed, BackgroundDone, BackgroundBegins, TypeOK
  <2> QED BY <2>3, <2>4 DEF Devices
<1>3. CASE UNCHANGED vars
  BY <1>a, <1>3 DEF vars, drvars, devvars, cvars, Devices, Waited, WaitedFor, AtList, Chips,
     Suspended
<1>4. CASE Begin \/ Run
  <2>1. CASE \/ Begin \/ Ticked \/ Find \/ Lookup \/ Hit \/ Miss \/ GetFree \/ Assign \/ Filled
             \/ Copy \/ Mark \/ FlushWait \/ FlushBusy \/ FlushPoll \/ FlushNext \/ PollIdle
    BY <2>1, CallDevices
  <2>2. CASE Fill
    BY <2>2, FillDevices
  <2>3. CASE Evict \/ FlushEntry
    BY <2>3, WriteOutDevices
  <2>4. CASE WriteEntry \/ WriteDone
    BY <2>4, WritingDevices
  <2>5. CASE PollWrite \/ PollRead
    BY <2>5, PollingDevices
  <2> QED BY <1>4, <2>1, <2>2, <2>3, <2>4, <2>5 DEF Run
<1> QED BY <1>1, <1>2, <1>3, <1>4 DEF Next

-----------------------------------------------------------------------------
(* What the entries hold *)

\* How many sectors of the list of device d it has not been given.
Due(d) == IF wr.dev = d THEN wr.len ELSE bcount[d]

\* A write in progress: its list has every sector once, what has been given to
\* the device is or will be on it, and so will what the page buffers hold.
Given(d, k) == k > Due(d) \/ list[d][k] \in Page
Carried(d) ==
  /\ inflight[d] # {} => busy[d] = WriteSize
  /\ busy[d] = WriteSize =>
        /\ list[d][1] \in Idx
        /\ \A k, m \in 1 .. WriteSize : SecOf(list[d][k]) = SecOf(list[d][m]) => k = m
        /\ \A k \in 1 .. WriteSize : Given(d, k) =>
              OnDisk(d, SecOf(list[d][k])) = buf[list[d][k]]
        /\ \A r \in inflight[d] : \E k \in 1 .. WriteSize :
              k > Due(d) /\ r = [sec |-> SecOf(list[d][k]), val |-> buf[list[d][k]]]

\* The data of the call is in its buffer before the entry is marked.
Copied == pc = "mark" => buf[ent] = call.val

Contents == CleanMatches /\ Copied /\ \A d \in Dev : Carried(d)

\* Devices that can be written; calls that leave writes to fat_tick only with
\* one sector in a page, and none that queue it; and, where power may fail,
\* removable devices, whose clean entries are dropped then.
Careful == /\ ReadOnly = {}
           /\ FALSE \in Waits => WriteSize = 1 /\ Queueing = {}
           /\ PowerFails => Removable = Dev

\* OnDisk, as a function of what it is taken from.
Landed(F, s, v) == IF \E r \in F : r.sec = s THEN (CHOOSE r \in F : r.sec = s).val ELSE v

LEMMA LandedFacts ==
  ASSUME NEW F, NEW s, NEW v
  PROVE  /\ (\A r \in F : r.sec # s) => Landed(F, s, v) = v
         /\ \A r \in F : r.sec = s /\ (\A q \in F : q.sec = s => q = r) => Landed(F, s, v) = r.val
<1>1. (\A r \in F : r.sec # s) => Landed(F, s, v) = v
  BY DEF Landed
<1>2. ASSUME NEW r \in F, r.sec = s, \A q \in F : q.sec = s => q = r
      PROVE  Landed(F, s, v) = r.val
  <2>1. (CHOOSE q \in F : q.sec = s) = r
    BY <1>2
  <2> QED BY <1>2, <2>1 DEF Landed
<1> QED BY <1>1, <1>2

LEMMA OnDiskLanded ==
  ASSUME NEW d, NEW s
  PROVE  /\ OnDisk(d, s) = Landed(inflight[d], s, disk[d][s])
         /\ OnDisk(d, s)' = Landed(inflight'[d], s, disk'[d][s])
         /\ inflight'[d] = inflight[d] /\ disk'[d][s] = disk[d][s] => OnDisk(d, s)' = OnDisk(d, s)
         /\ inflight[d] = {} => OnDisk(d, s) = disk[d][s]
         /\ inflight'[d] = {} => OnDisk(d, s)' = disk'[d][s]
<1>1. OnDisk(d, s) = Landed(inflight[d], s, disk[d][s])
  BY DEF OnDisk, Landed
<1>2. OnDisk(d, s)' = Landed(inflight'[d], s, disk'[d][s])
  BY DEF OnDisk, Landed
<1>3. \A v : Landed({}, s, v) = v
  BY LandedFacts
<1> QED BY <1>1, <1>2, <1>3

LEMMA InitContents == Init => Contents
<1> SUFFICES ASSUME Init PROVE Contents
  OBVIOUS
<1>1. /\ \A d \in Dev : busy[d] = 0 /\ inflight[d] = {}
      /\ pc = "idle" /\ \A i \in Idx : ~ Holds(i)
  BY FiniteIdx DEF Init, Holds, Unused
<1> QED BY <1>1, Sizes DEF Contents, CleanMatches, Copied, Carried

\* A device that is not written to, and what stays of a write.
LEMMA CarriedFree ==
  ASSUME NEW d \in Dev, inflight'[d] = {}, busy'[d] # WriteSize
  PROVE  Carried(d)'
BY DEF Carried

LEMMA CarriedFrame ==
  ASSUME TypeOK, Lists, NEW d \in Dev, Carried(d),
         inflight'[d] = inflight[d], disk'[d] = disk[d],
         busy'[d] = WriteSize <=> busy[d] = WriteSize,
         busy[d] = WriteSize =>
            /\ list'[d] = list[d] /\ Due(d)' = Due(d)
            /\ \A j \in Buf : AtList(d, j) => of'[j] = of[j] /\ buf'[j] = buf[j]
  PROVE  Carried(d)'
<1>1. CASE busy[d] # WriteSize
  BY <1>1 DEF Carried
<1>2. CASE busy[d] = WriteSize
  <2>a. busy'[d] = WriteSize /\ list'[d] = list[d] /\ Due(d)' = Due(d)
    BY <1>2
  <2>1. \A k \in 1 .. WriteSize : /\ of'[list[d][k]] = of[list[d][k]]
                                  /\ buf'[list[d][k]] = buf[list[d][k]]
    <3>1. list[d] \in Seq(Buf) /\ WriteList(d)
      BY <1>2, Sizes DEF TypeOK, Lists, ReadList
    <3>2. DOMAIN list[d] = 1 .. WriteSize /\ \A k \in 1 .. WriteSize : list[d][k] \in Buf
      BY <3>1, SeqFacts DEF WriteList
    <3> QED BY <1>2, <3>2 DEF AtList
  <2>2. \A s : OnDisk(d, s)' = OnDisk(d, s)
    BY OnDiskLanded
  <2>3. \A k \in 1 .. WriteSize : Given(d, k)' <=> Given(d, k)
    BY <2>a DEF Given
  <2>4. \A k \in 1 .. WriteSize : SecOf(list[d][k])' = SecOf(list[d][k])
    BY <2>a, <2>1 DEF SecOf
  <2>5. list'[d][1] \in Idx /\ \A k, m \in 1 .. WriteSize :
           of'[list'[d][k]].sec = of'[list'[d][m]].sec => k = m
    BY <1>2, <2>a, <2>1 DEF Carried, SecOf
  <2>6. ASSUME NEW k \in 1 .. WriteSize, Given(d, k)'
        PROVE  OnDisk(d, SecOf(list[d][k]))' = buf'[list'[d][k]]
    <3>1. OnDisk(d, SecOf(list[d][k])) = buf[list[d][k]]
      BY <1>2, <2>3, <2>6 DEF Carried
    <3>2. OnDisk(d, SecOf(list[d][k]))' = OnDisk(d, SecOf(list[d][k]))
      BY <2>a, <2>1, <2>2 DEF SecOf
    <3> QED BY <2>a, <2>1, <3>1, <3>2
  <2>7. ASSUME NEW r \in inflight'[d]
        PROVE  \E k \in 1 .. WriteSize : k > Due(d)' /\
                  r = [sec |-> of'[list'[d][k]].sec, val |-> buf'[list'[d][k]]]
    <3>1. PICK k \in 1 .. WriteSize :
             k > Due(d) /\ r = [sec |-> SecOf(list[d][k]), val |-> buf[list[d][k]]]
      BY <1>2, <2>7 DEF Carried
    <3> QED BY <2>a, <2>1, <3>1 DEF SecOf
  <2> QED BY <2>a, <2>5, <2>6, <2>7 DEF Carried, SecOf
<1> QED BY <1>1, <1>2

\* An entry that is clean after a step was so before, and nothing has changed
\* about it; or it holds what is on its device now.
LEMMA CleanFrame ==
  ASSUME CleanMatches,
         \A i \in Idx : Holds(i)' /\ "DIRTY" \notin status'[i] =>
            \/ /\ Holds(i) /\ "DIRTY" \notin status[i] /\ of'[i] = of[i] /\ buf'[i] = buf[i]
               /\ OnDisk(DevOf(i), SecOf(i))' = OnDisk(DevOf(i), SecOf(i))
            \/ buf'[i] = OnDisk(DevOf(i), SecOf(i))'
  PROVE  CleanMatches'
BY DEF CleanMatches

\* A step that changes no entry, no device and no list.
LEMMA CalmContents ==
  ASSUME CacheInv, Contents,
         UNCHANGED <<status, of, buf, busy, list, bcount, disk, inflight, wr>>,
         pc \in {"fill", "overwrite", "mark"} => UNCHANGED <<pc, ent>>,
         pc' = "mark" => UNCHANGED <<pc, ent, call>>
  PROVE  Contents'
<1>a. TypeOK /\ Lists /\ CleanMatches /\ Copied /\ \A d \in Dev : Carried(d)
  BY DEF CacheInv, Data, Contents
<1>1. \A d, s : OnDisk(d, s)' = OnDisk(d, s)
  BY OnDiskLanded
<1>2. \A i \in Idx : Holds(i)' /\ "DIRTY" \notin status'[i] => Holds(i)
  BY DEF Holds, Reading, Pending
<1>3. \A i \in Idx : OnDisk(DevOf(i), SecOf(i))' = OnDisk(DevOf(i), SecOf(i))
  BY <1>1 DEF DevOf, SecOf
<1>4. CleanMatches'
  BY <1>a, <1>2, <1>3, CleanFrame
<1>5. ASSUME NEW d \in Dev PROVE Carried(d)'
  <2>1. Due(d)' = Due(d)
    BY DEF Due
  <2> QED BY <1>a, <2>1, CarriedFrame
<1>6. Copied'
  BY <1>a DEF Copied
<1> QED BY <1>4, <1>5, <1>6 DEF Contents

LEMMA QuietContents ==
  ASSUME CacheInv, Contents,
         \/ Begin \/ Ticked \/ Find \/ Lookup \/ Hit \/ Miss \/ GetFree
         \/ FlushWait \/ FlushBusy \/ FlushPoll \/ FlushNext \/ PollIdle
         \/ \E d \in Dev : BackgroundDone(d) \/ BackgroundBegins(d)
         \/ UNCHANGED vars
  PROVE  Contents'
<1>1. UNCHANGED <<status, of, buf, busy, list, bcount, disk, inflight, wr>>
  BY DEF Begin, Ticked, Find, Lookup, Hit, Miss, GetFree, FlushWait, FlushBusy, FlushPoll,
     FlushNext, PollIdle, BackgroundDone, BackgroundBegins, vars, bbvars, drvars, devvars
<1>2. CASE \/ PollIdle \/ UNCHANGED vars
           \/ \E d \in Dev : BackgroundDone(d) \/ BackgroundBegins(d)
  <2>1. UNCHANGED <<pc, ent, call>>
    BY <1>2 DEF PollIdle, BackgroundDone, BackgroundBegins, vars, cvars
  <2> QED BY <1>1, <2>1, CalmContents
<1>3. CASE \/ Begin \/ Ticked \/ Find \/ Hit \/ Miss \/ GetFree
           \/ FlushWait \/ FlushBusy \/ FlushPoll
  <2>1. pc \notin {"fill", "overwrite", "mark"} /\ pc' # "mark"
    BY <1>3 DEF Begin, Ticked, Find, Hit, Miss, GetFree, FlushWait, FlushBusy, FlushPoll,
       AtStep, Deliver, Stay, Goto, GotoWith, Return
  <2> QED BY <1>1, <2>1, CalmContents
<1>4. CASE Lookup \/ FlushNext
  <2>1. pc \notin {"fill", "overwrite", "mark"} /\ pc' # "mark"
    <3>1. CASE Lookup
      BY <3>1 DEF Lookup, AtStep, Goto, GotoWith, Return
    <3>2. CASE FlushNext
      <4>1. (pc' = "idle" \/ pc' = pc) /\ pc = "flush"
        BY <3>2, Zenon DEF FlushNext, Return, AtStep
      <4> QED BY <4>1
    <3> QED BY <1>4, <3>1, <3>2
  <2> QED BY <1>1, <2>1, CalmContents
<1> QED BY <1>2, <1>3, <1>4

\* Steps of a call that change only its entry, which no write has in its list.
LEMMA EntryContents ==
  ASSUME CacheInv, Contents, NEW e \in Idx, UNCHANGED <<bcount, disk, inflight, wr>>,
         \A i \in Idx \ {e} : /\ status'[i] = status[i] /\ of'[i] = of[i] /\ buf'[i] = buf[i]
                              /\ Pending(i) => Pending(i)',
         Holds(e)' /\ "DIRTY" \notin status'[e] => buf'[e] = OnDisk(DevOf(e), SecOf(e))',
         \A j \in Page : of'[j] = of[j] /\ buf'[j] = buf[j],
         \A d \in Dev : busy[d] = WriteSize => ~ AtList(d, e),
         \A d \in Dev : \/ busy'[d] = busy[d] /\ list'[d] = list[d]
                        \/ busy[d] = 0 /\ busy'[d] = READ,
         pc' # "mark"
  PROVE  Contents'
<1>a. TypeOK /\ Lists /\ CleanMatches /\ Copied /\ ent \in Idx /\ \A d \in Dev : Carried(d)
  BY DEF CacheInv, Data, Contents, TypeOK
<1>1. \A d, s : OnDisk(d, s)' = OnDisk(d, s)
  BY OnDiskLanded
<1>2. ASSUME NEW i \in Idx, Holds(i)', "DIRTY" \notin status'[i]
      PROVE  \/ /\ Holds(i) /\ "DIRTY" \notin status[i] /\ of'[i] = of[i] /\ buf'[i] = buf[i]
                /\ OnDisk(DevOf(i), SecOf(i))' = OnDisk(DevOf(i), SecOf(i))
             \/ buf'[i] = OnDisk(DevOf(i), SecOf(i))'
  <2>1. CASE i = e
    BY <1>2, <2>1
  <2>2. CASE i # e
    BY <1>1, <1>2, <2>2 DEF Holds, Reading, DevOf, SecOf
  <2> QED BY <2>1, <2>2
<1>3. CleanMatches'
  BY <1>a, <1>2, CleanFrame
<1>4. ASSUME NEW d \in Dev PROVE Carried(d)'
  <2>1. Due(d)' = Due(d)
    BY DEF Due
  <2>2. busy'[d] = WriteSize <=> busy[d] = WriteSize
    BY Sizes
  <2>3. busy[d] = WriteSize => list'[d] = list[d]
    BY Sizes
  <2>4. busy[d] = WriteSize => \A j \in Buf : AtList(d, j) => of'[j] = of[j] /\ buf'[j] = buf[j]
    <3>1. \A j \in Buf : j \in Idx \/ j \in Page
      BY DEF Buf
    <3> QED BY <3>1
  <2> QED BY <1>a, <2>1, <2>2, <2>3, <2>4, CarriedFrame
<1>5. Copied'
  BY DEF Copied
<1> QED BY <1>3, <1>4, <1>5 DEF Contents

LEMMA AssignContents ==
  ASSUME CacheInv, Order, Contents, Assign
  PROVE  Contents'
<1>a. TypeOK /\ Lists /\ Chose /\ ent \in Idx /\ ent \in Buf
  BY FiniteIdx DEF CacheInv, Control, Data, TypeOK
<1>1. /\ pc = "evict" /\ "DIRTY" \notin status[ent] /\ ent' = ent
      /\ pc' \in {"overwrite", "fill"}
      /\ status' = [status EXCEPT ![ent] = {"USED"}]
      /\ of' = [of EXCEPT ![ent] = [dev |-> call.dev, sec |-> call.sec]]
      /\ UNCHANGED <<buf, busy, list, bcount, disk, inflight, wr>>
  BY DEF Assign, AtStep, Goto, GotoWith, drvars, devvars
<1>2. \A d \in Dev : ~ AtList(d, ent)
  <2>1. {"BUSY", "DIRTY"} \cap status[ent] = {}
    BY <1>a, <1>1 DEF Chose
  <2> QED BY <1>a, <2>1, IdleInNoList
<1>3. PICK e \in Idx : e = ent
  BY <1>a
<1>7. ~ Holds(e)'
  <2>1. status'[e] = {"USED"}
    BY <1>a, <1>1, <1>3 DEF TypeOK
  <2> QED BY <1>1, <1>3, <2>1 DEF Holds, Pending
<1>4. \A j \in Buf \ {ent} : status'[j] = status[j] /\ of'[j] = of[j]
  BY <1>a, <1>1 DEF TypeOK
<1>5. \A i \in Idx \ {ent} : i \in Buf /\ ~ Pending(i)
  BY FiniteIdx DEF Pending
<1>6. \A j \in Page : j \in Buf \ {ent}
  BY <1>a, FiniteIdx
<1>8. \A i \in Idx \ {e} : /\ status'[i] = status[i] /\ of'[i] = of[i] /\ buf'[i] = buf[i]
                            /\ Pending(i) => Pending(i)'
  BY <1>1, <1>3, <1>4, <1>5
<1> QED BY <1>1, <1>2, <1>3, <1>4, <1>6, <1>7, <1>8, EntryContents

LEMMA FillContents ==
  ASSUME CacheInv, Order, Devices, Contents, Fill \/ Filled
  PROVE  Contents'
<1>a. TypeOK /\ Lists /\ Filling /\ CallOK /\ ent \in Idx /\ ent \in Buf /\ CleanMatches /\ Chips
  BY FiniteIdx DEF CacheInv, Control, Data, TypeOK, Contents, Devices
<1>b. /\ pc \in {"fill", "filled"} /\ UNCHANGED <<of, call, bcount, disk, chip, inflight, wr>>
  BY DEF Fill, Filled, AtStep, drvars, devvars
<1>c. status[ent] = {"USED"} /\ \A d \in Dev : ~ AtList(d, ent)
  <2>1. status[ent] = {"USED"}
    BY <1>a, <1>b DEF Filling
  <2> QED BY <1>a, <2>1, IdleInNoList
<1>d. \A d, s : /\ OnDisk(d, s)' = OnDisk(d, s)
                /\ inflight[d] = {} => OnDisk(d, s)' = disk[d][s]
  BY <1>b, OnDiskLanded
<1>e. /\ \A i \in Idx \ {ent} : i \in Buf \ {ent} /\ ~ Pending(i)
      /\ \A j \in Page : j \in Buf \ {ent}
  BY <1>a, FiniteIdx DEF Pending
<1>f. PICK e \in Idx : e = ent
  BY <1>a
<1>1. CASE Filled
  <2>1. /\ pc = "filled" /\ UNCHANGED <<buf, busy, list>> /\ pc' \in {"copy", "idle"}
        /\ status' = ClearBusy(ent)
    BY <1>1 DEF Filled, AtStep, Deliver, Goto, GotoWith, Return, drvars
  <2>2. status' = status
    BY <1>a, <1>c, <2>1 DEF ClearBusy, TypeOK
  <2>3. Holds(ent)
    BY <1>c, <2>1 DEF Holds, Reading, Pending
  <2>4. buf[ent] = OnDisk(DevOf(ent), SecOf(ent))
    BY <1>a, <1>c, <2>3 DEF CleanMatches
  <2>5. buf'[e] = OnDisk(DevOf(e), SecOf(e))'
    BY <1>b, <1>d, <1>f, <2>1, <2>4 DEF DevOf, SecOf
  <2> QED BY <1>b, <1>c, <1>e, <1>f, <2>1, <2>2, <2>5, EntryContents
<1>2. CASE Fill
  <2>a. /\ pc = "fill" /\ of[ent] = [dev |-> call.dev, sec |-> call.sec] /\ busy[call.dev] = 0
        /\ call.dev \in Dev
    BY <1>a, <1>2, CallFacts DEF Fill, AtStep, Filling, Asking
  <2>1. CASE /\ chip[call.dev] = "idle"
             /\ buf' = [buf EXCEPT ![ent] = disk[call.dev][call.sec]]
             /\ Goto("filled") /\ UNCHANGED <<status, busy, list>>
    <3>1. inflight[call.dev] = {}
      BY <1>a, <2>1, <2>a DEF Chips
    <3>2. buf'[ent] = disk[call.dev][call.sec] /\ \A j \in Buf \ {ent} : buf'[j] = buf[j]
      BY <1>a, <2>1 DEF TypeOK
    <3>3. of'[ent].dev = call.dev /\ of'[ent].sec = call.sec /\ ent' = ent /\ pc' = "filled"
      BY <1>b, <2>a, <2>1 DEF Goto, GotoWith
    <3>4. buf'[e] = OnDisk(DevOf(e), SecOf(e))'
      BY <1>d, <1>f, <3>1, <3>2, <3>3 DEF DevOf, SecOf
    <3> QED BY <1>b, <1>c, <1>e, <1>f, <2>1, <3>2, <3>3, <3>4, EntryContents
  <2>2. CASE Stay /\ UNCHANGED <<status, buf, busy, list>>
    <3>1. UNCHANGED <<pc, ent, status, of, buf>>
      BY <1>b, <2>2 DEF Stay, Goto, GotoWith
    <3> QED BY <1>b, <2>2, <2>a, <3>1, CalmContents
  <2>3. CASE /\ busy' = [busy EXCEPT ![call.dev] = READ]
             /\ list' = [list EXCEPT ![call.dev] = <<ent>>]
             /\ status' = [status EXCEPT ![ent] = @ \cup {"BUSY"}]
             /\ Return("busy") /\ UNCHANGED buf
    <3>1. /\ "BUSY" \in status'[ent] /\ "DIRTY" \notin status'[ent]
          /\ \A j \in Buf \ {ent} : status'[j] = status[j]
      BY <1>a, <1>c, <2>3 DEF TypeOK
    <3>2. \A d \in Dev : \/ busy'[d] = busy[d] /\ list'[d] = list[d]
                         \/ busy[d] = 0 /\ busy'[d] = READ
      BY <1>a, <2>a, <2>3 DEF TypeOK
    <3>3. ~ Holds(e)'
      BY <1>f, <3>1 DEF Holds, Reading
    <3>4. pc' # "mark"
      BY <2>3 DEF Return
    <3> QED BY <1>b, <1>c, <1>e, <1>f, <2>3, <3>1, <3>2, <3>3, <3>4, EntryContents
  <2>4. CASE /\ status' = [status EXCEPT ![ent] = Unused]
             /\ Return("err") /\ UNCHANGED <<buf, busy, list>>
    <3>1. "USED" \notin status'[ent] /\ \A j \in Buf \ {ent} : status'[j] = status[j]
      BY <1>a, <2>4 DEF TypeOK, Unused
    <3>2. ~ Holds(e)'
      BY <1>f, <3>1 DEF Holds
    <3>3. pc' # "mark"
      BY <2>4 DEF Return
    <3> QED BY <1>b, <1>c, <1>e, <1>f, <2>4, <3>1, <3>2, <3>3, EntryContents
  <2> QED BY <1>2, <2>1, <2>2, <2>3, <2>4, Zenon DEF Fill
<1> QED BY <1>1, <1>2

\* While a call stores data nothing it could change is on its way to a device.
LEMMA StoringFree ==
  ASSUME CacheInv, Order, Devices, Contents, Careful, pc \in Storing
  PROVE  \A d \in Dev : /\ inflight[d] = {}
                        /\ busy[d] = WriteSize => WriteSize = 1 /\ Due(d) = 1
<1>a. TypeOK /\ Lists /\ CallOK /\ Waited /\ Chips /\ Suspended
  BY DEF CacheInv, Control, Data, Devices
<1>b. wr = NoWr /\ \A d \in Dev : wr.dev # d
  BY <1>a, Sizes DEF CallOK, NoWr
<1>1. CASE FALSE \notin Waits
  <2>1. \A d \in Dev : busy[d] = 0
    BY <1>a, <1>1, OneBusy DEF WaitedFor, Storing
  <2> QED BY <2>1, Sizes DEF Contents, Carried
<1>2. CASE FALSE \in Waits
  <2>1. WriteSize = 1 /\ Queueing = {}
    BY <1>2 DEF Careful
  <2>2. ASSUME NEW d \in Dev, busy[d] = WriteSize PROVE Due(d) = 1
    <3>1. bcount[d] > 0 /\ bcount[d] \in 0 .. 1
      BY <1>a, <1>b, <2>1, <2>2 DEF Suspended, TypeOK
    <3> QED BY <1>b, <3>1 DEF Due
  <2>3. ASSUME NEW d \in Dev PROVE inflight[d] = {}
    <3>1. chip[d] \in {"idle", "loading", "program", "background"}
      BY <1>a DEF TypeOK
    <3> QED BY <1>a, <2>1, <3>1 DEF Chips
  <2> QED BY <2>1, <2>2, <2>3
<1> QED BY <1>1, <1>2

LEMMA StoreContents ==
  ASSUME CacheInv, Order, Devices, Contents, Careful, Copy \/ Mark
  PROVE  Contents'
<1>a. /\ TypeOK /\ Lists /\ ent \in Idx /\ ent \in Buf /\ CleanMatches /\ Copied /\ Found
      /\ \A d \in Dev : Carried(d)
  BY FiniteIdx DEF CacheInv, Data, TypeOK, Contents, Order
<1>b. /\ pc \in Storing /\ UNCHANGED <<of, busy, list, bcount, disk, inflight, call, wr>>
  BY DEF Copy, Mark, AtStep, drvars, devvars, Storing
<1>c. \A d \in Dev : /\ inflight[d] = {}
                     /\ busy[d] = WriteSize => WriteSize = 1 /\ Due(d) = 1
  BY <1>b, StoringFree
<1>d. \A d, s : OnDisk(d, s)' = OnDisk(d, s)
  BY <1>b, OnDiskLanded
<1>e. \A i \in Idx \ {ent} : i \in Buf \ {ent} /\ ~ Pending(i)
  BY FiniteIdx DEF Pending
<1>f. PICK e \in Idx : e = ent
  BY <1>a
<1>1. ASSUME \A j \in Buf \ {ent} : status'[j] = status[j] /\ buf'[j] = buf[j],
             Holds(e)' => "DIRTY" \in status'[e], Copied'
      PROVE  Contents'
  <2>1. ASSUME NEW i \in Idx, Holds(i)', "DIRTY" \notin status'[i]
        PROVE  /\ Holds(i) /\ "DIRTY" \notin status[i] /\ of'[i] = of[i] /\ buf'[i] = buf[i]
               /\ OnDisk(DevOf(i), SecOf(i))' = OnDisk(DevOf(i), SecOf(i))
    <3>1. i # ent
      BY <1>1, <1>f, <2>1
    <3> QED BY <1>1, <1>b, <1>d, <1>e, <2>1, <3>1 DEF Holds, Reading, DevOf, SecOf
  <2>2. CleanMatches'
    BY <1>a, <2>1, CleanFrame
  <2>3. ASSUME NEW d \in Dev PROVE Carried(d)'
    <3>1. CASE busy[d] = WriteSize
      <4>1. WriteSize = 1 /\ Due(d)' = 1 /\ list[d][1] \in Idx /\ inflight'[d] = {}
        BY <1>a, <1>b, <1>c, <3>1 DEF Carried, Due
      <4>2. \A k \in 1 .. WriteSize : k = 1
        BY <4>1
      <4>3. list'[d][1] \in Idx /\ list'[d][1] \notin Page
        BY <1>b, <4>1, FiniteIdx
      <4>4. \A k \in 1 .. WriteSize : ~ Given(d, k)'
        BY <4>1, <4>2, <4>3 DEF Given
      <4> QED BY <3>1, <4>1, <4>2, <4>3, <4>4 DEF Carried
    <3>2. CASE busy[d] # WriteSize
      BY <1>b, <1>c, <3>2, CarriedFree
    <3> QED BY <3>1, <3>2
  <2> QED BY <1>1, <2>2, <2>3 DEF Contents
<1>2. CASE Copy
  <2>1. /\ buf' = [buf EXCEPT ![ent] = call.val] /\ pc' = "mark" /\ UNCHANGED <<status, ent>>
    BY <1>2 DEF Copy, Goto, GotoWith
  <2>2. buf'[ent] = call.val /\ \A j \in Buf \ {ent} : buf'[j] = buf[j]
    BY <1>a, <2>1 DEF TypeOK
  <2>3. Holds(e)' => "DIRTY" \in status'[e]
    BY <1>f, <2>1 DEF Holds, Pending
  <2>4. Copied'
    BY <1>b, <2>1, <2>2 DEF Copied
  <2> QED BY <1>1, <1>f, <2>1, <2>2, <2>3, <2>4
<1>3. CASE Mark
  <2>1. /\ pc = "mark" /\ pc' = "idle" /\ buf' = buf
        /\ status' = IF Markable(ent) THEN [status EXCEPT ![ent] = @ \cup {"DIRTY"}] ELSE status
    BY <1>3 DEF Mark, AtStep, Return
  <2>2. \A j \in Buf \ {ent} : status'[j] = status[j]
    BY <1>a, <2>1 DEF TypeOK
  <2>3. "DIRTY" \in status'[ent]
    <3>1. CASE Markable(ent)
      BY <1>a, <2>1, <3>1 DEF TypeOK
    <3>2. CASE ~ Markable(ent)
      BY <1>a, <2>1, <3>2 DEF Markable, Found, Settled, Reading
    <3> QED BY <3>1, <3>2
  <2>4. Copied'
    BY <2>1 DEF Copied
  <2> QED BY <1>1, <1>f, <2>1, <2>2, <2>3, <2>4
<1> QED BY <1>2, <1>3

\* A write that begins or does not; the entries stay as they are.
LEMMA WriteOutContents ==
  ASSUME CacheInv, Devices, Contents, Careful, Evict \/ FlushEntry
  PROVE  Contents'
<1>a. /\ TypeOK /\ Lists /\ ent \in Idx /\ Waited /\ Chips /\ CleanMatches
      /\ UNCHANGED <<bcount, disk, chip, inflight, call>> /\ wr = NoWr
      /\ pc \in {"evict", "flush"}
      /\ \A d \in Dev : Carried(d)
  BY DEF CacheInv, Data, Devices, Contents, Evict, FlushEntry, AtStep, devvars, TypeOK
<1>b. \A d \in Dev : NoWr.dev # d
  BY Sizes DEF NoWr
<1>1. ASSUME NEW purge \in BOOLEAN, DevWrite(ent, purge), res = "none", UNCHANGED <<pc, ent>>,
             \/ pc = "evict" /\ "DIRTY" \in status[ent]
             \/ pc = "flush" /\ DevOf(ent) = call.dev
      PROVE  Contents'
  <2>1. PICK d \in Dev : /\ d = DevOf(ent)
                         /\ \/ WriteRefused(d, ent) \/ WriteNeedless(d, ent)
                            \/ WriteBegins(d, ent, purge) \/ WriteUnread(d, ent)
    BY <1>a, <1>1, DevWriteCases
  <2>2. ASSUME FALSE \notin Waits, NEW x \in Dev, busy[x] # 0
        PROVE  x = d
    BY <1>a, <1>1, <2>1, <2>2, OneBusy DEF WaitedFor
  <2>3. CASE WriteRefused(d, ent) \/ WriteNeedless(d, ent)
    <3>1. UNCHANGED <<status, of, buf, busy, list, wr>>
      BY <2>3 DEF WriteRefused, WriteNeedless
    <3>2. pc' # "mark" /\ pc \notin {"fill", "overwrite", "mark"}
      BY <1>1, <1>a
    <3> QED BY <1>a, <3>1, <3>2, CalmContents
  <2>4. CASE WriteBegins(d, ent, purge) \/ WriteUnread(d, ent)
    <3>1. /\ busy[d] = 0
          /\ \A i \in Idx : status'[i] = status[i] /\ of'[i] = of[i] /\ buf'[i] = buf[i]
      BY <2>4, FiniteIdx DEF WriteBegins, WriteUnread, OnlyPages
    <3>2. \A e, s : OnDisk(e, s)' = OnDisk(e, s)
      BY <1>a, OnDiskLanded
    <3>3. CleanMatches' /\ Copied'
      <4>1. \A i \in Idx : Holds(i)' => Holds(i)
        BY <1>1, <3>1 DEF Holds, Reading, Pending
      <4>2. \A i \in Idx : OnDisk(DevOf(i), SecOf(i))' = OnDisk(DevOf(i), SecOf(i))
        BY <3>1, <3>2 DEF DevOf, SecOf
      <4>3. CleanMatches'
        BY <1>a, <3>1, <4>1, <4>2, CleanFrame
      <4> QED BY <1>a, <1>1, <4>3 DEF Copied
    <3>4. ASSUME NEW x \in Dev, x # d PROVE Carried(x)'
      <4>1. busy'[x] = busy[x] /\ list'[x] = list[x] /\ Due(x)' = Due(x)
        BY <1>a, <1>b, <2>4, <3>4 DEF WriteBegins, WriteUnread, Due
      <4>2. ASSUME busy[x] = WriteSize
            PROVE  \A j \in Buf : AtList(x, j) => of'[j] = of[j] /\ buf'[j] = buf[j]
        <5>1. WriteSize = 1
          BY <2>2, <3>4, <4>2, Sizes DEF Careful
        <5>2. list[x] \in Seq(Buf) /\ Len(list[x]) = 1 /\ list[x][1] \in Idx
          BY <1>a, <4>2, <5>1, Sizes DEF TypeOK, Lists, ReadList, WriteList, Carried
        <5>3. DOMAIN list[x] = {1}
          BY <5>2, SeqFacts
        <5> QED BY <3>1, <5>2, <5>3 DEF AtList
      <4> QED BY <1>a, <4>1, <4>2, CarriedFrame
    <3>5. Carried(d)'
      <4>1. inflight'[d] = {}
        BY <1>a, <3>1, Sizes DEF Carried
      <4>2. CASE WriteUnread(d, ent)
        <5>1. busy'[d] # WriteSize
          BY <3>1, <4>2, Sizes DEF WriteUnread
        <5> QED BY <4>1, <5>1, CarriedFree
      <4>3. CASE WriteBegins(d, ent, purge)
        <5>1. /\ busy'[d] = WriteSize /\ list'[d][1] = ent
              /\ wr' = [dev |-> d, len |-> WriteSize, purge |-> purge]
              /\ \A k, m \in 1 .. WriteSize : of'[list'[d][k]].sec = of'[list'[d][m]].sec => k = m
              /\ \A k \in 1 .. WriteSize : list'[d][k] \in Page =>
                    buf'[list'[d][k]] = disk[d][of'[list'[d][k]].sec]
          BY <4>3 DEF WriteBegins
        <5>2. Due(d)' = WriteSize /\ \A k \in 1 .. WriteSize : ~ (k > WriteSize)
          BY <5>1, Sizes DEF Due
        <5>3. \A s : OnDisk(d, s)' = disk[d][s]
          BY <1>a, <4>1, OnDiskLanded
        <5>4. ASSUME NEW k \in 1 .. WriteSize, Given(d, k)'
              PROVE  OnDisk(d, SecOf(list[d][k]))' = buf'[list'[d][k]]
          BY <5>1, <5>2, <5>3, <5>4 DEF Given, SecOf
        <5>5. list'[d][1] \in Idx
          BY <1>a, <5>1
        <5> QED BY <4>1, <5>1, <5>4, <5>5 DEF Carried, SecOf
      <4> QED BY <2>4, <4>2, <4>3
    <3> QED BY <3>3, <3>4, <3>5 DEF Contents
  <2> QED BY <2>1, <2>3, <2>4
<1>2. CASE FlushEntry
  <2>1. /\ DevWrite(ent, FALSE) /\ res = "none" /\ UNCHANGED <<pc, ent>> /\ pc = "flush"
        /\ DevOf(ent) = call.dev /\ FALSE \in BOOLEAN
    BY <1>2 DEF FlushEntry, AtStep, OnDevice
  <2> QED BY <1>1, <2>1
<1>3. CASE Evict
  <2>1. pc = "evict" /\ "DIRTY" \in status[ent]
    BY <1>3 DEF Evict, AtStep
  <2>2. CASE res = "none" /\ DevWrite(ent, TRUE) /\ Stay
    <3>1. UNCHANGED <<pc, ent>> /\ TRUE \in BOOLEAN
      BY <2>2 DEF Stay, Goto, GotoWith
    <3> QED BY <1>1, <2>1, <2>2, <3>1
  <2>3. CASE (Stay \/ Return("err")) /\ UNCHANGED <<bbvars, lru, busy, list, wr>>
    <3>1. UNCHANGED <<status, of, buf, busy, list, wr>> /\ pc' # "mark"
      BY <2>1, <2>3 DEF Stay, Goto, GotoWith, Return, bbvars
    <3> QED BY <1>a, <2>1, <3>1, CalmContents
  <2> QED BY <1>3, <2>2, <2>3, Zenon DEF Evict
<1> QED BY <1>2, <1>3

\* The entries of the list that are in the cache are dirty, and no other entry
\* is for their sector.
LEMMA ListedDirty ==
  ASSUME CacheInv, NEW d \in Dev, WriteList(d), DOMAIN list[d] = 1 .. WriteSize,
         NEW k \in 1 .. WriteSize, list[d][k] \in Idx,
         NEW i \in Idx, "USED" \in status[i], DevOf(i) = d, SecOf(i) = SecOf(list[d][k])
  PROVE  "DIRTY" \in status[i]
<1>a. MarksUsed /\ NoDuplicates /\ \A j \in Idx : of[j] \in [dev : Dev, sec : Sec]
  BY FiniteIdx DEF CacheInv, Data, TypeOK
<1>1. DevOf(list[d][k]) = d /\ "DIRTY" \in status[list[d][k]]
  BY DEF WriteList
<1>2. of[i] = of[list[d][k]] /\ "USED" \in status[list[d][k]]
  <2>1. of[i] = [dev |-> d, sec |-> SecOf(i)]
    BY <1>a DEF DevOf, SecOf
  <2>2. of[list[d][k]] = [dev |-> d, sec |-> SecOf(i)]
    BY <1>a, <1>1 DEF DevOf, SecOf
  <2> QED BY <1>1, <1>a, <2>1, <2>2 DEF MarksUsed
<1> QED BY <1>1, <1>2, <1>a DEF NoDuplicates

\* The driver has taken the sector of entry e, number k of the list: it is, or
\* will be, on the device, and no other sector has changed.
LEMMA GivenOn ==
  ASSUME CacheInv, Contents, Chips, NEW d \in Dev, busy[d] = WriteSize,
         NEW k \in 1 .. WriteSize, NEW e \in Buf, e = list[d][k], Due(d) = k,
         NEW t \in Sec, t = SecOf(e),
         \/ chip[d] = "idle" /\ Stored(d, e)
         \/ \E c \in {"loading", "program"} : Queued(d, e, c)
  PROVE  /\ OnDisk(d, t)' = buf[e]
         /\ \A s \in Sec \ {t} : OnDisk(d, s)' = OnDisk(d, s)
         /\ \A x \in Dev \ {d}, s \in Sec : OnDisk(x, s)' = OnDisk(x, s)
         /\ \A x \in Dev \ {d} : inflight'[x] = inflight[x] /\ disk'[x] = disk[x]
         /\ \A r \in inflight'[d] : \/ r \in inflight[d]
                                    \/ r = [sec |-> t, val |-> buf[e]]
<1>a. Carried(d)
  BY DEF Contents
<1>b. \A q, r \in inflight[d] : q.sec = r.sec => q = r
  <2> SUFFICES ASSUME NEW q \in inflight[d], NEW r \in inflight[d], q.sec = r.sec PROVE q = r
    OBVIOUS
  <2>1. PICK m \in 1 .. WriteSize : q = [sec |-> SecOf(list[d][m]), val |-> buf[list[d][m]]]
    BY <1>a DEF Carried
  <2>2. PICK n \in 1 .. WriteSize : r = [sec |-> SecOf(list[d][n]), val |-> buf[list[d][n]]]
    BY <1>a DEF Carried
  <2>3. m = n
    BY <1>a, <2>1, <2>2 DEF Carried
  <2> QED BY <2>1, <2>2, <2>3
<1>c. \A r \in inflight[d] : r.sec # t
  <2> SUFFICES ASSUME NEW r \in inflight[d], r.sec = t PROVE FALSE
    OBVIOUS
  <2>1. PICK m \in 1 .. WriteSize :
           m > k /\ r = [sec |-> SecOf(list[d][m]), val |-> buf[list[d][m]]]
    BY <1>a DEF Carried
  <2>2. m = k
    BY <1>a, <2>1 DEF Carried
  <2> QED BY <2>1, <2>2
<1>1. CASE chip[d] = "idle" /\ Stored(d, e)
  <2>1. /\ inflight[d] = {} /\ inflight' = inflight
        /\ disk'[d][t] = buf[e] /\ \A s \in Sec \ {t} : disk'[d][s] = disk[d][s]
        /\ \A x \in Dev \ {d} : disk'[x] = disk[x]
    BY <1>1 DEF Chips, Stored
  <2>2. OnDisk(d, t)' = buf[e]
    BY <2>1, OnDiskLanded
  <2>3. \A s \in Sec \ {t} : OnDisk(d, s)' = OnDisk(d, s)
    BY <2>1, OnDiskLanded
  <2>4. \A x \in Dev \ {d}, s \in Sec : OnDisk(x, s)' = OnDisk(x, s)
    BY <2>1, OnDiskLanded
  <2> QED BY <2>1, <2>2, <2>3, <2>4
<1>2. CASE \E c \in {"loading", "program"} : Queued(d, e, c)
  <2> DEFINE new == [sec |-> t, val |-> buf[e]]
  <2>1. /\ inflight'[d] = inflight[d] \cup {new} /\ disk' = disk
        /\ \A x \in Dev \ {d} : inflight'[x] = inflight[x]
    BY <1>2 DEF Queued
  <2>2. OnDisk(d, t)' = buf[e]
    <3>1. /\ new \in inflight'[d] /\ new.sec = t /\ new.val = buf[e]
          /\ \A q \in inflight'[d] : q.sec = t => q = new
      BY <1>c, <2>1
    <3> HIDE DEF new
    <3>2. Landed(inflight'[d], t, disk'[d][t]) = buf[e]
      BY <3>1, LandedFacts
    <3> QED BY <3>2, OnDiskLanded
  <2>3. ASSUME NEW s \in Sec \ {t} PROVE OnDisk(d, s)' = OnDisk(d, s)
    <3>1. new.sec # s
      OBVIOUS
    <3> HIDE DEF new
    <3>2. CASE \E r \in inflight[d] : r.sec = s
      <4>1. PICK r \in inflight[d] : r.sec = s
        BY <3>2
      <4>2. /\ r \in inflight'[d] /\ \A q \in inflight[d] : q.sec = s => q = r
            /\ \A q \in inflight'[d] : q.sec = s => q = r
        BY <1>b, <2>1, <3>1, <4>1
      <4>3. Landed(inflight[d], s, disk[d][s]) = r.val
        BY <4>1, <4>2, LandedFacts
      <4>4. Landed(inflight'[d], s, disk'[d][s]) = r.val
        BY <4>1, <4>2, LandedFacts
      <4> QED BY <4>3, <4>4, OnDiskLanded
    <3>3. CASE ~ \E r \in inflight[d] : r.sec = s
      <4>1. /\ \A q \in inflight[d] : q.sec # s
            /\ \A q \in inflight'[d] : q.sec # s
        BY <2>1, <3>1, <3>3
      <4>2. Landed(inflight[d], s, disk[d][s]) = disk[d][s]
        BY <4>1, LandedFacts
      <4>3. Landed(inflight'[d], s, disk'[d][s]) = disk[d][s]
        BY <2>1, <4>1, LandedFacts
      <4> QED BY <4>2, <4>3, OnDiskLanded
    <3> QED BY <3>2, <3>3
  <2>4. \A x \in Dev \ {d}, s \in Sec : OnDisk(x, s)' = OnDisk(x, s)
    BY <2>1, OnDiskLanded
  <2> QED BY <2>1, <2>2, <2>3, <2>4
<1> QED BY <1>1, <1>2

LEMMA WriteEntryContents ==
  ASSUME CacheInv, Devices, Contents, Careful, WriteEntry
  PROVE  Contents'
<1>a. /\ TypeOK /\ Lists /\ MarksUsed /\ Chips /\ CleanMatches /\ \A d \in Dev : Carried(d)
      /\ \A x \in Dev : NoWr.dev # x
  BY Sizes DEF CacheInv, Data, Devices, Contents, NoWr
<1>1. PICK d \in Dev, k \in 1 .. WriteSize, e \in Buf :
         /\ wr # NoWr /\ d = wr.dev /\ k = wr.len /\ e = list[d][k]
         /\ WriteList(d) /\ DOMAIN list[d] = 1 .. WriteSize /\ pc \notin Storing
         /\ UNCHANGED <<of, buf, call, pc, ent, ret>>
         /\ \/ d \notin Queueing /\ chip[d] = "idle" /\ Stored(d, e) /\ Going(d, e, k)
            \/ /\ d \in Queueing /\ k > 1 /\ chip[d] \in {"idle", "loading"}
               /\ Queued(d, e, "loading") /\ Going(d, e, k)
            \/ /\ d \in Queueing /\ k = 1 /\ chip[d] \in {"idle", "loading"}
               /\ Queued(d, e, "program") /\ Left(d, e, 0)
            \/ chip[d] = "background" /\ UNCHANGED devvars /\ Left(d, e, k)
            \/ chip[d] = "idle" /\ UNCHANGED devvars /\ Failed(d)
  BY EntryFacts
<1>2. /\ busy[d] = WriteSize /\ Due(d) = k /\ (e \in Idx => "DIRTY" \in status[e])
      /\ SecOf(e) \in Sec
  BY <1>a, <1>1 DEF WriteList, Due, SecOf, TypeOK
<1>3. PICK t \in Sec : t = SecOf(e)
  BY <1>2
<1>4. Copied'
  BY <1>1 DEF Copied, Storing
<1>5. ASSUME Going(d, e, k) \/ Left(d, e, 0) \/ Left(d, e, k),
             NEW i \in Idx, Holds(i)', "DIRTY" \notin status'[i]
      PROVE  i # e /\ Holds(i) /\ "DIRTY" \notin status[i] /\ status'[i] = status[i]
  <2>1. /\ status'[e] \in {status[e] \ {"BUSY"}, status[e] \cup {"BUSY"}}
        /\ \A j \in Buf \ {e} : status'[j] = status[j]
    BY <1>5 DEF Going, Left, Becomes
  <2>2. i # e
    BY <1>2, <1>5, <2>1
  <2>3. status'[i] = status[i]
    BY <2>1, <2>2, FiniteIdx
  <2> QED BY <1>1, <1>5, <2>2, <2>3 DEF Holds, Reading, Pending
<1>6. ASSUME NEW x \in Dev, x # d PROVE Carried(x)'
  <2>1. /\ busy'[x] = busy[x] /\ list'[x] = list[x] /\ bcount'[x] = bcount[x]
        /\ wr'.dev = d \/ wr' = NoWr
    BY <1>1, <1>6 DEF Going, Left, Failed, Ended, EndWrite
  <2>2. inflight'[x] = inflight[x] /\ disk'[x] = disk[x]
    BY <1>1, <1>6 DEF Stored, Queued, devvars
  <2>3. Due(x)' = Due(x)
    BY <1>a, <1>1, <1>6, <2>1 DEF Due
  <2> QED BY <1>a, <1>1, <2>1, <2>2, <2>3, CarriedFrame
\* The driver has taken the sector.
<1>7. CASE /\ \/ chip[d] = "idle" /\ Stored(d, e)
              \/ \E c \in {"loading", "program"} : Queued(d, e, c)
           /\ Going(d, e, k) \/ (k = 1 /\ Left(d, e, 0))
  <2>1. /\ OnDisk(d, t)' = buf[e]
        /\ \A s \in Sec \ {t} : OnDisk(d, s)' = OnDisk(d, s)
        /\ \A x \in Dev \ {d}, s \in Sec : OnDisk(x, s)' = OnDisk(x, s)
        /\ \A r \in inflight'[d] : r \in inflight[d] \/ r = [sec |-> t, val |-> buf[e]]
    BY <1>a, <1>1, <1>2, <1>3, <1>7, GivenOn DEF Contents
  <2>2. /\ UNCHANGED <<busy, list>> /\ Due(d)' = k - 1
        /\ \A m \in 1 .. WriteSize : m > k - 1 => m = k \/ m > k
    <3>1. CASE Going(d, e, k)
      <4>1. UNCHANGED <<busy, list>> /\ wr' = [dev |-> d, len |-> k - 1, purge |-> wr.purge]
        BY <3>1 DEF Going
      <4> QED BY <4>1 DEF Due
    <3>2. CASE k = 1 /\ Left(d, e, 0)
      <4>1. UNCHANGED <<busy, list>> /\ wr' = NoWr /\ bcount'[d] = 0
        BY <3>2 DEF Left, EndWrite
      <4> QED BY <1>a, <3>2, <4>1 DEF Due
    <3> QED BY <1>7, <3>1, <3>2
  <2>3. CleanMatches'
    <3>1. ASSUME NEW i \in Idx, Holds(i)', "DIRTY" \notin status'[i]
          PROVE  /\ Holds(i) /\ "DIRTY" \notin status[i] /\ of'[i] = of[i] /\ buf'[i] = buf[i]
                 /\ OnDisk(DevOf(i), SecOf(i))' = OnDisk(DevOf(i), SecOf(i))
      <4>1. i # e /\ Holds(i) /\ "DIRTY" \notin status[i]
        BY <1>5, <1>7, <3>1
      <4>2. PICK c \in Dev, s \in Sec : c = DevOf(i) /\ s = SecOf(i)
        BY <1>a, FiniteIdx DEF TypeOK, DevOf, SecOf
      <4>3. OnDisk(c, s)' = OnDisk(c, s)
        <5>1. CASE c # d \/ s # t
          BY <2>1, <5>1
        <5>2. CASE c = d /\ s = t
          <6>1. e \notin Idx
            BY <1>1, <1>3, <4>1, <4>2, <5>2, ListedDirty DEF Holds
          <6>2. Given(d, k)
            BY <1>1, <6>1 DEF Given, Buf
          <6> QED BY <1>a, <1>1, <1>2, <1>3, <2>1, <5>2, <6>2 DEF Carried
        <5> QED BY <5>1, <5>2
      <4> QED BY <1>1, <4>1, <4>2, <4>3 DEF DevOf, SecOf
    <3> QED BY <1>a, <3>1, CleanFrame
  <2>4. Carried(d)'
    <3>a. /\ list[d][1] \in Idx
          /\ \A m, n \in 1 .. WriteSize : SecOf(list[d][m]) = SecOf(list[d][n]) => m = n
      BY <1>a, <1>2 DEF Carried
    <3>1. ASSUME NEW m \in 1 .. WriteSize, Given(d, m)'
          PROVE  OnDisk(d, SecOf(list[d][m]))' = buf'[list'[d][m]]
      <4>1. PICK s \in Sec : s = SecOf(list[d][m])
        <5>1. list[d][m] \in Buf
          BY <1>a, <1>1, SeqFacts DEF TypeOK
        <5> QED BY <1>a, <5>1 DEF TypeOK, SecOf
      <4>2. OnDisk(d, s)' = buf[list[d][m]]
        <5>1. CASE m = k
          BY <1>1, <1>3, <2>1, <4>1, <5>1
        <5>2. CASE m # k
          <6>1. Given(d, m)
            BY <1>2, <2>2, <3>1, <5>2 DEF Given
          <6>2. s # t
            BY <1>1, <1>3, <3>a, <4>1, <5>2
          <6> QED BY <1>a, <1>2, <2>1, <4>1, <6>1, <6>2 DEF Carried
        <5> QED BY <5>1, <5>2
      <4> QED BY <1>1, <2>2, <4>1, <4>2 DEF SecOf
    <3>2. ASSUME NEW r \in inflight'[d]
          PROVE  \E m \in 1 .. WriteSize : m > Due(d)' /\
                    r = [sec |-> of'[list'[d][m]].sec, val |-> buf'[list'[d][m]]]
      <4>1. CASE r \in inflight[d]
        <5>1. PICK m \in 1 .. WriteSize :
                 m > k /\ r = [sec |-> SecOf(list[d][m]), val |-> buf[list[d][m]]]
          BY <1>a, <1>2, <4>1 DEF Carried
        <5>2. m > k - 1
          BY <5>1
        <5> QED BY <1>1, <2>2, <5>1, <5>2 DEF SecOf
      <4>2. CASE r = [sec |-> t, val |-> buf[e]]
        <5>1. k > k - 1
          OBVIOUS
        <5> QED BY <1>1, <1>3, <2>2, <4>2, <5>1 DEF SecOf
      <4> QED BY <2>1, <4>1, <4>2
    <3>3. list'[d][1] \in Idx /\ busy'[d] = WriteSize /\ \A m, n \in 1 .. WriteSize :
             of'[list'[d][m]].sec = of'[list'[d][n]].sec => m = n
      BY <1>1, <1>2, <2>2, <3>a DEF SecOf
    <3> QED BY <3>1, <3>2, <3>3 DEF Carried, SecOf
  <2> QED BY <1>4, <1>6, <2>3, <2>4 DEF Contents
\* The driver is busy.
<1>8. CASE UNCHANGED devvars /\ Left(d, e, k)
  <2>1. UNCHANGED <<busy, list, disk, inflight>> /\ wr' = NoWr /\ bcount'[d] = k
    BY <1>8 DEF Left, EndWrite, devvars
  <2>2. \A c, s : OnDisk(c, s)' = OnDisk(c, s)
    BY <2>1, OnDiskLanded
  <2>3. Due(d)' = Due(d)
    BY <1>a, <1>2, <2>1 DEF Due
  <2>4. Carried(d)'
    BY <1>a, <1>1, <2>1, <2>3, CarriedFrame
  <2>5. \A i \in Idx : Holds(i)' /\ "DIRTY" \notin status'[i] =>
                          Holds(i) /\ "DIRTY" \notin status[i]
    BY <1>5, <1>8
  <2>6. \A i \in Idx : OnDisk(DevOf(i), SecOf(i))' = OnDisk(DevOf(i), SecOf(i))
    BY <1>1, <2>2 DEF DevOf, SecOf
  <2>7. CleanMatches'
    BY <1>a, <1>1, <2>5, <2>6, CleanFrame
  <2> QED BY <1>4, <1>6, <2>4, <2>7 DEF Contents
\* The driver fails, and the entries stay dirty.
<1>9. CASE chip[d] = "idle" /\ UNCHANGED devvars /\ Failed(d)
  <2>1. UNCHANGED <<disk, inflight>> /\ inflight'[d] = {} /\ busy'[d] # WriteSize
    BY <1>a, <1>9, Sizes DEF Chips, Failed, Ended, devvars
  <2>2. \A c, s : OnDisk(c, s)' = OnDisk(c, s)
    BY <2>1, OnDiskLanded
  <2>3. Carried(d)'
    BY <2>1, CarriedFree
  <2>4. ASSUME NEW i \in Idx, "DIRTY" \notin status'[i] PROVE status'[i] = status[i]
    <3>1. PICK drop \in {{}, {"BUSY"}, {"BUSY", "DIRTY"}} :
             status'[i] = status[i] \ drop /\ "DIRTY" \notin drop
      BY <1>9, FiniteIdx DEF Failed, Careful
    <3>2. "DIRTY" \notin status[i]
      BY <2>4, <3>1
    <3>3. ~ AtList(d, i)
      BY <1>1, <3>2 DEF AtList, WriteList
    <3> QED BY <1>9, <3>3, FiniteIdx DEF Failed
  <2>5. \A i \in Idx : Holds(i)' /\ "DIRTY" \notin status'[i] =>
                          Holds(i) /\ "DIRTY" \notin status[i]
    BY <1>1, <2>4 DEF Holds, Reading, Pending
  <2>6. \A i \in Idx : OnDisk(DevOf(i), SecOf(i))' = OnDisk(DevOf(i), SecOf(i))
    BY <1>1, <2>2 DEF DevOf, SecOf
  <2>7. CleanMatches'
    BY <1>a, <1>1, <2>5, <2>6, CleanFrame
  <2> QED BY <1>4, <1>6, <2>3, <2>7 DEF Contents
<1> QED BY <1>1, <1>7, <1>8, <1>9

LEMMA WriteDoneContents ==
  ASSUME CacheInv, Devices, Contents, WriteDone
  PROVE  Contents'
<1>a. /\ TypeOK /\ Lists /\ Chips /\ CleanMatches /\ \A d \in Dev : Carried(d)
      /\ \A x \in Dev : NoWr.dev # x
  BY Sizes DEF CacheInv, Data, Devices, Contents, NoWr
<1>1. PICK d \in Dev :
         /\ wr # NoWr /\ d = wr.dev /\ wr.len = 0 /\ wr.purge \in BOOLEAN
         /\ WriteList(d) /\ DOMAIN list[d] = 1 .. WriteSize /\ pc \notin Storing
         /\ UNCHANGED <<of, buf, disk, chip, inflight, call, pc, ent, ret>>
         /\ Ended(d) /\ EndWrite("ok")
         /\ \A j \in Buf : ~ AtList(d, j) => status'[j] = status[j]
         /\ \A j \in Idx : AtList(d, j) =>
               /\ "DIRTY" \in status[j] /\ "BUSY" \notin status[j] /\ DevOf(j) = d
               /\ status'[j] = IF wr.purge THEN {} ELSE status[j] \ {"DIRTY"}
         /\ \A j \in Page : AtList(d, j) => status'[j] = {}
  BY DoneFacts
<1>2. \A c, s : OnDisk(c, s)' = OnDisk(c, s)
  BY <1>1, OnDiskLanded
<1>3. \A i \in Idx : OnDisk(DevOf(i), SecOf(i))' = OnDisk(DevOf(i), SecOf(i))
  BY <1>1, <1>2 DEF DevOf, SecOf
<1>4. ASSUME NEW i \in Idx, Holds(i)', "DIRTY" \notin status'[i]
      PROVE  \/ /\ Holds(i) /\ "DIRTY" \notin status[i] /\ of'[i] = of[i] /\ buf'[i] = buf[i]
                /\ OnDisk(DevOf(i), SecOf(i))' = OnDisk(DevOf(i), SecOf(i))
             \/ buf'[i] = OnDisk(DevOf(i), SecOf(i))'
  <2>1. CASE ~ AtList(d, i)
    <3>1. status'[i] = status[i]
      BY <1>1, <2>1, FiniteIdx
    <3>2. Holds(i)
      BY <1>1, <1>4, <3>1 DEF Holds, Reading, Pending
    <3> QED BY <1>1, <1>3, <1>4, <3>1, <3>2
  <2>2. CASE AtList(d, i)
    <3>1. PICK k \in 1 .. WriteSize : list[d][k] = i
      BY <1>1, <2>2 DEF AtList
    <3>2. Given(d, k) /\ busy[d] = WriteSize
      BY <1>1 DEF Given, Due, WriteList
    <3>3. OnDisk(d, SecOf(i)) = buf[i]
      BY <1>a, <3>1, <3>2 DEF Carried
    <3>4. DevOf(i) = d
      BY <1>1, <2>2
    <3> QED BY <1>1, <1>3, <3>3, <3>4
  <2> QED BY <2>1, <2>2
<1>5. CleanMatches'
  BY <1>a, <1>4, CleanFrame
<1>6. Carried(d)'
  <2>1. chip[d] \in {"idle", "loading", "program", "background"}
    BY <1>a DEF TypeOK
  <2>2. inflight'[d] = {}
    BY <1>a, <1>1, <2>1 DEF Chips
  <2>3. busy'[d] # WriteSize
    BY <1>1, Sizes DEF Ended
  <2> QED BY <2>2, <2>3, CarriedFree
<1>7. ASSUME NEW x \in Dev, x # d PROVE Carried(x)'
  <2>1. /\ busy'[x] = busy[x] /\ list'[x] = list[x] /\ bcount'[x] = bcount[x] /\ wr' = NoWr
    BY <1>1, <1>7 DEF Ended, EndWrite
  <2>2. Due(x)' = Due(x)
    BY <1>a, <1>1, <1>7, <2>1 DEF Due
  <2> QED BY <1>a, <1>1, <2>1, <2>2, CarriedFrame
<1>8. Copied'
  BY <1>1 DEF Copied, Storing
<1> QED BY <1>5, <1>6, <1>7, <1>8 DEF Contents

\* fat_tick goes on with a write; nothing has been given to a device.
LEMMA PollWriteContents ==
  ASSUME CacheInv, Contents, PollWrite
  PROVE  Contents'
<1>a. /\ TypeOK /\ Lists /\ CleanMatches /\ \A d \in Dev : Carried(d)
      /\ \A x \in Dev : NoWr.dev # x
  BY Sizes DEF CacheInv, Data, Contents, NoWr
<1>1. PICK d \in Dev :
         /\ poll = d /\ wr = NoWr /\ chip[d] = "idle" /\ WriteList(d) /\ pc \notin Storing
         /\ wr' = [dev |-> d, len |-> bcount[d], purge |-> bpurge[d]]
         /\ UNCHANGED <<of, buf, busy, list, bcount, bpurge, disk, chip, inflight,
                        call, pc, ent, res, ret, poll>>
         /\ \A j \in Idx : \/ status'[j] = status[j]
                           \/ "DIRTY" \in status[j] /\ status'[j] = status[j] \ {"BUSY"}
  BY PollWriteFacts
<1>2. \A c, s : OnDisk(c, s)' = OnDisk(c, s)
  BY <1>1, OnDiskLanded
<1>3. \A i \in Idx : OnDisk(DevOf(i), SecOf(i))' = OnDisk(DevOf(i), SecOf(i))
  BY <1>1, <1>2 DEF DevOf, SecOf
<1>4. \A i \in Idx : Holds(i)' /\ "DIRTY" \notin status'[i] =>
                        Holds(i) /\ "DIRTY" \notin status[i]
  <2> SUFFICES ASSUME NEW i \in Idx, Holds(i)', "DIRTY" \notin status'[i]
               PROVE  Holds(i) /\ "DIRTY" \notin status[i]
    OBVIOUS
  <2>1. status'[i] = status[i]
    BY <1>1
  <2> QED BY <1>1, <2>1 DEF Holds, Reading, Pending
<1>5. CleanMatches'
  BY <1>a, <1>1, <1>3, <1>4, CleanFrame
<1>6. ASSUME NEW x \in Dev PROVE Carried(x)'
  <2>1. Due(x)' = Due(x)
    BY <1>a, <1>1 DEF Due
  <2> QED BY <1>a, <1>1, <2>1, CarriedFrame
<1>7. Copied'
  BY <1>1 DEF Copied, Storing
<1> QED BY <1>5, <1>6, <1>7 DEF Contents

\* ... or with a read, whose entry is in no list of a write.
LEMMA PollReadContents ==
  ASSUME CacheInv, Devices, Contents, PollRead
  PROVE  Contents'
<1>a. /\ TypeOK /\ Lists /\ CleanMatches /\ Chips /\ \A d \in Dev : Carried(d)
      /\ \A x \in Dev : NoWr.dev # x
  BY Sizes DEF CacheInv, Data, Devices, Contents, NoWr
<1>1. PICK d \in Dev, i \in Idx :
         /\ poll = d /\ wr = NoWr /\ chip[d] = "idle" /\ ReadList(d) /\ i = list[d][1]
         /\ pc \notin Storing /\ Reading(i) /\ DevOf(i) = d
         /\ \A j \in Idx : AtList(d, j) => j = i
         /\ UNCHANGED <<of, disk, chip, inflight, call, pc, ent, res, ret, wr>>
         /\ Ended(d)
         /\ \/ /\ Becomes(i, status[i] \ {"BUSY"}) /\ buf'[i] = disk[d][SecOf(i)]
               /\ \A j \in Buf \ {i} : buf'[j] = buf[j]
            \/ Becomes(i, {}) /\ buf' = buf
  BY PollReadFacts
<1>2. \A c, s : OnDisk(c, s)' = OnDisk(c, s)
  BY <1>1, OnDiskLanded
<1>3. \A j \in Idx : OnDisk(DevOf(j), SecOf(j))' = OnDisk(DevOf(j), SecOf(j))
  BY <1>1, <1>2 DEF DevOf, SecOf
<1>b. i \in Buf /\ \A j \in Idx : j \in Buf
  BY FiniteIdx
<1>4. ASSUME NEW j \in Idx, Holds(j)', "DIRTY" \notin status'[j]
      PROVE  \/ /\ Holds(j) /\ "DIRTY" \notin status[j] /\ of'[j] = of[j] /\ buf'[j] = buf[j]
                /\ OnDisk(DevOf(j), SecOf(j))' = OnDisk(DevOf(j), SecOf(j))
             \/ buf'[j] = OnDisk(DevOf(j), SecOf(j))'
  <2>1. CASE j # i
    <3>1. status'[j] = status[j] /\ buf'[j] = buf[j]
      BY <1>1, <1>b, <2>1 DEF Becomes
    <3>2. Holds(j)
      BY <1>1, <1>4, <3>1 DEF Holds, Reading, Pending
    <3> QED BY <1>1, <1>3, <1>4, <3>1, <3>2
  <2>2. CASE j = i
    <3>1. buf'[i] = disk[d][SecOf(i)]
      BY <1>1, <1>4, <2>2 DEF Becomes, Holds
    <3>2. OnDisk(d, SecOf(i)) = disk[d][SecOf(i)]
      BY <1>a, <1>1, OnDiskLanded DEF Chips
    <3> QED BY <1>1, <1>3, <2>2, <3>1, <3>2
  <2> QED BY <2>1, <2>2
<1>5. CleanMatches'
  BY <1>a, <1>4, CleanFrame
<1>6. Carried(d)'
  <2>1. inflight'[d] = {} /\ busy'[d] # WriteSize
    BY <1>a, <1>1, Sizes DEF Chips, Ended
  <2> QED BY <2>1, CarriedFree
<1>7. ASSUME NEW x \in Dev, x # d PROVE Carried(x)'
  <2>1. /\ busy'[x] = busy[x] /\ list'[x] = list[x] /\ bcount'[x] = bcount[x] /\ wr' = wr
    BY <1>1, <1>7 DEF Ended
  <2>2. Due(x)' = Due(x)
    BY <1>1, <2>1 DEF Due
  <2>3. busy[x] = WriteSize => ~ AtList(x, i)
    <3> SUFFICES ASSUME busy[x] = WriteSize, AtList(x, i) PROVE FALSE
      OBVIOUS
    <3>1. WriteList(x)
      BY <1>a, Sizes DEF Lists, ReadList
    <3> QED BY <1>1, <3>1 DEF WriteList, AtList, Reading
  <2>4. busy[x] = WriteSize => \A j \in Buf : AtList(x, j) => buf'[j] = buf[j]
    BY <1>1, <2>3
  <2> QED BY <1>a, <1>1, <2>1, <2>2, <2>4, CarriedFrame
<1>8. Copied'
  BY <1>1 DEF Copied, Storing
<1> QED BY <1>5, <1>6, <1>7, <1>8 DEF Contents

\* A device has programmed what it was given.
LEMMA ProgrammedContents ==
  ASSUME CacheInv, Devices, Contents, NEW d \in Dev, Programmed(d)
  PROVE  Contents'
<1>a. /\ TypeOK /\ Lists /\ CleanMatches /\ Copied /\ Chips /\ \A x \in Dev : Carried(x)
  BY DEF CacheInv, Data, Devices, Contents
<1>1. /\ chip[d] = "program" /\ wr.dev # d /\ busy[d] = WriteSize
      /\ UNCHANGED <<status, of, buf, busy, list, bcount, call, pc, ent, wr>>
  BY <1>a DEF Programmed, Chips, bbvars, drvars, cvars
<1>2. /\ \A s \in Sec : disk'[d][s] = OnDisk(d, s)
      /\ \A x \in Dev \ {d} : disk'[x] = disk[x]
  BY <1>a DEF Programmed, OnDisk, TypeOK
<1>3. inflight'[d] = {} /\ \A x \in Dev \ {d} : inflight'[x] = inflight[x]
  BY <1>a DEF Programmed, TypeOK
<1>4. ASSUME NEW c \in Dev, NEW s \in Sec PROVE OnDisk(c, s)' = OnDisk(c, s)
  <2>1. CASE c = d
    BY <1>2, <1>3, <2>1, OnDiskLanded
  <2>2. CASE c # d
    BY <1>2, <1>3, <2>2, OnDiskLanded
  <2> QED BY <2>1, <2>2
<1>5. \A j \in Buf : DevOf(j) \in Dev /\ SecOf(j) \in Sec
  BY <1>a DEF TypeOK, DevOf, SecOf
<1>6. CleanMatches'
  <2>1. \A i \in Idx : OnDisk(DevOf(i), SecOf(i))' = OnDisk(DevOf(i), SecOf(i))
    BY <1>1, <1>4, <1>5, FiniteIdx DEF DevOf, SecOf
  <2>2. \A i \in Idx : Holds(i)' => Holds(i)
    BY <1>1 DEF Holds, Reading, Pending
  <2> QED BY <1>a, <1>1, <2>1, <2>2, CleanFrame
<1>7. ASSUME NEW x \in Dev PROVE Carried(x)'
  <2>1. Due(x)' = Due(x)
    BY <1>1 DEF Due
  <2>2. CASE x # d
    BY <1>a, <1>1, <1>2, <1>3, <2>1, <2>2, CarriedFrame
  <2>3. CASE x = d
    <3>1. \A k \in 1 .. WriteSize : list[d][k] \in Buf
      <4>1. WriteList(d) /\ list[d] \in Seq(Buf)
        BY <1>a, <1>1, Sizes DEF Lists, ReadList, TypeOK
      <4> QED BY <4>1, SeqFacts DEF WriteList
    <3>2. \A k \in 1 .. WriteSize :
             OnDisk(d, SecOf(list[d][k]))' = OnDisk(d, SecOf(list[d][k]))
      BY <1>1, <1>4, <1>5, <3>1 DEF SecOf
    <3>3. \A k \in 1 .. WriteSize : Given(d, k)' => Given(d, k)
      BY <1>1, <2>1, <2>3 DEF Given
    <3>4. ASSUME NEW k \in 1 .. WriteSize, Given(d, k)'
          PROVE  OnDisk(d, SecOf(list[d][k]))' = buf'[list'[d][k]]
      <4>1. OnDisk(d, SecOf(list[d][k])) = buf[list[d][k]]
        BY <1>a, <1>1, <3>3, <3>4 DEF Carried
      <4> QED BY <1>1, <3>2, <4>1
    <3>5. list'[d][1] \in Idx /\ busy'[d] = WriteSize /\ \A m, n \in 1 .. WriteSize :
             of'[list'[d][m]].sec = of'[list'[d][n]].sec => m = n
      BY <1>a, <1>1 DEF Carried, SecOf
    <3> QED BY <1>3, <2>3, <3>4, <3>5 DEF Carried, SecOf
  <2> QED BY <2>2, <2>3
<1>8. Copied'
  BY <1>a, <1>1 DEF Copied
<1> QED BY <1>6, <1>7, <1>8 DEF Contents

\* After a restart only dirty entries are left.
LEMMA PowerFailContents ==
  ASSUME CacheInv, Careful, PowerFail
  PROVE  Contents'
<1>a. TypeOK /\ Removable = Dev
  BY DEF CacheInv, Careful, PowerFail
<1>1. /\ busy' = [x \in Dev |-> 0] /\ inflight' = [x \in Dev |-> {}] /\ pc' = "idle"
      /\ \E f \in Dev : status' = [i \in Buf |-> AfterRegdev(i, f)]
  BY DEF PowerFail
<1>2. \A x \in Dev : inflight'[x] = {} /\ busy'[x] # WriteSize
  BY <1>1, Sizes
<1>3. \A x \in Dev : Carried(x)'
  BY <1>2, CarriedFree
<1>4. ASSUME NEW i \in Idx, "DIRTY" \notin status'[i] PROVE "USED" \notin status'[i]
  <2>1. PICK f \in Dev : status'[i] = AfterRegdev(i, f)
    BY <1>1, FiniteIdx
  <2>2. DevOf(i) \in Removable
    BY <1>a, FiniteIdx DEF TypeOK, DevOf
  <2>3. status'[i] = Unused \/ status'[i] = AfterInit(i)
    BY <2>1, Zenon DEF AfterRegdev
  <2>4. \/ AfterInit(i) = Unused
        \/ "DIRTY" \in status[i] /\ AfterInit(i) = status[i] \ {"BUSY"}
    BY <2>2, Zenon DEF AfterInit
  <2> QED BY <1>4, <2>3, <2>4 DEF Unused
<1>5. CleanMatches'
  BY <1>4 DEF CleanMatches, Holds
<1>6. Copied'
  BY <1>1 DEF Copied
<1> QED BY <1>3, <1>5, <1>6 DEF Contents

LEMMA NextContents ==
  ASSUME CacheInv, Order, Devices, Contents, Careful, [Next]_vars
  PROVE  Contents'
<1>1. CASE PowerFail
  BY <1>1, PowerFailContents
<1>2. CASE \E d \in Dev : Programmed(d)
  BY <1>2, ProgrammedContents
<1>3. CASE UNCHANGED vars \/ \E d \in Dev : BackgroundDone(d) \/ BackgroundBegins(d)
  BY <1>3, QuietContents
<1>4. CASE Begin \/ Run
  <2>1. CASE \/ Begin \/ Ticked \/ Find \/ Lookup \/ Hit \/ Miss \/ GetFree
             \/ FlushWait \/ FlushBusy \/ FlushPoll \/ FlushNext \/ PollIdle
    BY <2>1, QuietContents
  <2>2. CASE Assign
    BY <2>2, AssignContents
  <2>3. CASE Fill \/ Filled
    BY <2>3, FillContents
  <2>4. CASE Copy \/ Mark
    BY <2>4, StoreContents
  <2>5. CASE Evict \/ FlushEntry
    BY <2>5, WriteOutContents
  <2>6. CASE WriteEntry
    BY <2>6, WriteEntryContents
  <2>7. CASE WriteDone
    BY <2>7, WriteDoneContents
  <2>8. CASE PollWrite
    BY <2>8, PollWriteContents
  <2>9. CASE PollRead
    BY <2>9, PollReadContents
  <2> QED BY <1>4, <2>1, <2>2, <2>3, <2>4, <2>5, <2>6, <2>7, <2>8, <2>9 DEF Run
<1> QED BY <1>1, <1>2, <1>3, <1>4 DEF Next, Device

\* The whole invariant of the cache.
LEMMA ContentsAlways ==
  ASSUME Careful
  PROVE  Spec => [](CacheInv /\ Order /\ Devices /\ Contents)
<1>1. Init => CacheInv /\ Order /\ Devices /\ Contents
  BY InitInv, InitOrder, InitDevices, InitContents
<1>2. CacheInv /\ Order /\ Devices /\ Contents /\ [Next]_vars
         => (CacheInv /\ Order /\ Devices /\ Contents)'
  BY NextInv, NextOrder, NextDevices, NextContents
<1> QED BY <1>1, <1>2, PTL DEF Spec

\* An entry that is not dirty holds what is on its device: _fatftc_getfree
\* drops it without writing it, and nothing is lost.
THEOREM CleanEntriesMatch ==
  ASSUME Careful
  PROVE  Spec => []CleanMatches
<1>1. CacheInv /\ Order /\ Devices /\ Contents => CleanMatches
  BY DEF Contents
<1>2. Spec => [](CacheInv /\ Order /\ Devices /\ Contents)
  BY ContentsAlways
<1> QED BY <1>1, <1>2, PTL

-----------------------------------------------------------------------------
(* fatftc_flushdev *)

\* A flush with FTC_WAIT counts an entry as written that was refused because
\* the driver was busy of its own accord, or the page buffers were in use:
\* drivers are not, and sectors are written alone, or page buffers come back.
Steady == TRUE \in Waits =>
             /\ ~ Background
             /\ \/ WriteSize = 1
                \/ FALSE \notin Waits /\ ~ IoErrors /\ ~ PowerFails /\ ReadOnly = {}

\* Then a write that fat_tick goes on with has all its sectors on the device.
Prompt == TRUE \in Waits =>
             /\ \A d \in Dev : /\ chip[d] # "background"
                               /\ busy[d] = WriteSize /\ wr.dev # d => bcount[d] = 0
             /\ wr # NoWr /\ poll # 0 => wr.len = 0
PagesFree == TRUE \in Waits /\ WriteSize # 1 => Pages

\* A flush that is at entry ent: those before it are clean, and what is
\* written, or waited for, is this one.
DirtyOn(d, i) == "DIRTY" \in status[i] /\ of[i].dev = d
Settling ==
  /\ ret # "busy"
  /\ ret # "err" => \A i \in Idx : DirtyOn(call.dev, i) => i >= ent
  /\ poll # 0 => res = "busy" /\ call.wait
  /\ wr # NoWr /\ poll = 0 => wr.dev = call.dev
  /\ busy[call.dev] # 0 => /\ busy[call.dev] = WriteSize /\ AtList(call.dev, ent)
                           /\ res = "busy" \/ (res = "none" /\ wr # NoWr /\ poll = 0)
  /\ busy[call.dev] = 0 => /\ res = "ok" => ~ DirtyOn(call.dev, ent)
                           /\ res = "busy" /\ call.wait => ~ DirtyOn(call.dev, ent)
Flushes == /\ pc \in {"flwait", "flbusy"} => ret = "none"
           /\ pc = "flush" => Settling
           /\ FlushComplete

FlushInv == CacheInv /\ Order /\ Devices /\ Prompt /\ PagesFree /\ Flushes

LEMMA InitFlush == Init => Prompt /\ PagesFree /\ Flushes
<1> SUFFICES ASSUME Init PROVE Prompt /\ PagesFree /\ Flushes
  OBVIOUS
<1>1. Prompt
  <2>1. \A d \in Dev : chip[d] = "idle" /\ busy[d] = 0
    BY DEF Init
  <2> QED BY <2>1, Sizes DEF Prompt, Init
<1>2. PagesFree
  BY DEF Init, Pages, PagesFree, Unused, Buf
<1>3. Flushes
  BY DEF Init, Flushes, FlushComplete
<1> QED BY <1>1, <1>2, <1>3

\* The calls of the drivers leave page buffers only to writes in progress.
LEMMA FreeStep ==
  ASSUME CacheInv, Steady, PagesFree, [Next]_vars
  PROVE  PagesFree'
<1> SUFFICES ASSUME TRUE \in Waits, WriteSize # 1 PROVE Pages'
  BY DEF PagesFree
<1>1. ~ IoErrors /\ ~ PowerFails /\ ReadOnly = {} /\ Pages
  BY DEF Steady, PagesFree
<1> QED BY <1>1, PagesStep

LEMMA PromptStep ==
  ASSUME CacheInv, Order, Devices, Steady, Prompt, [Next]_vars
  PROVE  Prompt'
<1> SUFFICES ASSUME TRUE \in Waits
             PROVE  /\ \A d \in Dev : /\ chip'[d] # "background"
                                      /\ busy'[d] = WriteSize /\ wr'.dev # d => bcount'[d] = 0
                    /\ wr' # NoWr /\ poll' # 0 => wr'.len = 0
  BY DEF Prompt
<1>a. /\ TypeOK /\ Lists /\ Chips /\ ~ Background
      /\ \A d \in Dev : /\ chip[d] # "background"
                        /\ busy[d] = WriteSize /\ wr.dev # d => bcount[d] = 0
      /\ wr # NoWr /\ poll # 0 => wr.len = 0
      /\ \A x \in Dev : NoWr.dev # x
  BY Sizes DEF CacheInv, Data, Devices, Prompt, Steady, NoWr
<1>1. CASE PowerFail
  <2>1. /\ \A d \in Dev : busy'[d] = 0 /\ chip'[d] = "idle"
        /\ wr' = NoWr
    BY <1>1 DEF PowerFail
  <2> QED BY <2>1, Sizes
<1>2. CASE UNCHANGED vars \/ \E d \in Dev : Device(d) \/ BackgroundBegins(d)
  <2>1. UNCHANGED <<busy, bcount, wr, poll>>
    BY <1>2 DEF Device, Programmed, BackgroundDone, BackgroundBegins, vars, drvars
  <2>2. \A d \in Dev : chip'[d] = chip[d] \/ chip'[d] = "idle"
    <3>1. CASE UNCHANGED vars
      BY <3>1 DEF vars, devvars
    <3>2. CASE \E d \in Dev : Device(d) \/ BackgroundBegins(d)
      <4>1. PICK x \in Dev : chip' = [chip EXCEPT ![x] = "idle"]
        BY <1>a, <3>2 DEF Device, Programmed, BackgroundDone, BackgroundBegins
      <4> QED BY <1>a, <4>1 DEF TypeOK
    <3> QED BY <1>2, <3>1, <3>2
  <2> QED BY <1>a, <2>1, <2>2
<1>3. CASE \/ Begin \/ Ticked \/ Find \/ Lookup \/ Hit \/ Miss \/ GetFree \/ Assign \/ Filled
           \/ Copy \/ Mark \/ FlushWait \/ FlushBusy \/ FlushPoll \/ FlushNext \/ PollIdle
  <2>1. UNCHANGED <<busy, bcount, chip, wr>> /\ wr = NoWr
    BY <1>3 DEF Begin, Ticked, Find, Lookup, Hit, Miss, GetFree, Assign, Filled, Copy, Mark,
       FlushWait, FlushBusy, FlushPoll, FlushNext, PollIdle, AtStep, Polling, drvars, devvars
  <2> QED BY <1>a, <2>1
<1>4. CASE Fill
  <2>1. UNCHANGED <<bcount, chip, wr>> /\ wr = NoWr
    BY <1>4 DEF Fill, AtStep, devvars
  <2>2. busy' = busy \/ busy' = [busy EXCEPT ![call.dev] = READ]
    BY <1>4 DEF Fill
  <2>3. \A d \in Dev : busy'[d] = busy[d] \/ busy'[d] # WriteSize
    BY <1>a, <2>2, Sizes DEF TypeOK
  <2> QED BY <1>a, <2>1, <2>3
<1>5. CASE Evict \/ FlushEntry
  <2>a. UNCHANGED <<bcount, chip>> /\ wr = NoWr /\ poll = 0 /\ ent \in Idx
    BY <1>a, <1>5 DEF Evict, FlushEntry, AtStep, devvars, TypeOK
  <2>1. ASSUME NEW purge \in BOOLEAN, DevWrite(ent, purge), poll' = 0
        PROVE  /\ \A d \in Dev : busy'[d] = WriteSize /\ wr'.dev # d => bcount'[d] = 0
               /\ wr' # NoWr /\ poll' # 0 => wr'.len = 0
    <3>1. PICK d \in Dev : \/ WriteRefused(d, ent) \/ WriteNeedless(d, ent)
                           \/ WriteBegins(d, ent, purge) \/ WriteUnread(d, ent)
      BY <2>a, <2>1, DevWriteCases
    <3>2. CASE WriteBegins(d, ent, purge)
      <4>1. /\ wr' = [dev |-> d, len |-> WriteSize, purge |-> purge]
            /\ \A x \in Dev \ {d} : busy'[x] = busy[x]
        BY <3>2 DEF WriteBegins
      <4> QED BY <1>a, <2>a, <2>1, <4>1
    <3>3. CASE UNCHANGED <<busy, wr>>
      BY <1>a, <2>a, <3>3
    <3> QED BY <3>1, <3>2, <3>3 DEF WriteRefused, WriteNeedless, WriteUnread
  <2>2. CASE FlushEntry
    <3>1. DevWrite(ent, FALSE) /\ poll' = 0 /\ FALSE \in BOOLEAN
      BY <2>a, <2>2 DEF FlushEntry
    <3> QED BY <1>a, <2>a, <2>1, <3>1
  <2>3. CASE Evict
    <3>1. CASE DevWrite(ent, TRUE) /\ UNCHANGED poll
      <4>1. poll' = 0 /\ TRUE \in BOOLEAN
        BY <2>a, <3>1
      <4> QED BY <1>a, <2>a, <2>1, <3>1, <4>1
    <3>2. CASE UNCHANGED <<busy, wr>>
      BY <1>a, <2>a, <3>2
    <3> QED BY <2>3, <3>1, <3>2, Zenon DEF Evict
  <2> QED BY <1>5, <2>2, <2>3
<1>6. CASE WriteEntry
  <2>1. PICK d \in Dev, k \in 1 .. WriteSize, e \in Buf :
            /\ wr # NoWr /\ d = wr.dev /\ k = wr.len
            /\ \/ d \notin Queueing /\ chip[d] = "idle" /\ Stored(d, e) /\ Going(d, e, k)
               \/ /\ d \in Queueing /\ k > 1 /\ chip[d] \in {"idle", "loading"}
                  /\ Queued(d, e, "loading") /\ Going(d, e, k)
               \/ /\ d \in Queueing /\ k = 1 /\ chip[d] \in {"idle", "loading"}
                  /\ Queued(d, e, "program") /\ Left(d, e, 0)
               \/ chip[d] = "background" /\ UNCHANGED devvars /\ Left(d, e, k)
               \/ chip[d] = "idle" /\ UNCHANGED devvars /\ Failed(d)
    BY <1>6, EntryFacts
  <2>2. poll = 0
    BY <1>a, <2>1
  <2>3. \A x \in Dev : chip'[x] # "background"
    <3>1. CASE Stored(d, e) \/ UNCHANGED devvars
      BY <1>a, <3>1 DEF Stored, devvars
    <3>2. CASE Queued(d, e, "loading")
      BY <1>a, <3>2 DEF Queued
    <3>3. CASE Queued(d, e, "program")
      BY <1>a, <3>3 DEF Queued
    <3> QED BY <2>1, <3>1, <3>2, <3>3
  <2>4. CASE Going(d, e, k)
    <3>1. UNCHANGED <<busy, bcount, poll>> /\ wr' = [dev |-> d, len |-> k - 1, purge |-> wr.purge]
      BY <2>4 DEF Going
    <3> QED BY <1>a, <2>1, <2>2, <2>3, <3>1
  <2>5. CASE Left(d, e, 0)
    <3>1. /\ UNCHANGED busy /\ wr' = NoWr /\ bcount'[d] = 0
          /\ \A x \in Dev \ {d} : bcount'[x] = bcount[x]
      BY <2>5 DEF Left, EndWrite
    <3> QED BY <1>a, <2>1, <2>3, <3>1
  <2>6. CASE Failed(d)
    <3>1. /\ busy'[d] = 0 /\ wr' = NoWr
          /\ \A x \in Dev \ {d} : busy'[x] = busy[x] /\ bcount'[x] = bcount[x]
      BY <2>6 DEF Failed, Ended, EndWrite
    <3> QED BY <1>a, <2>1, <2>3, <3>1, Sizes
  <2> QED BY <1>a, <2>1, <2>4, <2>5, <2>6
<1>7. CASE WriteDone
  <2>1. PICK d \in Dev : /\ d = wr.dev /\ UNCHANGED chip /\ Ended(d) /\ EndWrite("ok")
    BY <1>7, DoneFacts
  <2>2. /\ busy'[d] = 0 /\ wr' = NoWr
        /\ \A x \in Dev \ {d} : busy'[x] = busy[x] /\ bcount'[x] = bcount[x]
    BY <2>1 DEF Ended, EndWrite
  <2> QED BY <1>a, <2>1, <2>2, Sizes
<1>8. CASE PollWrite
  <2>1. PICK d \in Dev :
            /\ wr = NoWr /\ WriteList(d)
            /\ wr' = [dev |-> d, len |-> bcount[d], purge |-> bpurge[d]]
            /\ UNCHANGED <<busy, bcount, chip, poll>>
    BY <1>8, PollWriteFacts
  <2>2. bcount[d] = 0
    BY <1>a, <2>1 DEF WriteList
  <2> QED BY <1>a, <2>1, <2>2
<1>9. CASE PollRead
  <2>1. PICK d \in Dev : wr = NoWr /\ UNCHANGED <<chip, wr>> /\ Ended(d)
    BY <1>9, PollReadFacts
  <2>2. busy'[d] = 0 /\ \A x \in Dev \ {d} : busy'[x] = busy[x] /\ bcount'[x] = bcount[x]
    BY <2>1 DEF Ended
  <2> QED BY <1>a, <2>1, <2>2, Sizes
<1> QED BY <1>1, <1>2, <1>3, <1>4, <1>5, <1>6, <1>7, <1>8, <1>9 DEF Next, Run

\* A call that is not a flush, or has ended and is not one that succeeded.
LEMMA NoFlush ==
  ASSUME pc' \notin {"flwait", "flbusy", "flush"},
         ~ (pc' = "idle" /\ call'.op = "flush" /\ ret' = "ok")
  PROVE  Flushes'
BY DEF Flushes, FlushComplete

\* A flush waits only if some calls do.
LEMMA FlushWaits ==
  ASSUME TypeOK, CallOK, pc = "flush"
  PROVE  call.wait \in Waits /\ call.wait \in BOOLEAN /\ call.dev \in Dev
<1>1. call.op = "flush"
  BY DEF CallOK, Flushing
<1> QED BY <1>1, FlagAssumption DEF TypeOK, Calls, NoCall

\* A flush that waits, and has its device to itself, finds page buffers.
LEMMA PagesAtHand ==
  ASSUME CacheInv, Devices, Steady, PagesFree, pc = "flush", TRUE \in Waits,
         busy[call.dev] = 0, "DIRTY" \in status[ent]
  PROVE  ~ PagesInUse(ent)
<1>a. /\ TypeOK /\ Lists /\ Waited /\ MarksUsed /\ NoDuplicates /\ ent \in Idx
      /\ status \in [Buf -> SUBSET {"USED", "BUSY", "DIRTY"}]
      /\ of \in [Buf -> [dev : Dev, sec : Sec]]
      /\ \A j \in Idx : status[j] # {} => "USED" \in status[j]
  BY DEF CacheInv, Data, Devices, TypeOK, MarksUsed
<1>1. CASE WriteSize = 1
  <2>1. /\ DirtyList(ent) \in Seq(Idx) /\ Len(DirtyList(ent)) >= 1
        /\ Missing(ent) \in Seq(Sec)
        /\ Len(DirtyList(ent)) + Len(Missing(ent)) = 1
    BY <1>a, <1>1, ListFacts
  <2>2. Missing(ent) = <<>>
    BY <2>1
  <2> QED BY <2>2 DEF PagesInUse
<1>2. CASE WriteSize # 1
  <2>1. Pages /\ FALSE \notin Waits
    BY <1>2 DEF PagesFree, Steady
  <2>2. MaxBufs + 1 \in Page
    BY <1>2, Sizes DEF Page
  <2>3. ASSUME status[MaxBufs + 1] # {} PROVE FALSE
    <3>1. PICK d \in Dev : busy[d] = WriteSize
      BY <2>1, <2>2, <2>3 DEF Pages
    <3>2. WaitedFor(d)
      BY <2>1, <3>1, Sizes DEF Devices, Waited
    <3> QED BY <3>1, <3>2, Sizes DEF WaitedFor
  <2> QED BY <2>3 DEF PagesInUse, Unused
<1> QED BY <1>1, <1>2

\* A step in which the flush does not go on to the next entry.
LEMMA SettlingFrame ==
  ASSUME CacheInv, Flushes, pc = "flush", UNCHANGED <<call, pc, ent, ret>>,
         \A i \in Idx : /\ "DIRTY" \in status'[i] => "DIRTY" \in status[i]
                        /\ of'[i] = of[i],
         poll' # 0 => res' = "busy" /\ call.wait,
         wr' # NoWr /\ poll' = 0 => wr'.dev = call.dev,
         busy'[call.dev] # 0 => /\ busy'[call.dev] = WriteSize /\ AtList(call.dev, ent)'
                                /\ res' = "busy" \/ (res' = "none" /\ wr' # NoWr /\ poll' = 0),
         busy'[call.dev] = 0 => /\ res' = "ok" => ~ DirtyOn(call.dev, ent)'
                                /\ res' = "busy" /\ call.wait => ~ DirtyOn(call.dev, ent)'
  PROVE  Flushes'
<1>1. Settling
  BY DEF Flushes
<1>2. \A i \in Idx : DirtyOn(call.dev, i)' => DirtyOn(call.dev, i)
  BY DEF DirtyOn
<1>3. Settling'
  <2>1. ret' # "busy" /\ (ret' # "err" => \A i \in Idx : DirtyOn(call.dev, i)' => i >= ent')
    BY <1>1, <1>2 DEF Settling
  <2> QED BY <2>1 DEF Settling
<1> QED BY <1>3 DEF Flushes, FlushComplete

\* The steps of the flush itself.
LEMMA FlushCallStep ==
  ASSUME FlushInv, Steady, FlushWait \/ FlushBusy \/ FlushEntry \/ FlushPoll \/ FlushNext
  PROVE  Flushes'
<1>a. /\ CacheInv /\ TypeOK /\ CallOK /\ Lists /\ MarksUsed /\ Outcome /\ Rest /\ Chips
      /\ Devices /\ PagesFree /\ Prompt /\ Flushes /\ ent \in Idx
  BY DEF FlushInv, CacheInv, Control, Data, Order, Devices, TypeOK
<1>b. wr = NoWr /\ poll = 0 /\ \A x \in Dev : NoWr.dev # x
  BY Sizes DEF FlushWait, FlushBusy, FlushEntry, FlushPoll, FlushNext, AtStep, NoWr
<1>1. CASE FlushWait
  <2>1. /\ pc = "flwait" /\ ret = "none" /\ res = "none"
        /\ UNCHANGED <<status, of, busy, list, call, res, wr, ret>>
    BY <1>1, <1>a DEF FlushWait, AtStep, Goto, GotoWith, Flushes, Outcome, bbvars, drvars
  <2>2. CASE busy[call.dev] # 0
    <3>1. pc' \in {"flwait", "flbusy"}
      BY <1>1, <2>2 DEF FlushWait, Goto, GotoWith
    <3> QED BY <2>1, <3>1 DEF Flushes, FlushComplete
  <2>3. CASE busy[call.dev] = 0
    <3>1. pc' = "flush" /\ ent' = 1 /\ poll' = 0
      BY <1>1, <2>3 DEF FlushWait, GotoWith, NoTick
    <3>2. \A i \in Idx : i >= 1
      BY Sizes DEF Idx
    <3>3. Settling'
      BY <1>b, <2>1, <2>3, <3>1, <3>2 DEF Settling
    <3> QED BY <3>1, <3>3 DEF Flushes, FlushComplete
  <2> QED BY <2>2, <2>3
<1>2. CASE FlushBusy
  <2>1. pc' = "idle" /\ ret' = "busy"
    BY <1>2 DEF FlushBusy, Return
  <2> QED BY <2>1, NoFlush
<1>c. ASSUME pc = "flush"
      PROVE  /\ Settling /\ call.dev \in Dev /\ call.wait \in Waits /\ call.wait \in BOOLEAN
             /\ call.wait => TRUE \in Waits
             /\ busy[call.dev] = 0 => \/ res = "none" \/ res = "err"
                                      \/ (res = "busy" /\ ~ call.wait)
                                      \/ ~ DirtyOn(call.dev, ent)
  <2>1. Settling /\ call.dev \in Dev /\ call.wait \in Waits /\ call.wait \in BOOLEAN
    BY <1>a, <1>c, FlushWaits DEF Flushes
  <2>2. res \in {"none", "ok", "busy", "err"}
    BY <1>a DEF TypeOK
  <2>3. call.wait => TRUE \in Waits
    BY <2>1
  <2> QED BY <2>1, <2>2, <2>3 DEF Settling
<1>3. CASE FlushEntry
  <2>1. /\ pc = "flush" /\ res = "none" /\ DevOf(ent) = call.dev /\ DevWrite(ent, FALSE)
        /\ UNCHANGED <<call, pc, ent, ret, poll, chip, bcount>> /\ FALSE \in BOOLEAN
    BY <1>3 DEF FlushEntry, AtStep, OnDevice, devvars
  <2>2. /\ busy[call.dev] = 0
        /\ call.wait => TRUE \in Waits
    BY <1>b, <1>c, <2>1 DEF Settling
  <2>3. PICK d \in Dev : /\ d = DevOf(ent)
                         /\ \/ WriteRefused(d, ent) \/ WriteNeedless(d, ent)
                            \/ WriteBegins(d, ent, FALSE) \/ WriteUnread(d, ent)
    BY <1>a, <1>b, <2>1, DevWriteCases
  <2>4. CASE WriteRefused(d, ent)
    <3>1. /\ res' = "busy" /\ UNCHANGED <<status, of, busy, list, wr>>
          /\ chip[d] # "idle" \/ busy[d] # 0 \/ ("DIRTY" \in status[ent] /\ PagesInUse(ent))
      BY <2>4 DEF WriteRefused
    <3>2. ~ call.wait
      <4> SUFFICES ASSUME call.wait PROVE FALSE
        OBVIOUS
      <4>1. chip[d] \in {"idle", "loading", "program"}
        BY <1>a, <2>2 DEF TypeOK, Prompt
      <4>2. chip[d] = "idle"
        BY <1>a, <1>b, <2>1, <2>2, <2>3, <4>1, Sizes DEF Chips
      <4>3. ~ ("DIRTY" \in status[ent] /\ PagesInUse(ent))
        BY <1>a, <2>1, <2>2, PagesAtHand
      <4> QED BY <2>1, <2>2, <2>3, <3>1, <4>2, <4>3
    <3> QED BY <1>a, <1>b, <2>1, <2>2, <3>1, <3>2, SettlingFrame
  <2>5. CASE WriteNeedless(d, ent)
    <3>1. /\ "DIRTY" \notin status[ent] /\ res' = "ok" /\ UNCHANGED <<status, of, busy, list, wr>>
      BY <2>5 DEF WriteNeedless
    <3>2. ~ DirtyOn(call.dev, ent)'
      BY <2>1, <3>1 DEF DirtyOn
    <3> QED BY <1>a, <1>b, <2>1, <2>2, <3>1, <3>2, SettlingFrame
  <2>6. CASE WriteUnread(d, ent)
    <3>1. /\ res' = "err" /\ UNCHANGED <<busy, list, wr>>
          /\ \A j \in Idx : status'[j] = status[j] /\ of'[j] = of[j]
      BY <2>6 DEF WriteUnread
    <3> QED BY <1>a, <1>b, <2>1, <2>2, <3>1, SettlingFrame
  <2>7. CASE WriteBegins(d, ent, FALSE)
    <3>1. /\ res' = res /\ wr' = [dev |-> d, len |-> WriteSize, purge |-> FALSE]
          /\ busy'[d] = WriteSize /\ DOMAIN list'[d] = 1 .. WriteSize /\ list'[d][1] = ent
      BY <2>7 DEF WriteBegins
    <3>2. \A j \in Idx : status'[j] = status[j] /\ of'[j] = of[j]
      <4>1. \A j \in Idx : j \in Buf /\ j \notin Page
        BY FiniteIdx
      <4> QED BY <2>7, <4>1 DEF WriteBegins, OnlyPages
    <3>3. wr' # NoWr /\ wr'.dev = call.dev /\ d = call.dev
      <4>1. wr'.dev = d
        BY <3>1
      <4> QED BY <1>b, <2>1, <2>3, <4>1
    <3>4. AtList(call.dev, ent)'
      <4>1. 1 \in DOMAIN list'[d]
        BY <3>1, Sizes
      <4> QED BY <2>1, <3>1, <3>3, <4>1 DEF AtList
    <3> QED BY <1>a, <1>b, <2>1, <3>1, <3>2, <3>3, <3>4, Sizes, SettlingFrame
  <2> QED BY <2>3, <2>4, <2>5, <2>6, <2>7
<1>4. CASE FlushPoll
  <2>1. pc = "flush" /\ res = "busy" /\ UNCHANGED <<status, of, busy, list, call, wr>>
    BY <1>4 DEF FlushPoll, AtStep, bbvars, drvars
  <2>2. CASE call.wait /\ busy[call.dev] # 0 /\ Tick /\ Stay /\ UNCHANGED res
    <3>1. UNCHANGED <<pc, ent, ret>> /\ res' = "busy"
      BY <2>1, <2>2 DEF Stay, Goto, GotoWith
    <3>2. AtList(call.dev, ent)' /\ busy[call.dev] = WriteSize
      BY <1>c, <2>1, <2>2, <3>1 DEF Settling, AtList
    <3> QED BY <1>a, <1>b, <2>1, <2>2, <3>1, <3>2, SettlingFrame
  <2>3. CASE Return("busy")
    <3>1. pc' = "idle" /\ ret' = "busy"
      BY <2>3 DEF Return
    <3> QED BY <3>1, NoFlush
  <2> QED BY <1>4, <2>2, <2>3 DEF FlushPoll
<1>5. CASE FlushNext
  <2>1. /\ pc = "flush" /\ Flushed /\ res' = "none"
        /\ UNCHANGED <<status, of, busy, list, call, wr, poll>>
    BY <1>5, Zenon DEF FlushNext, AtStep, bbvars, drvars
  <2>2. PICK rc \in {"ok", "err"} : /\ rc = "ok" => res # "err" /\ ret # "err"
                                    /\ IF ent = MaxBufs THEN Return(rc)
                                       ELSE ent' = ent + 1 /\ ret' = rc /\ UNCHANGED pc
    <3>1. CASE "err" \in {res, ret}
      <4>1. IF ent = MaxBufs THEN Return("err")
            ELSE ent' = ent + 1 /\ ret' = "err" /\ UNCHANGED pc
        BY <1>5, <3>1, Zenon DEF FlushNext
      <4> QED BY <4>1
    <3>2. CASE "err" \notin {res, ret}
      <4>1. IF ent = MaxBufs THEN Return("ok")
            ELSE ent' = ent + 1 /\ ret' = "ok" /\ UNCHANGED pc
        BY <1>5, <3>2, Zenon DEF FlushNext
      <4> QED BY <3>2, <4>1
    <3> QED BY <3>1, <3>2
  <2>3. busy[call.dev] = 0
    BY <1>b, <1>c, <2>1 DEF Settling, Flushed
  <2>4. res # "err" => ~ DirtyOn(call.dev, ent)
    <3>1. CASE res = "none"
      <4>1. ~ OnDevice
        BY <2>1, <3>1 DEF Flushed
      <4> QED BY <1>a, <4>1 DEF OnDevice, DirtyOn, MarksUsed, DevOf
    <3>2. CASE res = "busy"
      BY <1>c, <2>1, <2>3, <3>2 DEF Flushed
    <3>3. CASE res = "ok"
      BY <1>c, <2>1, <2>3, <3>3
    <3> QED BY <1>a, <3>1, <3>2, <3>3 DEF TypeOK
  <2>5. rc = "ok" => \A i \in Idx : DirtyOn(call.dev, i) => i > ent
    <3> SUFFICES ASSUME rc = "ok", NEW i \in Idx, DirtyOn(call.dev, i) PROVE i > ent
      OBVIOUS
    <3>1. i >= ent /\ i # ent
      BY <1>c, <2>1, <2>2, <2>4 DEF Settling
    <3> QED BY <1>a, <3>1, Sizes DEF Idx
  <2>6. \A i \in Idx : DirtyOn(call.dev, i)' => DirtyOn(call.dev, i)
    BY <2>1 DEF DirtyOn
  <2>7. CASE ent = MaxBufs
    <3>1. pc' = "idle" /\ ret' = rc
      BY <2>2, <2>7 DEF Return
    <3>2. ASSUME rc = "ok", NEW i \in Idx PROVE ~ DirtyOn(call.dev, i)'
      <4>1. ~ (i > MaxBufs)
        BY Sizes DEF Idx
      <4> QED BY <2>5, <2>6, <2>7, <3>2, <4>1
    <3>3. rc = "ok" => \A i \in Idx : ~ ("DIRTY" \in status'[i] /\ of'[i].dev = call'.dev)
      BY <2>1, <3>2 DEF DirtyOn
    <3> QED BY <2>1, <2>3, <3>1, <3>3 DEF Flushes, FlushComplete, DevOf
  <2>8. CASE ent # MaxBufs
    <3>1. ent' = ent + 1 /\ ret' = rc /\ pc' = pc
      BY <2>2, <2>8
    <3>2. rc = "ok" => \A i \in Idx : DirtyOn(call.dev, i)' => i >= ent + 1
      <4>1. \A i \in Idx : i > ent => i >= ent + 1
        BY <1>a, Sizes DEF Idx
      <4> QED BY <2>5, <2>6, <4>1
    <3>3. Settling'
      BY <1>b, <2>1, <2>2, <2>3, <3>1, <3>2 DEF Settling
    <3> QED BY <2>1, <3>1, <3>3 DEF Flushes, FlushComplete
  <2> QED BY <2>7, <2>8
<1> QED BY <1>1, <1>2, <1>3, <1>4, <1>5

\* The steps of other calls.
LEMMA OtherCallStep ==
  ASSUME CacheInv, Order,
         \/ Begin \/ Ticked \/ Find \/ Lookup \/ Hit \/ Miss \/ GetFree \/ Evict \/ Assign
         \/ Fill \/ Filled \/ Copy \/ Mark
  PROVE  Flushes'
<1>a. TypeOK /\ CallOK /\ Rest
  BY DEF CacheInv, Control, Order
<1>1. CASE Begin
  <2>1. ret' = "none" /\ pc' \in {"ticked", "flwait", "find"}
    BY <1>1 DEF Begin
  <2> QED BY <2>1 DEF Flushes, FlushComplete
<1>2. ASSUME pc \in Asking \cup {"ticked"}, call' = call,
             pc' = pc \/ pc' \in {"idle"} \cup Asking
      PROVE  Flushes'
  <2>1. call.op # "flush"
    BY <1>a, <1>2 DEF CallOK, Rest
  <2>2. pc' \notin {"flwait", "flbusy", "flush"}
    BY <1>2 DEF Asking
  <2> QED BY <1>2, <2>1, <2>2, NoFlush
<1>3. CASE Ticked \/ Find \/ Hit \/ Miss \/ GetFree \/ Assign \/ Filled \/ Copy \/ Mark
  <2>1. pc \in Asking \cup {"ticked"} /\ call' = call
    BY <1>3 DEF Ticked, Find, Hit, Miss, GetFree, Assign, Filled, Copy, Mark, AtStep, Asking
  <2>2. pc' = pc \/ pc' \in {"idle"} \cup Asking
    BY <1>3 DEF Ticked, Find, Hit, Miss, GetFree, Assign, Filled, Copy, Mark, AtStep, Asking,
       Stay, Goto, GotoWith, Return, Deliver
  <2> QED BY <1>2, <2>1, <2>2
<1>4. CASE Lookup
  <2>1. pc \in Asking /\ call' = call
    BY <1>4 DEF Lookup, AtStep, Asking
  <2>2. pc' \in {"miss", "hit", "find", "idle"}
    BY <1>4 DEF Lookup, Goto, GotoWith, Return
  <2> QED BY <1>2, <2>1, <2>2 DEF Asking
<1>5. CASE Fill
  <2>1. pc = "fill" /\ call' = call
    BY <1>5 DEF Fill, AtStep
  <2>2. pc' \in {"fill", "filled", "idle"}
    BY <1>5, <2>1 DEF Fill, Stay, Goto, GotoWith, Return
  <2> QED BY <1>2, <2>1, <2>2 DEF Asking
<1>6. CASE Evict
  <2>1. pc = "evict" /\ call' = call
    BY <1>6 DEF Evict, AtStep
  <2>2. Stay \/ Return("err")
    BY <1>6, Zenon DEF Evict
  <2>3. pc' \in {"evict", "idle"}
    BY <2>1, <2>2 DEF Stay, Goto, GotoWith, Return
  <2> QED BY <1>2, <2>1, <2>3 DEF Asking
<1> QED BY <1>1, <1>3, <1>4, <1>5, <1>6

\* Steps that leave the call where it is.
LEMMA StillThere ==
  ASSUME CacheInv, Flushes, pc # "flush", UNCHANGED <<call, pc, ret>>,
         pc = "idle" => UNCHANGED <<status, of, busy>>
  PROVE  Flushes'
BY DEF Flushes, FlushComplete, DevOf

\* What is written, or goes on in fat_tick, while a flush waits.
LEMMA WritingFlush ==
  ASSUME FlushInv, WriteEntry \/ WriteDone
  PROVE  Flushes'
<1>a. /\ TypeOK /\ CallOK /\ Lists /\ Rest /\ Prompt /\ Flushes /\ ent \in Idx
      /\ CacheInv /\ \A x \in Dev : NoWr.dev # x
  BY Sizes DEF FlushInv, CacheInv, Control, Data, Order, TypeOK, NoWr
<1>b. wr # NoWr /\ UNCHANGED <<call, pc, ent, ret, of>>
  BY DEF WriteEntry, WriteDone
<1>c. pc # "idle"
  BY <1>a, <1>b DEF Rest
<1>1. CASE pc # "flush"
  BY <1>1, <1>a, <1>b, <1>c, StillThere
<1>2. CASE pc = "flush"
  <2>a. /\ Settling /\ call.dev \in Dev /\ call.wait \in BOOLEAN
        /\ call.wait => TRUE \in Waits
        /\ ent \in Buf
    <3>1. call.dev \in Dev /\ call.wait \in BOOLEAN /\ (call.wait => TRUE \in Waits)
      <4>1. call.dev \in Dev /\ call.wait \in BOOLEAN /\ call.wait \in Waits
        BY <1>a, <1>2, FlushWaits
      <4> QED BY <4>1
    <3> QED BY <1>a, <1>2, <3>1, FiniteIdx DEF Flushes
  <2>1. CASE WriteEntry
    <3>1. PICK d \in Dev, k \in 1 .. WriteSize, e \in Buf :
              /\ wr # NoWr /\ d = wr.dev /\ k = wr.len /\ WriteList(d)
              /\ \/ d \notin Queueing /\ chip[d] = "idle" /\ Stored(d, e) /\ Going(d, e, k)
                 \/ /\ d \in Queueing /\ k > 1 /\ chip[d] \in {"idle", "loading"}
                    /\ Queued(d, e, "loading") /\ Going(d, e, k)
                 \/ /\ d \in Queueing /\ k = 1 /\ chip[d] \in {"idle", "loading"}
                    /\ Queued(d, e, "program") /\ Left(d, e, 0)
                 \/ chip[d] = "background" /\ UNCHANGED devvars /\ Left(d, e, k)
                 \/ chip[d] = "idle" /\ UNCHANGED devvars /\ Failed(d)
      BY <1>a, <2>1, EntryFacts
    <3>2. poll = 0 /\ d = call.dev
      <4>1. poll = 0
        <5> SUFFICES ASSUME poll # 0 PROVE FALSE
          OBVIOUS
        <5>1. TRUE \in Waits
          BY <2>a DEF Settling
        <5>2. wr.len = 0
          BY <1>a, <1>b, <5>1 DEF Prompt
        <5> QED BY <3>1, <5>2
      <4> QED BY <1>b, <2>a, <3>1, <4>1 DEF Settling
    <3>3. /\ busy[call.dev] = WriteSize /\ busy[call.dev] # 0 /\ AtList(call.dev, ent)
          /\ res = "none"
      BY <1>a, <1>b, <2>a, <3>1, <3>2, Sizes DEF Settling, WriteList, Rest
    <3>4. CASE Going(d, e, k)
      <4>1. /\ UNCHANGED <<busy, list, res, poll>> /\ wr'.dev = d
            /\ Becomes(e, status[e] \ {"BUSY"})
        BY <3>4 DEF Going
      <4>2. \A i \in Idx : "DIRTY" \in status'[i] => "DIRTY" \in status[i]
        BY <4>1, FiniteIdx DEF Becomes
      <4>3. AtList(call.dev, ent)' /\ wr' # NoWr
        BY <1>a, <1>b, <3>3, <4>1 DEF AtList
      <4> QED BY <1>a, <1>b, <1>2, <3>2, <3>3, <4>1, <4>2, <4>3, SettlingFrame
    <3>5. CASE Left(d, e, 0) \/ Left(d, e, k)
      <4>1. /\ UNCHANGED <<busy, list>> /\ wr' = NoWr /\ res' = "busy" /\ poll' = 0
            /\ status'[e] = status[e] \cup {"BUSY"} /\ \A j \in Buf \ {e} : status'[j] = status[j]
        BY <3>2, <3>5 DEF Left, EndWrite, Becomes
      <4>2. \A i \in Idx : "DIRTY" \in status'[i] => "DIRTY" \in status[i]
        <5>1. "DIRTY" \in status'[e] => "DIRTY" \in status[e]
          BY <4>1
        <5>2. \A i \in Idx : i = e \/ status'[i] = status[i]
          BY <4>1, FiniteIdx
        <5> QED BY <5>1, <5>2
      <4>3. AtList(call.dev, ent)'
        BY <1>b, <3>3, <4>1 DEF AtList
      <4> QED BY <1>a, <1>b, <1>2, <3>2, <3>3, <4>1, <4>2, <4>3, SettlingFrame
    <3>6. CASE Failed(d)
      <4>1. /\ busy'[d] = 0 /\ wr' = NoWr /\ res' = "err" /\ poll' = 0
        BY <3>2, <3>6 DEF Failed, Ended, EndWrite
      <4>2. \A i \in Idx : "DIRTY" \in status'[i] => "DIRTY" \in status[i]
        BY <3>6, FiniteIdx DEF Failed
      <4> QED BY <1>a, <1>b, <1>2, <3>2, <4>1, <4>2, SettlingFrame
    <3> QED BY <3>1, <3>4, <3>5, <3>6
  <2>2. CASE WriteDone
    <3>1. PICK d \in Dev :
              /\ wr # NoWr /\ d = wr.dev /\ WriteList(d)
              /\ Ended(d) /\ EndWrite("ok")
              /\ \A j \in Buf : ~ AtList(d, j) => status'[j] = status[j]
              /\ \A j \in Idx : AtList(d, j) =>
                    status'[j] = IF wr.purge THEN {} ELSE status[j] \ {"DIRTY"}
      BY <1>a, <2>2, DoneFacts
    <3>2. /\ wr' = NoWr /\ busy'[d] = 0
          /\ \A x \in Dev \ {d} : busy'[x] = busy[x] /\ list'[x] = list[x]
          /\ poll = 0 => res' = "ok" /\ poll' = 0
          /\ poll # 0 => res' = res
      BY <3>1 DEF Ended, EndWrite
    <3>3. \A i \in Idx : "DIRTY" \in status'[i] => "DIRTY" \in status[i] /\ ~ AtList(d, i)
      <4> SUFFICES ASSUME NEW i \in Idx, "DIRTY" \in status'[i]
                   PROVE  "DIRTY" \in status[i] /\ ~ AtList(d, i)
        OBVIOUS
      <4>1. ~ AtList(d, i)
        BY <3>1
      <4> QED BY <3>1, <4>1, FiniteIdx
    <3>4. res = "busy" \/ (res = "none" /\ poll = 0)
      BY <1>a, <1>b, <2>a DEF Settling, Rest
    <3>5. CASE d = call.dev
      <4>1. AtList(d, ent)
        BY <2>a, <3>1, <3>5, Sizes DEF Settling, WriteList
      <4>2. ~ DirtyOn(call.dev, ent)'
        BY <1>a, <1>b, <3>3, <4>1 DEF DirtyOn
      <4>3. poll' # 0 => res' = "busy" /\ call.wait
        BY <2>a, <3>2 DEF Settling
      <4> QED BY <1>a, <1>b, <1>2, <3>2, <3>3, <3>5, <4>2, <4>3, SettlingFrame
    <3>6. CASE d # call.dev
      <4>1. poll # 0 /\ res' = res /\ res = "busy" /\ call.wait
        BY <1>b, <2>a, <3>1, <3>2, <3>6 DEF Settling
      <4>2. busy'[call.dev] = busy[call.dev] /\ list'[call.dev] = list[call.dev]
        BY <2>a, <3>2, <3>6
      <4>3. busy'[call.dev] # 0 => busy'[call.dev] = WriteSize /\ AtList(call.dev, ent)'
        BY <1>b, <2>a, <4>2 DEF Settling, AtList
      <4>4. busy'[call.dev] = 0 => ~ DirtyOn(call.dev, ent)'
        BY <1>a, <1>b, <2>a, <3>3, <4>1, <4>2 DEF Settling, DirtyOn
      <4> QED BY <1>a, <1>b, <1>2, <3>2, <3>3, <4>1, <4>3, <4>4, SettlingFrame
    <3> QED BY <3>5, <3>6
  <2> QED BY <2>1, <2>2
<1> QED BY <1>1, <1>2

\* fat_tick begins only what other calls have left, or what the flush waits for.
LEMMA PollingFlush ==
  ASSUME FlushInv, PollIdle \/ PollWrite \/ PollRead
  PROVE  Flushes'
<1>a. /\ TypeOK /\ CallOK /\ Lists /\ Rest /\ Flushes /\ ent \in Idx
      /\ CacheInv /\ \A x \in Dev : NoWr.dev # x
  BY Sizes DEF FlushInv, CacheInv, Control, Data, Order, TypeOK, NoWr
<1>b. wr = NoWr /\ poll # 0 /\ UNCHANGED <<call, pc, ent, ret, of, res>>
  BY DEF PollIdle, PollWrite, PollRead, Polling, cvars, bbvars
<1>c. pc # "idle"
  BY <1>a, <1>b DEF Rest
<1>1. CASE pc # "flush"
  BY <1>1, <1>a, <1>b, <1>c, StillThere
<1>2. CASE pc = "flush"
  <2>a. Settling /\ call.dev \in Dev /\ res = "busy" /\ call.wait
    BY <1>a, <1>b, <1>2, FlushWaits DEF Flushes, Settling
  <2>1. ASSUME wr' = NoWr \/ poll' # 0,
               busy'[call.dev] = busy[call.dev], list'[call.dev] = list[call.dev],
               \A i \in Idx : "DIRTY" \in status'[i] => "DIRTY" \in status[i]
        PROVE  Flushes'
    <3>1. busy'[call.dev] # 0 => busy'[call.dev] = WriteSize /\ AtList(call.dev, ent)'
      BY <1>b, <2>a, <2>1 DEF Settling, AtList
    <3>2. busy'[call.dev] = 0 => ~ DirtyOn(call.dev, ent)'
      BY <1>a, <1>b, <2>a, <2>1 DEF Settling, DirtyOn
    <3> QED BY <1>a, <1>b, <1>2, <2>a, <2>1, <3>1, <3>2, SettlingFrame
  <2>2. CASE PollIdle
    <3>1. UNCHANGED <<status, busy, list, wr>>
      BY <2>2 DEF PollIdle, bbvars, drvars
    <3> QED BY <1>b, <2>1, <3>1
  <2>3. CASE PollWrite
    <3>1. /\ UNCHANGED <<busy, list, poll>>
          /\ \A j \in Idx : \/ status'[j] = status[j]
                            \/ "DIRTY" \in status[j] /\ status'[j] = status[j] \ {"BUSY"}
      BY <1>a, <2>3, PollWriteFacts
    <3>2. \A i \in Idx : "DIRTY" \in status'[i] => "DIRTY" \in status[i]
      BY <3>1
    <3> QED BY <1>b, <2>1, <3>1, <3>2
  <2>4. CASE PollRead
    <3>1. PICK d \in Dev, i \in Idx :
              /\ ReadList(d) /\ Ended(d) /\ UNCHANGED wr
              /\ Becomes(i, status[i] \ {"BUSY"}) \/ Becomes(i, {})
      BY <1>a, <2>4, PollReadFacts
    <3>2. d # call.dev
      BY <2>a, <3>1, Sizes DEF ReadList, Settling
    <3>3. busy'[call.dev] = busy[call.dev] /\ list'[call.dev] = list[call.dev]
      BY <2>a, <3>1, <3>2 DEF Ended
    <3>4. \A j \in Idx : "DIRTY" \in status'[j] => "DIRTY" \in status[j]
      BY <3>1, FiniteIdx DEF Becomes
    <3> QED BY <1>b, <2>1, <3>1, <3>3, <3>4
  <2> QED BY <2>2, <2>3, <2>4
<1> QED BY <1>1, <1>2

LEMMA FlushStep ==
  ASSUME FlushInv, Steady, [Next]_vars
  PROVE  Flushes'
<1>a. CacheInv /\ Order /\ Flushes
  BY DEF FlushInv
<1>1. CASE PowerFail
  <2>1. pc' = "idle" /\ ret' = "none"
    BY <1>1 DEF PowerFail
  <2> QED BY <2>1, NoFlush
<1>2. CASE UNCHANGED vars \/ \E d \in Dev : Device(d) \/ BackgroundBegins(d)
  <2>1. UNCHANGED <<status, of, busy, list, call, pc, ent, res, ret, wr, poll>>
    BY <1>2 DEF Device, Programmed, BackgroundDone, BackgroundBegins, vars, bbvars, drvars, cvars
  <2>2. Settling => Settling'
    BY <2>1 DEF Settling, AtList, DirtyOn
  <2>3. FlushComplete'
    BY <1>a, <2>1 DEF Flushes, FlushComplete, DevOf
  <2> QED BY <1>a, <2>1, <2>2, <2>3 DEF Flushes
<1>3. CASE Begin \/ Run
  <2>1. CASE FlushWait \/ FlushBusy \/ FlushEntry \/ FlushPoll \/ FlushNext
    BY <2>1, FlushCallStep
  <2>2. CASE WriteEntry \/ WriteDone
    BY <2>2, WritingFlush
  <2>3. CASE PollIdle \/ PollWrite \/ PollRead
    BY <2>3, PollingFlush
  <2>4. CASE \/ Begin \/ Ticked \/ Find \/ Lookup \/ Hit \/ Miss \/ GetFree \/ Evict \/ Assign
             \/ Fill \/ Filled \/ Copy \/ Mark
    BY <1>a, <2>4, OtherCallStep
  <2> QED BY <1>3, <2>1, <2>2, <2>3, <2>4 DEF Run
<1> QED BY <1>1, <1>2, <1>3 DEF Next

\* A flush that reports success leaves its device idle and no dirty entry for
\* it, whatever fat_tick did for other calls while it waited.
THEOREM FlushesAll ==
  ASSUME Steady
  PROVE  Spec => []FlushComplete
<1>1. Init => FlushInv
  BY InitInv, InitOrder, InitDevices, InitFlush DEF FlushInv
<1>2. FlushInv /\ [Next]_vars => FlushInv'
  <2> SUFFICES ASSUME FlushInv, [Next]_vars PROVE FlushInv'
    OBVIOUS
  <2>1. CacheInv /\ Order /\ Devices /\ Prompt /\ PagesFree
    BY DEF FlushInv
  <2>2. CacheInv' /\ Order' /\ Devices'
    BY <2>1, NextInv, NextOrder, NextDevices
  <2>3. Prompt' /\ PagesFree' /\ Flushes'
    BY <2>1, PromptStep, FreeStep, FlushStep
  <2> QED BY <2>2, <2>3 DEF FlushInv
<1>3. FlushInv => FlushComplete
  BY DEF FlushInv, Flushes
<1> QED BY <1>1, <1>2, <1>3, PTL DEF Spec

-----------------------------------------------------------------------------
(* The cache as a store of sectors *)

\* What a reader sees of a sector: the dirty entry for it, or the device.
DirtyFor(i, d, s) == "DIRTY" \in status[i] /\ of[i] = [dev |-> d, sec |-> s]
ViewKnown == \A d \in Dev, s \in Sec :
                /\ \A i \in Idx : DirtyFor(i, d, s) => view[<<d, s>>] = buf[i]
                /\ (\A i \in Idx : ~ DirtyFor(i, d, s)) => view[<<d, s>>] = OnDisk(d, s)

LEMMA ViewIs == CacheInv /\ CleanMatches => ViewKnown
<1> SUFFICES ASSUME CacheInv, CleanMatches, NEW d \in Dev, NEW s \in Sec
             PROVE  /\ \A i \in Idx : DirtyFor(i, d, s) => view[<<d, s>>] = buf[i]
                    /\ (\A i \in Idx : ~ DirtyFor(i, d, s)) => view[<<d, s>>] = OnDisk(d, s)
  BY DEF ViewKnown
<1>a. MarksUsed /\ NoDuplicates
  BY DEF CacheInv, Data
<1>1. ASSUME NEW i \in Idx, DirtyFor(i, d, s) PROVE view[<<d, s>>] = buf[i]
  <2>1. "USED" \in status[i] /\ ~ Reading(i) /\ ~ Pending(i) /\ of[i] = [dev |-> d, sec |-> s]
    BY <1>a, <1>1 DEF DirtyFor, MarksUsed, Reading, Pending
  <2> QED BY <1>a, <2>1, OnlyEntry
<1>2. ASSUME \A i \in Idx : ~ DirtyFor(i, d, s) PROVE view[<<d, s>>] = OnDisk(d, s)
  <2>1. CASE \E i \in Idx : Holds(i) /\ of[i] = [dev |-> d, sec |-> s]
    <3>1. PICK i \in Idx : Holds(i) /\ of[i] = [dev |-> d, sec |-> s]
      BY <2>1
    <3>2. view[<<d, s>>] = buf[i]
      BY <1>a, <3>1, OnlyEntry DEF Holds
    <3>3. buf[i] = OnDisk(DevOf(i), SecOf(i))
      BY <1>2, <3>1 DEF CleanMatches, DirtyFor
    <3>4. DevOf(i) = d /\ SecOf(i) = s
      BY <3>1 DEF DevOf, SecOf
    <3> QED BY <3>2, <3>3, <3>4
  <2>2. CASE ~ \E i \in Idx : Holds(i) /\ of[i] = [dev |-> d, sec |-> s]
    <3> DEFINE S == {j \in Cached(d, s) : Holds(j)}
    <3>1. S = {}
      BY <2>2 DEF Cached
    <3>2. <<d, s>> \in Dev \X Sec /\ <<d, s>>[1] = d /\ <<d, s>>[2] = s
      OBVIOUS
    <3>3. view[<<d, s>>] = IF S = {} THEN OnDisk(d, s) ELSE buf[Max(S)]
      BY <3>2 DEF view
    <3> HIDE DEF S
    <3> QED BY <3>1, <3>3
  <2> QED BY <2>1, <2>2
<1> QED BY <1>1, <1>2

\* Two contents of the store are the same if they are so sector by sector.
LEMMA ViewFunction ==
  /\ view = [x \in Dev \X Sec |-> view[x]]
  /\ view' = [x \in Dev \X Sec |-> view'[x]]
<1> DEFINE f(x) == LET S == {i \in Cached(x[1], x[2]) : Holds(i)}
                   IN IF S = {} THEN OnDisk(x[1], x[2]) ELSE buf[Max(S)]
<1>1. view = [x \in Dev \X Sec |-> f(x)]
  BY DEF view
<1>2. view' = [x \in Dev \X Sec |-> f(x)']
  BY DEF view
<1> HIDE DEF f
<1>3. ASSUME NEW g(_), NEW v, v = [x \in Dev \X Sec |-> g(x)]
      PROVE  v = [x \in Dev \X Sec |-> v[x]]
  BY <1>3
<1> QED BY <1>1, <1>2, <1>3

LEMMA ViewSector ==
  ASSUME \A d \in Dev, s \in Sec : view'[<<d, s>>] = view[<<d, s>>]
  PROVE  view' = view
<1>1. \A x \in Dev \X Sec : view'[x] = view[x]
  <2> SUFFICES ASSUME NEW x \in Dev \X Sec PROVE view'[x] = view[x]
    OBVIOUS
  <2>1. PICK d \in Dev, s \in Sec : x = <<d, s>>
    OBVIOUS
  <2> QED BY <2>1
<1> DEFINE f == view
           g == view'
<1>2. f = [x \in Dev \X Sec |-> f[x]] /\ g = [x \in Dev \X Sec |-> g[x]]
  BY ViewFunction
<1>3. \A x \in Dev \X Sec : g[x] = f[x]
  BY <1>1
<1> HIDE DEF f, g
<1>4. g = f
  BY <1>2, <1>3
<1> QED BY <1>4 DEF f, g

\* A step after which the same entries are dirty, and hold the same; what
\* devices hold may change where an entry is dirty.
LEMMA ViewFrame ==
  ASSUME ViewKnown, ViewKnown',
         \A i \in Idx : /\ "DIRTY" \in status'[i] <=> "DIRTY" \in status[i]
                        /\ "DIRTY" \in status[i] => of'[i] = of[i] /\ buf'[i] = buf[i],
         \A d \in Dev, s \in Sec : \/ OnDisk(d, s)' = OnDisk(d, s)
                                   \/ \E i \in Idx : DirtyFor(i, d, s)
  PROVE  view' = view
<1> SUFFICES ASSUME NEW d \in Dev, NEW s \in Sec PROVE view'[<<d, s>>] = view[<<d, s>>]
  BY ViewSector
<1>1. \A i \in Idx : DirtyFor(i, d, s)' <=> DirtyFor(i, d, s)
  BY DEF DirtyFor
<1>2. /\ \A i \in Idx : DirtyFor(i, d, s) => view[<<d, s>>] = buf[i]
      /\ (\A i \in Idx : ~ DirtyFor(i, d, s)) => view[<<d, s>>] = OnDisk(d, s)
  BY DEF ViewKnown
<1>3. /\ \A i \in Idx : DirtyFor(i, d, s)' => view'[<<d, s>>] = buf'[i]
      /\ (\A i \in Idx : ~ DirtyFor(i, d, s)') => view'[<<d, s>>] = OnDisk(d, s)'
  BY DEF ViewKnown
<1>4. CASE \E i \in Idx : DirtyFor(i, d, s)
  <2>1. PICK i \in Idx : DirtyFor(i, d, s)
    BY <1>4
  <2>2. view[<<d, s>>] = buf[i] /\ view'[<<d, s>>] = buf'[i] /\ buf'[i] = buf[i]
    BY <1>1, <1>2, <1>3, <2>1 DEF DirtyFor
  <2> QED BY <2>2
<1>5. CASE \A i \in Idx : ~ DirtyFor(i, d, s)
  BY <1>1, <1>2, <1>3, <1>5
<1> QED BY <1>4, <1>5

\* Steps that leave the entries and the devices as they are, ...
LEMMA QuietView ==
  ASSUME ViewKnown, ViewKnown',
         \/ Begin \/ Ticked \/ Find \/ Lookup \/ Hit \/ Miss \/ GetFree
         \/ FlushWait \/ FlushBusy \/ FlushPoll \/ FlushNext \/ PollIdle
         \/ \E d \in Dev : BackgroundDone(d) \/ BackgroundBegins(d)
         \/ UNCHANGED vars
  PROVE  view' = view
<1>1. UNCHANGED <<status, of, buf, disk, inflight>>
  BY DEF Begin, Ticked, Find, Lookup, Hit, Miss, GetFree, FlushWait, FlushBusy, FlushPoll,
     FlushNext, PollIdle, BackgroundDone, BackgroundBegins, vars, bbvars, drvars, devvars
<1>2. \A d \in Dev, s \in Sec : OnDisk(d, s)' = OnDisk(d, s)
  BY <1>1, OnDiskLanded
<1> QED BY <1>1, <1>2, ViewFrame

\* ... or change only an entry that is not dirty.
LEMMA EntryView ==
  ASSUME CacheInv, ViewKnown, ViewKnown', Assign \/ Fill \/ Filled
  PROVE  view' = view
<1>a. TypeOK /\ Filling /\ ent \in Idx /\ ent \in Buf
  BY FiniteIdx DEF CacheInv, Control, Data, TypeOK
<1>1. UNCHANGED <<disk, inflight>>
  BY DEF Assign, Fill, Filled, devvars
<1>2. \A d \in Dev, s \in Sec : OnDisk(d, s)' = OnDisk(d, s)
  BY <1>1, OnDiskLanded
<1>3. /\ "DIRTY" \notin status[ent] /\ "DIRTY" \notin status'[ent]
      /\ \A j \in Buf \ {ent} : status'[j] = status[j] /\ of'[j] = of[j] /\ buf'[j] = buf[j]
  <2>1. CASE Assign
    <3>1. /\ "DIRTY" \notin status[ent] /\ status' = [status EXCEPT ![ent] = {"USED"}]
          /\ of' = [of EXCEPT ![ent] = [dev |-> call.dev, sec |-> call.sec]] /\ buf' = buf
      BY <2>1 DEF Assign
    <3> QED BY <1>a, <3>1 DEF TypeOK
  <2>2. CASE Filled
    <3>1. status[ent] = {"USED"} /\ UNCHANGED <<of, buf>> /\ status' = ClearBusy(ent)
      BY <1>a, <2>2 DEF Filled, AtStep, Filling
    <3> QED BY <1>a, <3>1 DEF ClearBusy, TypeOK
  <2>3. CASE Fill
    <3>1. status[ent] = {"USED"} /\ of' = of
      BY <1>a, <2>3 DEF Fill, AtStep, Filling
    <3>2. \/ status' = status /\ \E v : buf' = [buf EXCEPT ![ent] = v]
          \/ status' = status /\ buf' = buf
          \/ status' = [status EXCEPT ![ent] = @ \cup {"BUSY"}] /\ buf' = buf
          \/ status' = [status EXCEPT ![ent] = Unused] /\ buf' = buf
      BY <2>3 DEF Fill
    <3>3. \A j \in Buf \ {ent} : buf'[j] = buf[j]
      BY <1>a, <3>2 DEF TypeOK
    <3>4. CASE status' = status
      BY <3>1, <3>3, <3>4
    <3>5. CASE status' = [status EXCEPT ![ent] = @ \cup {"BUSY"}]
      BY <1>a, <3>1, <3>3, <3>5 DEF TypeOK
    <3>6. CASE status' = [status EXCEPT ![ent] = Unused]
      BY <1>a, <3>1, <3>3, <3>6 DEF TypeOK, Unused
    <3> QED BY <3>2, <3>4, <3>5, <3>6
  <2> QED BY <2>1, <2>2, <2>3
<1>4. \A i \in Idx : \/ i = ent
                     \/ status'[i] = status[i] /\ of'[i] = of[i] /\ buf'[i] = buf[i]
  BY <1>3, FiniteIdx
<1>5. \A i \in Idx : /\ "DIRTY" \in status'[i] <=> "DIRTY" \in status[i]
                     /\ "DIRTY" \in status[i] => of'[i] = of[i] /\ buf'[i] = buf[i]
  BY <1>3, <1>4
<1> QED BY <1>2, <1>5, ViewFrame

\* A write begins, or does not.
LEMMA WriteOutView ==
  ASSUME CacheInv, ViewKnown, ViewKnown', Evict \/ FlushEntry
  PROVE  view' = view
<1>a. TypeOK /\ ent \in Idx /\ UNCHANGED <<disk, inflight>> /\ wr = NoWr
  BY DEF CacheInv, Data, Evict, FlushEntry, AtStep, devvars, TypeOK
<1>1. \A d \in Dev, s \in Sec : OnDisk(d, s)' = OnDisk(d, s)
  BY <1>a, OnDiskLanded
<1>2. ASSUME NEW purge \in BOOLEAN, DevWrite(ent, purge)
      PROVE  \A i \in Idx : status'[i] = status[i] /\ of'[i] = of[i] /\ buf'[i] = buf[i]
  <2>1. PICK d \in Dev : \/ WriteRefused(d, ent) \/ WriteNeedless(d, ent)
                         \/ WriteBegins(d, ent, purge) \/ WriteUnread(d, ent)
    BY <1>a, <1>2, DevWriteCases
  <2> QED BY <2>1, FiniteIdx DEF WriteRefused, WriteNeedless, WriteBegins, WriteUnread,
          OnlyPages
<1>3. \/ DevWrite(ent, TRUE) \/ DevWrite(ent, FALSE)
      \/ UNCHANGED <<status, of, buf>>
  <2>1. CASE FlushEntry
    BY <2>1 DEF FlushEntry
  <2>2. CASE Evict
    <3>1. DevWrite(ent, TRUE) \/ UNCHANGED bbvars
      BY <2>2, Zenon DEF Evict
    <3> QED BY <3>1 DEF bbvars
  <2> QED BY <2>1, <2>2
<1>4. \A i \in Idx : status'[i] = status[i] /\ of'[i] = of[i] /\ buf'[i] = buf[i]
  BY <1>2, <1>3
<1> QED BY <1>1, <1>4, ViewFrame

\* The driver is given a sector: of a dirty entry, or one the page buffers
\* hold, which the device holds already.
LEMMA WriteEntryView ==
  ASSUME CacheInv, Devices, Contents, Careful, ViewKnown, ViewKnown', WriteEntry
  PROVE  view' = view
<1>a. /\ TypeOK /\ Lists /\ Chips /\ \A d \in Dev : Carried(d)
  BY DEF CacheInv, Data, Devices, Contents
<1>1. PICK d \in Dev, k \in 1 .. WriteSize, e \in Buf :
         /\ wr # NoWr /\ d = wr.dev /\ k = wr.len /\ e = list[d][k]
         /\ WriteList(d) /\ DOMAIN list[d] = 1 .. WriteSize
         /\ UNCHANGED <<of, buf, call, pc, ent, ret>>
         /\ \/ d \notin Queueing /\ chip[d] = "idle" /\ Stored(d, e) /\ Going(d, e, k)
            \/ /\ d \in Queueing /\ k > 1 /\ chip[d] \in {"idle", "loading"}
               /\ Queued(d, e, "loading") /\ Going(d, e, k)
            \/ /\ d \in Queueing /\ k = 1 /\ chip[d] \in {"idle", "loading"}
               /\ Queued(d, e, "program") /\ Left(d, e, 0)
            \/ chip[d] = "background" /\ UNCHANGED devvars /\ Left(d, e, k)
            \/ chip[d] = "idle" /\ UNCHANGED devvars /\ Failed(d)
  BY EntryFacts
<1>2. /\ busy[d] = WriteSize /\ Due(d) = k /\ SecOf(e) \in Sec
      /\ e \in Idx => "DIRTY" \in status[e] /\ DevOf(e) = d
      /\ of[e] \in [dev : Dev, sec : Sec]
  BY <1>a, <1>1 DEF WriteList, Due, SecOf, TypeOK
<1>3. PICK t \in Sec : t = SecOf(e)
  BY <1>2
<1>4. \A i \in Idx : "DIRTY" \in status'[i] <=> "DIRTY" \in status[i]
  <2> SUFFICES ASSUME NEW i \in Idx
               PROVE  "DIRTY" \in status'[i] <=> "DIRTY" \in status[i]
    OBVIOUS
  <2>1. CASE Going(d, e, k) \/ Left(d, e, 0) \/ Left(d, e, k)
    <3>1. /\ status'[e] \in {status[e] \ {"BUSY"}, status[e] \cup {"BUSY"}}
          /\ \A j \in Buf \ {e} : status'[j] = status[j]
      BY <2>1 DEF Going, Left, Becomes
    <3>2. status'[i] \in {status[i] \ {"BUSY"}, status[i] \cup {"BUSY"}, status[i]}
      BY <3>1, FiniteIdx
    <3> QED BY <3>2
  <2>2. CASE Failed(d)
    <3>1. PICK drop \in {{}, {"BUSY"}, {"BUSY", "DIRTY"}} :
             status'[i] = status[i] \ drop /\ "DIRTY" \notin drop
      BY <2>2, FiniteIdx DEF Failed, Careful
    <3> QED BY <3>1
  <2> QED BY <1>1, <2>1, <2>2
<1>5. ASSUME NEW c \in Dev, NEW s \in Sec
      PROVE  OnDisk(c, s)' = OnDisk(c, s) \/ \E i \in Idx : DirtyFor(i, c, s)
  <2>1. CASE \/ chip[d] = "idle" /\ Stored(d, e)
             \/ \E x \in {"loading", "program"} : Queued(d, e, x)
    <3>1. /\ OnDisk(d, t)' = buf[e]
          /\ \A x \in Sec \ {t} : OnDisk(d, x)' = OnDisk(d, x)
          /\ \A x \in Dev \ {d}, y \in Sec : OnDisk(x, y)' = OnDisk(x, y)
      BY <1>a, <1>1, <1>2, <1>3, <2>1, GivenOn
    <3>2. CASE c # d \/ s # t
      BY <3>1, <3>2
    <3>3. CASE c = d /\ s = t /\ e \in Idx
      <4>1. of[e] = [dev |-> c, sec |-> s]
        BY <1>2, <1>3, <3>3 DEF DevOf, SecOf
      <4> QED BY <1>2, <3>3, <4>1 DEF DirtyFor
    <3>4. CASE c = d /\ s = t /\ e \notin Idx
      <4>1. Given(d, k)
        BY <1>1, <3>4 DEF Given, Buf
      <4>2. OnDisk(d, SecOf(list[d][k])) = buf[list[d][k]]
        BY <1>a, <1>2, <4>1 DEF Carried
      <4> QED BY <1>1, <1>3, <3>1, <3>4, <4>2
    <3> QED BY <3>2, <3>3, <3>4
  <2>2. CASE UNCHANGED devvars
    BY <2>2, OnDiskLanded DEF devvars
  <2> QED BY <1>1, <2>1, <2>2
<1>6. \A i \in Idx : of'[i] = of[i] /\ buf'[i] = buf[i]
  BY <1>1
<1> QED BY <1>4, <1>5, <1>6, ViewFrame

\* The entries of a list become clean once the device has, or was given, what
\* they hold.
LEMMA WriteDoneView ==
  ASSUME CacheInv, Contents, ViewKnown, ViewKnown', WriteDone
  PROVE  view' = view
<1>a. \A d \in Dev : Carried(d)
  BY DEF Contents
<1>1. PICK d \in Dev :
         /\ d = wr.dev /\ wr.len = 0 /\ WriteList(d) /\ DOMAIN list[d] = 1 .. WriteSize
         /\ UNCHANGED <<of, buf, disk, inflight>>
         /\ \A j \in Buf : ~ AtList(d, j) => status'[j] = status[j]
         /\ \A j \in Idx : AtList(d, j) => /\ DevOf(j) = d
                                           /\ \/ status'[j] = {}
                                              \/ status'[j] = status[j] \ {"DIRTY"}
  BY DoneFacts
<1>2. \A c, s : OnDisk(c, s)' = OnDisk(c, s)
  BY <1>1, OnDiskLanded
<1>3. ASSUME NEW i \in Idx, AtList(d, i) PROVE OnDisk(d, SecOf(i)) = buf[i]
  <2>1. PICK k \in 1 .. WriteSize : list[d][k] = i
    BY <1>1, <1>3 DEF AtList
  <2>2. Given(d, k) /\ busy[d] = WriteSize
    BY <1>1 DEF Given, Due, WriteList
  <2> QED BY <1>a, <2>1, <2>2 DEF Carried
<1>4. SUFFICES ASSUME NEW c \in Dev, NEW s \in Sec PROVE view'[<<c, s>>] = view[<<c, s>>]
  BY ViewSector
<1>5. /\ \A i \in Idx : DirtyFor(i, c, s) => view[<<c, s>>] = buf[i]
      /\ (\A i \in Idx : ~ DirtyFor(i, c, s)) => view[<<c, s>>] = OnDisk(c, s)
  BY DEF ViewKnown
<1>6. /\ \A i \in Idx : DirtyFor(i, c, s)' => view'[<<c, s>>] = buf'[i]
      /\ (\A i \in Idx : ~ DirtyFor(i, c, s)') => view'[<<c, s>>] = OnDisk(c, s)'
  BY DEF ViewKnown
<1>7. ASSUME NEW i \in Idx, DirtyFor(i, c, s)' PROVE DirtyFor(i, c, s)
  <2>1. "DIRTY" \in status'[i]
    BY <1>7 DEF DirtyFor
  <2>2. ~ AtList(d, i)
    BY <1>1, <2>1
  <2>3. status'[i] = status[i]
    BY <1>1, <2>2, FiniteIdx
  <2> QED BY <1>1, <1>7, <2>3 DEF DirtyFor
<1>8. CASE \E i \in Idx : DirtyFor(i, c, s)'
  <2>1. PICK i \in Idx : DirtyFor(i, c, s)'
    BY <1>8
  <2>2. view'[<<c, s>>] = buf'[i] /\ view[<<c, s>>] = buf[i]
    BY <1>5, <1>6, <1>7, <2>1
  <2> QED BY <1>1, <2>2
<1>9. CASE \A i \in Idx : ~ DirtyFor(i, c, s)'
  <2>1. view'[<<c, s>>] = OnDisk(c, s)
    BY <1>2, <1>6, <1>9
  <2>2. CASE \E i \in Idx : DirtyFor(i, c, s)
    <3>1. PICK i \in Idx : DirtyFor(i, c, s)
      BY <2>2
    <3>2. AtList(d, i)
      <4>1. status'[i] # status[i]
        BY <1>1, <1>9, <3>1 DEF DirtyFor
      <4> QED BY <1>1, <4>1, FiniteIdx
    <3>3. c = d /\ s = SecOf(i)
      BY <1>1, <3>1, <3>2 DEF DirtyFor, DevOf, SecOf
    <3> QED BY <1>3, <1>5, <2>1, <3>1, <3>2, <3>3
  <2>3. CASE \A i \in Idx : ~ DirtyFor(i, c, s)
    BY <1>5, <2>1, <2>3
  <2> QED BY <2>2, <2>3
<1> QED BY <1>8, <1>9

\* fat_tick goes on with a write, or fills an entry, which is not dirty.
LEMMA PollView ==
  ASSUME CacheInv, ViewKnown, ViewKnown', PollWrite \/ PollRead
  PROVE  view' = view
<1>1. CASE PollWrite
  <2>1. /\ UNCHANGED <<of, buf, disk, inflight>>
        /\ \A j \in Idx : \/ status'[j] = status[j]
                          \/ "DIRTY" \in status[j] /\ status'[j] = status[j] \ {"BUSY"}
    BY <1>1, PollWriteFacts
  <2>2. \A d \in Dev, s \in Sec : OnDisk(d, s)' = OnDisk(d, s)
    BY <2>1, OnDiskLanded
  <2>3. \A i \in Idx : "DIRTY" \in status'[i] <=> "DIRTY" \in status[i]
    BY <2>1
  <2> QED BY <2>1, <2>2, <2>3, ViewFrame
<1>2. CASE PollRead
  <2>1. PICK e \in Idx : /\ Reading(e) /\ UNCHANGED <<of, disk, inflight>>
                         /\ \/ Becomes(e, status[e] \ {"BUSY"})
                            \/ Becomes(e, {})
                         /\ \A j \in Buf \ {e} : buf'[j] = buf[j]
    BY <1>2, PollReadFacts
  <2>2. \A d \in Dev, s \in Sec : OnDisk(d, s)' = OnDisk(d, s)
    BY <2>1, OnDiskLanded
  <2>3. "DIRTY" \notin status[e] /\ "DIRTY" \notin status'[e]
    BY <2>1 DEF Reading, Becomes
  <2>4. \A i \in Idx : i = e \/ (status'[i] = status[i] /\ buf'[i] = buf[i])
    BY <2>1, FiniteIdx DEF Becomes
  <2>5. \A i \in Idx : /\ "DIRTY" \in status'[i] <=> "DIRTY" \in status[i]
                       /\ "DIRTY" \in status[i] => of'[i] = of[i] /\ buf'[i] = buf[i]
    BY <2>1, <2>3, <2>4
  <2> QED BY <2>2, <2>5, ViewFrame
<1> QED BY <1>1, <1>2

LEMMA ProgrammedView ==
  ASSUME CacheInv, ViewKnown, ViewKnown', NEW d \in Dev, Programmed(d)
  PROVE  view' = view
<1>a. TypeOK
  BY DEF CacheInv
<1>1. UNCHANGED <<status, of, buf>>
  BY DEF Programmed, bbvars
<1>2. /\ \A s \in Sec : disk'[d][s] = OnDisk(d, s)
      /\ \A x \in Dev \ {d} : disk'[x] = disk[x]
  BY <1>a DEF Programmed, OnDisk, TypeOK
<1>3. inflight'[d] = {} /\ \A x \in Dev \ {d} : inflight'[x] = inflight[x]
  BY <1>a DEF Programmed, TypeOK
<1>4. ASSUME NEW c \in Dev, NEW s \in Sec PROVE OnDisk(c, s)' = OnDisk(c, s)
  <2>1. CASE c = d
    BY <1>2, <1>3, <2>1, OnDiskLanded
  <2>2. CASE c # d
    BY <1>2, <1>3, <2>2, OnDiskLanded
  <2> QED BY <2>1, <2>2
<1> QED BY <1>1, <1>4, ViewFrame

\* Where power may fail a page is one sector: the device may lose the sectors
\* of a page it is programming, and page buffers are not written again.
Whole == PowerFails => WriteSize = 1

\* Dirty entries outlive a power failure, and a sector that holds anything is
\* one of theirs.
LEMMA PowerFailView ==
  ASSUME CacheInv, Contents, Whole, ViewKnown, ViewKnown', PowerFail
  PROVE  view' = view
<1>a. /\ TypeOK /\ WriteSize = 1 /\ \A d \in Dev : Carried(d)
      /\ \A d \in Dev : busy[d] = WriteSize => WriteList(d)
  BY Sizes DEF CacheInv, Data, Contents, Whole, PowerFail, Lists, ReadList
<1>1. /\ inflight' = [x \in Dev |-> {}] /\ UNCHANGED <<of, buf>>
      /\ \A d \in Dev : \A s \in Sec \ Torn(d) : disk'[d][s] = disk[d][s]
      /\ \E f \in Dev : status' = [i \in Buf |-> AfterRegdev(i, f)]
  BY DEF PowerFail
<1>2. ASSUME NEW i \in Idx PROVE "DIRTY" \in status'[i] <=> "DIRTY" \in status[i]
  <2>1. PICK f \in Dev : status'[i] = AfterRegdev(i, f)
    BY <1>1, FiniteIdx
  <2>2. \/ status'[i] = AfterInit(i)
        \/ "DIRTY" \notin AfterInit(i) /\ status'[i] = {}
    BY <2>1, Zenon DEF AfterRegdev, Unused
  <2>3. \/ "DIRTY" \notin status[i] /\ AfterInit(i) = {}
        \/ AfterInit(i) = status[i] \ {"BUSY"}
    <3>1. i \in Idx /\ (Reading(i) => "DIRTY" \notin status[i])
      BY DEF Reading
    <3> QED BY <3>1, Zenon DEF AfterInit, Unused
  <2> QED BY <2>2, <2>3
<1>3. ASSUME NEW d \in Dev, busy[d] = WriteSize
      PROVE  list[d][1] \in Idx /\ DirtyFor(list[d][1], d, SecOf(list[d][1]))
  <2>1. list[d][1] \in Idx /\ 1 \in 1 .. WriteSize
    BY <1>a, <1>3 DEF Carried
  <2>2. DevOf(list[d][1]) = d /\ "DIRTY" \in status[list[d][1]]
    BY <1>a, <1>3, <2>1 DEF WriteList
  <2>3. of[list[d][1]] \in [dev : Dev, sec : Sec]
    BY <1>a, <2>1, FiniteIdx DEF TypeOK
  <2> QED BY <2>1, <2>2, <2>3 DEF DirtyFor, DevOf, SecOf
<1>4. ASSUME NEW d \in Dev, NEW r \in inflight[d]
      PROVE  busy[d] = WriteSize /\ r.sec = SecOf(list[d][1])
  <2>1. busy[d] = WriteSize
    BY <1>a, <1>4 DEF Carried
  <2>2. PICK k \in 1 .. WriteSize : r = [sec |-> SecOf(list[d][k]), val |-> buf[list[d][k]]]
    BY <1>a, <2>1 DEF Carried
  <2>3. k = 1
    BY <1>a
  <2> QED BY <2>1, <2>2, <2>3
<1>5. ASSUME NEW d \in Dev, NEW s \in Torn(d)
      PROVE  busy[d] = WriteSize /\ s = SecOf(list[d][1])
  <2>1. \/ s \in {r.sec : r \in inflight[d]}
        \/ wr.dev = d /\ wr.len > 0 /\ s = SecOf(list[d][wr.len])
    BY DEF Torn
  <2>2. CASE s \in {r.sec : r \in inflight[d]}
    BY <1>4, <2>2
  <2>3. CASE wr.dev = d /\ wr.len > 0 /\ s = SecOf(list[d][wr.len])
    <3>1. wr # NoWr
      BY <2>3, Sizes DEF NoWr
    <3>2. WriteList(d) /\ wr.len \in 0 .. WriteSize
      BY <2>3, <3>1, WritingFacts
    <3>3. wr.len = 1
      BY <1>a, <2>3, <3>2
    <3> QED BY <2>3, <3>2, <3>3 DEF WriteList
  <2> QED BY <2>1, <2>2, <2>3
<1>6. ASSUME NEW d \in Dev, NEW s \in Sec
      PROVE  OnDisk(d, s)' = OnDisk(d, s) \/ \E i \in Idx : DirtyFor(i, d, s)
  <2>1. CASE busy[d] = WriteSize /\ s = SecOf(list[d][1])
    BY <1>3, <2>1
  <2>2. CASE ~ (busy[d] = WriteSize /\ s = SecOf(list[d][1]))
    <3>1. disk'[d][s] = disk[d][s] /\ inflight'[d] = {}
      BY <1>1, <1>5, <2>2
    <3>2. \A r \in inflight[d] : r.sec # s
      BY <1>4, <2>2
    <3>3. Landed(inflight[d], s, disk[d][s]) = disk[d][s]
      BY <3>2, LandedFacts
    <3> QED BY <3>1, <3>3, OnDiskLanded
  <2> QED BY <2>1, <2>2
<1> QED BY <1>1, <1>2, <1>6, ViewFrame

\* Storing into one sector.
LEMMA ViewStored ==
  ASSUME NEW c \in Dev, NEW t \in Sec, NEW v, view'[<<c, t>>] = v,
         \A d \in Dev, s \in Sec : d # c \/ s # t => view'[<<d, s>>] = view[<<d, s>>]
  PROVE  view' = [view EXCEPT ![<<c, t>>] = v]
<1> DEFINE f == view
           g == view'
           x0 == <<c, t>>
<1>1. x0 \in Dev \X Sec /\ g[x0] = v /\ \A x \in (Dev \X Sec) \ {x0} : g[x] = f[x]
  <2> SUFFICES ASSUME NEW x \in (Dev \X Sec) \ {x0} PROVE view'[x] = view[x]
    OBVIOUS
  <2>1. PICK d \in Dev, s \in Sec : x = <<d, s>>
    OBVIOUS
  <2>2. d # c \/ s # t
    BY <2>1
  <2> QED BY <2>1, <2>2
<1>2. f = [x \in Dev \X Sec |-> f[x]] /\ g = [x \in Dev \X Sec |-> g[x]]
  BY ViewFunction
<1>3. g = [f EXCEPT ![x0] = v]
  <2> HIDE DEF f, g, x0
  <2> QED BY <1>1, <1>2
<1> QED BY <1>3

\* The data reaches a reader at once if the entry is dirty already, ...
LEMMA CopyView ==
  ASSUME CacheInv, Order, ViewKnown, ViewKnown', Copy
  PROVE  view' = view \/ view' = [view EXCEPT ![<<call.dev, call.sec>>] = call.val]
<1>a. /\ TypeOK /\ CallOK /\ Found /\ ent \in Idx /\ ent \in Buf
      /\ pc \in {"copy", "overwrite"} /\ UNCHANGED <<status, of, disk, inflight>>
      /\ buf' = [buf EXCEPT ![ent] = call.val]
  BY FiniteIdx DEF CacheInv, Control, Data, TypeOK, Order, Copy, AtStep, devvars
<1>1. /\ of[ent] = [dev |-> call.dev, sec |-> call.sec] /\ call.dev \in Dev /\ call.sec \in Sec
  BY <1>a, CallFacts DEF Found, Settled, Asking
<1>2. /\ buf'[ent] = call.val /\ \A j \in Idx \ {ent} : buf'[j] = buf[j]
      /\ \A d \in Dev, s \in Sec : OnDisk(d, s)' = OnDisk(d, s)
      /\ \A i, d, s : DirtyFor(i, d, s)' <=> DirtyFor(i, d, s)
  BY <1>a, FiniteIdx, OnDiskLanded DEF TypeOK, DirtyFor
<1>3. CASE "DIRTY" \notin status[ent]
  <2>1. \A i \in Idx : /\ "DIRTY" \in status'[i] <=> "DIRTY" \in status[i]
                       /\ "DIRTY" \in status[i] => of'[i] = of[i] /\ buf'[i] = buf[i]
    BY <1>a, <1>2, <1>3
  <2>2. view' = view
    BY <1>2, <2>1, ViewFrame
  <2> QED BY <2>2
<1>4. CASE "DIRTY" \in status[ent]
  <2>1. view'[<<call.dev, call.sec>>] = call.val
    <3>1. ent' = ent /\ call' = call
      BY DEF Copy, Goto, GotoWith
    <3>2. DirtyFor(ent, call.dev, call.sec)'
      BY <1>1, <1>4, <1>a, <3>1 DEF DirtyFor
    <3>3. \A i \in Idx : DirtyFor(i, call.dev, call.sec)'
             => view'[<<call.dev, call.sec>>] = buf'[i]
      BY <1>1, <3>1 DEF ViewKnown
    <3> QED BY <1>a, <1>2, <3>1, <3>2, <3>3
  <2>2. ASSUME NEW d \in Dev, NEW s \in Sec, d # call.dev \/ s # call.sec
        PROVE  view'[<<d, s>>] = view[<<d, s>>]
    <3>1. \A i \in Idx : DirtyFor(i, d, s) => buf'[i] = buf[i]
      <4>1. ~ DirtyFor(ent, d, s)
        BY <1>1, <2>2 DEF DirtyFor
      <4> QED BY <1>2, <4>1
    <3>2. /\ \A i \in Idx : DirtyFor(i, d, s) => view[<<d, s>>] = buf[i]
          /\ (\A i \in Idx : ~ DirtyFor(i, d, s)) => view[<<d, s>>] = OnDisk(d, s)
      BY DEF ViewKnown
    <3>3. /\ \A i \in Idx : DirtyFor(i, d, s)' => view'[<<d, s>>] = buf'[i]
          /\ (\A i \in Idx : ~ DirtyFor(i, d, s)') => view'[<<d, s>>] = OnDisk(d, s)'
      BY DEF ViewKnown
    <3>4. CASE \E i \in Idx : DirtyFor(i, d, s)
      BY <1>2, <3>1, <3>2, <3>3, <3>4
    <3>5. CASE ~ \E i \in Idx : DirtyFor(i, d, s)
      BY <1>2, <3>2, <3>3, <3>5
    <3> QED BY <3>4, <3>5
  <2> QED BY <1>1, <2>1, <2>2, ViewStored
<1> QED BY <1>3, <1>4

\* ... and else when the entry is marked.
LEMMA MarkView ==
  ASSUME CacheInv, Order, Contents, ViewKnown, ViewKnown', Mark
  PROVE  view' = [view EXCEPT ![<<call.dev, call.sec>>] = call.val]
<1>a. /\ TypeOK /\ CallOK /\ Found /\ Copied /\ ent \in Idx /\ ent \in Buf
      /\ pc = "mark" /\ UNCHANGED <<of, buf, disk, inflight, call>>
      /\ status' = IF Markable(ent) THEN [status EXCEPT ![ent] = @ \cup {"DIRTY"}] ELSE status
  BY FiniteIdx DEF CacheInv, Control, Data, Contents, TypeOK, Order, Mark, AtStep, devvars
<1>1. /\ of[ent] = [dev |-> call.dev, sec |-> call.sec] /\ call.dev \in Dev /\ call.sec \in Sec
      /\ buf[ent] = call.val
  BY <1>a, CallFacts DEF Found, Settled, Asking, Copied
<1>2. /\ "DIRTY" \in status'[ent]
      /\ \A j \in Idx \ {ent} : status'[j] = status[j]
  <2>1. CASE Markable(ent)
    BY <1>a, <2>1, FiniteIdx DEF TypeOK
  <2>2. CASE ~ Markable(ent)
    BY <1>a, <2>2 DEF Markable, Found, Settled, Reading
  <2> QED BY <2>1, <2>2
<1>3. \A d \in Dev, s \in Sec : OnDisk(d, s)' = OnDisk(d, s)
  BY <1>a, OnDiskLanded
<1>4. view'[<<call.dev, call.sec>>] = call.val
  <2>1. \A i \in Idx : "DIRTY" \in status'[i] /\ of'[i] = [dev |-> call.dev, sec |-> call.sec]
           => view'[<<call.dev, call.sec>>] = buf'[i]
    BY <1>a, <1>1 DEF ViewKnown, DirtyFor
  <2> QED BY <1>a, <1>1, <1>2, <2>1
<1>5. ASSUME NEW d \in Dev, NEW s \in Sec, d # call.dev \/ s # call.sec
      PROVE  view'[<<d, s>>] = view[<<d, s>>]
  <2>1. ASSUME NEW i \in Idx PROVE DirtyFor(i, d, s)' <=> DirtyFor(i, d, s)
    <3>1. CASE i = ent
      BY <1>a, <1>1, <1>5, <3>1 DEF DirtyFor
    <3>2. CASE i # ent
      BY <1>a, <1>2, <3>2 DEF DirtyFor
    <3> QED BY <3>1, <3>2
  <2>2. /\ \A i \in Idx : DirtyFor(i, d, s) => view[<<d, s>>] = buf[i]
        /\ (\A i \in Idx : ~ DirtyFor(i, d, s)) => view[<<d, s>>] = OnDisk(d, s)
    BY DEF ViewKnown
  <2>3. /\ \A i \in Idx : DirtyFor(i, d, s)' => view'[<<d, s>>] = buf'[i]
        /\ (\A i \in Idx : ~ DirtyFor(i, d, s)') => view'[<<d, s>>] = OnDisk(d, s)'
    BY DEF ViewKnown
  <2>4. CASE \E i \in Idx : DirtyFor(i, d, s)
    BY <1>a, <2>1, <2>2, <2>3, <2>4
  <2>5. CASE ~ \E i \in Idx : DirtyFor(i, d, s)
    BY <1>3, <2>1, <2>2, <2>3, <2>5
  <2> QED BY <2>4, <2>5
<1> QED BY <1>1, <1>4, <1>5, ViewStored

\* The write in progress and the outcome of the last one, for SectorStore.
TheJob == IF Writing /\ pc # "idle"
          THEN {[sec |-> <<call.dev, call.sec>>, val |-> call.val]} ELSE {}
TheAck == IF Writing /\ pc = "idle" /\ ret = "ok" THEN "ok" ELSE "none"

\* What leaves the call alone is not seen, ...
LEMMA UnseenStep ==
  ASSUME view' = view, UNCHANGED <<call, pc, ret>>
  PROVE  [Store!SNext]_<<view, TheJob, TheAck>>
BY DEF TheJob, TheAck, Writing

\* ... nor is a step of a call; one that fails writes nothing.
LEMMA CallStep ==
  ASSUME view' = view, call' = call, pc # "idle", Writing /\ pc' = "idle" => ret' # "ok"
  PROVE  [Store!SNext]_<<view, TheJob, TheAck>>
<1>1. CASE Writing /\ pc' = "idle"
  <2>1. TheJob # {} /\ TheJob' = {} /\ TheAck' = "none"
    BY <1>1 DEF TheJob, TheAck, Writing
  <2> QED BY <2>1 DEF TheJob, TheAck, Store!SNext, Store!SFail
<1>2. CASE ~ (Writing /\ pc' = "idle")
  <2>1. TheJob' = TheJob /\ TheAck' = TheAck
    BY <1>2 DEF TheJob, TheAck, Writing
  <2> QED BY <2>1
<1> QED BY <1>1, <1>2

LEMMA BeginStep ==
  ASSUME view' = view, Begin
  PROVE  [Store!SNext]_<<view, TheJob, TheAck>>
<1>1. pc = "idle" /\ pc' \in {"ticked", "flwait", "find"} /\ call' \in Calls
  BY DEF Begin, AtStep
<1>2. TheJob = {} /\ TheAck' = "none"
  BY <1>1 DEF TheJob, TheAck
<1>3. CASE Writing'
  <2>1. call'.dev \in Dev /\ call'.sec \in Sec /\ call'.val \in Val
    <3>1. call'.op \in {"write", "overwrite"}
      BY <1>3 DEF Writing
    <3> QED BY <1>1, <3>1 DEF Calls
  <2> DEFINE j == [sec |-> <<call'.dev, call'.sec>>, val |-> call'.val]
  <2>2. j \in [sec : Dev \X Sec, val : Val] /\ TheJob' = {j}
    BY <1>1, <1>3, <2>1 DEF TheJob, Writing
  <2> HIDE DEF j
  <2>3. \E x \in [sec : Dev \X Sec, val : Val] : TheJob' = {x}
    BY <2>2
  <2>4. Store!SBegin
    BY <1>2, <2>3 DEF TheJob, TheAck, Store!SBegin, Store!Job
  <2> QED BY <2>4 DEF Store!SNext
<1>4. CASE ~ Writing'
  <2>1. TheJob' = {}
    BY <1>4 DEF TheJob
  <2>2. Store!SOther
    BY <1>2, <2>1 DEF TheJob, TheAck, Store!SOther
  <2> QED BY <2>2 DEF Store!SNext
<1> QED BY <1>3, <1>4

LEMMA PowerLostStep ==
  ASSUME view' = view, PowerFail
  PROVE  [Store!SNext]_<<view, TheJob, TheAck>>
<1>1. call' = NoCall /\ pc' = "idle"
  BY DEF PowerFail
<1>2. TheJob' = {} /\ TheAck' = "none"
  BY <1>1 DEF TheJob, TheAck, Writing, NoCall
<1>3. Store!SFail \/ Store!SOther
  BY <1>2 DEF TheJob, TheAck, Store!SFail, Store!SOther
<1> QED BY <1>3 DEF Store!SNext

\* The data is stored, and then the call has been done.
LEMMA StoreStep ==
  ASSUME CacheInv, Order, Contents, ViewKnown, ViewKnown', Copy \/ Mark
  PROVE  [Store!SNext]_<<view, TheJob, TheAck>>
<1> DEFINE j == [sec |-> <<call.dev, call.sec>>, val |-> call.val]
<1>a. /\ Writing /\ TheJob = {j} /\ TheAck = "none"
      /\ j.sec = <<call.dev, call.sec>> /\ j.val = call.val
  BY DEF CacheInv, Control, CallOK, Copy, Mark, AtStep, Storing, TheJob, TheAck
<1>1. CASE Copy
  <2>1. call' = call /\ pc' = "mark"
    BY <1>1 DEF Copy, Goto, GotoWith
  <2>2. TheJob' = TheJob /\ TheAck' = TheAck
    BY <1>a, <2>1 DEF TheJob, TheAck, Writing
  <2>3. CASE view' = view
    BY <2>2, <2>3
  <2>4. CASE view' = [view EXCEPT ![<<call.dev, call.sec>>] = call.val]
    <3>1. \E x \in TheJob : view' = [view EXCEPT ![x.sec] = x.val]
      BY <1>a, <2>4
    <3>2. Store!SStore
      BY <2>2, <3>1 DEF TheJob, TheAck, Store!SStore, Store!Stored
    <3> QED BY <3>2 DEF Store!SNext
  <2> QED BY <1>1, <2>3, <2>4, CopyView
<1>2. CASE Mark
  <2>1. call' = call /\ pc' = "idle" /\ ret' = "ok"
    BY <1>2 DEF Mark, Return
  <2>2. TheJob' = {} /\ TheAck' = "ok"
    BY <1>a, <2>1 DEF TheJob, TheAck, Writing
  <2>3. view' = [view EXCEPT ![<<call.dev, call.sec>>] = call.val]
    BY <1>2, MarkView
  <2>4. \E x \in TheJob : view' = [view EXCEPT ![x.sec] = x.val]
    BY <1>a, <2>3
  <2>5. Store!SDone
    BY <2>2, <2>4 DEF TheJob, TheAck, Store!SDone, Store!Stored
  <2> QED BY <2>5 DEF Store!SNext
<1> QED BY <1>1, <1>2

LEMMA NextStore ==
  ASSUME Careful, Whole, CacheInv, Order, Devices, Contents, ViewKnown, ViewKnown', [Next]_vars
  PROVE  [Store!SNext]_<<view, TheJob, TheAck>>
<1>a. CallOK /\ Rest
  BY DEF CacheInv, Control, Order
<1>1. CASE PowerFail
  BY <1>1, PowerFailView, PowerLostStep
<1>2. CASE \E d \in Dev : Programmed(d)
  <2>1. UNCHANGED <<call, pc, ret>>
    BY <1>2 DEF Programmed, cvars
  <2> QED BY <1>2, <2>1, ProgrammedView, UnseenStep
<1>3. CASE UNCHANGED vars \/ \E d \in Dev : BackgroundDone(d) \/ BackgroundBegins(d)
  <2>1. UNCHANGED <<call, pc, ret>>
    BY <1>3 DEF BackgroundDone, BackgroundBegins, vars, cvars
  <2> QED BY <1>3, <2>1, QuietView, UnseenStep
<1>4. CASE Begin
  BY <1>4, QuietView, BeginStep
<1>5. CASE PollIdle \/ PollWrite \/ PollRead \/ WriteEntry \/ WriteDone
  <2>1. UNCHANGED <<call, pc, ret>>
    BY <1>5 DEF PollIdle, PollWrite, PollRead, WriteEntry, WriteDone, cvars
  <2>2. view' = view
    BY <1>5, QuietView, PollView, WriteEntryView, WriteDoneView
  <2> QED BY <2>1, <2>2, UnseenStep
<1>6. CASE Copy \/ Mark
  BY <1>6, StoreStep
<1>7. CASE \/ Ticked \/ FlushWait \/ FlushBusy \/ FlushPoll \/ FlushNext \/ FlushEntry
  <2>1. view' = view
    BY <1>7, QuietView, WriteOutView
  <2>2. pc # "idle" /\ ~ Writing
    BY <1>7, <1>a DEF Ticked, FlushWait, FlushBusy, FlushPoll, FlushNext, FlushEntry, AtStep,
       CallOK, Rest, Flushing, Writing
  <2>3. call' = call
    BY <1>7 DEF Ticked, FlushWait, FlushBusy, FlushPoll, FlushNext, FlushEntry
  <2> QED BY <2>1, <2>2, <2>3, CallStep
<1>8. CASE Find \/ Lookup \/ Hit \/ Miss \/ GetFree \/ Evict \/ Assign \/ Fill \/ Filled
  <2>1. view' = view
    BY <1>8, QuietView, EntryView, WriteOutView
  <2>2. pc # "idle" /\ call' = call
    BY <1>8 DEF Find, Lookup, Hit, Miss, GetFree, Evict, Assign, Fill, Filled, AtStep
  <2>3. Writing /\ pc' = "idle" => ret' # "ok"
    <3>1. CASE Find \/ Assign \/ Miss \/ GetFree
      BY <2>2, <3>1 DEF Find, Assign, Miss, GetFree, Stay, Goto, GotoWith, Return
    <3>2. CASE Hit \/ Filled
      BY <2>2, <3>2 DEF Hit, Filled, Deliver, Goto, GotoWith
    <3>3. CASE Fill
      BY <2>2, <3>3 DEF Fill, Stay, Goto, GotoWith, Return
    <3>4. CASE Evict
      BY <2>2, <3>4 DEF Evict, Stay, Goto, GotoWith, Return
    <3>5. CASE Lookup
      <4>1. \/ pc' \in {"miss", "hit", "find"}
            \/ Return("busy")
        BY <3>5, Zenon DEF Lookup, Goto, GotoWith
      <4> QED BY <4>1 DEF Return
    <3> QED BY <1>8, <3>1, <3>2, <3>3, <3>4, <3>5
  <2> QED BY <2>1, <2>2, <2>3, CallStep
<1> QED BY <1>1, <1>2, <1>3, <1>4, <1>5, <1>6, <1>7, <1>8 DEF Next, Run, Device

LEMMA InitStore == Init => Store!SInit
<1> SUFFICES ASSUME Init PROVE Store!SInit
  OBVIOUS
<1>1. ViewKnown
  BY InitInv, InitContents, ViewIs DEF Contents
<1>2. \A x \in Dev \X Sec : view[x] \in Val
  <2> SUFFICES ASSUME NEW d \in Dev, NEW s \in Sec PROVE view[<<d, s>>] \in Val
    OBVIOUS
  <2>1. \A i \in Idx : ~ DirtyFor(i, d, s)
    BY FiniteIdx DEF Init, DirtyFor, Unused
  <2>2. view[<<d, s>>] = OnDisk(d, s)
    BY <1>1, <2>1 DEF ViewKnown
  <2>3. inflight[d] = {} /\ disk[d][s] \in Val
    BY DEF Init
  <2> QED BY <2>2, <2>3, OnDiskLanded
<1>3. view \in [Dev \X Sec -> Val]
  <2> DEFINE f == view
  <2>1. f = [x \in Dev \X Sec |-> f[x]] /\ \A x \in Dev \X Sec : f[x] \in Val
    BY <1>2, ViewFunction
  <2> HIDE DEF f
  <2>2. f \in [Dev \X Sec -> Val]
    BY <2>1
  <2> QED BY <2>2 DEF f
<1>4. TheJob = {} /\ TheAck = "none"
  BY DEF Init, TheJob, TheAck, Writing, NoCall
<1> QED BY <1>3, <1>4 DEF Store!SInit, TheJob, TheAck

\* The cache implements the store: whatever is evicted, written back, polled
\* for or interrupted, a reader of _fatftc_find and fatftc_read sees the value
\* last written to a sector.
THEOREM StoresSectors ==
  ASSUME Careful, Whole
  PROVE  Spec => Coherent
<1> DEFINE Known == CacheInv /\ Order /\ Devices /\ Contents
<1>1. Spec => []Known
  BY ContentsAlways
<1>2. Known => ViewKnown
  BY ViewIs DEF Contents
<1>3. Init => Store!SInit
  BY InitStore
<1>4. Known /\ ViewKnown /\ ViewKnown' /\ [Next]_vars => [Store!SNext]_<<view, TheJob, TheAck>>
  BY NextStore
<1> HIDE DEF Known
<1> QED
  BY <1>1, <1>2, <1>3, <1>4, PTL DEF Spec, Coherent, Store!SSpec, Store!svars, TheJob, TheAck
=============================================================================
