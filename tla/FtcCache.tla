------------------------------ MODULE FtcCache ------------------------------
(***************************************************************************)
(* The sector cache of FATFTC.LIB: _fatftc_getfree, _fatftc_find,          *)
(* _fatftc_devwrite, fat_tick, fatftc_read, fatftc_write,                  *)
(* fatftc_makedirty, fatftc_flushdev and what a restart does to the cache  *)
(* entries.                                                                *)
(*                                                                         *)
(* The code is not reentrant; what interleaves with it are the devices,    *)
(* which program a sector on their own after their driver has returned,    *)
(* and power failures.  A call therefore proceeds in steps: a step ends    *)
(* wherever the code polls the devices (_fat_tick), hands a sector to a    *)
(* driver, or has stored into the battery-backed entry table.  Between two *)
(* steps a device may finish and power may fail.                           *)
(*                                                                         *)
(* Battery-backed: status, of (dev and secnum), buf.  On the devices:      *)
(* disk, chip, inflight.  Lost when power fails: the rest.                 *)
(*                                                                         *)
(* All devices are registered throughout, none is ever exchanged, no entry *)
(* is locked (nothing in the code sets FTC_LOCKED), and the sector numbers *)
(* and partitions given to the calls are valid.  Journal and markers are   *)
(* left to other modules.                                                  *)
(***************************************************************************)
EXTENDS Integers, Sequences, FiniteSets, FiniteSetsExt, TLC

CONSTANTS MaxDevs,     \* FAT_MAXDEVS
          MaxBufs,     \* FAT_MAXBUFS
          PageBufs,    \* FAT_PAGEBUFFERS
          WriteSize,   \* DevRoot.writesize of every device
          Sectors,     \* sectors on every device
          Val,         \* contents of a sector
          Removable,   \* devices with FTCDI_REMOVABLE
          ReadOnly,    \* devices whose driver refuses to write, with -EROFS
          Queueing,    \* devices that program a page after WriteSector returned
          Ops,         \* the calls made: read, write (part of a sector), overwrite
                       \* (a whole one, without a pre-image), flush, tick
          Waits,       \* may calls have FTC_WAIT set? may they have it clear?
          Background,  \* may a driver be busy of its own accord?
          IoErrors,    \* may a driver fail?
          PowerFails   \* may power fail?

Dev  == 1 .. MaxDevs
Sec  == 0 .. (Sectors - 1)
Idx  == 1 .. MaxBufs
Page == (MaxBufs + 1) .. (MaxBufs + PageBufs)
Buf  == Idx \cup Page
READ == 256                \* FTCDR_READ

ASSUME SizeAssumption ==
          /\ MaxDevs \in Nat \ {0} /\ Sectors \in Nat \ {0} /\ PageBufs \in Nat
          /\ MaxBufs \in Nat /\ MaxBufs > MaxDevs
          /\ WriteSize \in 1 .. (PageBufs + 1)     \* fatftc_regdev: -ETYPE
          /\ Sectors % WriteSize = 0
          /\ WriteSize < READ                      \* byte_page has 16 bits, a sector 2^9 bytes
ASSUME FlagAssumption ==
          /\ Removable \subseteq Dev /\ ReadOnly \subseteq Dev /\ Queueing \subseteq Dev
          /\ Ops \subseteq {"read", "write", "overwrite", "flush", "tick"}
          /\ Waits \subseteq BOOLEAN
          /\ {Background, IoErrors, PowerFails} \subseteq BOOLEAN

VARIABLES status, of, buf,             \* FTCEntry, and its cache buffer
          lru,                         \* the LRU list, oldest entry first
          busy, list, bcount, bpurge,  \* DevRoot: busy, entries, bcount, bflags
          disk, chip, inflight,        \* the devices
          call, pc, ent, res, ret,     \* the call in progress or last made
          wr,                          \* _fatftc_devwrite: its device and `len'
          poll                         \* fat_tick: the device it polls next

bbvars  == <<status, of, buf>>
drvars  == <<busy, list, bcount, bpurge>>
devvars == <<disk, chip, inflight>>
cvars   == <<call, pc, ent, res, ret>>
vars    == <<bbvars, lru, drvars, devvars, cvars, wr, poll>>

Unused == {}               \* FTC_UNUSED
NoWr == [dev |-> 0, len |-> 0, purge |-> FALSE]

\* What the callers of this layer pass, and fat_tick as a call of its own.
Calls == [op : Ops \cap {"read"}, dev : Dev, sec : Sec, wait : Waits]
         \cup [op : Ops \cap {"write", "overwrite"}, dev : Dev, sec : Sec, val : Val,
               wait : Waits]
         \cup [op : Ops \cap {"flush"}, dev : Dev, wait : Waits]
         \cup [op : Ops \cap {"tick"}]
Writing == call.op \in {"write", "overwrite"}
Overwriting == call.op = "overwrite"
NoCall == [op |-> "tick"]

-----------------------------------------------------------------------------
(* Entries and the LRU list *)

DevOf(i) == of[i].dev
SecOf(i) == of[i].sec
Lbn(s) == s \div WriteSize
Reading(i) == "BUSY" \in status[i] /\ "DIRTY" \notin status[i]

\* Faulty variant: the entry stays busy.
ClearBusyForgotten(i) == status
ClearBusy(i) == [status EXCEPT ![i] = @ \ {"BUSY"}]

\* The members of S, the one with the smallest key first. (Sorting without
\* recursion, by rank, so that proofs can expand it.)
Ordered(S, key) ==
   [n \in 1 .. Cardinality(S) |->
      CHOOSE x \in S : Cardinality({y \in S : key[y] < key[x]}) = n - 1]

\* The list with the entries of S only, in the order they are in.
Keeping(S) == LET at == Ordered({k \in DOMAIN lru : lru[k] \in S}, [k \in DOMAIN lru |-> k])
              IN [n \in DOMAIN at |-> lru[at[n]]]
Without(i) == Keeping(Idx \ {i})

\* Faulty variant: a listed entry is not removed first.
AddEntryTwice(i) == lru' = Append(lru, i) \/ lru' = <<i>> \o lru

\* _fatftc_addentry, without FTC_MAKE_LRU or with it.
AddEntry(i) == lru' = Append(Without(i), i) \/ lru' = <<i>> \o Without(i)

\* Faulty variants: the status is compared with FTC_USED, or not looked at.
CachedExact(d, s) == {i \in Idx : status[i] = {"USED"} /\ of[i] = [dev |-> d, sec |-> s]}
CachedUnused(d, s) == {i \in Idx : of[i] = [dev |-> d, sec |-> s]}

\* _fatftc_find: an entry is found even while it is being written.
Cached(d, s) == {i \in Idx : "USED" \in status[i] /\ of[i] = [dev |-> d, sec |-> s]}

\* The entry _fatftc_getfree takes: a free one, else the oldest clean one,
\* else the oldest dirty one on a device that is not busy.
Listed == {lru[k] : k \in DOMAIN lru}
Oldest(S) == lru[Min({k \in DOMAIN lru : lru[k] \in S})]
Free      == {i \in Idx : status[i] = Unused}
Clean     == {i \in Listed : {"BUSY", "DIRTY"} \cap status[i] = {}}
Flushable == {i \in Listed : "BUSY" \notin status[i] /\ busy[DevOf(i)] = 0}
Chosen == IF Free # {} THEN Min(Free)
          ELSE IF Clean # {} THEN Oldest(Clean) ELSE Oldest(Flushable)

-----------------------------------------------------------------------------
(* How a call goes on and how it ends *)

AtStep(p) == pc = p /\ poll = 0 /\ wr = NoWr
TickForgotten == poll' = 0         \* faulty variant
Tick == poll' = 1                  \* the code calls _fat_tick here
NoTick == poll' = 0
GotoWith(p, i) == pc' = p /\ ent' = i /\ UNCHANGED ret
Goto(p) == GotoWith(p, ent)
Stay == Goto(pc)
Return(r) == pc' = "idle" /\ ret' = r /\ ent' = 1       \* ent is a local variable

\* The operation on a device is over.  What the code leaves in entries, bcount
\* and bflags is not read again, so they are reset here.
Release(d) == /\ busy' = [busy EXCEPT ![d] = 0]
              /\ list' = [list EXCEPT ![d] = <<>>]
              /\ bcount' = [bcount EXCEPT ![d] = 0]
              /\ bpurge' = [bpurge EXCEPT ![d] = FALSE]

Init == /\ status = [i \in Buf |-> Unused]
        /\ of = [i \in Buf |-> [dev |-> 1, sec |-> 0]]
        /\ \E v \in Val : /\ buf = [i \in Buf |-> v]
                          /\ disk = [d \in Dev |-> [s \in Sec |-> v]]
        /\ inflight = [d \in Dev |-> {}]
        /\ lru = <<>>
        /\ busy = [d \in Dev |-> 0]
        /\ list = [d \in Dev |-> <<>>]
        /\ bcount = [d \in Dev |-> 0]
        /\ bpurge = [d \in Dev |-> FALSE]
        /\ chip = [d \in Dev |-> "idle"]
        /\ call = NoCall /\ pc = "idle" /\ ent = 1
        /\ res = "none" /\ ret = "none"
        /\ wr = NoWr /\ poll = 0

Begin == /\ AtStep("idle")
         /\ call' \in Calls
         /\ ret' = "none"
         /\ CASE call'.op = "tick"  -> Tick /\ pc' = "ticked"
              [] call'.op = "flush" -> NoTick /\ pc' = "flwait"
              [] OTHER              -> NoTick /\ pc' = "find"
         /\ UNCHANGED <<bbvars, lru, drvars, devvars, ent, res, wr>>

Ticked == /\ AtStep("ticked")
          /\ Return("ok")
          /\ UNCHANGED <<bbvars, lru, drvars, devvars, call, res, wr, poll>>

-----------------------------------------------------------------------------
(* fatftc_read and fatftc_write *)

\* _fatftc_find polls if the device is busy, ...
Find == /\ AtStep("find")
        /\ IF busy[call.dev] # 0 THEN Tick ELSE NoTick
        /\ Goto("lookup")
        /\ UNCHANGED <<bbvars, lru, drvars, devvars, call, res, wr>>

\* ... and looks through the entries.  Its caller polls before it uses the
\* result, and looks again while the sector is being read.
Lookup == /\ AtStep("lookup")
          /\ LET S == Cached(call.dev, call.sec)
                 i == Max(S)
             IN CASE S = {}                           -> Tick /\ Goto("miss")
                  [] S # {} /\ ~Reading(i)            -> Tick /\ GotoWith("hit", i)
                  [] S # {} /\ Reading(i) /\ call.wait -> Tick /\ Goto("find")
                  [] OTHER                            -> NoTick /\ Return("busy")
          /\ UNCHANGED <<bbvars, lru, drvars, devvars, call, res, wr>>

\* The buffer holds the sector: fatftc_read returns it, fatftc_write goes on.
Deliver == IF Writing THEN Goto("copy") ELSE Return("ok")

Hit == /\ AtStep("hit")
       /\ AddEntry(ent)
       /\ Deliver
       /\ UNCHANGED <<bbvars, drvars, devvars, call, res, wr, poll>>

\* A sector that has to be read waits until its device is not busy.
Miss == /\ AtStep("miss")
        /\ CASE Overwriting \/ busy[call.dev] = 0 -> NoTick /\ Goto("getfree")
             [] ~Overwriting /\ busy[call.dev] # 0 /\ call.wait -> Tick /\ Stay
             [] OTHER -> NoTick /\ Return("busy")
        /\ UNCHANGED <<bbvars, lru, drvars, devvars, call, res, wr>>

\* _fatftc_getfree chooses an entry, or finds none: -EBUSY, but
\* -EUNFLUSHABLE if every entry is busy.
GetFree == /\ AtStep("getfree")
           /\ IF Free \cup Clean \cup Flushable # {}
              THEN NoTick /\ GotoWith("evict", Chosen)
              ELSE CASE \A i \in Listed : "BUSY" \in status[i] -> NoTick /\ Return("err")
                     [] (\E i \in Listed : "BUSY" \notin status[i]) /\ call.wait -> Tick /\ Stay
                     [] OTHER -> NoTick /\ Return("busy")
           /\ UNCHANGED <<bbvars, lru, drvars, devvars, call, res, wr>>

\* The entry is clean or free by now: it is taken.
Assign == /\ AtStep("evict") /\ "DIRTY" \notin status[ent]
          /\ status' = [status EXCEPT ![ent] = {"USED"}]
          /\ of' = [of EXCEPT ![ent] = [dev |-> call.dev, sec |-> call.sec]]
          /\ IF Overwriting THEN AddEntry(ent) /\ Goto("overwrite")
             ELSE UNCHANGED lru /\ Goto("fill")
          /\ res' = "none"
          /\ UNCHANGED <<buf, drvars, devvars, call, wr, poll>>

\* The sector is read into the entry.  While the driver is busy the call
\* either waits or leaves the rest to fat_tick.
Fill == /\ AtStep("fill")
        /\ \/ /\ chip[call.dev] = "idle"
              /\ buf' = [buf EXCEPT ![ent] = disk[call.dev][call.sec]]
              /\ Tick /\ Goto("filled")
              /\ UNCHANGED <<status, busy, list>>
           \/ /\ chip[call.dev] # "idle" /\ call.wait
              /\ Tick /\ Stay
              /\ UNCHANGED <<status, buf, busy, list>>
           \/ /\ chip[call.dev] # "idle" /\ ~call.wait
              /\ busy' = [busy EXCEPT ![call.dev] = READ]
              /\ list' = [list EXCEPT ![call.dev] = <<ent>>]
              /\ status' = [status EXCEPT ![ent] = @ \cup {"BUSY"}]
              /\ NoTick /\ Return("busy")
              /\ UNCHANGED buf
           \/ /\ IoErrors
              /\ status' = [status EXCEPT ![ent] = Unused]
              /\ NoTick /\ Return("err")
              /\ UNCHANGED <<buf, busy, list>>
        /\ UNCHANGED <<of, lru, bcount, bpurge, devvars, call, res, wr>>

Filled == /\ AtStep("filled")
          /\ status' = ClearBusy(ent)
          /\ AddEntry(ent)
          /\ Deliver
          /\ UNCHANGED <<of, buf, drvars, devvars, call, res, wr, poll>>

\* The new data goes into the buffer ...
Copy == /\ AtStep("copy") \/ AtStep("overwrite")
        /\ buf' = [buf EXCEPT ![ent] = call.val]
        /\ Goto("mark")
        /\ UNCHANGED <<status, of, lru, drvars, devvars, call, res, wr, poll>>

\* Faulty variant: a sector overwritten as a whole is not marked.
MarkablePartial(i) == "BUSY" \notin status[i] /\ ~Overwriting
Markable(i) == "USED" \in status[i] /\ "BUSY" \notin status[i]

\* ... and fatftc_makedirty marks the entry, unless it is busy or not used:
\* then it fails, but fatftc_write does not look at what it returns.
Mark == /\ AtStep("mark")
        /\ status' = IF Markable(ent) THEN [status EXCEPT ![ent] = @ \cup {"DIRTY"}]
                     ELSE status
        /\ Return("ok")
        /\ UNCHANGED <<of, buf, lru, drvars, devvars, call, res, wr, poll>>

-----------------------------------------------------------------------------
(* _fatftc_devwrite *)

\* The dirty entries on the page of entry i, in the order of the scan, and
\* the sectors of the page that none of them holds, which go into page buffers.
Mates(i) == {j \in Idx \ {i} : /\ "DIRTY" \in status[j] /\ DevOf(j) = DevOf(i)
                               /\ Lbn(SecOf(j)) = Lbn(SecOf(i))}
DirtyList(i) ==
   LET scan == Ordered(Mates(i), [j \in Idx |-> (j - i) % MaxBufs])
   IN <<i>> \o SubSeq(scan, 1, Min({Len(scan), WriteSize - 1}))
Missing(i) == Ordered({s \in Sec : /\ Lbn(s) = Lbn(SecOf(i))
                                   /\ \A k \in DOMAIN DirtyList(i) :
                                         SecOf(DirtyList(i)[k]) # s}, [s \in Sec |-> s])
PagesInUse(i) == Missing(i) # <<>> /\ status[MaxBufs + 1] # Unused

\* Faulty variant: the first sector of the page is read every time.
PageDataFirst(d, s) == disk[d][Lbn(s) * WriteSize]
PageData(d, s) == disk[d][s]

\* The list is made up, reading n of the missing sectors.
MakeList(i, n) ==
   LET used == (MaxBufs + 1) .. (MaxBufs + n)
       sec(j) == Missing(i)[j - MaxBufs]
   IN /\ status' = [j \in Buf |-> IF j \in used THEN {"USED", "BUSY"} ELSE status[j]]
      /\ of' = [j \in Buf |-> IF j \in used THEN [of[j] EXCEPT !.sec = sec(j)] ELSE of[j]]
      /\ buf' = [j \in Buf |-> IF j \in used THEN PageData(DevOf(i), sec(j)) ELSE buf[j]]

\* Up to where the first sector is handed to the driver.  The outcome of
\* _fatftc_devwrite is put into res.
DevWrite(i, purge) ==
   LET d == DevOf(i)
       n == Len(Missing(i))
       len == Len(DirtyList(i)) + n
       refused == chip[d] # "idle" \/ busy[d] # 0
   IN \/ /\ refused \/ ("DIRTY" \in status[i] /\ PagesInUse(i))
         /\ res' = "busy"
         /\ UNCHANGED <<bbvars, lru, busy, list, wr>>
      \/ /\ ~refused /\ "DIRTY" \notin status[i]
         /\ res' = "ok"
         /\ UNCHANGED <<bbvars, lru, busy, list, wr>>
      \/ /\ ~refused /\ "DIRTY" \in status[i] /\ ~PagesInUse(i)
         /\ MakeList(i, n)
         /\ list' = [list EXCEPT ![d] = DirtyList(i) \o [k \in 1 .. n |-> MaxBufs + k]]
         /\ busy' = [busy EXCEPT ![d] = len]
         /\ wr' = [dev |-> d, len |-> len, purge |-> purge]
         /\ UNCHANGED <<lru, res>>
      \/ /\ ~refused /\ "DIRTY" \in status[i] /\ ~PagesInUse(i)
         /\ IoErrors /\ \E k \in 1 .. n : MakeList(i, k)     \* -EIO
         /\ res' = "err"
         /\ UNCHANGED <<lru, busy, list, wr>>

\* Faulty variant: one device too many.
NextPollPast == poll' = IF poll > MaxDevs THEN 0 ELSE poll + 1

\* The end of _fatftc_devwrite, called by a call or by fat_tick.
NextPoll == poll' = IF poll = MaxDevs THEN 0 ELSE poll + 1
EndWrite(r) == /\ wr' = NoWr
               /\ IF poll = 0 THEN res' = r /\ UNCHANGED poll
                  ELSE NextPoll /\ UNCHANGED res

\* Faulty variant: a sector the driver did not take counts as taken.
SuspendTaken(d, len) == /\ bcount' = [bcount EXCEPT ![d] = IF len > 0 THEN len - 1 ELSE 0]
                        /\ bpurge' = [bpurge EXCEPT ![d] = wr.purge]
                        /\ EndWrite("busy")

\* What is kept for fat_tick to go on with.
Suspend(d, len) == /\ bcount' = [bcount EXCEPT ![d] = len]
                   /\ bpurge' = [bpurge EXCEPT ![d] = wr.purge]
                   /\ EndWrite("busy")

\* One sector is handed to the driver, the last of the list first.  A device
\* in Queueing takes all the sectors of a page before it programs them.
WriteEntry ==
   /\ wr # NoWr /\ wr.len > 0
   /\ LET d == wr.dev
          e == list[d][wr.len]
          sector == [sec |-> SecOf(e), val |-> buf[e]]
      IN \/ /\ d \notin Queueing \cup ReadOnly /\ chip[d] = "idle"
            /\ disk' = [disk EXCEPT ![d][sector.sec] = sector.val]
            /\ status' = ClearBusy(e)
            /\ wr' = [wr EXCEPT !.len = @ - 1]
            /\ UNCHANGED <<chip, inflight, drvars, res, poll>>
         \/ /\ d \in Queueing \ ReadOnly /\ wr.len > 1 /\ chip[d] \in {"idle", "loading"}
            /\ inflight' = [inflight EXCEPT ![d] = @ \cup {sector}]
            /\ chip' = [chip EXCEPT ![d] = "loading"]
            /\ status' = ClearBusy(e)
            /\ wr' = [wr EXCEPT !.len = @ - 1]
            /\ UNCHANGED <<disk, drvars, res, poll>>
         \/ /\ d \in Queueing \ ReadOnly /\ wr.len = 1 /\ chip[d] \in {"idle", "loading"}
            /\ inflight' = [inflight EXCEPT ![d] = @ \cup {sector}]
            /\ chip' = [chip EXCEPT ![d] = "program"]
            /\ status' = [status EXCEPT ![e] = @ \cup {"BUSY"}]
            /\ Suspend(d, 0)                       \* -EBUSY
            /\ UNCHANGED <<disk, busy, list>>
         \/ /\ chip[d] = "background"
            /\ status' = [status EXCEPT ![e] = @ \cup {"BUSY"}]
            /\ Suspend(d, wr.len)                  \* -EDRVBUSY
            /\ UNCHANGED <<devvars, busy, list>>
         \/ /\ IoErrors \/ d \in ReadOnly
            /\ chip[d] = "idle"
            /\ LET drop == IF d \in ReadOnly THEN {"BUSY", "DIRTY"} ELSE {"BUSY"}
               IN status' = [i \in Buf |-> IF \E k \in wr.len .. busy[d] : list[d][k] = i
                                           THEN status[i] \ drop ELSE status[i]]
            /\ Release(d)
            /\ EndWrite("err")
            /\ UNCHANGED devvars
   /\ UNCHANGED <<of, buf, lru, call, pc, ent, ret>>

\* The entries dropped when their list is written.  Faulty variant: page
\* buffers are not among them.
GoneKeepingPages(done) == IF wr.purge THEN done ELSE {}
Gone(done) == IF wr.purge THEN done ELSE done \cap Page

\* All of the list is written.
WriteDone ==
   /\ wr # NoWr /\ wr.len = 0
   /\ LET d == wr.dev
          done == {list[d][k] : k \in 1 .. busy[d]}
          gone == Gone(done)
      IN /\ status' = [i \in Buf |-> CASE i \in gone        -> Unused
                                       [] i \in done \ gone -> status[i] \ {"DIRTY"}
                                       [] OTHER             -> status[i]]
         /\ lru' = Keeping(Idx \ gone)
         /\ Release(d)
   /\ EndWrite("ok")
   /\ UNCHANGED <<of, buf, devvars, call, pc, ent, ret>>

\* _fatftc_getfree writes a dirty entry out and drops it; it waits for that.
Evict == /\ AtStep("evict") /\ "DIRTY" \in status[ent]
         /\ \/ /\ res = "none" /\ DevWrite(ent, TRUE)
               /\ Stay /\ UNCHANGED poll
            \/ /\ res = "busy" /\ res' = "none"
               /\ Tick /\ Stay /\ UNCHANGED <<bbvars, lru, busy, list, wr>>
            \/ /\ res = "err" /\ res' = "none"
               /\ Return("err") /\ UNCHANGED <<poll, bbvars, lru, busy, list, wr>>
         /\ UNCHANGED <<bcount, bpurge, devvars, call>>

-----------------------------------------------------------------------------
(* fat_tick *)

Polling == poll # 0 /\ wr = NoWr

PollIdle == /\ Polling
            /\ chip[poll] # "idle" \/ busy[poll] = 0
            /\ NextPoll
            /\ UNCHANGED <<bbvars, lru, drvars, devvars, cvars, wr>>

\* Go on with a write: the sector last queued is on the device now.
PollWrite == /\ Polling
             /\ chip[poll] = "idle" /\ busy[poll] \in 1 .. WriteSize
             /\ status' = IF bcount[poll] < WriteSize
                          THEN ClearBusy(list[poll][bcount[poll] + 1]) ELSE status
             /\ wr' = [dev |-> poll, len |-> bcount[poll], purge |-> bpurge[poll]]
             /\ UNCHANGED <<of, buf, lru, drvars, devvars, cvars, poll>>

\* Go on with a read: fatftc_read polls all the devices again before it ends.
PollRead == /\ Polling
            /\ chip[poll] = "idle" /\ busy[poll] = READ
            /\ LET i == list[poll][1]
               IN \/ /\ buf' = [buf EXCEPT ![i] = disk[poll][SecOf(i)]]
                     /\ status' = ClearBusy(i)
                     /\ AddEntry(i)
                     /\ Tick
                  \/ /\ IoErrors
                     /\ status' = [status EXCEPT ![i] = Unused]
                     /\ NextPoll
                     /\ UNCHANGED <<buf, lru>>
            /\ Release(poll)
            /\ UNCHANGED <<of, devvars, cvars, wr>>

-----------------------------------------------------------------------------
(* fatftc_flushdev, without FTC_PURGE, FTC_NOWRITE and markers *)

FlushWait == /\ AtStep("flwait")
             /\ IF busy[call.dev] # 0
                THEN Tick /\ Goto(IF call.wait THEN "flwait" ELSE "flbusy")
                ELSE NoTick /\ GotoWith("flush", 1)
             /\ UNCHANGED <<bbvars, lru, drvars, devvars, call, res, wr>>

FlushBusy == /\ AtStep("flbusy")
             /\ Return("busy")
             /\ UNCHANGED <<bbvars, lru, drvars, devvars, call, res, wr, poll>>

\* Entry by entry.
OnDevice == "USED" \in status[ent] /\ DevOf(ent) = call.dev
FlushEntry == /\ AtStep("flush") /\ res = "none" /\ OnDevice
              /\ DevWrite(ent, FALSE)
              /\ UNCHANGED <<bcount, bpurge, devvars, call, pc, ent, ret, poll>>

\* After -EBUSY: wait until the device is not busy, or return.
FlushPoll == /\ AtStep("flush") /\ res = "busy"
             /\ \/ /\ call.wait /\ busy[call.dev] # 0
                   /\ Tick /\ Stay /\ UNCHANGED res
                \/ /\ ~call.wait
                   /\ NoTick /\ Return("busy") /\ res' = "none"
             /\ UNCHANGED <<bbvars, lru, drvars, devvars, call, wr>>

\* Faulty variant: a write in progress is not waited for.
FlushedEarly == (res = "busy" /\ call.wait) \/ res \in {"ok", "err"} \/ ~OnDevice
Flushed == \/ res = "none" /\ ~OnDevice
           \/ res \in {"ok", "err"}
           \/ res = "busy" /\ call.wait /\ busy[call.dev] = 0

\* To the next entry.  ret keeps the first error; the outcome of a write
\* waited for is not looked at.
FlushNext == /\ AtStep("flush") /\ Flushed
             /\ res' = "none"
             /\ LET rc == IF "err" \in {res, ret} THEN "err" ELSE "ok"
                IN IF ent = MaxBufs THEN Return(rc)
                   ELSE ent' = ent + 1 /\ ret' = rc /\ UNCHANGED pc
             /\ UNCHANGED <<bbvars, lru, drvars, devvars, call, wr, poll>>

-----------------------------------------------------------------------------
(* The devices, and power *)

Programmed(d) ==
   /\ chip[d] = "program"
   /\ disk' = [disk EXCEPT ![d] = [s \in Sec |-> IF \E r \in inflight[d] : r.sec = s
                                     THEN (CHOOSE r \in inflight[d] : r.sec = s).val
                                     ELSE disk[d][s]]]
   /\ chip' = [chip EXCEPT ![d] = "idle"]
   /\ inflight' = [inflight EXCEPT ![d] = {}]
   /\ UNCHANGED <<bbvars, lru, drvars, cvars, wr, poll>>

BackgroundBegins(d) == /\ Background /\ chip[d] = "idle"
                       /\ chip' = [chip EXCEPT ![d] = "background"]
                       /\ UNCHANGED <<bbvars, lru, drvars, disk, inflight, cvars, wr, poll>>

BackgroundDone(d) == /\ chip[d] = "background"
                     /\ chip' = [chip EXCEPT ![d] = "idle"]
                     /\ UNCHANGED <<bbvars, lru, drvars, disk, inflight, cvars, wr, poll>>

\* Sectors that hold anything if power fails now.
Torn(d) == IF chip[d] = "program" THEN {r.sec : r \in inflight[d]}
           ELSE IF wr.dev = d /\ wr.len > 0 /\ d \notin Queueing
           THEN {SecOf(list[d][wr.len])} ELSE {}

\* Faulty variants: clean entries of removable devices are kept, or dirty ones
\* dropped, too.
AfterInitKeepingClean(i) == CASE i \notin Idx -> status[i]
                              [] i \in Idx /\ Reading(i) -> Unused
                              [] OTHER -> status[i] \ {"BUSY"}
AfterInitDroppingAll(i) == CASE i \notin Idx -> status[i]
                             [] i \in Idx /\ DevOf(i) \in Removable -> Unused
                             [] OTHER -> status[i] \ {"BUSY"}

\* _fatftc_init drops entries that were being read, and clean entries of
\* removable devices; fatftc_regdev of the first device, f, drops the clean
\* entries of the others.  The entries of every device registered come back
\* into the LRU list.
AfterInit(i) == CASE i \notin Idx -> status[i]
                  [] i \in Idx /\ Reading(i) -> Unused
                  [] i \in Idx /\ "DIRTY" \notin status[i] /\ DevOf(i) \in Removable -> Unused
                  [] OTHER -> status[i] \ {"BUSY"}
AfterRegdev(i, f) == IF i \in Idx /\ DevOf(i) # f /\ "DIRTY" \notin AfterInit(i)
                     THEN Unused ELSE AfterInit(i)

PowerFail ==
   /\ PowerFails
   /\ \E f \in Dev :
         /\ \E i \in Idx : "DIRTY" \notin AfterInit(i) \/ DevOf(i) = f    \* else -ENOSPC
         /\ status' = [i \in Buf |-> AfterRegdev(i, f)]
         /\ lru' = Ordered({i \in Idx : AfterRegdev(i, f) # Unused},
                           [i \in Idx |-> IF DevOf(i) = f THEN i ELSE MaxBufs + i])
   /\ disk' \in [Dev -> [Sec -> Val]]
   /\ \A d \in Dev : \A s \in Sec \ Torn(d) : disk'[d][s] = disk[d][s]
   /\ busy' = [d \in Dev |-> 0]
   /\ list' = [d \in Dev |-> <<>>]
   /\ bcount' = [d \in Dev |-> 0]
   /\ bpurge' = [d \in Dev |-> FALSE]
   /\ chip' = [d \in Dev |-> "idle"] /\ inflight' = [d \in Dev |-> {}]
   /\ call' = NoCall /\ pc' = "idle" /\ ent' = 1
   /\ res' = "none" /\ ret' = "none"
   /\ wr' = NoWr /\ poll' = 0
   /\ UNCHANGED <<of, buf>>

-----------------------------------------------------------------------------
\* The code runs.
Run == \/ Ticked \/ Find \/ Lookup \/ Hit \/ Miss \/ GetFree \/ Evict \/ Assign
       \/ Fill \/ Filled \/ Copy \/ Mark
       \/ WriteEntry \/ WriteDone
       \/ PollIdle \/ PollWrite \/ PollRead
       \/ FlushWait \/ FlushBusy \/ FlushEntry \/ FlushPoll \/ FlushNext

Device(d) == Programmed(d) \/ BackgroundDone(d)

Next == \/ Begin \/ Run \/ PowerFail
        \/ \E d \in Dev : Device(d) \/ BackgroundBegins(d)

Spec == Init /\ [][Next]_vars

\* A call keeps running, and a device finishes what it does.
FairSpec == Spec /\ WF_vars(Run) /\ \A d \in Dev : WF_vars(Device(d))
\* The contents of sectors are only copied.
Symmetry == Permutations(Val)

-----------------------------------------------------------------------------
(* Properties *)

\* Every variable has its type; the recorded list is as long as the device
\* has sectors left to write, and wr and poll stay within it.
TypeOK ==
   /\ status \in [Buf -> SUBSET {"USED", "BUSY", "DIRTY"}]
   /\ of \in [Buf -> [dev : Dev, sec : Sec]]
   /\ buf \in [Buf -> Val]
   /\ lru \in Seq(Idx)
   /\ busy \in [Dev -> (0 .. WriteSize) \cup {READ}]
   /\ list \in [Dev -> Seq(Buf)]
   /\ bcount \in [Dev -> 0 .. WriteSize]
   /\ bpurge \in [Dev -> BOOLEAN]
   /\ disk \in [Dev -> [Sec -> Val]]
   /\ chip \in [Dev -> {"idle", "loading", "program", "background"}]
   /\ inflight \in [Dev -> SUBSET [sec : Sec, val : Val]]
   /\ call \in Calls \cup {NoCall}
   /\ pc \in {"idle", "ticked", "find", "lookup", "hit", "miss", "getfree", "evict", "fill",
              "filled", "copy", "overwrite", "mark", "flwait", "flbusy", "flush"}
   /\ ent \in Idx
   /\ res \in {"none", "ok", "busy", "err"} /\ ret \in {"none", "ok", "busy", "err"}
   /\ wr \in {NoWr} \cup [dev : Dev, len : 0 .. WriteSize, purge : BOOLEAN]
   /\ poll \in 0 .. MaxDevs

\* An entry being filled or overwritten, whose buffer does not hold its sector.
Pending(i) == ent = i /\ pc \in {"fill", "overwrite", "mark"} /\ "DIRTY" \notin status[i]
Holds(i) == "USED" \in status[i] /\ ~Reading(i) /\ ~Pending(i)

\* What a device holds once it has programmed what it was given.
OnDisk(d, s) == IF \E r \in inflight[d] : r.sec = s
                THEN (CHOOSE r \in inflight[d] : r.sec = s).val ELSE disk[d][s]

\* _fatftc_getfree is called only after _fatftc_find found nothing, but calls
\* and fat_tick come in between: never do two used entries hold one sector.
NoDuplicates == \A i, j \in Idx : (/\ "USED" \in status[i] /\ "USED" \in status[j]
                                   /\ of[i] = of[j]) => i = j

\* An entry that is not dirty holds what is on the device, the meaning of
\* FTC_DIRTY: _fatftc_getfree drops such an entry without writing it.
CleanMatches == \A i \in Idx : (Holds(i) /\ "DIRTY" \notin status[i])
                                 => buf[i] = OnDisk(DevOf(i), SecOf(i))

\* The LRU list has no entry twice, and it has every used entry except those
\* being read: _fatftc_remove and the scans of _fatftc_getfree rely on it.
LruComplete == /\ \A k, m \in DOMAIN lru : lru[k] = lru[m] => k = m
               /\ \A i \in Idx \ Listed : /\ "DIRTY" \notin status[i]
                                          /\ "USED" \in status[i] => ~Holds(i) \/ pc = "filled"

\* An entry is marked busy only while its device has it in the list of the
\* operation in progress, so that fat_tick will clear the mark.
BusyListed == \A i \in Idx : "BUSY" \in status[i] =>
                 LET d == DevOf(i)
                 IN /\ busy[d] # 0
                    /\ \E k \in DOMAIN list[d] : list[d][k] = i

\* The page buffers, which all devices share, are in use only while a write
\* in progress uses them: _fatftc_devwrite refuses to begin one otherwise.
PagesReleased == \A p \in Page : status[p] # Unused =>
                    \E d \in Dev : /\ busy[d] \in 1 .. WriteSize
                                   /\ \E k \in DOMAIN list[d] : list[d][k] = p

\* A flush that reports success leaves the device idle, and no dirty entry.
FlushComplete == (pc = "idle" /\ call.op = "flush" /\ ret = "ok") =>
                    /\ busy[call.dev] = 0
                    /\ \A i \in Idx : ~("DIRTY" \in status[i] /\ DevOf(i) = call.dev)

\* The sectors as a reader sees them, cached or not.
view == [x \in Dev \X Sec |->
           LET S == {i \in Cached(x[1], x[2]) : Holds(i)}
           IN IF S = {} THEN OnDisk(x[1], x[2]) ELSE buf[Max(S)]]

\* fatftc_read returns a buffer that holds the sector asked for.
ReadCurrent == [][(call.op = "read" /\ pc # "idle" /\ pc' = "idle" /\ ret' = "ok")
                    => view[<<call.dev, call.sec>>] = buf[ent]
                       /\ of'[ent] = [dev |-> call.dev, sec |-> call.sec]]_vars

\* The cache is a store of sectors: whatever is evicted, written back, polled
\* for or interrupted, a reader sees the last value written.
Store == INSTANCE SectorStore WITH
            Sector <- Dev \X Sec,
            job <- IF Writing /\ pc # "idle"
                   THEN {[sec |-> <<call.dev, call.sec>>, val |-> call.val]} ELSE {},
            ack <- IF Writing /\ pc = "idle" /\ ret = "ok" THEN "ok" ELSE "none"
Coherent == Store!SSpec

\* Every call ends, also one that waits for a device or for an entry.
CallEnds == pc # "idle" ~> pc = "idle"
=============================================================================
