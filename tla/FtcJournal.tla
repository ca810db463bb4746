----------------------------- MODULE FtcJournal -----------------------------
(***************************************************************************)
(* One partition's rollback journal (FATFTC.LIB, functions fatrj_* and     *)
(* _fatrj_store_preimage), at the granularity of its stores to the         *)
(* battery-backed RAM: power may fail between any two of them.             *)
(*                                                                         *)
(* Battery-backed, and so kept over a power failure:                       *)
(*   store  the bytes of the partition as fatftc_read returns them (cache  *)
(*          buffers included, they are battery-backed too), and the        *)
(*          checkpoint bytes RJHeader.data                                 *)
(*   hdr    RJHeader.signature = RJ_VALID                                  *)
(*   valid, region, pre, prev                                              *)
(*          the RJEntrys: signature; secnum/offs/len (or the whole of      *)
(*          RJHeader.data for an RJT_CHECKPOINT entry); the preimage       *)
(*          bytes; prevoffs                                                *)
(* Lost by a power failure: the RJRoot (trans, remain, lastoffs, flags)    *)
(* and whatever call was in progress (pc, recov, todo, cur).               *)
(*                                                                         *)
(* An entry occupies one slot whatever its length, and an offset into the  *)
(* journal is the number of its slot (0 = none).  Slot MaxEnt+1 stands for *)
(* the two bytes kept free for the signature behind the last entry.        *)
(***************************************************************************)
EXTENDS Integers

CONSTANTS Loc,         \* byte locations of the partition's sectors
          Bare,        \* those among them written with FTC_NO_PREIMAGE
          Chk,         \* the bytes of RJHeader.data (FAT_MAXCHK of them)
          Val, Zero,   \* byte values, and the null byte
          MaxEnt,      \* entries that fit in FAT_MAXRJ bytes
          IoErrors,    \* may the device fail during a rollback?
          NoRecovery   \* may the user register with norecovery set?

ASSUME CellAssumption == /\ Bare \subseteq Loc
                         /\ Loc \cap Chk = {}
                         /\ Chk # {}
ASSUME ValAssumption == Zero \in Val
ASSUME MaxEntAssumption == MaxEnt \in Nat \ {0}
ASSUME FlagAssumption == IoErrors \in BOOLEAN /\ NoRecovery \in BOOLEAN

Cell == Loc \cup Chk
Ent  == 1 .. MaxEnt
Slot == 1 .. (MaxEnt + 1)

VARIABLES store, hdr, valid, region, pre, prev,   \* battery-backed
          trans, remain, last, chkent,            \* RJRoot
          pc, recov, todo, cur,                   \* the call in progress
          owed                                    \* history, see Crash

bbvars   == <<store, hdr, valid, region, pre, prev>>
rootvars == <<trans, remain, last, chkent>>
vars     == <<bbvars, rootvars, pc, recov, todo, cur, owed>>

-----------------------------------------------------------------------------
\* The entries a rollback would find: a valid signature, and no gap before.
Live == {i \in Ent : \A j \in 1 .. i : valid[j]}

\* The entry whose preimage is copied back last.
FirstCover(c) == CHOOSE i \in Live : /\ c \in region[i]
                                     /\ \A j \in 1 .. (i-1) : c \notin region[j]

\* What a rollback would leave in cell c.
Recovered(c) == IF hdr /\ \E i \in Live : c \in region[i]
                THEN pre[FirstCover(c)][c]
                ELSE store[c]

\* The slot the next entry goes to: the end of the journal less `remain'.
NextSlot == MaxEnt - remain + 1

NoChk == [c \in Chk |-> Zero]
ChkData == [c \in Chk |-> store[c]]

PCs == {"off", "boot", "recdone", "callback", "unreg", "regp", "idle", "purge",
        "pre1", "pre2", "pre3", "copy", "rb", "rbcopy", "rbwait"}

TypeOK == /\ store \in [Cell -> Val]
          /\ hdr \in BOOLEAN
          /\ valid \in [Slot -> BOOLEAN]
          /\ region \in [Ent -> SUBSET Cell]
          /\ pre \in [Ent -> [Cell -> Val]]
          /\ prev \in [Ent -> 0 .. MaxEnt]
          /\ trans \in BOOLEAN
          /\ remain \in 0 .. MaxEnt
          /\ last \in 0 .. MaxEnt
          /\ chkent \in BOOLEAN
          /\ pc \in PCs
          /\ recov \in BOOLEAN
          /\ todo \subseteq Cell
          /\ cur \in 0 .. MaxEnt
          /\ owed \in [Chk -> Val]

\* A factory-initialised header (_fatftc_init), the device not registered.
Init == /\ store \in {s \in [Cell -> Val] : \A c \in Chk : s[c] = Zero}
        /\ hdr = FALSE
        /\ valid = [i \in Slot |-> FALSE]
        /\ region = [i \in Ent |-> {}]
        /\ pre = [i \in Ent |-> [c \in Cell |-> Zero]]
        /\ prev = [i \in Ent |-> 0]
        /\ trans = FALSE /\ remain = 0 /\ last = 0 /\ chkent = FALSE
        /\ pc = "boot" /\ recov = FALSE /\ todo = {} /\ cur = 0
        /\ owed = NoChk

-----------------------------------------------------------------------------
(* Transactions *)

\* fatrj_transtart.  flags (chkent) is not touched.
TranStart == /\ pc = "idle" /\ ~trans
             /\ trans' = TRUE
             /\ remain' = MaxEnt
             /\ last' = 0
             /\ UNCHANGED <<bbvars, chkent, pc, recov, todo, cur, owed>>

\* Faulty variant: the first entry is forgotten.
EndTransactionKeepingJournal == /\ trans' = FALSE
                                /\ chkent' = FALSE
                                /\ UNCHANGED <<store, hdr, valid, region, pre, prev, remain, last>>

\* fatrj_tranend for a partition: only the first entry is invalidated, the
\* entries behind it keep their valid signatures.
EndTransaction == /\ trans' = FALSE
                  /\ chkent' = FALSE
                  /\ valid' = [valid EXCEPT ![1] = FALSE]
                  /\ UNCHANGED <<store, hdr, region, pre, prev, remain, last>>

TranEnd == /\ pc = "idle"
           /\ EndTransaction
           /\ UNCHANGED <<pc, recov, todo, cur, owed>>

\* Faulty variant: no test against -EJOVERFLOW.
StorePreimageUnchecked(R) ==
   /\ remain' = remain - 1
   /\ pre' = [i \in Ent |-> IF i = NextSlot THEN [c \in Cell |-> store[c]] ELSE pre[i]]
   /\ todo' = R
   /\ pc' = "pre1"
   /\ UNCHANGED <<store, hdr, valid, region, prev, trans, last, recov, cur, owed>>

\* The first stores of _fatrj_store_preimage: the room is taken and the old
\* contents of the cells R are copied behind the (not yet valid) entry.
\* Without room the call fails with -EJOVERFLOW and changes nothing.
StorePreimage(R) == /\ remain >= 1
                    /\ remain' = remain - 1
                    /\ pre' = [pre EXCEPT ![NextSlot] =
                                [c \in Cell |-> IF c \in R THEN store[c] ELSE Zero]]
                    /\ todo' = R
                    /\ pc' = "pre1"
                    /\ UNCHANGED <<store, hdr, valid, region, prev,
                                   trans, last, recov, cur, owed>>

\* fatftc_write inside a transaction.
Write == /\ pc = "idle" /\ trans
         /\ \E R \in SUBSET Loc \ {{}} : StorePreimage(R)
         /\ UNCHANGED chkent

\* Faulty variant: a preimage at every call, flags not consulted.
SetChkAlways == /\ pc = "idle" /\ trans
                /\ StorePreimage(Chk)
                /\ UNCHANGED chkent

\* fatrj_setchk with no checkpoint entry yet ...
SetChkFirst == /\ pc = "idle" /\ trans /\ ~chkent
               /\ StorePreimage(Chk)
               /\ UNCHANGED chkent

\* ... and with one: the new value is simply copied in.
SetChkAgain == /\ pc = "idle" /\ trans /\ chkent
               /\ todo' = Chk
               /\ pc' = "copy"
               /\ UNCHANGED <<bbvars, rootvars, recov, cur, owed>>

\* Faulty variant: the signature behind the new entry keeps an old value.
InvalidateNextForgotten == /\ pc = "pre1"
                           /\ pc' = "pre2"
                           /\ UNCHANGED <<bbvars, rootvars, recov, todo, cur, owed>>

\* Invalidate the signature behind the new entry.
InvalidateNext == /\ pc = "pre1"
                  /\ valid' = [valid EXCEPT ![NextSlot] = FALSE]
                  /\ pc' = "pre2"
                  /\ UNCHANGED <<store, hdr, region, pre, prev, rootvars,
                                 recov, todo, cur, owed>>

\* Faulty variant: lastoffs is set before it is copied to prevoffs.
FillEntrySelfLinked == /\ pc = "pre2"
                       /\ region' = [region EXCEPT ![NextSlot - 1] = todo]
                       /\ prev' = [prev EXCEPT ![NextSlot - 1] = NextSlot - 1]
                       /\ last' = NextSlot - 1
                       /\ pc' = "pre3"
                       /\ UNCHANGED <<store, hdr, valid, pre, trans, remain, chkent,
                                      recov, todo, cur, owed>>

\* The fields of the new entry; lastoffs now designates it.
FillEntry == /\ pc = "pre2"
             /\ region' = [region EXCEPT ![NextSlot - 1] = todo]
             /\ prev' = [prev EXCEPT ![NextSlot - 1] = last]
             /\ last' = NextSlot - 1
             /\ pc' = "pre3"
             /\ UNCHANGED <<store, hdr, valid, pre, trans, remain, chkent,
                            recov, todo, cur, owed>>

\* Faulty variant: RJ_CHKENT is never set.
ValidateEntryUnflagged == /\ pc = "pre3"
                          /\ valid' = [valid EXCEPT ![NextSlot - 1] = TRUE]
                          /\ pc' = "copy"
                          /\ UNCHANGED <<store, hdr, region, pre, prev, rootvars,
                                         recov, todo, cur, owed>>

\* Last thing: mark the entry as valid.  fatrj_setchk then notes in flags
\* that the checkpoint entry exists.
ValidateEntry == /\ pc = "pre3"
                 /\ valid' = [valid EXCEPT ![NextSlot - 1] = TRUE]
                 /\ chkent' = (chkent \/ todo = Chk)
                 /\ pc' = "copy"
                 /\ UNCHANGED <<store, hdr, region, pre, prev, trans, remain,
                                last, recov, todo, cur, owed>>

\* fatftc_write outside a transaction, or with FTC_NO_PREIMAGE inside one.
WriteDirect == /\ pc = "idle"
               /\ \E R \in SUBSET (IF trans THEN Bare ELSE Loc) \ {{}} : todo' = R
               /\ pc' = "copy"
               /\ UNCHANGED <<bbvars, rootvars, recov, cur, owed>>

\* The memcpy or memset of the new data, one cell at a time.
CopyCell == /\ pc = "copy"
            /\ \E c \in todo, v \in Val :
                  /\ store' = [store EXCEPT ![c] = v]
                  /\ todo' = todo \ {c}
            /\ UNCHANGED <<hdr, valid, region, pre, prev, rootvars,
                           pc, recov, cur, owed>>

CopyDone == /\ pc = "copy" /\ todo = {}
            /\ pc' = "idle"
            /\ UNCHANGED <<bbvars, rootvars, recov, todo, cur, owed>>

-----------------------------------------------------------------------------
(* Rollback *)

\* fatrj_rollback up to its loop: the RJRoot is reset, then the valid entries
\* are scanned to find the last one.
StartRollback == /\ trans' = FALSE
                 /\ remain' = MaxEnt
                 /\ last' = 0
                 /\ chkent' = FALSE
                 /\ \E n \in 0 .. MaxEnt : /\ \A i \in 1 .. n : valid[i]
                                           /\ ~valid[n + 1]
                                           /\ cur' = n
                 /\ pc' = "rb"
                 /\ UNCHANGED <<bbvars, todo, owed>>

\* Called by the FAT layer, for the first time or again after -EBUSY.
Rollback == /\ pc \in {"idle", "rbwait"}
            /\ recov' = FALSE
            /\ StartRollback

\* Faulty variant: checkpoint entries are skipped.
RbEntryNoCheckpoint == /\ pc = "rb" /\ cur > 0
                       /\ todo' = region[cur] \ Chk
                       /\ pc' = "rbcopy"
                       /\ UNCHANGED <<bbvars, rootvars, recov, cur, owed>>

\* Begin to copy back the preimage of entry `cur'.
RbEntry == /\ pc = "rb" /\ cur > 0
           /\ todo' = region[cur]
           /\ pc' = "rbcopy"
           /\ UNCHANGED <<bbvars, rootvars, recov, cur, owed>>

RbCopy == /\ pc = "rbcopy"
          /\ \E c \in todo : /\ store' = [store EXCEPT ![c] = pre[cur][c]]
                             /\ todo' = todo \ {c}
          /\ UNCHANGED <<hdr, valid, region, pre, prev, rootvars,
                         pc, recov, cur, owed>>

\* Done with the entry: mark it invalid and go to the one before.
RbInvalidate == /\ pc = "rbcopy" /\ todo = {}
                /\ valid' = [valid EXCEPT ![cur] = FALSE]
                /\ cur' = prev[cur]
                /\ pc' = "rb"
                /\ UNCHANGED <<store, hdr, region, pre, prev, rootvars,
                               recov, todo, owed>>

\* The sector of the entry cannot be had at once: return -EBUSY, to be
\* called again.  fatftc_regdev passes FTC_WAIT and never sees this.
RbBusy == /\ pc = "rb" /\ cur > 0 /\ region[cur] # Chk
          /\ ~recov
          /\ pc' = "rbwait"
          /\ UNCHANGED <<bbvars, rootvars, recov, todo, cur, owed>>

\* Any other error leaves the loop and clears the journal all the same;
\* fatftc_regdev then fails and may be called again.
RbError == /\ IoErrors
           /\ pc = "rb" /\ cur > 0 /\ region[cur] # Chk
           /\ valid' = [valid EXCEPT ![1] = FALSE]
           /\ pc' = IF recov THEN "boot" ELSE "idle"
           /\ recov' = FALSE
           /\ UNCHANGED <<store, hdr, region, pre, prev, rootvars,
                          todo, cur, owed>>

\* No entry left: clear the journal (keep registered).
RbFinish == /\ pc = "rb" /\ cur = 0
            /\ valid' = [valid EXCEPT ![1] = FALSE]
            /\ pc' = IF recov THEN "recdone" ELSE "idle"
            /\ recov' = FALSE
            /\ UNCHANGED <<store, hdr, region, pre, prev, rootvars,
                           todo, cur, owed>>

-----------------------------------------------------------------------------
(* Registration and recovery *)

\* fatftc_regdev finds the journal of the device registered before: roll it
\* back, ...
RegDev == /\ pc = "boot" /\ hdr
          /\ recov' = TRUE
          /\ StartRollback

\* ... purge it ...
RegDevPurge == /\ pc = "recdone"
               /\ hdr' = FALSE
               /\ pc' = "callback"
               /\ UNCHANGED <<store, valid, region, pre, prev, rootvars,
                              recov, todo, cur, owed>>

\* ... and pass the checkpoint data to the FAT layer (_fat_chkpoint), which
\* completes the interrupted operation before it returns.
RegDevCallback == /\ pc = "callback"
                  /\ owed' = NoChk
                  /\ pc' = "unreg"
                  /\ UNCHANGED <<bbvars, rootvars, recov, todo, cur>>

\* No journal of this device.
RegDevNoJournal == /\ pc = "boot" /\ ~hdr
                   /\ pc' = "unreg"
                   /\ UNCHANGED <<bbvars, rootvars, recov, todo, cur, owed>>

\* norecovery: the journal is purged unread, without a callback, and so are
\* the cache entries; reads then return what the device holds.
RegDevNoRecovery == /\ NoRecovery
                    /\ pc = "boot" /\ hdr
                    /\ \E held \in [Loc -> Val] :
                          store' = [c \in Cell |-> IF c \in Loc THEN held[c] ELSE store[c]]
                    /\ hdr' = FALSE
                    /\ owed' = NoChk
                    /\ pc' = "unreg"
                    /\ UNCHANGED <<valid, region, pre, prev, rootvars, recov, todo, cur>>

\* fatrj_regpartition: null the checkpoint data and the signature of the
\* first entry, ...
RegPartition == /\ pc = "unreg"
                /\ remain' = MaxEnt
                /\ trans' = FALSE /\ last' = 0 /\ chkent' = FALSE
                /\ store' = [c \in Cell |-> IF c \in Chk THEN Zero ELSE store[c]]
                /\ valid' = [valid EXCEPT ![1] = FALSE]
                /\ pc' = "regp"
                /\ UNCHANGED <<hdr, region, pre, prev, recov, todo, cur, owed>>

\* ... and set the signature last.
RegPartitionDone == /\ pc = "regp"
                    /\ hdr' = TRUE
                    /\ pc' = "idle"
                    /\ UNCHANGED <<store, valid, region, pre, prev, rootvars,
                                   recov, todo, cur, owed>>

\* fatftc_flushdev with FTC_PURGE ends the transaction, if any, and then
\* unregisters the partition.  (FTC_NOWRITE, which gives up a medium that was
\* pulled out with the data cached for it, is left out.)
FlushPurge == /\ pc = "idle"
              /\ EndTransaction
              /\ pc' = "purge"
              /\ UNCHANGED <<recov, todo, cur, owed>>

FlushPurgeDone == /\ pc = "purge"
                  /\ hdr' = FALSE
                  /\ pc' = "unreg"
                  /\ UNCHANGED <<store, valid, region, pre, prev, rootvars,
                                 recov, todo, cur, owed>>

\* Power fails.  `owed' records the checkpoint data that recovery has to
\* hand to the FAT layer.
Crash == /\ pc # "off"
         /\ pc' = "off"
         /\ trans' = FALSE /\ remain' = 0 /\ last' = 0 /\ chkent' = FALSE
         /\ recov' = FALSE /\ todo' = {} /\ cur' = 0
         /\ owed' = IF hdr THEN [c \in Chk |-> Recovered(c)] ELSE owed
         /\ UNCHANGED bbvars

\* _fatftc_init: a journal without entries is purged (fatrj_hasjournal),
\* unless there is checkpoint data.
BootInit == /\ pc = "off"
            /\ hdr' = (hdr /\ (valid[1] \/ ChkData # NoChk))
            /\ pc' = "boot"
            /\ UNCHANGED <<store, valid, region, pre, prev, rootvars,
                           recov, todo, cur, owed>>

-----------------------------------------------------------------------------
\* What a call that has begun does next.
Continue == \/ InvalidateNext \/ FillEntry \/ ValidateEntry
            \/ CopyCell \/ CopyDone
            \/ RbEntry \/ RbCopy \/ RbInvalidate \/ RbFinish
            \/ RegDevPurge \/ RegDevCallback
            \/ RegPartitionDone \/ FlushPurgeDone

\* The boot sequence of an application that mounts its partitions.
Boot == BootInit \/ RegDev \/ RegDevNoJournal

\* What the FAT layer may call.
Client == \/ TranStart \/ TranEnd \/ Write \/ WriteDirect
          \/ SetChkFirst \/ SetChkAgain
          \/ Rollback \/ RegPartition \/ FlushPurge \/ RegDevNoRecovery

Next == Continue \/ Boot \/ Client \/ RbBusy \/ RbError \/ Crash

Spec == Init /\ [][Next]_vars

\* A call runs to its end unless the power fails, and power comes back.
FairSpec == Spec /\ WF_vars(Continue) /\ WF_vars(Boot)

-----------------------------------------------------------------------------
(* Properties *)

Undoing == {"off", "boot", "recdone", "rb", "rbcopy", "rbwait"}

\* The refinement mapping.  Cells written with FTC_NO_PREIMAGE are exempt:
\* their old contents are declared meaningless.
Kept == Cell \ Bare
AView == [c \in Kept |-> store[c]]
ACom  == [c \in Kept |-> Recovered(c)]
AMode == IF pc \in Undoing THEN "undo" ELSE IF trans THEN "open" ELSE "closed"

Abs == INSTANCE AtomicStore WITH Cell <- Kept, view <- AView, com <- ACom,
                                 mode <- AMode, MayAbandon <- NoRecovery \/ IoErrors

\* A transaction takes effect entirely or not at all, whenever power fails
\* and however often, during the rollback and the recovery included; a
\* rollback restores the bytes and the checkpoint data of the transaction's
\* start (fatrj_rollback, fatftc_regdev).
Atomic == Abs!ASpec

\* The checkpoint data presented to the callback of fatftc_regdev is the
\* data of the last completed transaction before the failure.
CallbackData == pc = "callback" => ChkData = owed

\* At most one checkpoint preimage exists in a journal (RJT_CHECKPOINT), so
\* a volatile flag and the battery-backed entries never disagree about it.
OneCheckpoint == \A i, j \in Live : region[i] = Chk /\ region[j] = Chk => i = j

\* The invariant that makes the above inductive.  `Stored' entries have been
\* stored since fatrj_transtart, the last of them perhaps not yet valid.
Stored == MaxEnt - remain

Prefix(n) == (\A i \in 1 .. n : valid[i]) /\ ~valid[n + 1]

\* Where the call in progress stands, whether a transaction is open, whether
\* the header is valid.
Phase == /\ trans => pc \in {"idle", "pre1", "pre2", "pre3", "copy"}
         /\ pc \in {"pre1", "pre2", "pre3"} => trans /\ Stored >= 1
         /\ pc \in {"callback", "unreg", "regp"} => ~hdr
         /\ pc \notin {"off", "boot", "callback", "unreg", "regp"} => hdr
         /\ pc \notin {"rb", "rbcopy"} => ~recov
         /\ pc \in {"idle", "copy", "regp", "purge", "recdone"} /\ ~trans
               => ~valid[1]

\* The journal always ends, and its entries are linked in order.
Chain == /\ ~valid[MaxEnt + 1]
         /\ \A i \in Live : prev[i] = i - 1

\* The RJRoot of an open transaction agrees with the entries.
OpenTransaction ==
   /\ trans /\ pc \in {"idle", "copy"} => Prefix(Stored) /\ last = Stored
   /\ pc \in {"pre1", "pre2"} => Prefix(Stored - 1) /\ last = Stored - 1
   /\ pc = "pre3" => /\ Prefix(Stored - 1) /\ last = Stored
                     /\ region[Stored] = todo /\ prev[Stored] = Stored - 1
   /\ pc \in {"pre2", "pre3"} => ~valid[Stored + 1]
   /\ pc \in {"pre1", "pre2", "pre3"} => \A c \in todo : pre[Stored][c] = store[c]

\* What is about to be overwritten in a transaction has its preimage.
Protected == trans /\ pc = "copy" =>
                \A c \in todo \cap Kept : \E i \in Live : c \in region[i]

\* The flag RJ_CHKENT agrees with the entries.
Checkpoint == /\ ~trans => ~chkent
              /\ trans => (chkent <=> \E i \in Live : region[i] = Chk)
              /\ pc \in {"pre1", "pre2", "pre3"} /\ todo = Chk => ~chkent

\* Entries 1 .. cur are still to be undone.
RollingBack == /\ pc \in {"rb", "rbcopy"} => Prefix(cur)
               /\ pc = "rbcopy" => /\ cur >= 1
                                   /\ todo \subseteq region[cur]
                                   /\ \A c \in region[cur] \ todo :
                                         store[c] = pre[cur][c]

\* Recovery preserves the checkpoint data of the last completed transaction.
Owed == ~IoErrors /\ hdr
           /\ (pc \in {"off", "boot", "recdone"} \/ (pc \in {"rb", "rbcopy"} /\ recov))
              => owed = [c \in Chk |-> Recovered(c)]

IInv == Phase /\ Chain /\ OpenTransaction /\ Protected /\ Checkpoint
        /\ OneCheckpoint /\ RollingBack /\ Owed

\* Recovery ends: the scan backwards along prevoffs always comes to the first
\* entry, and a device whose registration has begun is registered unless
\* power fails again.
RecoveryEnds == pc = "boot" ~> pc \in {"unreg", "off"}

\* fatrj_rollback: "You can retry the rollback which failed".  A rollback
\* that fails must not forget the preimages it has not yet restored.
FailedRollbackKeepsJournal == [][RbError => ACom' = ACom]_vars

\* "After calling the callback, this function resets all checkpoint data":
\* no power failure makes the checkpoint data of an interrupted operation
\* disappear before the FAT layer has dealt with it.
CheckpointDelivered == pc = "unreg" => owed = NoChk
=============================================================================
