-------------------------- MODULE FtcJournal_proof --------------------------
(***************************************************************************)
(* Proofs about FtcJournal, for any number of locations, checkpoint bytes, *)
(* byte values and journal entries: type correctness, the inductive        *)
(* invariant IInv, and the refinement of AtomicStore.                      *)
(***************************************************************************)
EXTENDS FtcJournal, TLAPS, WellFoundedInduction

-----------------------------------------------------------------------------
(* What a rollback would leave behind, as an operator of the journal, so    *)
(* that the lemmas apply to the state before and to the state after a step. *)

\* The valid entries of a journal with signatures v.
LiveIn(v) == {i \in Ent : \A j \in 1 .. i : v[j]}

\* Entry i is the first one that covers cell c.
IsFirst(v, r, c, i) == /\ i \in LiveIn(v)
                       /\ c \in r[i]
                       /\ \A j \in 1 .. (i-1) : c \notin r[j]

RecIn(v, r, p, s, c) ==
   IF \E i \in LiveIn(v) : c \in r[i]
   THEN p[CHOOSE i \in LiveIn(v) : /\ c \in r[i]
                                   /\ \A j \in 1 .. (i-1) : c \notin r[j]][c]
   ELSE s[c]

\* Recovered is this operator, before and after a step.
LEMMA RecoveredIn ==
  /\ Live = LiveIn(valid)
  /\ Live' = LiveIn(valid')
  /\ \A c : Recovered(c) = IF hdr THEN RecIn(valid, region, pre, store, c) ELSE store[c]
  /\ \A c : Recovered(c)' = IF hdr' THEN RecIn(valid', region', pre', store', c) ELSE store'[c]
BY DEF Live, LiveIn, Recovered, RecIn, FirstCover

\* Every nonempty set of natural numbers has a least element.
LEMMA LeastElement ==
  ASSUME NEW T, T \subseteq Nat, T # {}
  PROVE  \E x \in T : \A y \in T : x <= y
<1> DEFINE R == OpToRel(<, Nat)
<1>1. IsWellFoundedOn(R, Nat)
  BY NatLessThanWellFounded
<1> HIDE DEF R
<1>2. PICK x \in T : \A y \in T : ~(<<y, x>> \in R)
  BY <1>1, WFMin
<1>3. \A y \in T : y < x => <<y, x>> \in R
  BY DEF R, OpToRel
<1>4. \A y \in T : ~(y < x)
  BY <1>2, <1>3, Zenon
<1>5. \A y \in T : x <= y
  <2>1. SUFFICES ASSUME NEW y \in T PROVE x <= y
    OBVIOUS
  <2>2. y \in Nat /\ x \in Nat
    OBVIOUS
  <2>3. ~(y < x)
    BY <1>4
  <2>4. QED BY <2>2, <2>3
<1>6. QED BY <1>5

\* A covered cell has a first covering entry.
LEMMA FirstExists ==
  ASSUME NEW v, NEW r, NEW c, \E i \in LiveIn(v) : c \in r[i]
  PROVE  \E i \in Ent : IsFirst(v, r, c, i)
<1> DEFINE T == {i \in LiveIn(v) : c \in r[i]}
<1>1. T \subseteq Nat /\ T # {}
  BY MaxEntAssumption DEF LiveIn, Ent
<1>2. PICK i \in T : \A j \in T : i <= j
  BY <1>1, LeastElement
<1>3. i \in Ent /\ i \in LiveIn(v) /\ c \in r[i]
  BY <1>2 DEF LiveIn
<1>4. ASSUME NEW j \in 1 .. (i-1), c \in r[j] PROVE FALSE
  <2>1. j \in LiveIn(v)
    BY <1>3, MaxEntAssumption DEF LiveIn, Ent
  <2>2. j \in T
    BY <2>1, <1>4
  <2>3. i <= j
    BY <1>2, <2>2
  <2>4. QED BY <2>3, <1>3, MaxEntAssumption DEF Ent
<1>5. QED BY <1>3, <1>4 DEF IsFirst

LEMMA FirstUnique ==
  ASSUME NEW v, NEW r, NEW c, NEW i, NEW k, IsFirst(v, r, c, i), IsFirst(v, r, c, k)
  PROVE  i = k
<1>1. i \in Ent /\ k \in Ent
  BY DEF IsFirst, LiveIn
<1>2. ~(i \in 1 .. (k-1)) /\ ~(k \in 1 .. (i-1))
  BY DEF IsFirst
<1>3. QED BY <1>1, <1>2, MaxEntAssumption DEF Ent

\* A cell covered first by entry i is restored from entry i, ...
LEMMA RecCovered ==
  ASSUME NEW v, NEW r, NEW p, NEW s, NEW c, NEW i, IsFirst(v, r, c, i)
  PROVE  RecIn(v, r, p, s, c) = p[i][c]
<1> DEFINE f == CHOOSE k \in LiveIn(v) : /\ c \in r[k]
                                         /\ \A j \in 1 .. (k-1) : c \notin r[j]
<1>1. IsFirst(v, r, c, f)
  BY DEF IsFirst
<1>2. f = i
  BY <1>1, FirstUnique
<1>3. \E k \in LiveIn(v) : c \in r[k]
  BY DEF IsFirst
<1>4. QED BY <1>2, <1>3 DEF RecIn

\* ... and a cell no valid entry covers keeps its contents.
LEMMA RecUncovered ==
  ASSUME NEW v, NEW r, NEW p, NEW s, NEW c, \A i \in LiveIn(v) : c \notin r[i]
  PROVE  RecIn(v, r, p, s, c) = s[c]
BY DEF RecIn

\* The outcome of a rollback depends only on the valid entries and on the
\* cells they do not cover.
LEMMA RecStable ==
  ASSUME NEW v, NEW w, NEW r, NEW q, NEW p, NEW o, NEW s, NEW t, NEW c,
         LiveIn(v) = LiveIn(w),
         \A i \in LiveIn(v) : r[i] = q[i] /\ p[i] = o[i],
         s[c] = t[c] \/ \E i \in LiveIn(v) : c \in r[i]
  PROVE  RecIn(v, r, p, s, c) = RecIn(w, q, o, t, c)
<1>1. CASE \E i \in LiveIn(v) : c \in r[i]
  <2>1. PICK i \in Ent : IsFirst(v, r, c, i)
    BY <1>1, FirstExists
  <2>2. \A j \in 1 .. (i-1) : j \in LiveIn(v)
    BY <2>1, MaxEntAssumption DEF IsFirst, LiveIn, Ent
  <2>3. IsFirst(w, q, c, i)
    BY <2>1, <2>2 DEF IsFirst
  <2>4. p[i] = o[i]
    BY <2>1 DEF IsFirst
  <2>5. RecIn(v, r, p, s, c) = p[i][c] /\ RecIn(w, q, o, t, c) = o[i][c]
    BY <2>1, <2>3, RecCovered
  <2>6. QED BY <2>4, <2>5
<1>2. CASE \A i \in LiveIn(v) : c \notin r[i]
  <2>1. RecIn(v, r, p, s, c) = s[c] /\ RecIn(w, q, o, t, c) = t[c]
    BY <1>2, RecUncovered
  <2>2. QED BY <1>2, <2>1
<1>3. QED BY <1>1, <1>2

\* The valid entries when the first gap is known.
LEMMA LivePrefix ==
  ASSUME NEW v, NEW n \in 0 .. MaxEnt, \A i \in 1 .. n : v[i], ~v[n + 1]
  PROVE  LiveIn(v) = 1 .. n
<1>1. ASSUME NEW i \in LiveIn(v) PROVE i \in 1 .. n
  <2>1. i \in Ent /\ \A j \in 1 .. i : v[j]
    BY DEF LiveIn
  <2>2. ~(n + 1 \in 1 .. i)
    BY <2>1
  <2>3. QED BY <2>1, <2>2, MaxEntAssumption DEF Ent
<1>2. ASSUME NEW i \in 1 .. n PROVE i \in LiveIn(v)
  <2>1. i \in Ent /\ \A j \in 1 .. i : j \in 1 .. n
    BY MaxEntAssumption DEF Ent
  <2>2. QED BY <2>1 DEF LiveIn
<1>3. QED BY <1>1, <1>2

-----------------------------------------------------------------------------
(* Typing *)

LEMMA RecoveredType ==
  ASSUME TypeOK, NEW c \in Cell
  PROVE  Recovered(c) \in Val
<1>1. CASE \E i \in LiveIn(valid) : c \in region[i]
  <2>1. PICK i \in Ent : IsFirst(valid, region, c, i)
    BY <1>1, FirstExists
  <2>2. RecIn(valid, region, pre, store, c) = pre[i][c]
    BY <2>1, RecCovered
  <2>3. QED BY <2>2, RecoveredIn DEF TypeOK
<1>2. CASE \A i \in LiveIn(valid) : c \notin region[i]
  <2>1. RecIn(valid, region, pre, store, c) = store[c]
    BY <1>2, RecUncovered
  <2>2. QED BY <2>1, RecoveredIn DEF TypeOK
<1>3. QED BY <1>1, <1>2

LEMMA InitType == Init => TypeOK
<1> SUFFICES ASSUME Init PROVE TypeOK
  OBVIOUS
<1>1. store \in [Cell -> Val] /\ hdr \in BOOLEAN /\ valid \in [Slot -> BOOLEAN]
  BY DEF Init
<1>2. region \in [Ent -> SUBSET Cell] /\ pre \in [Ent -> [Cell -> Val]]
  BY ValAssumption DEF Init
<1>3. 0 \in 0 .. MaxEnt
  BY MaxEntAssumption
<1>4. prev \in [Ent -> 0 .. MaxEnt] /\ remain \in 0 .. MaxEnt
      /\ last \in 0 .. MaxEnt /\ cur \in 0 .. MaxEnt
  BY <1>3 DEF Init
<1>5. owed \in [Chk -> Val]
  BY ValAssumption DEF Init, NoChk
<1>6. QED BY <1>1, <1>2, <1>4, <1>5 DEF Init, TypeOK, PCs

\* The slot of the next entry, and of the entry just begun.
LEMMA SlotType ==
  ASSUME TypeOK
  PROVE  /\ NextSlot \in Slot
         /\ remain >= 1 => NextSlot \in Ent
         /\ remain < MaxEnt => NextSlot - 1 \in Ent
         /\ Stored \in 0 .. MaxEnt /\ NextSlot = Stored + 1
BY MaxEntAssumption DEF TypeOK, NextSlot, Slot, Ent, Stored

\* Every call of the FAT layer is well typed.
LEMMA ClientType == TypeOK /\ Client => TypeOK'
<1> SUFFICES ASSUME TypeOK, Client PROVE TypeOK'
  OBVIOUS
<1> USE DEF TypeOK
<1>0. 1 \in Slot /\ 0 \in 0 .. MaxEnt /\ MaxEnt \in 0 .. MaxEnt /\ Chk \subseteq Cell
      /\ Loc \subseteq Cell
  BY MaxEntAssumption DEF Slot, Cell
<1>1. CASE TranStart
  BY <1>1, <1>0 DEF TranStart, bbvars
<1>2. CASE TranEnd
  BY <1>2, <1>0 DEF TranEnd, EndTransaction
<1>3. ASSUME NEW R \in SUBSET Cell, StorePreimage(R), UNCHANGED chkent PROVE TypeOK'
  <2>1. NextSlot \in Ent /\ remain - 1 \in 0 .. MaxEnt
    BY <1>3, SlotType, MaxEntAssumption DEF StorePreimage
  <2>2. [c \in Cell |-> IF c \in R THEN store[c] ELSE Zero] \in [Cell -> Val]
    BY ValAssumption
  <2>3. pre' \in [Ent -> [Cell -> Val]]
    BY <1>3, <2>1, <2>2 DEF StorePreimage
  <2>4. QED BY <1>3, <2>1, <2>3 DEF StorePreimage, PCs
<1>4. CASE Write
  BY <1>4, <1>3, <1>0 DEF Write
<1>5. CASE WriteDirect
  BY <1>5, <1>0, CellAssumption DEF WriteDirect, bbvars, rootvars, PCs
<1>6. CASE SetChkFirst
  BY <1>6, <1>3, <1>0 DEF SetChkFirst
<1>7. CASE SetChkAgain
  BY <1>7, <1>0 DEF SetChkAgain, bbvars, rootvars, PCs
<1>8. CASE Rollback
  BY <1>8, <1>0 DEF Rollback, StartRollback, bbvars, PCs
<1>9. CASE RegPartition
  BY <1>9, <1>0, ValAssumption DEF RegPartition, PCs
<1>10. CASE FlushPurge
  BY <1>10, <1>0 DEF FlushPurge, EndTransaction, PCs
<1>11. CASE RegDevNoRecovery
  <2>1. NoChk \in [Chk -> Val]
    BY ValAssumption DEF NoChk
  <2>2. PICK held \in [Loc -> Val] :
           store' = [c \in Cell |-> IF c \in Loc THEN held[c] ELSE store[c]]
    BY <1>11 DEF RegDevNoRecovery
  <2>3. store' \in [Cell -> Val]
    BY <2>2
  <2>4. QED BY <1>11, <2>1, <2>3 DEF RegDevNoRecovery, rootvars, PCs
<1>12. QED
  BY <1>1, <1>2, <1>4, <1>5, <1>6, <1>7, <1>8, <1>9, <1>10, <1>11 DEF Client

\* So is every step inside a call; a step of _fatrj_store_preimage needs to
\* know that an entry has been begun.
LEMMA ContinueType == TypeOK /\ Phase /\ RollingBack /\ Continue => TypeOK'
<1> SUFFICES ASSUME TypeOK, Phase, RollingBack, Continue PROVE TypeOK'
  OBVIOUS
<1> USE DEF TypeOK
<1>0. 1 \in Slot /\ 0 \in 0 .. MaxEnt /\ Ent \subseteq Slot /\ Ent \subseteq 0 .. MaxEnt
  BY MaxEntAssumption DEF Slot, Ent
<1>1. CASE InvalidateNext
  BY <1>1, SlotType DEF InvalidateNext, rootvars, PCs
<1>2. CASE FillEntry
  <2>1. NextSlot - 1 \in Ent
    BY <1>2, MaxEntAssumption DEF FillEntry, Phase, Stored, NextSlot, Ent
  <2>2. QED BY <1>2, <2>1, <1>0 DEF FillEntry, PCs
<1>3. CASE ValidateEntry
  <2>1. NextSlot - 1 \in Ent
    BY <1>3, MaxEntAssumption DEF ValidateEntry, Phase, Stored, NextSlot, Ent
  <2>2. chkent' \in BOOLEAN
    BY <1>3 DEF ValidateEntry
  <2>3. QED BY <1>3, <2>1, <2>2, <1>0 DEF ValidateEntry, PCs
<1>4. CASE CopyCell
  BY <1>4 DEF CopyCell, rootvars
<1>5. CASE CopyDone
  BY <1>5 DEF CopyDone, bbvars, rootvars, PCs
<1>6. CASE RbEntry
  BY <1>6, MaxEntAssumption DEF RbEntry, bbvars, rootvars, PCs, Ent
<1>7. CASE RbCopy
  <2>1. PICK c \in todo : store' = [store EXCEPT ![c] = pre[cur][c]] /\ todo' = todo \ {c}
    BY <1>7 DEF RbCopy
  <2>2. cur \in Ent
    BY <1>7, MaxEntAssumption DEF RbCopy, RollingBack, Ent
  <2>3. pre[cur][c] \in Val
    BY <2>2
  <2>4. QED BY <1>7, <2>1, <2>3 DEF RbCopy, rootvars
<1>8. CASE RbInvalidate
  <2>1. cur \in Ent
    BY <1>8, MaxEntAssumption DEF RbInvalidate, RollingBack, Ent
  <2>2. QED BY <1>8, <2>1, <1>0 DEF RbInvalidate, rootvars, PCs
<1>9. CASE RbFinish
  BY <1>9, <1>0 DEF RbFinish, rootvars, PCs
<1>10. CASE RegDevPurge
  BY <1>10 DEF RegDevPurge, rootvars, PCs
<1>11. CASE RegDevCallback
  <2>1. NoChk \in [Chk -> Val]
    BY ValAssumption DEF NoChk
  <2>2. QED BY <1>11, <2>1 DEF RegDevCallback, bbvars, rootvars, PCs
<1>12. CASE RegPartitionDone
  BY <1>12 DEF RegPartitionDone, rootvars, PCs
<1>13. CASE FlushPurgeDone
  BY <1>13 DEF FlushPurgeDone, rootvars, PCs
<1>14. QED
  BY <1>1, <1>2, <1>3, <1>4, <1>5, <1>6, <1>7, <1>8, <1>9, <1>10, <1>11, <1>12, <1>13 DEF Continue

LEMMA BootType == TypeOK /\ (Boot \/ RbBusy \/ RbError \/ Crash) => TypeOK'
<1> SUFFICES ASSUME TypeOK, Boot \/ RbBusy \/ RbError \/ Crash PROVE TypeOK'
  OBVIOUS
<1> USE DEF TypeOK
<1>0. 1 \in Slot /\ 0 \in 0 .. MaxEnt /\ MaxEnt \in 0 .. MaxEnt
  BY MaxEntAssumption DEF Slot
<1>1. CASE BootInit
  BY <1>1 DEF BootInit, rootvars, PCs
<1>2. CASE RegDev
  BY <1>2, <1>0 DEF RegDev, StartRollback, bbvars, PCs
<1>3. CASE RegDevNoJournal
  BY <1>3 DEF RegDevNoJournal, bbvars, rootvars, PCs
<1>4. CASE RbBusy
  BY <1>4 DEF RbBusy, bbvars, rootvars, PCs
<1>5. CASE RbError
  BY <1>5, <1>0 DEF RbError, rootvars, PCs
<1>6. CASE Crash
  <2>1. [c \in Chk |-> Recovered(c)] \in [Chk -> Val]
    BY RecoveredType DEF Cell
  <2>2. QED BY <1>6, <2>1, <1>0 DEF Crash, bbvars, PCs
<1>7. QED BY <1>1, <1>2, <1>3, <1>4, <1>5, <1>6 DEF Boot

LEMMA NextType == TypeOK /\ Phase /\ RollingBack /\ [Next]_vars => TypeOK'
<1> SUFFICES ASSUME TypeOK, Phase, RollingBack, [Next]_vars PROVE TypeOK'
  OBVIOUS
<1>1. CASE UNCHANGED vars
  BY <1>1 DEF TypeOK, vars, bbvars, rootvars
<1>2. CASE Next
  BY <1>2, ClientType, ContinueType, BootType DEF Next
<1>3. QED BY <1>1, <1>2

-----------------------------------------------------------------------------
(* The inductive invariant *)

LEMMA InitInv == Init => IInv
<1> SUFFICES ASSUME Init PROVE IInv
  OBVIOUS
<1>1. \A i \in Slot : ~valid[i]
  BY DEF Init
<1>2. MaxEnt + 1 \in Slot /\ Live = {}
  BY <1>1, MaxEntAssumption DEF Live, Ent, Slot
<1>3. QED
  BY <1>1, <1>2 DEF Init, IInv, Phase, Chain, OpenTransaction, Protected, Checkpoint,
     OneCheckpoint, RollingBack, Owed

\* How the valid entries change.
LEMMA LiveEmptied ==
  ASSUME TypeOK, valid' = [valid EXCEPT ![1] = FALSE]
  PROVE  Live' = {} /\ ~valid'[1]
BY MaxEntAssumption DEF TypeOK, Live, Ent, Slot

LEMMA LiveSame == UNCHANGED valid => Live' = Live
BY DEF Live

LEMMA PrefixLive ==
  ASSUME NEW n \in 0 .. MaxEnt, Prefix(n)
  PROVE  Live = 1 .. n
BY LivePrefix, RecoveredIn DEF Prefix

\* fatrj_transtart finds the journal without entries.
LEMMA TranStartInv == TypeOK /\ IInv /\ TranStart => IInv'
<1> SUFFICES ASSUME TypeOK, IInv, TranStart PROVE IInv'
  OBVIOUS
<1> USE DEF TranStart, IInv, bbvars
<1>1. Live' = Live /\ Live = {} /\ Stored' = 0 /\ ~chkent
  BY LiveSame, MaxEntAssumption DEF Phase, Live, Ent, Stored, Checkpoint
<1>2. Phase'
  BY DEF Phase
<1>3. Chain' /\ OneCheckpoint'
  BY <1>1 DEF Chain, OneCheckpoint
<1>4. OpenTransaction'
  BY <1>1 DEF OpenTransaction, Prefix, Phase
<1>5. Protected' /\ Checkpoint'
  BY <1>1 DEF Protected, Checkpoint
<1>6. RollingBack' /\ Owed'
  BY DEF RollingBack, Owed, Phase
<1>7. QED BY <1>2, <1>3, <1>4, <1>5, <1>6

\* The end of a transaction, with or without unregistering.
LEMMA TranEndInv == TypeOK /\ IInv /\ (TranEnd \/ FlushPurge) => IInv'
<1> SUFFICES ASSUME TypeOK, IInv, TranEnd \/ FlushPurge PROVE IInv'
  OBVIOUS
<1> USE DEF IInv
<1>1. EndTransaction /\ pc = "idle" /\ pc' \in {"idle", "purge"} /\ UNCHANGED <<recov, todo, cur, owed>>
  BY DEF TranEnd, FlushPurge
<1>2. Live' = {} /\ ~valid'[1] /\ hdr /\ ~recov
  BY <1>1, LiveEmptied DEF EndTransaction, Phase
<1> USE DEF EndTransaction
<1>3. Phase'
  BY <1>1, <1>2 DEF Phase
<1>4. Chain' /\ OneCheckpoint'
  BY <1>1, <1>2, MaxEntAssumption DEF Chain, OneCheckpoint, TypeOK, Slot
<1>5. OpenTransaction' /\ Protected' /\ Checkpoint'
  BY <1>1 DEF OpenTransaction, Protected, Checkpoint
<1>6. RollingBack' /\ Owed'
  BY <1>1, <1>2 DEF RollingBack, Owed
<1>7. QED BY <1>3, <1>4, <1>5, <1>6

\* The first stores of _fatrj_store_preimage, for any region R; a checkpoint
\* preimage is only stored while RJ_CHKENT is clear.
LEMMA StorePreimageInv ==
  ASSUME TypeOK, IInv, pc = "idle", trans, NEW R \in SUBSET Cell,
         R = Chk => ~chkent, StorePreimage(R), UNCHANGED chkent
  PROVE  IInv'
<1> USE DEF IInv, StorePreimage
<1>1. /\ Live' = Live /\ Stored' = Stored + 1 /\ NextSlot = Stored + 1
      /\ Stored \in 0 .. MaxEnt /\ NextSlot \in Ent
      /\ hdr /\ ~recov
  BY LiveSame, SlotType, MaxEntAssumption DEF Stored, TypeOK, Phase
<1>2. Live = 1 .. Stored /\ Prefix(Stored) /\ last = Stored
  BY <1>1, PrefixLive DEF OpenTransaction
<1>3. Phase'
  BY <1>1, MaxEntAssumption DEF Phase
<1>4. Chain'
  BY <1>1 DEF Chain
<1>5. OneCheckpoint'
  BY <1>1 DEF OneCheckpoint
<1>6. OpenTransaction'
  <2>1. \A c \in todo' : pre'[Stored'][c] = store'[c]
    BY <1>1 DEF TypeOK
  <2>2. (Prefix(Stored - 1) /\ last = Stored - 1)'
    BY <1>1, <1>2 DEF Prefix
  <2>3. QED BY <2>1, <2>2 DEF OpenTransaction
<1>7. Protected' /\ Checkpoint'
  BY <1>1 DEF Protected, Checkpoint
<1>8. RollingBack' /\ Owed'
  BY <1>1 DEF RollingBack, Owed
<1>9. QED BY <1>3, <1>4, <1>5, <1>6, <1>7, <1>8

LEMMA WriteInv == TypeOK /\ IInv /\ (Write \/ SetChkFirst) => IInv'
<1> SUFFICES ASSUME TypeOK, IInv, Write \/ SetChkFirst PROVE IInv'
  OBVIOUS
<1>1. CASE Write
  <2>1. PICK R \in SUBSET Loc \ {{}} : StorePreimage(R)
    BY <1>1 DEF Write
  <2>2. R \in SUBSET Cell /\ R # Chk
    BY CellAssumption DEF Cell
  <2>3. QED BY <1>1, <2>1, <2>2, StorePreimageInv DEF Write
<1>2. CASE SetChkFirst
  <2>1. Chk \in SUBSET Cell
    BY DEF Cell
  <2>2. QED BY <1>2, <2>1, StorePreimageInv DEF SetChkFirst
<1>3. QED BY <1>1, <1>2

\* The fields of the new entry, and the signature behind it.
LEMMA FillInv == TypeOK /\ IInv /\ (InvalidateNext \/ FillEntry) => IInv'
<1> SUFFICES ASSUME TypeOK, IInv, InvalidateNext \/ FillEntry PROVE IInv'
  OBVIOUS
<1> USE DEF IInv
<1>0. /\ pc \in {"pre1", "pre2"} /\ trans /\ hdr /\ ~recov
      /\ Stored \in 1 .. MaxEnt /\ NextSlot = Stored + 1
      /\ Prefix(Stored - 1) /\ last = Stored - 1
  BY SlotType, MaxEntAssumption DEF InvalidateNext, FillEntry, Phase, OpenTransaction
<1>a. Stored - 1 \in 0 .. MaxEnt /\ Stored \in Ent /\ Stored + 1 \in Slot
  BY <1>0, MaxEntAssumption DEF Ent, Slot
<1>1. Live = 1 .. (Stored - 1)
  BY <1>0, <1>a, PrefixLive
<1>2. CASE InvalidateNext
  <2> USE <1>2 DEF InvalidateNext, rootvars
  <2>0. valid' = [valid EXCEPT ![Stored + 1] = FALSE] /\ Stored' = Stored
    BY <1>0 DEF Stored
  <2>a. \A i \in 1 .. Stored : i # Stored + 1 /\ i \in Slot
    BY <1>0, MaxEntAssumption DEF Slot
  <2>1. /\ \A i \in 1 .. Stored : valid'[i] = valid[i]
        /\ ~valid'[Stored + 1] /\ ~valid'[MaxEnt + 1]
        /\ Stored' = Stored
    <3>1. \A j \in Slot : valid'[j] = (IF j = Stored + 1 THEN FALSE ELSE valid[j])
      BY <2>0 DEF TypeOK
    <3>2. MaxEnt + 1 \in Slot
      BY MaxEntAssumption DEF Slot
    <3>3. \A i \in 1 .. Stored : valid'[i] = valid[i]
      BY <2>a, <3>1
    <3>4. ~valid'[Stored + 1] /\ ~valid'[MaxEnt + 1]
      BY <1>a, <3>1, <3>2 DEF Chain
    <3>5. QED BY <2>0, <3>3, <3>4
  <2>2. Prefix(Stored - 1)'
    BY <1>0, <2>1 DEF Prefix
  <2>3. Live' = Live
    <3>1. (\A i \in 1 .. (Stored - 1) : valid'[i]) /\ ~valid'[Stored - 1 + 1]
      BY <2>1, <2>2 DEF Prefix
    <3>2. LiveIn(valid') = 1 .. (Stored - 1)
      BY <1>a, <3>1, LivePrefix
    <3>3. QED BY <1>1, <3>2, RecoveredIn
  <2>4. Phase' /\ Chain'
    BY <1>0, <2>1, <2>3 DEF Phase, Chain
  <2>5. OpenTransaction'
    BY <1>0, <2>1, <2>2 DEF OpenTransaction
  <2>6. Protected' /\ Checkpoint' /\ OneCheckpoint' /\ RollingBack' /\ Owed'
    BY <1>0, <2>3 DEF Protected, Checkpoint, OneCheckpoint, RollingBack, Owed
  <2>7. QED BY <2>4, <2>5, <2>6
<1>3. CASE FillEntry
  <2> USE <1>3 DEF FillEntry
  <2>1. Live' = Live /\ Stored' = Stored /\ Stored \in Ent
    BY <1>0, LiveSame, MaxEntAssumption DEF Stored, Ent
  <2>2. \A i \in Live : region'[i] = region[i] /\ prev'[i] = prev[i]
    BY <1>0, <1>1 DEF TypeOK
  <2>3. region'[Stored] = todo /\ prev'[Stored] = last
    BY <1>0, <2>1 DEF TypeOK
  <2>4. Phase' /\ Chain'
    BY <1>0, <2>1, <2>2 DEF Phase, Chain
  <2>5. Prefix(Stored - 1)'
    BY <1>0, <2>1 DEF Prefix
  <2>6. OpenTransaction'
    BY <1>0, <2>1, <2>3, <2>5 DEF OpenTransaction
  <2>7. Checkpoint' /\ OneCheckpoint'
    BY <1>0, <2>1, <2>2 DEF Checkpoint, OneCheckpoint
  <2>8. Protected' /\ RollingBack' /\ Owed'
    BY <1>0 DEF Protected, RollingBack, Owed
  <2>9. QED BY <2>4, <2>6, <2>7, <2>8
<1>4. QED BY <1>2, <1>3

\* The new entry becomes valid: it is the last one, and it covers exactly the
\* cells about to be written.
LEMMA ValidateInv == TypeOK /\ IInv /\ ValidateEntry => IInv'
<1> SUFFICES ASSUME TypeOK, IInv, ValidateEntry PROVE IInv'
  OBVIOUS
<1> USE DEF IInv, ValidateEntry
<1>0. /\ pc = "pre3" /\ trans /\ hdr /\ ~recov
      /\ Stored \in 1 .. MaxEnt /\ NextSlot = Stored + 1 /\ Stored' = Stored
      /\ Prefix(Stored - 1) /\ last = Stored /\ prev[Stored] = Stored - 1
      /\ region[Stored] = todo /\ ~valid[Stored + 1]
  BY SlotType, MaxEntAssumption DEF Phase, OpenTransaction, Stored
<1>a. Stored - 1 \in 0 .. MaxEnt /\ Stored \in Ent /\ Stored + 1 \in Slot
  BY <1>0, MaxEntAssumption DEF Ent, Slot
<1>1. Live = 1 .. (Stored - 1)
  BY <1>0, <1>a, PrefixLive
<1>b. valid' = [valid EXCEPT ![Stored] = TRUE]
  BY <1>0
<1>c. /\ \A i \in 1 .. (Stored - 1) : i # Stored /\ i \in Slot
      /\ Stored \in Slot /\ MaxEnt + 1 \in Slot
      /\ Stored # MaxEnt + 1 /\ Stored # Stored + 1
  BY <1>0, MaxEntAssumption DEF Slot
<1>2. /\ valid'[Stored]
      /\ \A i \in 1 .. (Stored - 1) : valid'[i] = valid[i]
      /\ valid'[Stored + 1] = valid[Stored + 1]
      /\ valid'[MaxEnt + 1] = valid[MaxEnt + 1]
  BY <1>a, <1>b, <1>c DEF TypeOK
<1>3. \A i \in 1 .. Stored : i = Stored \/ i \in 1 .. (Stored - 1)
  BY <1>0
<1>4. Prefix(Stored)'
  BY <1>0, <1>2, <1>3 DEF Prefix
<1>5. Live' = 1 .. Stored
  <2>1. (\A i \in 1 .. Stored : valid'[i]) /\ ~valid'[Stored + 1] /\ Stored \in 0 .. MaxEnt
    BY <1>0, <1>2, <1>3, <1>4 DEF Prefix
  <2>2. QED BY <2>1, LivePrefix, RecoveredIn
<1>6. Phase' /\ Chain'
  BY <1>0, <1>1, <1>2, <1>3, <1>5 DEF Phase, Chain
<1>7. OpenTransaction'
  BY <1>0, <1>4 DEF OpenTransaction
<1>8. Protected'
  BY <1>0, <1>5 DEF Protected
<1>9. Checkpoint'
  <2>1. (\E i \in Live' : region[i] = Chk) <=> (todo = Chk \/ \E i \in Live : region[i] = Chk)
    BY <1>0, <1>1, <1>3, <1>5
  <2>2. QED BY <1>0, <2>1 DEF Checkpoint
<1>10. OneCheckpoint'
  BY <1>0, <1>1, <1>3, <1>5 DEF OneCheckpoint, Checkpoint
<1>11. RollingBack' /\ Owed'
  BY <1>0 DEF RollingBack, Owed
<1>12. QED BY <1>6, <1>7, <1>8, <1>9, <1>10, <1>11

\* Copying new data in, in all its forms.
LEMMA CopyInv == TypeOK /\ IInv /\ (WriteDirect \/ SetChkAgain \/ CopyCell \/ CopyDone) => IInv'
<1> SUFFICES ASSUME TypeOK, IInv, WriteDirect \/ SetChkAgain \/ CopyCell \/ CopyDone
             PROVE  IInv'
  OBVIOUS
<1> USE DEF IInv
<1>1. /\ pc \in {"idle", "copy"} /\ pc' \in {"idle", "copy"}
      /\ UNCHANGED <<hdr, valid, region, pre, prev, rootvars, recov, cur, owed>>
  BY DEF WriteDirect, SetChkAgain, CopyCell, CopyDone, bbvars, rootvars
<1>2. Live' = Live /\ Stored' = Stored
  BY <1>1, LiveSame DEF Stored, rootvars
<1>3. hdr /\ ~recov
  BY <1>1 DEF Phase
<1>4. Phase' /\ Chain' /\ OneCheckpoint' /\ Checkpoint'
  BY <1>1, <1>2, <1>3 DEF Phase, Chain, OneCheckpoint, Checkpoint, rootvars
<1>5. OpenTransaction'
  BY <1>1, <1>2 DEF OpenTransaction, Prefix, rootvars
<1>6. RollingBack' /\ Owed'
  BY <1>1 DEF RollingBack, Owed
<1>7. Protected'
  <2>1. CASE WriteDirect
    BY <2>1, <1>1 DEF WriteDirect, Protected, Kept, rootvars
  <2>2. CASE SetChkAgain
    BY <2>2, <1>1, <1>2 DEF SetChkAgain, Protected, Checkpoint, rootvars
  <2>3. CASE CopyCell
    <3>1. todo' \subseteq todo
      BY <2>3 DEF CopyCell
    <3>2. QED BY <2>3, <3>1, <1>1, <1>2 DEF CopyCell, Protected, rootvars
  <2>4. CASE CopyDone
    BY <2>4 DEF CopyDone, Protected
  <2>5. QED BY <2>1, <2>2, <2>3, <2>4
<1>8. QED BY <1>4, <1>5, <1>6, <1>7

\* The beginning of a rollback: the scan stops behind the last valid entry.
LEMMA StartRollbackInv == TypeOK /\ IInv /\ (Rollback \/ RegDev) => IInv'
<1> SUFFICES ASSUME TypeOK, IInv, Rollback \/ RegDev PROVE IInv'
  OBVIOUS
<1> USE DEF IInv
<1>1. StartRollback /\ hdr /\ pc \in {"idle", "rbwait", "boot"}
      /\ recov' \in BOOLEAN /\ (recov' => pc = "boot")
  BY DEF Rollback, RegDev, Phase
<1> USE DEF StartRollback, bbvars
<1>2. Live' = Live
  BY <1>1, LiveSame
<1>3. Phase' /\ Chain' /\ OneCheckpoint'
  BY <1>1, <1>2 DEF Phase, Chain, OneCheckpoint
<1>4. OpenTransaction' /\ Protected' /\ Checkpoint'
  BY <1>1 DEF OpenTransaction, Protected, Checkpoint
<1>5. RollingBack'
  BY <1>1 DEF RollingBack, Prefix
<1>6. Owed'
  <2>1. \A c : Recovered(c)' = Recovered(c)
    BY <1>1, RecoveredIn
  <2>2. QED BY <1>1, <2>1 DEF Owed
<1>7. QED BY <1>3, <1>4, <1>5, <1>6

\* The parts of the invariant that speak of an open transaction hold when
\* none is, and the entries of a journal only become fewer.
LEMMA ClosedInv ==
  ASSUME TypeOK, IInv, ~trans', ~chkent', pc' \notin {"pre1", "pre2", "pre3"},
         Live' \subseteq Live, UNCHANGED <<region, prev>>, ~valid'[MaxEnt + 1]
  PROVE  Chain' /\ OpenTransaction' /\ Protected' /\ Checkpoint' /\ OneCheckpoint'
BY DEF IInv, Chain, OpenTransaction, Protected, Checkpoint, OneCheckpoint

\* Copying preimages back leaves the outcome of the rollback as it is: every
\* cell it writes is covered by a valid entry.
LEMMA RbCopyRecovered ==
  ASSUME TypeOK, IInv, RbEntry \/ RbCopy \/ RbBusy
  PROVE  \A c : Recovered(c)' = Recovered(c)
<1>1. CASE RbEntry \/ RbBusy
  BY <1>1, RecoveredIn DEF RbEntry, RbBusy, bbvars
<1>2. CASE RbCopy
  <2> USE <1>2 DEF RbCopy
  <2>1. PICK d \in todo : store' = [store EXCEPT ![d] = pre[cur][d]]
    OBVIOUS
  <2>2. cur \in Live /\ d \in region[cur]
    BY PrefixLive DEF IInv, RollingBack, TypeOK
  <2>3. UNCHANGED <<hdr, valid, region, pre>> /\ hdr
    BY DEF IInv, Phase
  <2>4. ASSUME NEW c PROVE Recovered(c)' = Recovered(c)
    <3>1. store'[c] = store[c] \/ \E i \in LiveIn(valid) : c \in region[i]
      BY <2>1, <2>2, RecoveredIn DEF TypeOK
    <3> DEFINE t == store'
    <3>2. store[c] = t[c] \/ \E i \in LiveIn(valid) : c \in region[i]
      BY <3>1
    <3> HIDE DEF t
    <3>3. RecIn(valid, region, pre, store, c) = RecIn(valid, region, pre, t, c)
      BY <3>2, RecStable
    <3>4. RecIn(valid, region, pre, store, c) = RecIn(valid, region, pre, store', c)
      BY <3>3 DEF t
    <3>5. Recovered(c)' = RecIn(valid, region, pre, store', c)
      <4>1. Recovered(c)' = IF hdr' THEN RecIn(valid', region', pre', store', c) ELSE store'[c]
        BY ONLY RecoveredIn
      <4>2. QED BY ONLY <2>3, <4>1
    <3>6. Recovered(c) = RecIn(valid, region, pre, store, c)
      BY <2>3, RecoveredIn
    <3>7. QED BY <3>4, <3>5, <3>6
  <2>5. QED BY <2>4
<1>3. QED BY <1>1, <1>2

LEMMA RbCopyInv == TypeOK /\ IInv /\ (RbEntry \/ RbCopy \/ RbBusy) => IInv'
<1> SUFFICES ASSUME TypeOK, IInv, RbEntry \/ RbCopy \/ RbBusy PROVE IInv'
  OBVIOUS
<1>1. /\ pc \in {"rb", "rbcopy"} /\ pc' \in {"rb", "rbcopy", "rbwait"}
      /\ UNCHANGED <<hdr, valid, region, pre, prev, rootvars, recov, cur, owed>>
      /\ pc' = "rbwait" => ~recov
      /\ hdr /\ ~trans /\ ~chkent /\ ~valid[MaxEnt + 1]
      /\ Live' = Live
  BY LiveSame DEF RbEntry, RbCopy, RbBusy, bbvars, rootvars, IInv, Phase, Checkpoint, Chain
<1>2. Phase'
  BY <1>1 DEF IInv, Phase, rootvars
<1>3. Chain' /\ OpenTransaction' /\ Protected' /\ Checkpoint' /\ OneCheckpoint'
  BY <1>1, ClosedInv DEF rootvars
<1>4. RollingBack'
  <2>1. Prefix(cur)' /\ cur' = cur
    BY <1>1 DEF IInv, RollingBack, Prefix
  <2>2. CASE RbEntry
    BY <2>1, <2>2 DEF RbEntry, bbvars, RollingBack, TypeOK
  <2>3. CASE RbCopy
    <3>1. PICK d \in todo : store' = [store EXCEPT ![d] = pre[cur][d]] /\ todo' = todo \ {d}
      BY <2>3 DEF RbCopy
    <3>2. d \in Cell /\ store'[d] = pre[cur][d]
      BY <3>1 DEF TypeOK
    <3>3. \A c \in region[cur] \ todo' : store'[c] = pre[cur][c]
      BY <2>3, <3>1, <3>2 DEF IInv, RollingBack, RbCopy, TypeOK
    <3>4. QED BY <2>1, <2>3, <3>1, <3>3 DEF IInv, RollingBack, RbCopy
  <2>4. CASE RbBusy
    BY <2>4 DEF RbBusy, RollingBack
  <2>5. QED BY <2>2, <2>3, <2>4
<1>5. Owed'
  BY <1>1, RbCopyRecovered DEF IInv, Owed
<1>6. QED BY <1>2, <1>3, <1>4, <1>5 DEF IInv

\* Dropping the last entry once its preimage is back changes nothing either.
LEMMA RbInvalidateLive ==
  ASSUME TypeOK, IInv, RbInvalidate
  PROVE  /\ cur \in 1 .. MaxEnt /\ cur' = cur - 1
         /\ Prefix(cur) /\ Live = 1 .. cur
         /\ Prefix(cur)' /\ Live' = 1 .. (cur - 1)
<1> USE DEF RbInvalidate, IInv
<1>1. cur \in 1 .. MaxEnt /\ Prefix(cur)
  BY MaxEntAssumption DEF TypeOK, RollingBack
<1>2. Live = 1 .. cur
  BY <1>1, PrefixLive
<1>3. cur' = cur - 1
  BY <1>1, <1>2 DEF Chain
<1>4. ~valid'[cur] /\ \A i \in 1 .. (cur - 1) : valid'[i]
  BY <1>1, MaxEntAssumption DEF TypeOK, Slot, Prefix
<1>5. Prefix(cur)'
  BY <1>1, <1>3, <1>4 DEF Prefix
<1>6. Live' = 1 .. (cur - 1)
  <2>1. cur - 1 \in 0 .. MaxEnt /\ ~valid'[cur - 1 + 1]
    BY <1>1, <1>4, MaxEntAssumption
  <2>2. QED BY <1>4, <2>1, LivePrefix, RecoveredIn
<1>7. QED BY <1>1, <1>2, <1>3, <1>5, <1>6

LEMMA RbInvalidateRecovered ==
  ASSUME TypeOK, IInv, RbInvalidate, NEW c \in Cell
  PROVE  Recovered(c)' = Recovered(c)
<1>0. UNCHANGED <<store, hdr, region, pre>> /\ hdr
  BY DEF RbInvalidate, IInv, Phase
<1>1. cur \in 1 .. MaxEnt /\ LiveIn(valid) = 1 .. cur /\ LiveIn(valid') = 1 .. (cur - 1)
  BY RbInvalidateLive, RecoveredIn
<1>2. CASE \E i \in 1 .. (cur - 1) : c \in region[i]
  <2>1. PICK i \in Ent : IsFirst(valid', region, c, i)
    BY <1>1, <1>2, FirstExists
  <2>2. IsFirst(valid, region, c, i)
    BY <1>1, <2>1 DEF IsFirst
  <2>3. RecIn(valid, region, pre, store, c) = RecIn(valid', region, pre, store, c)
    BY <2>1, <2>2, RecCovered
  <2>4. QED BY <1>0, <2>3, RecoveredIn
<1>3. CASE \A i \in 1 .. (cur - 1) : c \notin region[i]
  <2>1. RecIn(valid', region, pre, store, c) = store[c]
    BY <1>1, <1>3, RecUncovered
  <2>2. CASE c \in region[cur]
    <3>1. IsFirst(valid, region, c, cur)
      BY <1>1, <1>3, <2>2, MaxEntAssumption DEF IsFirst, Ent
    <3>2. RecIn(valid, region, pre, store, c) = pre[cur][c]
      BY <3>1, RecCovered
    <3>3. pre[cur][c] = store[c]
      BY <2>2 DEF RbInvalidate, IInv, RollingBack
    <3>4. QED BY <1>0, <2>1, <3>2, <3>3, RecoveredIn
  <2>3. CASE c \notin region[cur]
    <3>1. \A i \in LiveIn(valid) : c \notin region[i]
      BY <1>1, <1>3, <2>3
    <3>2. RecIn(valid, region, pre, store, c) = store[c]
      BY <3>1, RecUncovered
    <3>3. QED BY <1>0, <2>1, <3>2, RecoveredIn
  <2>4. QED BY <2>2, <2>3
<1>4. QED BY <1>2, <1>3

LEMMA RbInvalidateInv == TypeOK /\ IInv /\ RbInvalidate => IInv'
<1> SUFFICES ASSUME TypeOK, IInv, RbInvalidate PROVE IInv'
  OBVIOUS
<1>1. /\ pc = "rbcopy" /\ pc' = "rb" /\ hdr /\ ~trans /\ ~chkent
      /\ UNCHANGED <<store, hdr, region, pre, prev, rootvars, recov, todo, owed>>
  BY DEF RbInvalidate, IInv, Phase, Checkpoint
<1>2. /\ cur \in 1 .. MaxEnt /\ Live' \subseteq Live /\ Prefix(cur)'
      /\ ~valid'[MaxEnt + 1]
  BY RbInvalidateLive, MaxEntAssumption DEF RbInvalidate, IInv, Chain, TypeOK, Slot
<1>3. Phase'
  BY <1>1 DEF IInv, Phase, rootvars
<1>4. Chain' /\ OpenTransaction' /\ Protected' /\ Checkpoint' /\ OneCheckpoint'
  BY <1>1, <1>2, ClosedInv DEF rootvars
<1>5. RollingBack'
  BY <1>1, <1>2 DEF RollingBack
<1>6. Owed'
  <2>1. \A c \in Chk : Recovered(c)' = Recovered(c)
    BY RbInvalidateRecovered DEF Cell
  <2>2. QED BY <1>1, <2>1 DEF IInv, Owed
<1>7. QED BY <1>3, <1>4, <1>5, <1>6 DEF IInv

\* The end of a rollback: with no valid entry left, the cells hold what the
\* rollback promised.
LEMMA RbFinishRecovered ==
  ASSUME TypeOK, IInv, RbFinish
  PROVE  /\ Live = {} /\ Live' = {}
         /\ \A c : Recovered(c) = store[c] /\ Recovered(c)' = store[c]
<1>1. Live = {}
  BY MaxEntAssumption DEF RbFinish, IInv, RollingBack, Prefix, Live, Ent
<1>2. Live' = {}
  BY LiveEmptied DEF RbFinish
<1>3. QED BY <1>1, <1>2, RecoveredIn DEF RbFinish, RecIn

LEMMA RbEndInv == TypeOK /\ IInv /\ (RbFinish \/ RbError) => IInv'
<1> SUFFICES ASSUME TypeOK, IInv, RbFinish \/ RbError PROVE IInv'
  OBVIOUS
<1>1. /\ pc = "rb" /\ pc' \in {"boot", "recdone", "idle"} /\ hdr /\ ~trans /\ ~chkent
      /\ valid' = [valid EXCEPT ![1] = FALSE]
      /\ pc' \in {"recdone", "boot"} => recov
      /\ pc' = "boot" => IoErrors
      /\ ~recov'
      /\ UNCHANGED <<store, hdr, region, pre, prev, rootvars, owed>>
  BY DEF RbFinish, RbError, IInv, Phase, Checkpoint
<1>2. Live' = {} /\ ~valid'[1] /\ ~valid'[MaxEnt + 1]
  BY <1>1, LiveEmptied, MaxEntAssumption DEF IInv, Chain, TypeOK, Slot
<1>3. Phase'
  BY <1>1, <1>2 DEF Phase, rootvars
<1>4. Chain' /\ OpenTransaction' /\ Protected' /\ Checkpoint' /\ OneCheckpoint'
  BY <1>1, <1>2, ClosedInv DEF rootvars
<1>5. RollingBack'
  BY <1>1 DEF RollingBack
<1>6. Owed'
  <2>1. CASE RbError
    BY <2>1, <1>1 DEF RbError, Owed
  <2>2. CASE RbFinish
    <3>1. \A c : Recovered(c)' = Recovered(c)
      BY <2>2, RbFinishRecovered
    <3>2. QED BY <1>1, <3>1 DEF IInv, Owed
  <2>3. QED BY <2>1, <2>2
<1>7. QED BY <1>3, <1>4, <1>5, <1>6 DEF IInv

\* Registration, with and without recovery, and unregistering.
LEMMA RegInv ==
  TypeOK /\ IInv /\ (RegDevPurge \/ RegDevCallback \/ RegDevNoJournal \/ RegDevNoRecovery
                     \/ RegPartition \/ RegPartitionDone \/ FlushPurgeDone) => IInv'
<1> SUFFICES ASSUME TypeOK, IInv,
                    RegDevPurge \/ RegDevCallback \/ RegDevNoJournal \/ RegDevNoRecovery
                      \/ RegPartition \/ RegPartitionDone \/ FlushPurgeDone
             PROVE  IInv'
  OBVIOUS
<1>1. /\ ~trans' /\ ~chkent' /\ ~recov'
      /\ pc' \in {"callback", "unreg", "regp", "idle"}
      /\ (hdr' <=> pc' = "idle")
      /\ UNCHANGED <<region, prev>>
      /\ valid' = valid \/ valid' = [valid EXCEPT ![1] = FALSE]
      /\ pc' \in {"regp", "idle"} => ~valid'[1]
  <2> USE DEF IInv, Phase, Checkpoint
  <2>1. CASE RegDevPurge
    BY <2>1 DEF RegDevPurge, rootvars
  <2>2. CASE RegDevCallback
    BY <2>2 DEF RegDevCallback, bbvars, rootvars
  <2>3. CASE RegDevNoJournal
    BY <2>3 DEF RegDevNoJournal, bbvars, rootvars
  <2>4. CASE RegDevNoRecovery
    BY <2>4 DEF RegDevNoRecovery, rootvars
  <2>5. CASE RegPartition
    BY <2>5, LiveEmptied DEF RegPartition
  <2>6. CASE RegPartitionDone
    BY <2>6 DEF RegPartitionDone, rootvars
  <2>7. CASE FlushPurgeDone
    BY <2>7 DEF FlushPurgeDone, rootvars
  <2>8. QED BY <2>1, <2>2, <2>3, <2>4, <2>5, <2>6, <2>7
<1>2. Live' \subseteq Live /\ ~valid'[MaxEnt + 1]
  BY <1>1, LiveSame, LiveEmptied, MaxEntAssumption DEF IInv, Chain, TypeOK, Slot
<1>3. Phase'
  BY <1>1 DEF Phase
<1>4. Chain' /\ OpenTransaction' /\ Protected' /\ Checkpoint' /\ OneCheckpoint'
  BY <1>1, <1>2, ClosedInv
<1>5. RollingBack' /\ Owed'
  BY <1>1 DEF RollingBack, Owed
<1>6. QED BY <1>3, <1>4, <1>5 DEF IInv

\* Power failure, and the initialisation at power up.
LEMMA CrashInv == TypeOK /\ IInv /\ (Crash \/ BootInit) => IInv'
<1> SUFFICES ASSUME TypeOK, IInv, Crash \/ BootInit PROVE IInv'
  OBVIOUS
<1>1. /\ ~trans' /\ ~chkent' /\ ~recov' /\ pc' \in {"off", "boot"}
      /\ UNCHANGED <<store, valid, region, pre, prev>>
      /\ hdr' => hdr
  <2>1. CASE Crash
    BY <2>1 DEF Crash, bbvars
  <2>2. CASE BootInit
    BY <2>2 DEF BootInit, rootvars, IInv, Phase, Checkpoint
  <2>3. QED BY <2>1, <2>2
<1>2. Live' = Live /\ ~valid'[MaxEnt + 1]
  BY <1>1, LiveSame DEF IInv, Chain
<1>3. Phase'
  BY <1>1 DEF Phase
<1>4. Chain' /\ OpenTransaction' /\ Protected' /\ Checkpoint' /\ OneCheckpoint'
  BY <1>1, <1>2, ClosedInv
<1>5. RollingBack'
  BY <1>1 DEF RollingBack
<1>6. Owed'
  <2>1. hdr' => \A c : Recovered(c)' = Recovered(c)
    BY <1>1, RecoveredIn
  <2>2. CASE Crash
    BY <2>1, <2>2, <1>1 DEF Crash, bbvars, Owed
  <2>3. CASE BootInit
    BY <2>1, <2>3, <1>1 DEF BootInit, IInv, Owed
  <2>4. QED BY <2>2, <2>3
<1>7. QED BY <1>3, <1>4, <1>5, <1>6 DEF IInv

LEMMA NextInv == TypeOK /\ IInv /\ [Next]_vars => IInv'
<1> SUFFICES ASSUME TypeOK, IInv, [Next]_vars PROVE IInv'
  OBVIOUS
<1>1. CASE UNCHANGED vars
  <2> USE <1>1 DEF vars, bbvars, rootvars
  <2>1. Live' = Live /\ Stored' = Stored /\ \A c : Recovered(c)' = Recovered(c)
    BY RecoveredIn DEF Live, Stored
  <2>2. Phase' /\ Chain' /\ OpenTransaction'
    BY <2>1 DEF IInv, Phase, Chain, OpenTransaction, Prefix
  <2>3. Protected' /\ Checkpoint' /\ OneCheckpoint'
    BY <2>1 DEF IInv, Protected, Checkpoint, OneCheckpoint
  <2>4. RollingBack' /\ Owed'
    BY <2>1 DEF IInv, RollingBack, Prefix, Owed
  <2>5. QED BY <2>2, <2>3, <2>4 DEF IInv
<1>2. CASE Client
  BY <1>2, TranStartInv, TranEndInv, WriteInv, CopyInv, StartRollbackInv, RegInv DEF Client
<1>3. CASE Continue
  BY <1>3, FillInv, ValidateInv, CopyInv, RbCopyInv, RbInvalidateInv, RbEndInv, RegInv
     DEF Continue
<1>4. CASE Boot \/ RbBusy \/ RbError \/ Crash
  BY <1>4, CrashInv, StartRollbackInv, RegInv, RbCopyInv, RbEndInv DEF Boot
<1>5. QED BY <1>1, <1>2, <1>3, <1>4 DEF Next

-----------------------------------------------------------------------------
(* Invariants of the specification *)

LEMMA Inductive == Spec => [](TypeOK /\ IInv)
<1>1. Init => TypeOK /\ IInv
  BY InitType, InitInv
<1>2. TypeOK /\ IInv /\ [Next]_vars => (TypeOK /\ IInv)'
  BY NextType, NextInv DEF IInv
<1>3. QED BY <1>1, <1>2, PTL DEF Spec

\* Whatever the size of the journal and of the partition, every variable
\* keeps its type: in particular no offset leaves the journal.
THEOREM TypeCorrect == Spec => []TypeOK
BY Inductive, PTL

\* The relation between RJRoot, the entries and the cells holds at every
\* point where power may fail.
THEOREM Invariance == Spec => []IInv
BY Inductive, PTL

\* RJ_CHKENT never lets a second checkpoint preimage into the journal.
THEOREM CheckpointUnique == Spec => []OneCheckpoint
<1>1. IInv => OneCheckpoint
  BY DEF IInv
<1>2. QED BY Inductive, <1>1, PTL

\* On a device without I/O errors during rollback, fatftc_regdev passes the
\* checkpoint data of the last completed transaction to its callback.
THEOREM CallbackCorrect == ~IoErrors => (Spec => []CallbackData)
<1> SUFFICES ASSUME ~IoErrors PROVE Spec => []CallbackData
  OBVIOUS
<1>1. Init => CallbackData
  BY DEF Init, CallbackData
<1>2. TypeOK /\ IInv /\ CallbackData /\ [Next]_vars => CallbackData'
  <2> SUFFICES ASSUME TypeOK, IInv, CallbackData, [Next]_vars, pc' = "callback"
               PROVE  ChkData' = owed'
    BY DEF CallbackData
  <2>1. CASE UNCHANGED vars
    BY <2>1 DEF vars, bbvars, CallbackData, ChkData
  <2>2. CASE RegDevPurge
    <3>1. Live = {} /\ owed = [c \in Chk |-> Recovered(c)] /\ hdr
      BY <2>2, MaxEntAssumption DEF RegDevPurge, IInv, Phase, Owed, Live, Ent
    <3>2. \A c : Recovered(c) = store[c]
      BY <3>1 DEF Recovered
    <3>3. QED BY <2>2, <3>1, <3>2 DEF RegDevPurge, ChkData
  <2>3. CASE Next /\ ~RegDevPurge
    <3>1. CASE Client
      BY <3>1 DEF Client, TranStart, TranEnd, Write, WriteDirect, SetChkFirst, SetChkAgain,
         StorePreimage, Rollback, StartRollback, RegPartition, FlushPurge, RegDevNoRecovery
    <3>2. CASE Continue
      BY <2>3, <3>2 DEF Continue, InvalidateNext, FillEntry, ValidateEntry, CopyCell, CopyDone,
         RbEntry, RbCopy, RbInvalidate, RbFinish, RegDevCallback, RegPartitionDone,
         FlushPurgeDone
    <3>3. CASE Boot \/ RbBusy \/ RbError \/ Crash
      BY <3>3 DEF Boot, BootInit, RegDev, StartRollback, RegDevNoJournal, RbBusy, RbError, Crash
    <3>4. QED BY <2>3, <3>1, <3>2, <3>3 DEF Next
  <2>4. QED BY <2>1, <2>2, <2>3
<1>3. QED BY Inductive, <1>1, <1>2, PTL DEF Spec

-----------------------------------------------------------------------------
(* The journal implements AtomicStore *)

\* Without valid entries, or without a valid header, nothing would be undone.
LEMMA NothingToUndo ==
  /\ ~hdr \/ Live = {} => \A c : Recovered(c) = store[c]
  /\ ~hdr' \/ Live' = {} => \A c : Recovered(c)' = store'[c]
BY DEF Recovered

LEMMA NoEntryNoneLive ==
  /\ ~valid[1] => Live = {}
  /\ ~valid'[1] => Live' = {}
BY MaxEntAssumption DEF Live, Ent

\* A step that leaves the journal and the cells alone.
LEMMA Untouched ==
  UNCHANGED <<store, hdr, valid, region, pre>> => \A c : Recovered(c)' = Recovered(c)
BY RecoveredIn

\* Growing the journal does not change what a rollback would leave: the new
\* preimage is stored where no valid entry is, and when it becomes valid it
\* still equals the cells.
LEMMA GrowRecovered ==
  ASSUME TypeOK, IInv, Write \/ SetChkFirst \/ InvalidateNext \/ FillEntry \/ ValidateEntry,
         NEW c \in Cell
  PROVE  Recovered(c)' = Recovered(c)
<1> USE DEF IInv
<1>0. hdr /\ UNCHANGED <<store, hdr>>
  BY DEF Phase, Write, SetChkFirst, StorePreimage, InvalidateNext, FillEntry, ValidateEntry
<1>1. CASE Write \/ SetChkFirst
  <2>1. UNCHANGED <<valid, region>> /\ remain >= 1 /\ trans /\ pc = "idle"
    BY <1>1 DEF Write, SetChkFirst, StorePreimage
  <2>2. \A i \in Ent : i # NextSlot => pre'[i] = pre[i]
    BY <1>1 DEF Write, SetChkFirst, StorePreimage, TypeOK
  <2>3. LiveIn(valid) = 1 .. Stored /\ NextSlot = Stored + 1 /\ Stored \in 0 .. MaxEnt
    BY <2>1, SlotType, PrefixLive, RecoveredIn DEF OpenTransaction
  <2>4. \A i \in LiveIn(valid) : i \in Ent /\ i # NextSlot
    BY <2>3, MaxEntAssumption DEF Ent
  <2> DEFINE p == pre'
  <2>5. \A i \in LiveIn(valid) : pre[i] = p[i]
    BY <2>2, <2>4
  <2> HIDE DEF p
  <2>6. RecIn(valid, region, pre, store, c) = RecIn(valid, region, p, store, c)
    BY ONLY <2>5, RecStable
  <2>7. RecIn(valid, region, pre, store, c) = RecIn(valid', region', pre', store', c)
    BY ONLY <1>0, <2>1, <2>6 DEF p
  <2>8. QED BY <1>0, <2>7, RecoveredIn
<1>2. CASE InvalidateNext
  <2>1. UNCHANGED <<region, pre>> /\ pc = "pre1" /\ trans
    BY <1>2 DEF InvalidateNext, Phase
  <2>2. Live' = Live
    <3>0. Stored \in 1 .. MaxEnt /\ NextSlot = Stored + 1 /\ Prefix(Stored - 1)
      BY <2>1, SlotType, MaxEntAssumption DEF Phase, OpenTransaction
    <3>1. Stored - 1 \in 0 .. MaxEnt /\ Stored - 1 + 1 = Stored
      BY <3>0, MaxEntAssumption
    <3>2. \A i \in Slot : i # Stored + 1 => valid'[i] = valid[i]
      BY <1>2, <3>0 DEF InvalidateNext, TypeOK
    <3>3. \A i \in 1 .. Stored : i \in Slot /\ i # Stored + 1
      BY <3>0, MaxEntAssumption DEF Slot
    <3>4. \A i \in 1 .. (Stored - 1) : i \in 1 .. Stored
      BY <3>0
    <3>5. (\A i \in 1 .. (Stored - 1) : valid'[i]) /\ ~valid'[Stored - 1 + 1]
      BY <3>0, <3>1, <3>2, <3>3, <3>4 DEF Prefix
    <3>6. LiveIn(valid') = 1 .. (Stored - 1)
      BY <3>1, <3>5, LivePrefix
    <3>7. Live = 1 .. (Stored - 1)
      BY <3>0, <3>1, PrefixLive
    <3>8. QED BY <3>6, <3>7, RecoveredIn
  <2> DEFINE v == valid'
  <2>3. LiveIn(valid) = LiveIn(v)
    BY <2>2, RecoveredIn
  <2> HIDE DEF v
  <2>4. RecIn(valid, region, pre, store, c) = RecIn(v, region, pre, store, c)
    BY ONLY <2>3, RecStable
  <2>5. RecIn(valid, region, pre, store, c) = RecIn(valid', region', pre', store', c)
    BY ONLY <1>0, <2>1, <2>4 DEF v
  <2>6. QED BY <1>0, <2>5, RecoveredIn
<1>3. CASE FillEntry
  <2>1. UNCHANGED <<valid, pre>> /\ pc = "pre2" /\ trans
    BY <1>3 DEF FillEntry, Phase
  <2>2. Stored \in 1 .. MaxEnt /\ NextSlot = Stored + 1 /\ Prefix(Stored - 1)
    BY <2>1, SlotType, MaxEntAssumption DEF Phase, OpenTransaction
  <2>3. Stored - 1 \in 0 .. MaxEnt
    BY <2>2, MaxEntAssumption
  <2>4. LiveIn(valid) = 1 .. (Stored - 1)
    BY <2>2, <2>3, PrefixLive, RecoveredIn
  <2>5. \A i \in Ent : i # Stored => region'[i] = region[i]
    BY <1>3, <2>2 DEF FillEntry, TypeOK
  <2>6. \A i \in LiveIn(valid) : i \in Ent /\ i # Stored
    BY <2>2, <2>4, MaxEntAssumption DEF Ent
  <2> DEFINE r == region'
  <2>7. \A i \in LiveIn(valid) : region[i] = r[i]
    BY <2>5, <2>6
  <2> HIDE DEF r
  <2>8. RecIn(valid, region, pre, store, c) = RecIn(valid, r, pre, store, c)
    BY ONLY <2>7, RecStable
  <2>9. RecIn(valid, region, pre, store, c) = RecIn(valid', region', pre', store', c)
    BY ONLY <1>0, <2>1, <2>8 DEF r
  <2>10. QED BY <1>0, <2>9, RecoveredIn
<1>4. CASE ValidateEntry
  <2>1. /\ UNCHANGED <<region, pre>> /\ pc = "pre3" /\ trans
        /\ Stored \in 1 .. MaxEnt /\ NextSlot = Stored + 1 /\ Prefix(Stored - 1)
        /\ region[Stored] = todo /\ \A d \in todo : pre[Stored][d] = store[d]
        /\ ~valid[Stored + 1]
    BY <1>4, SlotType, MaxEntAssumption DEF ValidateEntry, Phase, OpenTransaction
  <2>2. Stored - 1 \in 0 .. MaxEnt /\ Stored \in 0 .. MaxEnt /\ Stored \in Ent
    BY <2>1, MaxEntAssumption DEF Ent
  <2>3. LiveIn(valid) = 1 .. (Stored - 1)
    BY <2>1, <2>2, PrefixLive, RecoveredIn
  <2>4. LiveIn(valid') = 1 .. Stored
    <3>1. ValidateEntry /\ IInv
      BY <1>4
    <3>2. IInv' /\ trans' /\ pc' = "copy" /\ Stored' = Stored
      BY <1>4, <2>1, ValidateInv DEF ValidateEntry, Stored
    <3>3. Prefix(Stored)'
      BY <3>2 DEF OpenTransaction
    <3>4. (\A i \in 1 .. Stored : valid'[i]) /\ ~valid'[Stored + 1]
      BY <3>2, <3>3 DEF Prefix
    <3>5. QED BY <2>2, <3>4, LivePrefix
  <2>5. \A i \in 1 .. Stored : i = Stored \/ i \in 1 .. (Stored - 1)
    BY <2>1
  <2>6. CASE \E i \in LiveIn(valid) : c \in region[i]
    <3>1. PICK i \in Ent : IsFirst(valid, region, c, i)
      BY <2>6, FirstExists
    <3>2. IsFirst(valid', region, c, i)
      BY <2>1, <2>3, <2>4, <3>1, MaxEntAssumption DEF IsFirst
    <3>3. RecIn(valid, region, pre, store, c) = RecIn(valid', region, pre, store, c)
      BY <3>1, <3>2, RecCovered
    <3>4. QED BY <1>0, <2>1, <3>3, RecoveredIn
  <2>7. CASE \A i \in LiveIn(valid) : c \notin region[i]
    <3>1. RecIn(valid, region, pre, store, c) = store[c]
      BY <2>7, RecUncovered
    <3>2. CASE c \in todo
      <4>1. IsFirst(valid', region, c, Stored)
        BY <2>1, <2>2, <2>3, <2>4, <2>7, <3>2 DEF IsFirst
      <4>2. RecIn(valid', region, pre, store, c) = pre[Stored][c]
        BY <4>1, RecCovered
      <4>3. QED BY <1>0, <2>1, <3>1, <3>2, <4>2, RecoveredIn
    <3>3. CASE c \notin todo
      <4>1. \A i \in LiveIn(valid') : c \notin region[i]
        BY <2>1, <2>3, <2>4, <2>5, <2>7, <3>3
      <4>2. RecIn(valid', region, pre, store, c) = store[c]
        BY <4>1, RecUncovered
      <4>3. QED BY <1>0, <2>1, <3>1, <4>2, RecoveredIn
    <3>4. QED BY <3>2, <3>3
  <2>8. QED BY <2>6, <2>7
<1>5. QED BY <1>1, <1>2, <1>3, <1>4

\* Putting new data into one cell: inside a transaction nothing that has to
\* survive changes, outside there is nothing to undo.
LEMMA CopyCellRecovered ==
  ASSUME TypeOK, IInv, CopyCell, NEW c \in Kept
  PROVE  Recovered(c)' = IF trans THEN Recovered(c) ELSE store'[c]
<1> USE DEF IInv
<1>1. UNCHANGED <<hdr, valid, region, pre>> /\ pc = "copy" /\ hdr
  BY DEF CopyCell, Phase
<1>2. PICK d \in todo, v \in Val : store' = [store EXCEPT ![d] = v]
  BY DEF CopyCell
<1>3. CASE trans
  <2>1. d # c => store'[c] = store[c]
    BY <1>2 DEF TypeOK, Kept
  <2>2. d = c => \E i \in LiveIn(valid) : c \in region[i]
    BY <1>1, <1>3, RecoveredIn DEF Protected
  <2> DEFINE t == store'
  <2>3. store[c] = t[c] \/ \E i \in LiveIn(valid) : c \in region[i]
    BY ONLY <2>1, <2>2
  <2> HIDE DEF t
  <2>4. RecIn(valid, region, pre, store, c) = RecIn(valid, region, pre, t, c)
    BY ONLY <2>3, RecStable
  <2>5. RecIn(valid, region, pre, store, c) = RecIn(valid', region', pre', store', c)
    BY ONLY <1>1, <2>4 DEF t
  <2>6. Recovered(c)' = Recovered(c)
    BY ONLY <1>1, <2>5, RecoveredIn
  <2>7. QED BY <1>3, <2>6
<1>4. CASE ~trans
  <2>1. Live' = {}
    BY <1>1, <1>4, NoEntryNoneLive DEF Phase
  <2>2. QED BY <1>4, <2>1, NothingToUndo
<1>5. QED BY <1>3, <1>4 DEF TypeOK

\* The mapped state is well typed.
LEMMA MapType ==
  /\ TypeOK => AView \in [Kept -> Val]
  /\ TypeOK' => AView' \in [Kept -> Val]
BY DEF TypeOK, AView, Kept

\* When two states agree on cells and outcome, the abstract state is the same.
LEMMA MapSame ==
  /\ (\A c \in Kept : store'[c] = store[c]) => AView' = AView
  /\ (\A c \in Kept : Recovered(c)' = Recovered(c)) => ACom' = ACom
  /\ (\A c \in Kept : Recovered(c)' = store'[c]) => ACom' = AView'
  /\ (\A c \in Kept : Recovered(c) = store[c]) => ACom = AView
BY DEF AView, ACom

LEMMA InitMaps == Init => Abs!AInit
<1> SUFFICES ASSUME Init PROVE Abs!AInit
  OBVIOUS
<1>1. TypeOK /\ ~hdr
  BY InitType DEF Init
<1>2. ACom = AView /\ AView \in [Kept -> Val]
  BY <1>1, NothingToUndo, MapSame, MapType
<1>3. AMode = "undo"
  BY DEF Init, AMode, Undoing
<1>4. QED BY <1>2, <1>3 DEF Abs!AInit

\* Steps that the abstract specification does not see.
LEMMA StutterMaps ==
  ASSUME TypeOK, IInv,
         \/ Write \/ SetChkFirst \/ InvalidateNext \/ FillEntry \/ ValidateEntry
         \/ SetChkAgain \/ WriteDirect \/ CopyDone
         \/ RbEntry \/ RbBusy \/ RbInvalidate
         \/ RegDevCallback \/ RegPartitionDone \/ FlushPurgeDone \/ BootInit
         \/ UNCHANGED vars
  PROVE  UNCHANGED <<AView, ACom, AMode>>
<1> USE DEF IInv
<1>1. store' = store /\ AMode' = AMode
  <2> USE DEF AMode, Undoing, Phase, bbvars, rootvars
  <2>1. CASE Write \/ SetChkFirst \/ InvalidateNext \/ FillEntry \/ ValidateEntry
    BY <2>1 DEF Write, SetChkFirst, StorePreimage, InvalidateNext, FillEntry, ValidateEntry
  <2>2. CASE SetChkAgain \/ WriteDirect \/ CopyDone
    BY <2>2 DEF SetChkAgain, WriteDirect, CopyDone
  <2>3. CASE RbEntry \/ RbBusy \/ RbInvalidate
    BY <2>3 DEF RbEntry, RbBusy, RbInvalidate
  <2>4. CASE RegDevCallback \/ RegPartitionDone \/ FlushPurgeDone \/ BootInit
    BY <2>4 DEF RegDevCallback, RegPartitionDone, FlushPurgeDone, BootInit
  <2>5. CASE UNCHANGED vars
    BY <2>5 DEF vars
  <2>6. QED BY <2>1, <2>2, <2>3, <2>4, <2>5
<1>2. ASSUME NEW c \in Kept PROVE Recovered(c)' = Recovered(c)
  <2>0. c \in Cell
    BY DEF Kept
  <2>1. CASE Write \/ SetChkFirst \/ InvalidateNext \/ FillEntry \/ ValidateEntry
    BY <2>0, <2>1, GrowRecovered
  <2>2. CASE SetChkAgain \/ WriteDirect \/ CopyDone \/ RegDevCallback \/ UNCHANGED vars
    BY <2>2, Untouched DEF SetChkAgain, WriteDirect, CopyDone, RegDevCallback, vars, bbvars
  <2>3. CASE RbEntry \/ RbBusy \/ RbInvalidate
    BY <2>0, <2>3, RbCopyRecovered, RbInvalidateRecovered
  <2>4. CASE RegPartitionDone \/ FlushPurgeDone
    <3>1. ~valid[1] /\ UNCHANGED <<valid, store>>
      BY <2>4 DEF RegPartitionDone, FlushPurgeDone, Phase
    <3>2. Live = {} /\ Live' = {}
      BY <3>1, NoEntryNoneLive
    <3>3. QED BY <3>1, <3>2, NothingToUndo
  <2>5. CASE BootInit
    <3>1. CASE hdr' = hdr
      BY <2>5, <3>1, Untouched DEF BootInit
    <3>2. CASE hdr' # hdr
      <4>1. ~hdr' /\ ~valid[1] /\ UNCHANGED store
        BY <2>5, <3>2 DEF BootInit, TypeOK
      <4>2. QED BY <4>1, NothingToUndo, NoEntryNoneLive
    <3>3. QED BY <3>1, <3>2
  <2>6. QED BY <2>1, <2>2, <2>3, <2>4, <2>5
<1>3. QED BY <1>1, <1>2, MapSame

\* A transaction begins, and ends.
LEMMA TranMaps ==
  ASSUME TypeOK, IInv, TranStart \/ TranEnd \/ FlushPurge
  PROVE  Abs!ANext
<1> USE DEF IInv, Undoing
<1>1. CASE TranStart
  <2>1. AView' = AView /\ ACom' = ACom
    BY <1>1, Untouched, MapSame DEF TranStart, bbvars
  <2>2. AMode = "closed" /\ AMode' = "open"
    BY <1>1 DEF TranStart, AMode
  <2>3. QED BY <2>1, <2>2 DEF Abs!ANext, Abs!ABegin
<1>2. CASE TranEnd \/ FlushPurge
  <2>1. Live' = {} /\ UNCHANGED store /\ ~trans' /\ pc = "idle" /\ pc' \in {"idle", "purge"}
    BY <1>2, LiveEmptied DEF TranEnd, FlushPurge, EndTransaction
  <2>2. AView' = AView /\ ACom' = AView
    BY <2>1, NothingToUndo, MapSame
  <2>3. AMode \in {"open", "closed"} /\ AMode' = "closed"
    BY <2>1 DEF AMode
  <2>4. QED BY <2>2, <2>3 DEF Abs!ANext, Abs!ACommit
<1>3. QED BY <1>1, <1>2

\* New data.
LEMMA CopyMaps ==
  ASSUME TypeOK, IInv, TypeOK', CopyCell \/ RegPartition
  PROVE  Abs!ANext
<1> USE DEF IInv, Undoing
<1>1. AView' \in [Kept -> Val]
  BY MapType
<1>2. CASE CopyCell /\ trans
  <2>1. \A c \in Kept : Recovered(c)' = Recovered(c)
    BY <1>2, CopyCellRecovered
  <2>2. AMode = "open" /\ AMode' = AMode
    BY <1>2 DEF CopyCell, AMode, rootvars
  <2>3. QED BY <1>1, <2>1, <2>2, MapSame DEF Abs!ANext, Abs!AWrite
<1>3. CASE CopyCell /\ ~trans
  <2>1. \A c \in Kept : Recovered(c)' = store'[c]
    BY <1>3, CopyCellRecovered
  <2>2. AMode = "closed" /\ AMode' = AMode
    BY <1>3 DEF CopyCell, AMode, rootvars
  <2>3. QED BY <1>1, <2>1, <2>2, MapSame DEF Abs!ANext, Abs!AWriteThrough
<1>4. CASE RegPartition
  <2>1. \A c \in Kept : Recovered(c)' = store'[c]
    BY <1>4, NothingToUndo DEF RegPartition, Phase
  <2>2. AMode = "closed" /\ AMode' = AMode
    BY <1>4 DEF RegPartition, AMode, Phase
  <2>3. QED BY <1>1, <2>1, <2>2, MapSame DEF Abs!ANext, Abs!AWriteThrough
<1>5. QED BY <1>2, <1>3, <1>4 DEF TypeOK

\* Power failure, rollback and recovery.
LEMMA UndoMaps ==
  ASSUME TypeOK, IInv, TypeOK', Rollback \/ RegDev \/ Crash \/ RbCopy
  PROVE  Abs!ANext
<1> USE DEF IInv, Undoing
<1>1. CASE Rollback \/ RegDev \/ Crash
  <2>1. AView' = AView /\ ACom' = ACom
    BY <1>1, Untouched, MapSame DEF Rollback, RegDev, StartRollback, Crash, bbvars
  <2>2. AMode' = "undo"
    BY <1>1 DEF Rollback, RegDev, StartRollback, Crash, AMode
  <2>3. QED BY <2>1, <2>2 DEF Abs!ANext, Abs!AUndo
<1>2. CASE RbCopy
  <2>1. ACom' = ACom /\ AView' \in [Kept -> Val]
    <3>1. \A c \in Kept : Recovered(c)' = Recovered(c)
      BY <1>2, RbCopyRecovered
    <3>2. QED BY <3>1, MapSame, MapType
  <2>2. AMode = "undo" /\ AMode' = "undo"
    BY <1>2 DEF RbCopy, AMode
  <2>3. QED BY <2>1, <2>2 DEF Abs!ANext, Abs!AUndoStep
<1>3. QED BY <1>1, <1>2

\* The end of a rollback or of the recovery.
LEMMA UndoneMaps ==
  ASSUME TypeOK, IInv, TypeOK',
         RbFinish \/ RbError \/ RegDevPurge \/ RegDevNoJournal \/ RegDevNoRecovery
  PROVE  [Abs!ANext]_<<AView, ACom, AMode>>
<1> USE DEF IInv, Undoing
<1>1. CASE RbFinish
  <2>1. AView' = AView /\ ACom' = ACom /\ ACom = AView
    BY <1>1, RbFinishRecovered, MapSame DEF RbFinish
  <2>2. AMode = "undo" /\ AMode' \in {"undo", "closed"}
    BY <1>1 DEF RbFinish, AMode, Phase, rootvars
  <2>3. QED BY <2>1, <2>2 DEF Abs!ANext, Abs!AUndone
<1>2. CASE RbError \/ RegDevNoRecovery
  <2>1. ~hdr' \/ Live' = {}
    BY <1>2, LiveEmptied DEF RbError, RegDevNoRecovery
  <2>2. \A c \in Kept : Recovered(c)' = store'[c]
    BY <2>1, NothingToUndo
  <2>3. ACom' = AView' /\ AView' \in [Kept -> Val]
    BY <2>2, MapSame, MapType
  <2>4. AMode = "undo" /\ AMode' \in {"undo", "closed"} /\ (NoRecovery \/ IoErrors)
    BY <1>2 DEF RbError, RegDevNoRecovery, AMode, Phase, rootvars
  <2>5. QED BY <2>3, <2>4 DEF Abs!ANext, Abs!AAbandon
<1>3. CASE RegDevPurge \/ RegDevNoJournal
  <2>1. UNCHANGED <<store, valid>> /\ ((~hdr /\ ~hdr') \/ ~valid[1])
    BY <1>3 DEF RegDevPurge, RegDevNoJournal, Phase, bbvars
  <2>2. (~hdr \/ Live = {}) /\ (~hdr' \/ Live' = {})
    BY <2>1, NoEntryNoneLive
  <2>3. ACom' = AView' /\ AView' = AView /\ ACom = AView
    BY <2>1, <2>2, NothingToUndo, MapSame
  <2>4. AMode = "undo" /\ AMode' = "closed"
    BY <1>3 DEF RegDevPurge, RegDevNoJournal, AMode, Phase, bbvars, rootvars
  <2>5. QED BY <2>3, <2>4 DEF Abs!ANext, Abs!AUndone
<1>4. QED BY <1>1, <1>2, <1>3

\* A transaction takes effect entirely or not at all: every behaviour of the
\* journal is, through the refinement mapping, one of AtomicStore.
THEOREM Refinement == Spec => Atomic
<1>1. Init => Abs!AInit
  BY InitMaps
<1>2. TypeOK /\ TypeOK' /\ IInv /\ [Next]_vars => [Abs!ANext]_<<AView, ACom, AMode>>
  <2> SUFFICES ASSUME TypeOK, TypeOK', IInv, [Next]_vars
               PROVE  [Abs!ANext]_<<AView, ACom, AMode>>
    OBVIOUS
  <2>1. CASE UNCHANGED vars
    BY <2>1, StutterMaps
  <2>2. CASE Client
    BY <2>2, TranMaps, StutterMaps, UndoMaps, CopyMaps, UndoneMaps DEF Client
  <2>3. CASE Continue
    BY <2>3, StutterMaps, UndoMaps, CopyMaps, UndoneMaps DEF Continue
  <2>4. CASE Boot \/ RbBusy \/ RbError \/ Crash
    BY <2>4, StutterMaps, UndoMaps, UndoneMaps DEF Boot
  <2>5. QED BY <2>1, <2>2, <2>3, <2>4 DEF Next
<1>3. QED BY Inductive, <1>1, <1>2, PTL DEF Spec, Atomic, Abs!ASpec, Abs!avars
=============================================================================
