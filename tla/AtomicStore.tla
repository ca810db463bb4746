---------------------------- MODULE AtomicStore ----------------------------
(***************************************************************************)
(* What the rollback journal of FATFTC.LIB promises to the FAT layer,      *)
(* stated without a journal.                                               *)
(*                                                                         *)
(* A partition is a set of cells.  `view' is what the FAT layer reads.     *)
(* `com' is what it will read after the next power failure.  Outside a     *)
(* transaction the two agree.  Inside a transaction only `view' moves, and *)
(* fatrj_tranend moves `com' to `view' in one indivisible step.  While a   *)
(* rollback is under way `view' may pass through arbitrary mixtures, but   *)
(* the rollback is over only when `view' equals `com' again.               *)
(***************************************************************************)
CONSTANTS Cell,        \* the cells of the partition
          Val,         \* what a cell may hold
          MayAbandon   \* may an unfinished transaction be kept half done?

VARIABLES view,        \* what a read returns
          com,         \* what a read returns once recovery is over
          mode         \* "closed", "open" (in a transaction) or "undo"

avars == <<view, com, mode>>

AInit == /\ view \in [Cell -> Val]
         /\ com = view
         /\ mode \in {"closed", "undo"}

\* fatrj_transtart
ABegin == /\ mode = "closed"
          /\ mode' = "open"
          /\ UNCHANGED <<view, com>>

\* A write inside a transaction.
AWrite == /\ mode = "open"
          /\ view' \in [Cell -> Val]
          /\ UNCHANGED <<com, mode>>

\* A write outside a transaction is not protected.
AWriteThrough == /\ mode = "closed"
                 /\ view' \in [Cell -> Val]
                 /\ com' = view'
                 /\ UNCHANGED mode

\* fatrj_tranend
ACommit == /\ mode \in {"open", "closed"}
           /\ mode' = "closed"
           /\ com' = view
           /\ UNCHANGED view

\* A power failure, or the start of fatrj_rollback.
AUndo == /\ mode' = "undo"
         /\ UNCHANGED <<view, com>>

AUndoStep == /\ mode = "undo"
             /\ view' \in [Cell -> Val]
             /\ UNCHANGED <<com, mode>>

\* The end of a rollback or of the recovery in fatftc_regdev.
AUndone == /\ mode = "undo"
           /\ view = com
           /\ mode' = "closed"
           /\ UNCHANGED <<view, com>>

\* Recovery declined (norecovery: cached data is lost, too) or given up (an
\* I/O error).
AAbandon == /\ MayAbandon
            /\ mode = "undo"
            /\ mode' \in {"undo", "closed"}
            /\ view' \in [Cell -> Val]
            /\ com' = view'

ANext == ABegin \/ AWrite \/ AWriteThrough \/ ACommit
           \/ AUndo \/ AUndoStep \/ AUndone \/ AAbandon

ASpec == AInit /\ [][ANext]_avars
=============================================================================
