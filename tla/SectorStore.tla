---------------------------- MODULE SectorStore ----------------------------
(***************************************************************************)
(* What the sector cache of FATFTC.LIB promises to its callers, stated     *)
(* without a cache: a set of sectors, each with one value.  A sector       *)
(* changes only while a write of it is in progress and then only to the    *)
(* value written; a write that reports success has taken effect; one that  *)
(* fails, or is cut short by a power failure, has taken effect or not.     *)
(***************************************************************************)
CONSTANTS Sector, Val

VARIABLES view,   \* what a read of each sector returns
          job,    \* the write in progress: a set with at most one record
          ack     \* the outcome of the last call, if it was a write

svars == <<view, job, ack>>

Job == [sec : Sector, val : Val]
Stored(j) == [view EXCEPT ![j.sec] = j.val]

SInit == view \in [Sector -> Val] /\ job = {} /\ ack = "none"

SBegin == /\ job = {}
          /\ \E j \in Job : job' = {j}
          /\ ack' = "none"
          /\ UNCHANGED view

SStore == /\ \E j \in job : view' = Stored(j)
          /\ UNCHANGED <<job, ack>>

SDone == /\ \E j \in job : view' = Stored(j)
         /\ job' = {}
         /\ ack' = "ok"

\* An error, -EBUSY, or a power failure.
SFail == /\ job # {} /\ job' = {}
         /\ ack' = "none"
         /\ UNCHANGED view

\* Other calls, and power failures between two calls.
SOther == job = {} /\ ack' = "none" /\ UNCHANGED <<view, job>>

SNext == SBegin \/ SStore \/ SDone \/ SFail \/ SOther

SSpec == SInit /\ [][SNext]_svars
=============================================================================
