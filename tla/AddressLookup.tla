--------------------------- MODULE AddressLookup ---------------------------
(***************************************************************************)
(* What zdo_send_nwk_addr_req promises (zdo.h): the caller's variable is   *)
(* "pending" from the request on, and becomes the network address of the   *)
(* node the caller asked, the word that the node reported an error, or the *)
(* word that nothing was heard in time; then it stays as it is until the   *)
(* caller asks again. A node is written for its network address.           *)
(***************************************************************************)
CONSTANTS Loc,    \* the caller's variables
          Node,
          None

VARIABLES net,    \* what they hold
          asked   \* the node each was used to ask, while it is pending

Waiting(l) == net[l] = "pending"

LInit == /\ net = [l \in Loc |-> "unset"]
         /\ asked = [l \in Loc |-> None]

LAsk(l) == /\ ~Waiting(l)
           /\ net' = [net EXCEPT ![l] = "pending"]
           /\ \E n \in Node : asked' = [asked EXCEPT ![l] = n]

LAnswer(l) == /\ Waiting(l)
              /\ \E v \in {asked[l], "error"} : net' = [net EXCEPT ![l] = v]
              /\ asked' = [asked EXCEPT ![l] = None]

\* Requests may time out together.
LTimeout == /\ \E late \in SUBSET {l \in Loc : Waiting(l)} :
               /\ net' = [l \in Loc |-> IF l \in late THEN "timeout" ELSE net[l]]
               /\ asked' = [l \in Loc |-> IF l \in late THEN None ELSE asked[l]]

LNext == LTimeout \/ \E l \in Loc : LAsk(l) \/ LAnswer(l)

LSpec == LInit /\ [][LNext]_<<net, asked>>
=============================================================================
