-------------------------- MODULE WpanConversation --------------------------
(***************************************************************************)
(* The conversations of wpan_aps.c, which match what arrives at an         *)
(* endpoint with the requests sent from it, as the ZDO client uses them:   *)
(* zdo_send_nwk_addr_req asks one node for its network address, and        *)
(* zcl_find_and_read_attributes broadcasts a query that any number of      *)
(* nodes answer. (Each of those is then asked for its attributes, from     *)
(* another endpoint: not modelled.)                                        *)
(*                                                                         *)
(* Requests and answers are datagrams: lost, delayed, reordered, and, the  *)
(* answers, repeated; a node answers a request whenever it gets it, so one *)
(* element of `air' stands for a request and then its answer. Everything   *)
(* here runs in one thread, so that a call is one step.                    *)
(***************************************************************************)
EXTENDS Integers, FiniteSets

CONSTANTS Loc,             \* the variables callers give for a network address
          Node,
          MaxConversations,
          IdMod,           \* what a transaction id counts to: 256
          TimeMod,         \* what the timeout field counts to: 2^16 seconds
          AddressTimeout,  \* ZDO_CONVERSATION_TIMEOUT, 15
          MatchTimeout,    \* zdo_send_match_desc, 60
          Slack,           \* seconds that wpan_tick may be late
          WireSize,        \* bound: datagrams under way
          Paced,           \* an id is not used again while something under it
                           \* is open or under way
          Patient,         \* a caller waits as zdo.h says: until its variable
                           \* is no longer pending, even after an error
          None

ASSUME ModAssumption ==
   /\ MaxConversations \in Nat \ {0} /\ IdMod \in Nat \ {0}
   /\ TimeMod \in Nat \ {0} /\ Slack \in Nat /\ WireSize \in Nat
   /\ AddressTimeout \in Nat \ {0} /\ MatchTimeout \in Nat \ {0}
   /\ 2 * (MatchTimeout + 1) <= TimeMod /\ 2 * (AddressTimeout + 1) <= TimeMod
   /\ 2 * (Slack + 1) <= TimeMod
ASSUME FlagAssumption == Paced \in BOOLEAN /\ Patient \in BOOLEAN
ASSUME NameAssumption ==
   /\ None \notin Loc
   /\ Node \cap {"unset", "pending", "error", "timeout", "garbage"} = {}

VARIABLES conv,   \* ep_state->conversations
          last,   \* ep_state->last_transaction
          now,    \* the low half of xbee_seconds_timer
          net,    \* the callers' variables
          asked,  \* the node each was used to ask, while it is pending
          air     \* requests under way, or their answers
vars == <<conv, last, now, net, asked, air>>

Slot == 1 .. MaxConversations

\* `kind' stands for the handler, `loc' for the context; `age' is how long ago
\* the conversation was registered, which the code does not keep.
Unused == [kind |-> "none", loc |-> None, id |-> 0, timeout |-> 0, age |-> 0]

Open(s) == conv[s].kind # "none"

Timeout(kind) == IF kind = "match" THEN MatchTimeout ELSE AddressTimeout

Init == /\ conv = [s \in Slot |-> Unused]
        /\ last = 0 /\ now = 0
        /\ net = [l \in Loc |-> "unset"] /\ asked = [l \in Loc |-> None]
        /\ air = {}

-----------------------------------------------------------------------------
(* wpan_conversation_register *)

NextId == (last + 1) % IdMod

Fresh == /\ \A s \in Slot : Open(s) => conv[s].id # NextId
         /\ \A m \in air : m.id # NextId

\* Mutant: 0 is a time as any other, and means never.
DeadlinePlain(t) == (now + t) % TimeMod

\* 0 is reserved for never, so the second after it is taken.
Deadline(t) == LET d == (now + t) % TimeMod IN IF d = 0 THEN 1 ELSE d

\* The table is searched from its beginning.
First(s, S) == s \in S /\ \A t \in S : s <= t

FreeSlots == {s \in Slot : ~Open(s)}

\* The first free slot; -ENOSPC, and nothing else, if there is none.
Register(kind, loc) ==
   /\ Paced => Fresh
   /\ \E s \in Slot :
        /\ First(s, FreeSlots)
        /\ conv' = [conv EXCEPT ![s] =
                      [kind |-> kind, loc |-> loc, id |-> NextId,
                       timeout |-> Deadline(Timeout(kind)), age |-> 0]]
   /\ last' = NextId

Request(kind, n) == [kind |-> kind, id |-> NextId, node |-> n]

\* A request that cannot be sent leaves its conversation in the table, although
\* the caller is told of the error.
SendOrFail(ms) ==
   \/ air' = air \cup ms /\ Cardinality(air') <= WireSize
   \/ UNCHANGED air

\* Mutant: the variable is set before there is a conversation.
AskAddressEager(l, n) ==
   /\ Patient => net[l] # "pending"
   /\ net' = [net EXCEPT ![l] = "pending"]
   /\ asked' = [asked EXCEPT ![l] = n]
   /\ \/ Register("address", l) /\ SendOrFail({Request("address", n)})
      \/ FreeSlots = {} /\ UNCHANGED <<conv, last, air>>
   /\ UNCHANGED now

\* zdo_send_nwk_addr_req
AskAddress(l, n) == /\ Patient => net[l] # "pending"
                    /\ Register("address", l)
                    /\ net' = [net EXCEPT ![l] = "pending"]
                    /\ asked' = [asked EXCEPT ![l] = n]
                    /\ SendOrFail({Request("address", n)})
                    /\ UNCHANGED now

\* zcl_find_and_read_attributes, through zdo_send_match_desc
FindAndRead == /\ Register("match", None)
               /\ SendOrFail({Request("match", n) : n \in Node})
               /\ UNCHANGED <<now, net, asked>>

\* wpan_endpoint_next_trans, for a request whose answer nobody waits for:
\* zdo_mgmt_leave_req. Which node it is for makes no difference.
LeaveRequest == /\ Paced => Fresh
                /\ last' = NextId
                /\ SendOrFail({Request("leave", None)})
                /\ UNCHANGED <<conv, now, net, asked>>

-----------------------------------------------------------------------------
(* zdo_handler, for an answer *)

\* _zdo_process_nwk_addr_resp looks at the status in the answer, but not at
\* what kind of answer it is.
Outcomes(m) == {"error", IF m.kind = "address" THEN m.node ELSE "garbage"}

Matching(m) == {s \in Slot : Open(s) /\ conv[s].id = m.id}

\* An answer that has been received may be received again.
Received(m) == \E A \in {air, air \ {m}} : air' = A

Respond(l, v) == /\ net' = [net EXCEPT ![l] = v]
                 /\ asked' = [asked EXCEPT ![l] = None]

\* Mutant: the conversation stays open after its answer.
AddressAnsweredKept(m) == /\ \E s \in Slot, v \in Outcomes(m) :
                                /\ First(s, Matching(m)) /\ conv[s].kind = "address"
                                /\ Respond(conv[s].loc, v)
                          /\ Received(m)
                          /\ UNCHANGED <<conv, last, now>>

AddressAnswered(m) == /\ \E s \in Slot, v \in Outcomes(m) :
                            /\ First(s, Matching(m)) /\ conv[s].kind = "address"
                            /\ Respond(conv[s].loc, v)
                            /\ conv' = [conv EXCEPT ![s] = Unused]
                      /\ Received(m)
                      /\ UNCHANGED <<last, now>>

\* _zcl_send_read_from_zdo_match: the conversation stays open for the others.
MatchAnswered(m) == /\ \E s \in Slot : First(s, Matching(m)) /\ conv[s].kind = "match"
                    /\ Received(m)
                    /\ UNCHANGED <<conv, last, now, net, asked>>

Unexpected(m) == /\ Matching(m) = {}
                 /\ Received(m)
                 /\ UNCHANGED <<conv, last, now, net, asked>>

-----------------------------------------------------------------------------
(* wpan_tick *)

\* Mutant: compared as unsigned numbers.
ExpiredUnsigned(s) == Open(s) /\ conv[s].timeout # 0 /\ now >= conv[s].timeout

\* (int16_t)(now - timeout) >= 0
Expired(s) == /\ Open(s) /\ conv[s].timeout # 0
              /\ 2 * ((now - conv[s].timeout) % TimeMod) < TimeMod

LateVariables == {conv[s].loc : s \in {s \in Slot : Expired(s) /\ conv[s].kind = "address"}}

Expire == /\ \E s \in Slot : Expired(s)
          /\ conv' = [s \in Slot |-> IF Expired(s) THEN Unused ELSE conv[s]]
          /\ net' = [l \in Loc |-> IF l \in LateVariables THEN "timeout" ELSE net[l]]
          /\ asked' = [l \in Loc |-> IF l \in LateVariables THEN None ELSE asked[l]]
          /\ UNCHANGED <<last, now, air>>

\* A second passes, counted until wpan_tick is as late as it may be: Slack, give
\* or take the second that Deadline adds.
Overdue(s) == conv[s].age > Timeout(conv[s].kind) + Slack

Second == /\ \A s \in Slot : Expired(s) => ~Overdue(s)
          /\ now' = (now + 1) % TimeMod
          /\ conv' = [s \in Slot |-> IF Open(s) /\ ~Overdue(s)
                                    THEN [conv[s] EXCEPT !.age = @ + 1] ELSE conv[s]]
          /\ UNCHANGED <<last, net, asked, air>>

-----------------------------------------------------------------------------
(* The network *)

Lose(m) == /\ air' = air \ {m}
           /\ UNCHANGED <<conv, last, now, net, asked>>

-----------------------------------------------------------------------------

Next == \/ \E l \in Loc, n \in Node : AskAddress(l, n)
        \/ FindAndRead \/ LeaveRequest
        \/ \E m \in air : AddressAnswered(m) \/ MatchAnswered(m) \/ Unexpected(m) \/ Lose(m)
        \/ Expire \/ Second

\* Time passes, and the application goes on calling wpan_tick.
Spec == Init /\ [][Next]_vars /\ WF_vars(Second) /\ WF_vars(Expire)

-----------------------------------------------------------------------------
(* Properties *)

Id == 0 .. IdMod - 1

Datagram == [kind : {"address", "match"}, id : Id, node : Node]
               \cup [kind : {"leave"}, id : Id, node : {None}]

TypeOK ==
   /\ conv \in [Slot -> [kind : {"none", "address", "match"}, loc : Loc \cup {None},
                         id : Id, timeout : 0 .. TimeMod - 1, age : Nat]]
   /\ last \in Id /\ now \in 0 .. TimeMod - 1
   /\ net \in [Loc -> Node \cup {"unset", "pending", "error", "timeout", "garbage"}]
   /\ asked \in [Loc -> Node \cup {None}]
   /\ air \subseteq Datagram

\* No two conversations have the same id, ...
OwnIds == \A s, t \in Slot : Open(s) /\ Open(t) /\ conv[s].id = conv[t].id => s = t

\* ... what is under way under a conversation's id is about its request, ...
OwnTraffic == \A s \in Slot : \A m \in air :
                 conv[s].kind = "address" /\ m.id = conv[s].id =>
                    m.kind = "address" /\ m.node = asked[conv[s].loc]

\* ... and each variable that is pending, and no other, has a conversation that
\* will set it, and just one, although its request may not have been sent.
OnePerVariable ==
   /\ \A s \in Slot : conv[s].kind = "address" =>
         conv[s].loc \in Loc /\ net[conv[s].loc] = "pending"
   /\ \A s, t \in Slot : conv[s].kind = "address" /\ conv[t].kind = "address"
                            /\ conv[s].loc = conv[t].loc => s = t
   /\ \A l \in Loc : net[l] = "pending" =>
         \E s \in Slot : conv[s].kind = "address" /\ conv[s].loc = l

IInv == TypeOK /\ OwnIds /\ OwnTraffic /\ OnePerVariable

\* A request for an address ends with the answer of the node that was asked, or
\* with a timeout, and what the caller finds then is not touched any more.
Lookup == INSTANCE AddressLookup
IsLookup == Lookup!LSpec

\* It does not time out before its time.
NotEarly == [][\A l \in Loc : net[l] = "pending" /\ net'[l] = "timeout" =>
                 \E s \in Slot : conv[s].loc = l /\ conv[s].age >= AddressTimeout]_vars

\* Every conversation ends, so that no variable stays pending and the table does
\* not stay full, whether or not its request was sent and anybody answers.
Ends == \A s \in Slot : Open(s) ~> ~Open(s)
=============================================================================
