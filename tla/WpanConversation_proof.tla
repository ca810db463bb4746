----------------------- MODULE WpanConversation_proof -----------------------
(***************************************************************************)
(* For callers that wait (Patient) and ids that do not come round too soon *)
(* (Paced), of any number: every conversation gets its own answer, so the  *)
(* address client keeps its promise.  And for all callers and any ids, a   *)
(* conversation is not timed out before its time.                          *)
(***************************************************************************)
EXTENDS WpanConversation, TLAPS

\* An id, and a time, counts up to what its field holds.
LEMMA CountersStay ==
   ASSUME NEW x \in Nat, NEW k \in Nat \ {0}
   PROVE  x % k \in 0 .. k - 1
OBVIOUS

LEMMA NextIdType == TypeOK => NextId \in Id
<1> SUFFICES ASSUME TypeOK PROVE NextId \in Id
   OBVIOUS
<1>1. last + 1 \in Nat /\ IdMod \in Nat \ {0}
   BY ModAssumption DEF TypeOK, Id
<1> QED BY <1>1, CountersStay DEF NextId, Id

LEMMA DeadlineType ==
   ASSUME TypeOK, NEW t \in Nat
   PROVE  Deadline(t) \in 0 .. TimeMod - 1
<1>1. now + t \in Nat /\ TimeMod \in Nat \ {0} /\ TimeMod >= 2
   BY ModAssumption DEF TypeOK
<1>2. (now + t) % TimeMod \in 0 .. TimeMod - 1
   BY <1>1, CountersStay
<1> QED BY <1>1, <1>2 DEF Deadline

\* What a registration does to the table.
LEMMA Registered ==
   ASSUME TypeOK, NEW kind \in {"address", "match"}, NEW loc \in Loc \cup {None},
          Register(kind, loc)
   PROVE  \E s \in Slot, c \in [kind : {kind}, loc : {loc}, id : {NextId},
                                timeout : 0 .. TimeMod - 1, age : {0}] :
             conv[s].kind = "none" /\ conv' = [conv EXCEPT ![s] = c]
<1>1. PICK s \in Slot : /\ First(s, FreeSlots)
                        /\ conv' = [conv EXCEPT ![s] =
                              [kind |-> kind, loc |-> loc, id |-> NextId,
                               timeout |-> Deadline(Timeout(kind)), age |-> 0]]
   BY DEF Register
<1>2. conv[s].kind = "none"
   BY <1>1 DEF First, FreeSlots, Open
<1>3. Timeout(kind) \in Nat
   BY ModAssumption DEF Timeout
<1>4. Deadline(Timeout(kind)) \in 0 .. TimeMod - 1
   BY <1>3, DeadlineType
<1> QED BY <1>1, <1>2, <1>4

-----------------------------------------------------------------------------
(* Types *)

LEMMA InitTypes == Init => TypeOK
<1> SUFFICES ASSUME Init PROVE TypeOK
   OBVIOUS
<1>1. 0 \in Id /\ 0 \in 0 .. TimeMod - 1
   BY ModAssumption DEF Id
<1> QED BY <1>1 DEF Init, TypeOK, Unused

LEMMA NextTypes == TypeOK /\ [Next]_vars => TypeOK'
<1> SUFFICES ASSUME TypeOK, [Next]_vars PROVE TypeOK'
   OBVIOUS
<1> DEFINE Conv == [kind : {"none", "address", "match"}, loc : Loc \cup {None},
                   id : Id, timeout : 0 .. TimeMod - 1, age : Nat]
<1>0. /\ conv \in [Slot -> Conv] /\ last \in Id /\ now \in 0 .. TimeMod - 1
      /\ air \subseteq Datagram /\ NextId \in Id /\ Unused \in Conv
   <2>1. 0 \in Id /\ 0 \in 0 .. TimeMod - 1
      BY ModAssumption DEF Id
   <2> QED BY <2>1, NextIdType DEF TypeOK, Unused
<1>1. ASSUME NEW l \in Loc, NEW n \in Node, AskAddress(l, n) PROVE TypeOK'
   <2>1. PICK s \in Slot, c \in [kind : {"address"}, loc : {l}, id : {NextId},
                                 timeout : 0 .. TimeMod - 1, age : {0}] :
            conv' = [conv EXCEPT ![s] = c]
      BY <1>1, Registered DEF AskAddress
   <2>2. c \in Conv
      BY <1>0, <2>1
   <2>3. conv' \in [Slot -> Conv]
      BY <1>0, <2>1, <2>2
   <2>4. air' \subseteq Datagram
      BY <1>0, <1>1 DEF AskAddress, SendOrFail, Request, Datagram
   <2>5. last' \in Id /\ now' = now
      BY <1>0, <1>1 DEF AskAddress, Register
   <2>6. /\ net' \in [Loc -> Node \cup {"unset", "pending", "error", "timeout", "garbage"}]
         /\ asked' \in [Loc -> Node \cup {None}]
      BY <1>1 DEF AskAddress, TypeOK
   <2> QED BY <1>0, <2>3, <2>4, <2>5, <2>6 DEF TypeOK
<1>2. CASE FindAndRead
   <2>1. PICK s \in Slot, c \in [kind : {"match"}, loc : {None}, id : {NextId},
                                 timeout : 0 .. TimeMod - 1, age : {0}] :
            conv' = [conv EXCEPT ![s] = c]
      BY <1>2, Registered DEF FindAndRead
   <2>2. c \in Conv
      BY <1>0, <2>1
   <2>3. conv' \in [Slot -> Conv]
      BY <1>0, <2>1, <2>2
   <2>4. air' \subseteq Datagram
      BY <1>0, <1>2 DEF FindAndRead, SendOrFail, Request, Datagram
   <2>5. last' \in Id /\ UNCHANGED <<now, net, asked>>
      BY <1>0, <1>2 DEF FindAndRead, Register
   <2> QED BY <1>0, <2>3, <2>4, <2>5 DEF TypeOK
<1>3. CASE LeaveRequest
   <2>1. air' \subseteq Datagram
      BY <1>0, <1>3 DEF LeaveRequest, SendOrFail, Request, Datagram
   <2> QED BY <1>0, <1>3, <2>1 DEF LeaveRequest, TypeOK
<1>4. ASSUME NEW m \in air, AddressAnswered(m) PROVE TypeOK'
   <2>1. PICK s \in Slot, v \in Outcomes(m) :
            /\ First(s, Matching(m)) /\ conv[s].kind = "address"
            /\ Respond(conv[s].loc, v)
            /\ conv' = [conv EXCEPT ![s] = Unused]
      BY <1>4 DEF AddressAnswered
   <2>2. conv' \in [Slot -> Conv]
      BY <1>0, <2>1
   <2>3. UNCHANGED <<last, now>> /\ air' \subseteq air
      BY <1>4 DEF AddressAnswered, Received
   <2>4. v \in Node \cup {"error", "garbage"}
      BY <1>0, <2>1 DEF Outcomes, Datagram
   <2>5. /\ net' \in [Loc -> Node \cup {"unset", "pending", "error", "timeout", "garbage"}]
         /\ asked' \in [Loc -> Node \cup {None}]
      BY <2>1, <2>4 DEF TypeOK, Respond
   <2> QED BY <1>0, <2>2, <2>3, <2>5 DEF TypeOK
<1>5. ASSUME NEW m \in air, MatchAnswered(m) PROVE TypeOK'
   BY <1>0, <1>5 DEF MatchAnswered, Received, TypeOK
<1>6. ASSUME NEW m \in air, Unexpected(m) PROVE TypeOK'
   BY <1>0, <1>6 DEF Unexpected, Received, TypeOK
<1>7. ASSUME NEW m \in air, Lose(m) PROVE TypeOK'
   BY <1>0, <1>7 DEF Lose, TypeOK
<1>8. CASE Expire
   <2>1. conv' \in [Slot -> Conv]
      BY <1>0, <1>8 DEF Expire
   <2>2. /\ net' \in [Loc -> Node \cup {"unset", "pending", "error", "timeout", "garbage"}]
         /\ asked' \in [Loc -> Node \cup {None}]
      BY <1>8 DEF Expire, TypeOK
   <2> QED BY <1>0, <1>8, <2>1, <2>2 DEF Expire, TypeOK
<1>9. CASE Second
   <2>1. conv' \in [Slot -> Conv]
      BY <1>0, <1>9 DEF Second
   <2>2. now + 1 \in Nat /\ TimeMod \in Nat \ {0}
      BY <1>0, ModAssumption
   <2>3. now' \in 0 .. TimeMod - 1
      BY <1>9, <2>2, CountersStay DEF Second
   <2> QED BY <1>0, <1>9, <2>1, <2>3 DEF Second, TypeOK
<1>10. CASE UNCHANGED vars
   BY <1>10 DEF vars, TypeOK
<1> QED BY <1>1, <1>2, <1>3, <1>4, <1>5, <1>6, <1>7, <1>8, <1>9, <1>10 DEF Next

-----------------------------------------------------------------------------
(* The invariant *)

\* Registering a conversation under an id that is not in use disturbs no other.
LEMMA RegisterKeepsOwn ==
   ASSUME TypeOK, OwnIds, Fresh, NEW s \in Slot, NEW c, c.id = NextId,
          conv[s].kind = "none", conv' = [conv EXCEPT ![s] = c]
   PROVE  OwnIds'
<1>1. \A t \in Slot : conv'[t] = IF t = s THEN c ELSE conv[t]
   BY DEF TypeOK
<1>2. \A t \in Slot : Open(t) => conv[t].id # NextId
   BY DEF Fresh
<1> QED BY <1>1, <1>2 DEF OwnIds, Open

LEMMA InitInvariant == Init => IInv
<1> SUFFICES ASSUME Init PROVE IInv
   OBVIOUS
<1>1. TypeOK
   BY InitTypes
<1>2. OwnIds /\ OwnTraffic /\ OnePerVariable
   BY DEF Init, OwnIds, OwnTraffic, OnePerVariable, Open, Unused
<1> QED BY <1>1, <1>2 DEF IInv

LEMMA AskKeeps ==
   ASSUME Paced, Patient, IInv, NEW l \in Loc, NEW n \in Node, AskAddress(l, n)
   PROVE  OwnIds' /\ OwnTraffic' /\ OnePerVariable'
<1> USE DEF IInv
<1>1. PICK s \in Slot, c \in [kind : {"address"}, loc : {l}, id : {NextId},
                              timeout : 0 .. TimeMod - 1, age : {0}] :
         conv[s].kind = "none" /\ conv' = [conv EXCEPT ![s] = c]
   BY Registered DEF AskAddress
<1>2. Fresh /\ net[l] # "pending"
   BY DEF AskAddress, Register
<1>3. \A t \in Slot : conv'[t] = IF t = s THEN c ELSE conv[t]
   BY <1>1 DEF TypeOK
<1>4. /\ \A k \in Loc : net'[k] = IF k = l THEN "pending" ELSE net[k]
      /\ \A k \in Loc : asked'[k] = IF k = l THEN n ELSE asked[k]
   BY DEF AskAddress, TypeOK
<1>5. \A t \in Slot : conv[t].kind = "address" => conv[t].loc \in Loc \ {l}
   BY <1>2 DEF OnePerVariable
<1>6. OwnIds'
   BY <1>1, <1>2, RegisterKeepsOwn
<1>7. OwnTraffic'
   <2> SUFFICES ASSUME NEW t \in Slot, NEW m \in air',
                       conv'[t].kind = "address", m.id = conv'[t].id
                PROVE  m.kind = "address" /\ m.node = asked'[conv'[t].loc]
      BY DEF OwnTraffic
   <2>1. m \in air \/ m = Request("address", n)
      BY DEF AskAddress, SendOrFail
   <2>2. CASE t = s
      BY <1>1, <1>2, <1>3, <1>4, <2>1, <2>2 DEF Fresh, Request
   <2>3. CASE t # s
      <3>1. conv'[t] = conv[t] /\ conv[t].id # NextId
         BY <1>2, <1>3, <2>3 DEF Fresh, Open
      <3>2. m \in air
         BY <2>1, <3>1 DEF Request
      <3> QED BY <1>4, <1>5, <3>1, <3>2 DEF OwnTraffic
   <2> QED BY <2>2, <2>3
<1>8. OnePerVariable'
   <2>1. \A t \in Slot : conv'[t].kind = "address" =>
            conv'[t].loc \in Loc /\ net'[conv'[t].loc] = "pending"
      BY <1>1, <1>3, <1>4, <1>5 DEF OnePerVariable
   <2>2. \A t, u \in Slot : conv'[t].kind = "address" /\ conv'[u].kind = "address"
                               /\ conv'[t].loc = conv'[u].loc => t = u
      BY <1>1, <1>3, <1>5 DEF OnePerVariable
   <2>3. \A k \in Loc : net'[k] = "pending" =>
            \E t \in Slot : conv'[t].kind = "address" /\ conv'[t].loc = k
      <3> SUFFICES ASSUME NEW k \in Loc, net'[k] = "pending"
                   PROVE  \E t \in Slot : conv'[t].kind = "address" /\ conv'[t].loc = k
         OBVIOUS
      <3>1. CASE k = l
         BY <1>1, <1>3, <3>1
      <3>2. CASE k # l
         BY <1>1, <1>3, <1>4, <3>2 DEF OnePerVariable
      <3> QED BY <3>1, <3>2
   <2> QED BY <2>1, <2>2, <2>3 DEF OnePerVariable
<1> QED BY <1>6, <1>7, <1>8

LEMMA FindKeeps ==
   ASSUME Paced, IInv, FindAndRead
   PROVE  OwnIds' /\ OwnTraffic' /\ OnePerVariable'
<1> USE DEF IInv
<1>1. PICK s \in Slot, c \in [kind : {"match"}, loc : {None}, id : {NextId},
                              timeout : 0 .. TimeMod - 1, age : {0}] :
         conv[s].kind = "none" /\ conv' = [conv EXCEPT ![s] = c]
   BY Registered DEF FindAndRead
<1>2. Fresh /\ UNCHANGED <<net, asked>>
   BY DEF FindAndRead, Register
<1>3. \A t \in Slot : conv'[t] = IF t = s THEN c ELSE conv[t]
   BY <1>1 DEF TypeOK
<1>4. \A t \in Slot : conv'[t].kind = "address" => t # s /\ conv'[t] = conv[t]
   BY <1>1, <1>3
<1>5. OwnIds'
   BY <1>1, <1>2, RegisterKeepsOwn
<1>6. OwnTraffic'
   <2> SUFFICES ASSUME NEW t \in Slot, NEW m \in air',
                       conv'[t].kind = "address", m.id = conv'[t].id
                PROVE  m.kind = "address" /\ m.node = asked'[conv'[t].loc]
      BY DEF OwnTraffic
   <2>1. conv'[t] = conv[t] /\ conv[t].id # NextId
      BY <1>2, <1>4 DEF Fresh, Open
   <2>2. m \in air
      BY <2>1 DEF FindAndRead, SendOrFail, Request
   <2> QED BY <1>2, <2>1, <2>2 DEF OwnTraffic
<1>7. OnePerVariable'
   <2>1. \A t \in Slot : conv[t].kind = "address" => conv'[t] = conv[t]
      BY <1>1, <1>3
   <2> QED BY <1>2, <1>4, <2>1 DEF OnePerVariable
<1> QED BY <1>5, <1>6, <1>7

\* Dropping a conversation with what it waits for disturbs no other.
LEMMA AnswerKeeps ==
   ASSUME IInv, NEW m \in air, AddressAnswered(m)
   PROVE  OwnIds' /\ OwnTraffic' /\ OnePerVariable'
<1> USE DEF IInv
<1>1. PICK s \in Slot, v \in Outcomes(m) :
         /\ First(s, Matching(m)) /\ conv[s].kind = "address"
         /\ Respond(conv[s].loc, v)
         /\ conv' = [conv EXCEPT ![s] = Unused]
   BY DEF AddressAnswered
<1>2. air' \subseteq air
   BY DEF AddressAnswered, Received
<1>3. PICK l \in Loc : conv[s].loc = l
   BY <1>1 DEF OnePerVariable
<1>4. \A t \in Slot : conv'[t] = IF t = s THEN Unused ELSE conv[t]
   BY <1>1 DEF TypeOK
<1>5. v # "pending"
   BY NameAssumption DEF Outcomes, TypeOK, Datagram
<1>6. \A k \in Loc : /\ net'[k] = IF k = l THEN v ELSE net[k]
                     /\ asked'[k] = IF k = l THEN None ELSE asked[k]
   BY <1>1, <1>3 DEF Respond, TypeOK
<1>7. \A t \in Slot : conv'[t].kind = "address" =>
         t # s /\ conv'[t] = conv[t] /\ conv[t].loc \in Loc \ {l}
   BY <1>1, <1>3, <1>4 DEF OnePerVariable, Unused
<1>8. OwnIds'
   BY <1>4 DEF OwnIds, Open, Unused
<1>9. OwnTraffic'
   BY <1>2, <1>6, <1>7 DEF OwnTraffic
<1>10. OnePerVariable'
   <2>1. \A k \in Loc : net'[k] = "pending" =>
            \E t \in Slot : conv'[t].kind = "address" /\ conv'[t].loc = k
      BY <1>3, <1>4, <1>5, <1>6 DEF OnePerVariable
   <2>2. \A t \in Slot : conv'[t].kind = "address" =>
            conv'[t].loc \in Loc /\ net'[conv'[t].loc] = "pending"
      BY <1>6, <1>7 DEF OnePerVariable
   <2> QED BY <1>7, <2>1, <2>2 DEF OnePerVariable
<1> QED BY <1>8, <1>9, <1>10

LEMMA ExpireKeeps ==
   ASSUME IInv, Expire
   PROVE  OwnIds' /\ OwnTraffic' /\ OnePerVariable'
<1> USE DEF IInv
<1>1. \A t \in Slot : conv'[t] = IF Expired(t) THEN Unused ELSE conv[t]
   BY DEF Expire
<1>2. \A k \in Loc : /\ net'[k] = IF k \in LateVariables THEN "timeout" ELSE net[k]
                     /\ asked'[k] = IF k \in LateVariables THEN None ELSE asked[k]
   BY DEF Expire
<1>3. \A t \in Slot : conv'[t].kind = "address" =>
         ~Expired(t) /\ conv'[t] = conv[t] /\ conv[t].loc \in Loc \ LateVariables
   <2> SUFFICES ASSUME NEW t \in Slot, conv'[t].kind = "address"
                PROVE  ~Expired(t) /\ conv'[t] = conv[t] /\ conv[t].loc \in Loc \ LateVariables
      OBVIOUS
   <2>1. ~Expired(t) /\ conv'[t] = conv[t]
      BY <1>1 DEF Unused
   <2>2. conv[t].loc \notin LateVariables
      BY <2>1 DEF LateVariables, OnePerVariable
   <2> QED BY <2>1, <2>2 DEF OnePerVariable
<1>4. OwnIds'
   BY <1>1 DEF OwnIds, Open, Unused
<1>5. OwnTraffic'
   BY <1>2, <1>3 DEF OwnTraffic, Expire
<1>6. OnePerVariable'
   <2>1. ASSUME NEW k \in Loc, net'[k] = "pending"
         PROVE  \E t \in Slot : conv'[t].kind = "address" /\ conv'[t].loc = k
      <3>1. k \notin LateVariables /\ net[k] = "pending"
         BY <1>2, <2>1
      <3>2. PICK t \in Slot : conv[t].kind = "address" /\ conv[t].loc = k
         BY <3>1 DEF OnePerVariable
      <3>3. ~Expired(t)
         BY <3>1, <3>2 DEF LateVariables
      <3> QED BY <1>1, <3>2, <3>3
   <2>2. \A t \in Slot : conv'[t].kind = "address" =>
            conv'[t].loc \in Loc /\ net'[conv'[t].loc] = "pending"
      BY <1>2, <1>3 DEF OnePerVariable
   <2> QED BY <1>3, <2>1, <2>2 DEF OnePerVariable
<1> QED BY <1>4, <1>5, <1>6

\* Steps that leave the table's conversations, apart from their age, and the
\* variables alone, and put nothing under way under a conversation's id.
LEMMA OthersKeep ==
   ASSUME IInv, UNCHANGED <<net, asked>>,
          \A t \in Slot : /\ conv'[t].kind = conv[t].kind /\ conv'[t].loc = conv[t].loc
                          /\ conv'[t].id = conv[t].id,
          \A m \in air' : m \in air \/ \A t \in Slot : Open(t) => conv[t].id # m.id
   PROVE  OwnIds' /\ OwnTraffic' /\ OnePerVariable'
<1>1. OwnIds'
   BY DEF IInv, OwnIds, Open
<1>2. OwnTraffic'
   BY DEF IInv, OwnTraffic, Open
<1>3. OnePerVariable'
   BY DEF IInv, OnePerVariable
<1> QED BY <1>1, <1>2, <1>3

LEMMA NextInvariant ==
   ASSUME Paced, Patient, IInv, [Next]_vars
   PROVE  IInv'
<1>1. TypeOK'
   BY NextTypes DEF IInv
<1>2. OwnIds' /\ OwnTraffic' /\ OnePerVariable'
   <2>1. ASSUME NEW l \in Loc, NEW n \in Node, AskAddress(l, n)
         PROVE  OwnIds' /\ OwnTraffic' /\ OnePerVariable'
      BY <2>1, AskKeeps
   <2>2. CASE FindAndRead
      BY <2>2, FindKeeps
   <2>3. CASE LeaveRequest
      BY <2>3, OthersKeep DEF LeaveRequest, SendOrFail, Request, Fresh
   <2>4. ASSUME NEW m \in air, AddressAnswered(m)
         PROVE  OwnIds' /\ OwnTraffic' /\ OnePerVariable'
      BY <2>4, AnswerKeeps
   <2>5. ASSUME NEW m \in air, MatchAnswered(m) \/ Unexpected(m) \/ Lose(m)
         PROVE  OwnIds' /\ OwnTraffic' /\ OnePerVariable'
      <3>1. UNCHANGED <<conv, net, asked>> /\ air' \subseteq air
         BY <2>5 DEF MatchAnswered, Unexpected, Lose, Received
      <3> QED BY <3>1, OthersKeep
   <2>6. CASE Expire
      BY <2>6, ExpireKeeps
   <2>7. CASE Second
      <3>1. \A t \in Slot : /\ conv'[t].kind = conv[t].kind /\ conv'[t].loc = conv[t].loc
                            /\ conv'[t].id = conv[t].id
         BY <2>7 DEF Second, IInv, TypeOK
      <3> QED BY <2>7, <3>1, OthersKeep DEF Second
   <2>8. CASE UNCHANGED vars
      BY <2>8, OthersKeep DEF vars
   <2> QED BY <2>1, <2>2, <2>3, <2>4, <2>5, <2>6, <2>7, <2>8 DEF Next
<1> QED BY <1>1, <1>2 DEF IInv

\* Whatever is lost, delayed, reordered or repeated, and whether or not requests
\* can be sent: no two conversations share an id, what is under way under a
\* conversation's id is its own, and a pending variable has one conversation.
THEOREM Invariance == ASSUME Paced, Patient PROVE Spec => []IInv
<1>1. Init => IInv
   BY InitInvariant
<1>2. IInv /\ [Next]_vars => IInv'
   BY NextInvariant
<1> QED BY <1>1, <1>2, PTL DEF Spec

-----------------------------------------------------------------------------
(* The promise *)

\* Every step sets the variables as the promise allows, or not at all.
LEMMA StepKeepsPromise ==
   ASSUME Patient, IInv, [Next]_vars
   PROVE  [Lookup!LNext]_<<net, asked>>
<1> USE DEF IInv
<1>1. ASSUME NEW l \in Loc, NEW n \in Node, AskAddress(l, n)
      PROVE  Lookup!LNext
   BY <1>1 DEF AskAddress, Lookup!LNext, Lookup!LAsk, Lookup!Waiting
<1>2. ASSUME NEW m \in air, AddressAnswered(m)
      PROVE  Lookup!LNext
   <2>1. PICK s \in Slot, v \in Outcomes(m) :
            /\ First(s, Matching(m)) /\ conv[s].kind = "address"
            /\ Respond(conv[s].loc, v)
      BY <1>2 DEF AddressAnswered
   <2>2. conv[s].loc \in Loc /\ net[conv[s].loc] = "pending"
      BY <2>1 DEF OnePerVariable
   <2>3. m.id = conv[s].id
      BY <2>1 DEF First, Matching
   <2>4. m.kind = "address" /\ m.node = asked[conv[s].loc]
      BY <2>1, <2>3 DEF OwnTraffic
   <2>5. v \in {asked[conv[s].loc], "error"}
      BY <2>4 DEF Outcomes
   <2>6. Lookup!LAnswer(conv[s].loc)
      BY <2>1, <2>2, <2>5 DEF Respond, Lookup!LAnswer, Lookup!Waiting
   <2> QED BY <2>2, <2>6 DEF Lookup!LNext
<1>3. CASE Expire
   <2>1. LateVariables \in SUBSET {l \in Loc : net[l] = "pending"}
      BY DEF LateVariables, OnePerVariable
   <2> QED BY <1>3, <2>1 DEF Expire, Lookup!LNext, Lookup!LTimeout, Lookup!Waiting
<1>4. CASE FindAndRead \/ LeaveRequest \/ Second \/ UNCHANGED vars
   BY <1>4 DEF FindAndRead, LeaveRequest, Second, vars
<1>5. ASSUME NEW m \in air, MatchAnswered(m) \/ Unexpected(m) \/ Lose(m)
      PROVE  UNCHANGED <<net, asked>>
   BY <1>5 DEF MatchAnswered, Unexpected, Lose
<1> QED BY <1>1, <1>2, <1>3, <1>4, <1>5 DEF Next

\* A caller's variable goes from pending to the answer of the node that was
\* asked, to error or to timeout, and stays so until the caller asks again.
THEOREM Promise == ASSUME Paced, Patient PROVE Spec => IsLookup
<1>1. Init => Lookup!LInit
   BY DEF Init, Lookup!LInit
<1>2. IInv /\ [Next]_vars => [Lookup!LNext]_<<net, asked>>
   BY StepKeepsPromise
<1>3. Spec => []IInv
   BY Invariance
<1> QED BY <1>1, <1>2, <1>3, PTL DEF Spec, IsLookup, Lookup!LSpec

-----------------------------------------------------------------------------
(* Time *)

\* Counting on from a number that fits the field, or back, by less than it holds.
LEMMA Wraps ==
   ASSUME NEW M \in Nat \ {0}, NEW x \in Int, - M <= x, x < 2 * M
   PROVE  x % M = IF x < 0 THEN x + M ELSE IF x < M THEN x ELSE x - M
BY Z3

\* The deadline of a conversation younger than its timeout is ahead: by the rest
\* of that time, or by a second more, as 0 is not used.
Remaining(s) == Timeout(conv[s].kind) - conv[s].age
Timed == \A s \in Slot : Open(s) /\ Remaining(s) > 0 =>
            \E r \in {Remaining(s), Remaining(s) + 1} :
               conv[s].timeout - now \in {r, r - TimeMod}

\* What the arithmetic needs to know.
LEMMA TimeTypes ==
   ASSUME TypeOK
   PROVE  /\ TimeMod \in Nat \ {0} /\ now \in 0 .. TimeMod - 1
          /\ \A kind : Timeout(kind) \in Nat \ {0} /\ 2 * (Timeout(kind) + 1) <= TimeMod
          /\ \A s \in Slot : conv[s].timeout \in 0 .. TimeMod - 1 /\ conv[s].age \in Nat
BY ModAssumption DEF TypeOK, Timeout

LEMMA DeadlineAhead ==
   ASSUME TypeOK, NEW kind
   PROVE  \E r \in {Timeout(kind), Timeout(kind) + 1} :
             Deadline(Timeout(kind)) - now \in {r, r - TimeMod}
<1> DEFINE t == Timeout(kind)
           d == (now + t) % TimeMod
<1>1. /\ TimeMod \in Nat \ {0} /\ now \in 0 .. TimeMod - 1
      /\ t \in Nat \ {0} /\ 2 * (t + 1) <= TimeMod
   BY TimeTypes
<1>2. Deadline(t) = IF d = 0 THEN 1 ELSE d
   BY DEF Deadline
<1> HIDE DEF t
<1>3. now + t \in Int /\ - TimeMod <= now + t /\ now + t < 2 * TimeMod /\ now + t >= 0
   BY <1>1
<1>4. d = IF now + t < TimeMod THEN now + t ELSE now + t - TimeMod
   <2> DEFINE x == now + t
   <2>1. x \in Int /\ - TimeMod <= x /\ x < 2 * TimeMod
      BY <1>3
   <2> HIDE DEF x
   <2>2. x % TimeMod = IF x < 0 THEN x + TimeMod
                       ELSE IF x < TimeMod THEN x ELSE x - TimeMod
      BY <1>1, <2>1, Wraps, Zenon
   <2> QED BY <1>1, <1>3, <2>2 DEF x
<1> HIDE DEF d
<1>5. \/ Deadline(t) - now \in {t, t - TimeMod}
      \/ Deadline(t) - now = t + 1 - TimeMod
   BY <1>1, <1>2, <1>4
<1>6. \E r \in {t, t + 1} : Deadline(t) - now \in {r, r - TimeMod}
   BY <1>1, <1>5
<1> QED BY <1>6 DEF t

\* wpan_tick does not take such a conversation for late.
LEMMA YoungNotExpired ==
   ASSUME TypeOK, Timed, NEW s \in Slot, Expired(s)
   PROVE  conv[s].age >= Timeout(conv[s].kind)
<1> SUFFICES ASSUME conv[s].age < Timeout(conv[s].kind) PROVE FALSE
   BY TimeTypes
<1> DEFINE T == Timeout(conv[s].kind)
           x == now - conv[s].timeout
<1>1. /\ TimeMod \in Nat \ {0} /\ now \in 0 .. TimeMod - 1
      /\ conv[s].timeout \in 0 .. TimeMod - 1 /\ conv[s].age \in Nat
      /\ T \in Nat /\ 2 * (T + 1) <= TimeMod /\ conv[s].age < T
   BY TimeTypes
<1>2. PICK r \in {T - conv[s].age, T - conv[s].age + 1} :
         conv[s].timeout - now \in {r, r - TimeMod}
   BY <1>1 DEF Timed, Remaining, Expired
<1>3. 2 * (x % TimeMod) < TimeMod
   BY DEF Expired
<1> HIDE DEF T
<1>4. r \in 1 .. T + 1 /\ 2 * r <= TimeMod /\ x \in {- r, TimeMod - r}
      /\ x \in Int /\ - TimeMod <= x /\ x < 2 * TimeMod
   BY <1>1, <1>2
<1> HIDE DEF x
<1>5. x % TimeMod = IF x < 0 THEN x + TimeMod ELSE IF x < TimeMod THEN x ELSE x - TimeMod
   BY <1>1, <1>4, Wraps, Zenon
<1>6. x % TimeMod = TimeMod - r
   BY <1>1, <1>4, <1>5
<1> QED BY <1>1, <1>3, <1>4, <1>6

\* A conversation is registered with its deadline ahead; the others stay.
LEMMA RegisterTimed ==
   ASSUME TypeOK, Timed, NEW kind \in {"address", "match"}, NEW loc, Register(kind, loc),
          now' = now
   PROVE  Timed'
<1>1. PICK s \in Slot :
         conv' = [conv EXCEPT ![s] = [kind |-> kind, loc |-> loc, id |-> NextId,
                                      timeout |-> Deadline(Timeout(kind)), age |-> 0]]
   BY DEF Register
<1>2. /\ conv'[s].kind = kind /\ conv'[s].age = 0
      /\ conv'[s].timeout = Deadline(Timeout(kind))
      /\ \A t \in Slot \ {s} : conv'[t] = conv[t]
   BY <1>1 DEF TypeOK
<1>3. Timeout(kind) - 0 = Timeout(kind)
   BY TimeTypes
<1>4. \E r \in {Timeout(kind) - 0, Timeout(kind) - 0 + 1} :
         Deadline(Timeout(kind)) - now \in {r, r - TimeMod}
   BY <1>3, DeadlineAhead
<1>5. TimeMod' = TimeMod /\ Timeout(conv'[s].kind) = Timeout(kind)
   BY <1>2
<1>6. ASSUME NEW t \in Slot, conv'[t].kind # "none",
             Timeout(conv'[t].kind) - conv'[t].age > 0
      PROVE  \E r \in {Timeout(conv'[t].kind) - conv'[t].age,
                       Timeout(conv'[t].kind) - conv'[t].age + 1} :
                conv'[t].timeout - now' \in {r, r - TimeMod}
   <2>1. CASE t = s
      BY <1>2, <1>4, <2>1
   <2>2. CASE t # s
      BY <1>2, <1>6, <2>2 DEF Timed, Remaining, Open
   <2> QED BY <2>1, <2>2
<1> QED BY <1>6 DEF Timed, Remaining, Open, Timeout

\* Conversations stay as they are, or end, and no time passes.
LEMMA EndTimed ==
   ASSUME Timed, now' = now, \A s \in Slot : conv'[s] \in {conv[s], Unused}
   PROVE  Timed'
BY DEF Timed, Remaining, Open, Timeout, Unused

\* Another second.
LEMMA SecondTimed ==
   ASSUME TypeOK, Timed, Second
   PROVE  Timed'
<1>1. /\ TimeMod \in Nat \ {0} /\ now \in 0 .. TimeMod - 1
      /\ \A kind : Timeout(kind) \in Nat \ {0} /\ 2 * (Timeout(kind) + 1) <= TimeMod
      /\ \A s \in Slot : conv[s].timeout \in 0 .. TimeMod - 1 /\ conv[s].age \in Nat
   BY TimeTypes
<1>2. now' = IF now + 1 < TimeMod THEN now + 1 ELSE 0
   <2> DEFINE x == now + 1
   <2>1. x \in Int /\ - TimeMod <= x /\ x < 2 * TimeMod /\ x >= 0
      BY <1>1
   <2> HIDE DEF x
   <2>2. x % TimeMod = IF x < 0 THEN x + TimeMod
                       ELSE IF x < TimeMod THEN x ELSE x - TimeMod
      BY <1>1, <2>1, Wraps, Zenon
   <2>3. x % TimeMod = IF x < TimeMod THEN x ELSE x - TimeMod
      BY <2>1, <2>2
   <2> QED BY <1>1, <2>3 DEF Second, x
<1>3. ASSUME NEW s \in Slot, conv'[s].kind # "none",
             Timeout(conv'[s].kind) - conv'[s].age > 0
      PROVE  \E r \in {Timeout(conv'[s].kind) - conv'[s].age,
                       Timeout(conv'[s].kind) - conv'[s].age + 1} :
                conv'[s].timeout - now' \in {r, r - TimeMod}
   <2>1. conv'[s] = IF Open(s) /\ ~ Overdue(s) THEN [conv[s] EXCEPT !.age = @ + 1]
                    ELSE conv[s]
      BY DEF Second
   <2>2. /\ conv'[s].kind = conv[s].kind /\ conv'[s].timeout = conv[s].timeout
         /\ \/ conv'[s].age = conv[s].age + 1
            \/ conv'[s].age = conv[s].age /\ (Overdue(s) \/ ~ Open(s))
      BY <2>1 DEF TypeOK
   <2> DEFINE T == Timeout(conv[s].kind)
              a == conv[s].age
   <2>3. conv'[s].age = a + 1
      <3>1. Overdue(s) => a > T + Slack
         BY DEF Overdue
      <3>2. Slack \in Nat /\ T \in Nat /\ a \in Nat
         BY <1>1, ModAssumption
      <3>3. Open(s)
         BY <1>3, <2>2 DEF Open
      <3> HIDE DEF T, a
      <3>4. T - conv'[s].age > 0
         BY <1>3, <2>2 DEF T
      <3>5. Overdue(s) => conv'[s].age # a
         BY <3>1, <3>2, <3>4
      <3> QED BY <2>2, <3>3, <3>5 DEF a
   <2>4. PICK r \in {T - a, T - a + 1} : conv[s].timeout - now \in {r, r - TimeMod}
      <3>1. Open(s) /\ T - a > 0
         BY <1>1, <1>3, <2>2, <2>3 DEF Open
      <3> QED BY <3>1 DEF Timed, Remaining
   <2>5. r - 1 \in {T - (a + 1), T - (a + 1) + 1} /\ r >= 2 /\ r < TimeMod
      <3>1. T \in Nat /\ 2 * (T + 1) <= TimeMod /\ a \in Nat /\ T - (a + 1) > 0
         BY <1>1, <1>3, <2>2, <2>3
      <3> HIDE DEF T, a
      <3> QED BY <1>1, <2>4, <3>1
   <2>6. conv[s].timeout - now' \in {r - 1, r - 1 - TimeMod}
      <3>1. r \in Int /\ conv[s].timeout \in 0 .. TimeMod - 1
         BY <1>1
      <3> HIDE DEF T, a
      <3> QED BY <1>1, <1>2, <2>4, <2>5, <3>1
   <2> QED BY <2>2, <2>3, <2>5, <2>6
<1> QED BY <1>3 DEF Timed, Remaining, Open, Timeout

LEMMA NextTimed ==
   ASSUME TypeOK, Timed, [Next]_vars
   PROVE  Timed'
<1>1. ASSUME NEW l \in Loc, NEW n \in Node, AskAddress(l, n) PROVE Timed'
   BY <1>1, RegisterTimed DEF AskAddress
<1>2. CASE FindAndRead
   BY <1>2, RegisterTimed DEF FindAndRead
<1>3. ASSUME NEW m \in air, AddressAnswered(m) PROVE Timed'
   <2>1. PICK s \in Slot : conv' = [conv EXCEPT ![s] = Unused]
      BY <1>3 DEF AddressAnswered
   <2>2. \A t \in Slot : conv'[t] \in {conv[t], Unused}
      BY <2>1 DEF TypeOK
   <2> QED BY <1>3, <2>2, EndTimed DEF AddressAnswered
<1>4. CASE Expire
   <2>1. now' = now /\ \A t \in Slot : conv'[t] \in {conv[t], Unused}
      BY <1>4 DEF Expire
   <2> QED BY <2>1, EndTimed
<1>5. CASE LeaveRequest \/ UNCHANGED vars
   <2>1. UNCHANGED <<conv, now>>
      BY <1>5 DEF LeaveRequest, vars
   <2> QED BY <2>1, EndTimed
<1>6. ASSUME NEW m \in air, MatchAnswered(m) \/ Unexpected(m) \/ Lose(m) PROVE Timed'
   <2>1. UNCHANGED <<conv, now>>
      BY <1>6 DEF MatchAnswered, Unexpected, Lose
   <2> QED BY <2>1, EndTimed
<1>7. CASE Second
   BY <1>7, SecondTimed
<1> QED BY <1>1, <1>2, <1>3, <1>4, <1>5, <1>6, <1>7 DEF Next

\* Only wpan_tick gives a request up, and only one whose deadline has come: none
\* younger than its timeout, whenever the counter of seconds comes round.
THEOREM NoEarlyTimeout == Spec => NotEarly
<1>1. Init => Timed
   BY DEF Init, Timed, Open, Unused
<1>2. ASSUME TypeOK, Timed, [Next]_vars, NEW l \in Loc, net[l] = "pending",
             net'[l] = "timeout"
      PROVE  \E s \in Slot : conv[s].loc = l /\ conv[s].age >= AddressTimeout
   <2>1. ASSUME NEW k \in Loc, NEW n \in Node, AskAddress(k, n) PROVE FALSE
      BY <1>2, <2>1 DEF AskAddress, TypeOK
   <2>2. ASSUME NEW m \in air, AddressAnswered(m) PROVE FALSE
      <3>1. PICK s \in Slot, v \in Outcomes(m) : Respond(conv[s].loc, v)
         BY <2>2 DEF AddressAnswered
      <3>2. v # "timeout"
         <4>1. v \in Node \cup {"error", "garbage"}
            BY <1>2, <3>1 DEF TypeOK, Outcomes, Datagram
         <4> QED BY <4>1, NameAssumption
      <3> QED BY <1>2, <3>1, <3>2 DEF Respond, TypeOK
   <2>3. CASE \/ FindAndRead \/ LeaveRequest \/ Second \/ UNCHANGED vars
              \/ \E m \in air : MatchAnswered(m) \/ Unexpected(m) \/ Lose(m)
      <3>1. net' = net
         BY <2>3 DEF FindAndRead, LeaveRequest, Second, vars, MatchAnswered, Unexpected, Lose
      <3> QED BY <1>2, <3>1
   <2>4. CASE Expire
      <3>1. PICK s \in Slot : Expired(s) /\ conv[s].kind = "address" /\ conv[s].loc = l
         BY <1>2, <2>4 DEF Expire, LateVariables
      <3>2. conv[s].age >= AddressTimeout
         BY <1>2, <3>1, YoungNotExpired DEF Timeout
      <3> QED BY <3>1, <3>2
   <2> QED BY <1>2, <2>1, <2>2, <2>3, <2>4 DEF Next
<1>3. TypeOK /\ Timed /\ [Next]_vars =>
         [\A l \in Loc : net[l] = "pending" /\ net'[l] = "timeout" =>
             \E s \in Slot : conv[s].loc = l /\ conv[s].age >= AddressTimeout]_vars
   BY <1>2
<1>4. TypeOK /\ Timed /\ [Next]_vars => Timed'
   BY NextTimed
<1> QED BY <1>1, <1>3, <1>4, InitTypes, NextTypes, PTL DEF Spec, NotEarly
=============================================================================
