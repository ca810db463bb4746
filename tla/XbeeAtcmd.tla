----------------------------- MODULE XbeeAtcmd -----------------------------
(***************************************************************************)
(* The AT command layer of xbee_atcmd.c: the table of outstanding requests *)
(* that all devices share, and the query that walks a list of registers    *)
(* through it to learn a module's network address, again whenever the      *)
(* module reports that it joined a network.                                *)
(*                                                                         *)
(* Everything runs in one thread, so a call or a frame handler is one      *)
(* step; what makes it hard is that they nest. A callback may start a      *)
(* query, which creates a request, which, when the table is full, expires  *)
(* other requests, whose callbacks may start a query. The operators below  *)
(* take the driver's state, a record, and return what it becomes.          *)
(*                                                                         *)
(* A module answers in the order it was asked. Its status frames arrive; a *)
(* command or an answer may be lost on the way, or come late.              *)
(***************************************************************************)
EXTENDS Integers, Sequences, FiniteSets, FiniteSetsExt, Functions

CONSTANTS Device,
          TableSize,   \* XBEE_CMD_REQUEST_TABLESIZE
          UserSlots,   \* requests of the application at a time
          Address,     \* network addresses a module may be given
          WireSize,    \* frames on the wire when a module reports its status
          LateAnswers, \* whether an answer may be handled although its request
                       \* has timed out and xbee_cmd_tick has not yet run
          None

ASSUME SizeAssumption == /\ TableSize \in Nat \ {0} /\ UserSlots \in 0 .. TableSize
                         /\ WireSize \in Nat \ {0} /\ LateAnswers \in BOOLEAN
ASSUME NoneAssumption == None \notin Device

Undefined == "undefined"   \* WPAN_NET_ADDR_UNDEFINED, 0xFFFE, which no module is given
ASSUME AddressAssumption == Undefined \notin Address

VARIABLES table,   \* xbee_cmd_request_table
          dev,     \* the flags, network address and joined flag of xbee_dev_t
          clc,     \* _xbee_atcmd_query_regs_head, which all devices share
          cts,     \* the module is ready to receive
          out,     \* commands on their way to the module
          in,      \* frames on their way from the module
          addr     \* the module's network address
vars == <<table, dev, clc, cts, out, in, addr>>

Slot == 1 .. TableSize

\* _xbee_atcmd_query_regs, where AI stands for the registers before the ones
\* to refresh; past its last entry is the one that holds the final callback.
Regs == <<"AI", "NP", "MY">>
RefreshIdx == 2
RegAt(pos) == IF pos <= Len(Regs) THEN Regs[pos] ELSE "end"

Flag == {"INIT", "BEGIN", "DONE", "ERROR", "REFRESH", "INPROGRESS"}

Unused == [device |-> None, callback |-> "none", command |-> "",
           due |-> FALSE]

Init == /\ table = [s \in Slot |-> Unused]
        /\ dev = [d \in Device |->
                    [flags |-> {}, network |-> Undefined, joined |-> FALSE]]
        /\ clc = [base |-> None, pos |-> 1, status |-> "done"]
        /\ cts \in [Device -> BOOLEAN]
        /\ out = [d \in Device |-> <<>>]
        /\ in = [d \in Device |-> <<>>]
        /\ addr \in [Device -> Address \cup {Undefined}]

\* What the driver reads and writes. `ticked' is set once xbee_cmd_tick has run:
\* it does nothing when called again within a second, as it is when it calls
\* itself through a callback; a call from outside may be a second later.
Driver == [table |-> table, dev |-> dev, clc |-> clc, out |-> out, in |-> in,
           ticked |-> FALSE]

Become(h) == \E g \in {h} : /\ table' = g.table /\ dev' = g.dev
                            /\ clc' = g.clc /\ out' = g.out /\ in' = g.in

-----------------------------------------------------------------------------
(* The table *)

FreeSlots(h) == {s \in Slot : h.table[s].device = None}

\* What is on the wire q about other slots than s, in the same order.
Others(q, s) ==
   LET among[n \in 0 .. Len(q)] ==
          IF n = 0 THEN <<>>
          ELSE IF q[n].slot = s THEN among[n - 1]
          ELSE Append(among[n - 1], q[n])
   IN  among[Len(q)]

\* A frame id is the slot whose last command carries it. Once that slot is
\* released or sends again, what is still under way under the old id matches
\* no request, so it is left out. (Ids come from a counter to 255: an answer
\* later than 255 commands is not considered.)
Forget(h, s) == [h EXCEPT !.out = [d \in Device |-> Others(@[d], s)],
                          !.in = [d \in Device |-> Others(@[d], s)]]

\* Mutant: what is under way may match the slot's next request.
ReleaseOnly(h, s) == [h EXCEPT !.table[s] = Unused]

Release(h, s) == [Forget(h, s) EXCEPT !.table[s] = Unused]

\* xbee_cmd_send. When the module is not ready, or the serial buffer full, it
\* returns -EBUSY and the request stays as it is.
Send(h, s) ==
   LET r == h.table[s]
   IN  IF ~cts[r.device] THEN Forget(h, s)
       ELSE [Forget(h, s) EXCEPT
               !.out[r.device] = Append(@, [slot |-> s, command |-> r.command]),
               !.table[s].due = FALSE]

-----------------------------------------------------------------------------
(* The query *)

HasFlag(h, d, f) == f \in h.dev[d].flags
AddFlags(h, d, F) == [h EXCEPT !.dev[d].flags = @ \cup F]
DropFlags(h, d, F) == [h EXCEPT !.dev[d].flags = @ \ F]

\* xbee_cmd_list_execute up to the creation of a request, ...
BeginList(h, d, first) ==
   [h EXCEPT !.clc = [base |-> d, pos |-> first, status |-> "running"]]

\* Mutant: the request to refresh is forgotten before the query has started.
LaunchListEager(h, d, first) ==
   LET s == Min(FreeSlots(h))
       wanted == DropFlags(h, d, {"REFRESH"})
       g == Send([wanted EXCEPT !.table[s] = [Unused EXCEPT !.device = d,
                     !.callback = "list", !.command = Regs[first]]], s)
   IN  IF FreeSlots(h) = {} THEN wanted
       ELSE IF ~cts[d] THEN g
       ELSE DropFlags(AddFlags(g, d, {"BEGIN", "INPROGRESS"}), d, {"ERROR", "DONE"})

\* ... and the rest of it, with what xbee_cmd_query_device does on success. A
\* request that could not be sent stays in the table, callback included.
LaunchList(h, d, first) ==
   LET s == Min(FreeSlots(h))
       g == Send([h EXCEPT !.table[s] = [Unused EXCEPT !.device = d,
                     !.callback = "list", !.command = Regs[first]]], s)
   IN  IF FreeSlots(h) = {} THEN h
       ELSE IF ~cts[d] THEN g
       ELSE DropFlags(AddFlags(g, d, {"BEGIN", "INPROGRESS"}),
                      d, {"ERROR", "DONE", "REFRESH"})

First(refresh) == IF refresh THEN RefreshIdx ELSE 1

WantQuery(h, d, refresh) == IF refresh THEN AddFlags(h, d, {"REFRESH"}) ELSE h

\* xbee_cmd_query_device where a full table is final: called from
\* xbee_cmd_tick, which does not run again within a second.
QueryInTick(h, d, refresh) ==
   LET g == WantQuery(h, d, refresh)
   IN  IF HasFlag(h, d, "INPROGRESS") THEN g
       ELSE LaunchList(BeginList(g, d, First(refresh)), d, First(refresh))

\* Mutant: the query that ends is still marked as in progress.
EndQueryStillMarked(h, failed) ==
   AddFlags(h, h.clc.base, {IF failed THEN "ERROR" ELSE "DONE"})

\* _xbee_cmd_query_handle_end, up to the query it starts, ...
EndQuery(h, failed) ==
   LET d == h.clc.base
       g == AddFlags(DropFlags(h, d, {"INPROGRESS"}), d,
                     {IF failed THEN "ERROR" ELSE "DONE"})
       lost == /\ HasFlag(g, d, "ERROR")
               /\ g.dev[d].joined /\ g.dev[d].network = Undefined
   IN  IF lost THEN AddFlags(g, d, {"REFRESH"}) ELSE g

\* ... which it starts if there is something to refresh: here from xbee_cmd_tick.
EndInTick(h) ==
   LET g == EndQuery(h, TRUE)
   IN  IF HasFlag(g, g.clc.base, "REFRESH") THEN QueryInTick(g, g.clc.base, TRUE) ELSE g

\* xbee_cmd_tick for one request: `keep' is what the application's callbacks
\* return, TRUE for XBEE_ATCMD_REUSE.
Expire(h, s, keep) ==
   LET d == h.table[s].device
       called == IF h.table[s].callback = "list"
                 THEN EndInTick([h EXCEPT !.clc.status = "timeout"])
                 ELSE h
       freed == Release(called, s)
   IN  IF ~h.table[s].due \/ (h.table[s].callback = "user" /\ keep) THEN h
       ELSE IF HasFlag(freed, d, "REFRESH") THEN QueryInTick(freed, d, TRUE)
       ELSE freed

Tick(h, keep) ==
   LET after[s \in 0 .. TableSize] == IF s = 0 THEN [h EXCEPT !.ticked = TRUE]
                                      ELSE Expire(after[s - 1], s, keep)
   IN  IF h.ticked THEN h ELSE after[TableSize]

\* xbee_cmd_create makes room by a call to xbee_cmd_tick.
MakeRoom(h, keep) == IF FreeSlots(h) = {} THEN Tick(h, keep) ELSE h

\* xbee_cmd_query_device on a device the layer has been initialized for
QueryReady(h, d, refresh, keep) ==
   LET g == WantQuery(h, d, refresh)
   IN  IF HasFlag(h, d, "INPROGRESS") THEN g
       ELSE LaunchList(MakeRoom(BeginList(g, d, First(refresh)), keep), d, First(refresh))

\* xbee_cmd_init_device, which xbee_cmd_create calls when nobody has.
InitDevice(h, d, keep) ==
   LET g == AddFlags(h, d, {"INIT"})
   IN  IF HasFlag(h, d, "INIT") THEN h
       ELSE IF HasFlag(h, d, "BEGIN") THEN g
       ELSE QueryReady(g, d, FALSE, keep)

\* xbee_cmd_query_device
Query(h, d, refresh, keep) ==
   LET g == WantQuery(h, d, refresh)
       created == MakeRoom(InitDevice(BeginList(g, d, First(refresh)), d, keep), keep)
   IN  IF HasFlag(h, d, "INPROGRESS") THEN g
       ELSE LaunchList(created, d, First(refresh))

\* _xbee_cmd_query_handle_end, called for an answer
EndOnAnswer(h, failed, keep) ==
   LET g == EndQuery(h, failed)
   IN  IF HasFlag(g, g.clc.base, "REFRESH") THEN Query(g, g.clc.base, TRUE, keep) ELSE g

\* Mutant: any association indication is success.
HandleAIAny(h, value) == [h EXCEPT !.dev[h.clc.base].joined = TRUE]

\* _xbee_cmd_query_handle_ai: an association indication of 0 is success.
HandleAI(h, value) == IF value = "0" THEN [h EXCEPT !.dev[h.clc.base].joined = TRUE] ELSE h

\* _xbee_cmd_list_callback with an answer to a command other than the one the
\* list is at: whatever callback that entry has is called, and the list ends.
Mismatch(h, value, keep) ==
   LET g == [h EXCEPT !.clc.status = "error"]
   IN  CASE RegAt(h.clc.pos) = "AI"  -> HandleAI(g, value)
         [] RegAt(h.clc.pos) = "end" -> EndOnAnswer(g, TRUE, keep)
         [] OTHER -> g

\* ... and with an answer to that one: note it, and go on to the next. The
\* request is sent again, and kept although that may have failed.
Advance(h, s, value, keep) ==
   LET copied == CASE RegAt(h.clc.pos) = "AI" -> HandleAI(h, value)
                   [] RegAt(h.clc.pos) = "MY" -> [h EXCEPT !.dev[h.clc.base].network = value]
                   [] OTHER -> h
       g == [copied EXCEPT !.clc.pos = @ + 1]
       sent == Send([g EXCEPT !.table[s].command = RegAt(g.clc.pos)], s)
   IN  IF g.clc.pos <= Len(Regs)
       THEN [sent EXCEPT !.table[s].due = FALSE]
       ELSE Release(EndOnAnswer([g EXCEPT !.clc.status = "done"], FALSE, keep), s)

ListCallback(h, s, value, keep) ==
   IF h.table[s].command = RegAt(h.clc.pos) THEN Advance(h, s, value, keep)
   ELSE Release(Mismatch(h, value, keep), s)

-----------------------------------------------------------------------------
(* Calls of the application *)

Requests == {s \in Slot : table[s].callback = "user"}

CmdInit(d) == /\ \E keep \in BOOLEAN : Become(InitDevice(Driver, d, keep))
              /\ UNCHANGED <<cts, addr>>

CmdQuery(d) == /\ \E refresh, keep \in BOOLEAN : Become(Query(Driver, d, refresh, keep))
               /\ UNCHANGED <<cts, addr>>

CmdTick == /\ \E keep \in BOOLEAN : Become(Tick(Driver, keep))
           /\ UNCHANGED <<cts, addr>>

\* xbee_cmd_create, and xbee_cmd_set_callback
Create(d) ==
   /\ Cardinality(Requests) < UserSlots
   /\ \E keep \in BOOLEAN :
        LET h == MakeRoom(InitDevice(Driver, d, keep), keep)
        IN  Become(IF FreeSlots(h) = {} THEN h
                   ELSE [h EXCEPT !.table[Min(FreeSlots(h))] =
                            [Unused EXCEPT !.device = d, !.callback = "user", !.command = "ND"]])
   /\ UNCHANGED <<cts, addr>>

SendRequest(s) == /\ s \in Requests
                  /\ Become(Send(Driver, s))
                  /\ UNCHANGED <<cts, addr>>

ReleaseHandle(s) == /\ s \in Requests
                    /\ Become(Release(Driver, s))
                    /\ UNCHANGED <<cts, addr>>

-----------------------------------------------------------------------------
(* Frames from a module *)

\* _xbee_cmd_handle_response
HandleResponse(h, m, keep) ==
   CASE h.table[m.slot].command # m.command -> h
     [] h.table[m.slot].callback = "list" -> ListCallback(h, m.slot, m.value, keep)
     [] h.table[m.slot].callback = "user" ->
          IF keep THEN [h EXCEPT !.table[m.slot].due = FALSE] ELSE Release(h, m.slot)

\* _xbee_dev_modem_status, then _xbee_cmd_modem_status
ModemStatus(h, d, m, keep) ==
   CASE m.command = "joined" ->
          Query([h EXCEPT !.dev[d].joined = TRUE], d, TRUE, keep)
     [] m.command = "disassociated" ->
          [h EXCEPT !.dev[d].joined = FALSE, !.dev[d].network = Undefined]

IsStatus(m) == m.command \in {"joined", "disassociated"}

Receive(d) ==
   /\ in[d] # <<>>
   /\ LET m == Head(in[d])
          h == [Driver EXCEPT !.in[d] = Tail(@)]
      IN  /\ ~(LateAnswers \/ IsStatus(m)) => ~table[m.slot].due
          /\ \E keep \in BOOLEAN :
               Become(IF IsStatus(m) THEN ModemStatus(h, d, m, keep)
                      ELSE HandleResponse(h, m, keep))
   /\ UNCHANGED <<cts, addr>>

-----------------------------------------------------------------------------
(* Time, the wires and the modules *)

Elapse(s) == /\ table[s].device # None /\ ~table[s].due
             /\ table' = [table EXCEPT ![s].due = TRUE]
             /\ UNCHANGED <<dev, clc, cts, out, in, addr>>

ToggleCts(d) == /\ cts' = [cts EXCEPT ![d] = ~@]
                /\ UNCHANGED <<table, dev, clc, out, in, addr>>

Answered(d, m) ==
   [slot |-> m.slot, command |-> m.command,
    value |-> CASE m.command = "AI" -> IF addr[d] = Undefined THEN "1" ELSE "0"
                [] m.command = "MY" -> addr[d]
                [] OTHER -> "1"]

Answer(d) ==
   /\ out[d] # <<>>
   /\ out' = [out EXCEPT ![d] = Tail(@)]
   /\ in' = [in EXCEPT ![d] = Append(@, Answered(d, Head(out[d])))]
   /\ UNCHANGED <<table, dev, clc, cts, addr>>

LoseAnswer(d) == /\ in[d] # <<>> /\ ~IsStatus(Head(in[d]))
                 /\ in' = [in EXCEPT ![d] = Tail(@)]
                 /\ UNCHANGED <<table, dev, clc, cts, out, addr>>

Report(d, status) ==
   /\ Len(in[d]) < WireSize
   /\ in' = [in EXCEPT ![d] = Append(@, [slot |-> 0, command |-> status, value |-> "1"])]

Join(d) == /\ \E a \in Address \ {addr[d]} : addr' = [addr EXCEPT ![d] = a]
           /\ Report(d, "joined")
           /\ UNCHANGED <<table, dev, clc, cts, out>>

Leave(d) == /\ addr[d] # Undefined
            /\ addr' = [addr EXCEPT ![d] = Undefined]
            /\ Report(d, "disassociated")
            /\ UNCHANGED <<table, dev, clc, cts, out>>

-----------------------------------------------------------------------------

Next == \/ CmdTick
        \/ \E s \in Slot : \/ SendRequest(s) \/ ReleaseHandle(s) \/ Elapse(s)
        \/ \E d \in Device : \/ CmdInit(d) \/ CmdQuery(d) \/ Create(d)
                             \/ Receive(d) \/ Answer(d) \/ ToggleCts(d)
                             \/ LoseAnswer(d)
                             \/ Join(d) \/ Leave(d)

Spec == Init /\ [][Next]_vars

\* For RefreshServed. Time passes, and the application calls xbee_cmd_tick again
\* and again: no query's request stays overdue.
Overdue(s) == table[s].due /\ table[s].callback = "list"

FairSpec == /\ Spec
            /\ \A s \in Slot : WF_vars(Elapse(s)) /\ []<>~Overdue(s)

-----------------------------------------------------------------------------
(* Properties *)

TypeOK ==
   /\ table \in [Slot -> [device : Device \cup {None}, callback : {"none", "user", "list"},
                          command : Range(Regs) \cup {"", "ND"},
                          due : BOOLEAN]]
   /\ dev \in [Device -> [flags : SUBSET Flag, network : Address \cup {Undefined},
                          joined : BOOLEAN]]
   /\ clc \in [base : Device \cup {None}, pos : 1 .. Len(Regs) + 1,
               status : {"running", "done", "timeout", "error"}]
   /\ cts \in [Device -> BOOLEAN]
   /\ addr \in [Device -> Address \cup {Undefined}]
   /\ \A d \in Device : \A m \in Range(out[d]) \cup Range(in[d]) :
         m.slot # 0 => table[m.slot].device = d /\ table[m.slot].command = m.command

\* A device whose query is marked as in progress has a request in the table
\* that will end it, by an answer or by its timeout: the one the list is at.
QueryTracked ==
   \A d \in Device : "INPROGRESS" \in dev[d].flags =>
      \E s \in Slot : /\ table[s].device = d /\ table[s].callback = "list"
                      /\ clc.base = d /\ table[s].command = RegAt(clc.pos)

\* Once a query has succeeded, nothing more is to be refreshed and no status
\* frame is on its way, the device has the module's network address, however
\* often the module changed it while the query went on.
Settled(d) == /\ "DONE" \in dev[d].flags
              /\ dev[d].flags \cap {"REFRESH", "INPROGRESS"} = {}
              /\ \A m \in Range(in[d]) : ~IsStatus(m)

AddressFresh == \A d \in Device : Settled(d) => dev[d].network = addr[d]

\* A device believed to be joined is, or news that it is not are on their way.
JoinedTrue ==
   \A d \in Device : dev[d].joined =>
      \/ addr[d] # Undefined
      \/ \E m \in Range(in[d]) : m.command = "disassociated"

\* A refresh that has been asked for is started: the table does not stay full
\* and a failed attempt is repeated, once the module is ready to receive. Not so:
\* a query that ends wants the next one while its own request still has a slot,
\* and with the other slot used by the application nothing tries again.
RefreshServed ==
   \A d \in Device :
      <>[]cts[d] => ("REFRESH" \in dev[d].flags ~> "REFRESH" \notin dev[d].flags)
=============================================================================
