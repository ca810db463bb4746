--------------------------- MODULE XbeeAtcmd_proof ---------------------------
(***************************************************************************)
(* Proofs about the AT command layer (XbeeAtcmd): whatever calls nest in   *)
(* which order, what is under way matches its request; with one device, it *)
(* is believed to be joined only rightly, has the module's address once    *)
(* its query has settled and, if no answer comes after its request's time, *)
(* has a request that will end its query. For any size of the table.       *)
(***************************************************************************)
EXTENDS XbeeAtcmd, WellFoundedInduction, SequenceTheorems, TLAPS

-----------------------------------------------------------------------------
(* The invariant. It speaks about the driver's state h, as the operators   *)
(* do, so that it can be followed through the calls that nest.             *)

Command == {"AI", "NP", "MY", "", "ND"}
Status == {"joined", "disassociated"}
Network == Address \cup {Undefined}

Request == [device : Device \cup {None}, callback : {"none", "user", "list"},
            command : Command, due : BOOLEAN]
State == [flags : SUBSET Flag, network : Network, joined : BOOLEAN]
List == [base : Device \cup {None}, pos : 1 .. 4,
         status : {"running", "done", "timeout", "error"}]
Asked == [slot : Slot, command : Command]
Frame == [slot : 0 .. TableSize, command : Command \cup Status,
          value : Network \cup {"0", "1"}]
Drivers == [table : [Slot -> Request], dev : [Device -> State], clc : List,
            out : [Device -> Seq(Asked)], in : [Device -> Seq(Frame)],
            ticked : BOOLEAN]

\* What is under way about the slots S matches the request that is there.
Matched(h, S) ==
   \A d \in Device :
      /\ \A k \in 1 .. Len(h.out[d]) : LET m == h.out[d][k] IN m.slot \in S =>
            h.table[m.slot].device = d /\ h.table[m.slot].command = m.command
      /\ \A k \in 1 .. Len(h.in[d]) : LET m == h.in[d][k] IN m.slot \in S =>
            h.table[m.slot].device = d /\ h.table[m.slot].command = m.command

\* Only status frames are about no slot, and only addresses answer MY.
Framed(h) ==
   \A d \in Device : \A k \in 1 .. Len(h.in[d]) :
      LET m == h.in[d][k] IN /\ m.slot = 0 <=> m.command \in Status
                             /\ m.command = "MY" => m.value \in Network

\* A slot in use has a callback, only such a slot has a timeout, and the list's
\* has a device to write to.
Used(h) == \A s \in Slot : /\ h.table[s].device = None <=> h.table[s].callback = "none"
                           /\ h.table[s].due => h.table[s].device # None
                           /\ h.table[s].callback = "list" => h.clc.base \in Device

\* A frame with one of the commands C comes behind frame k.
Later(q, k, C) == \E j \in 1 .. Len(q) : j > k /\ q[j].command \in C

\* A frame says what is so, or a status frame behind it corrects it.
News(h) ==
   \A d \in Device : \A k \in 1 .. Len(h.in[d]) :
      LET q == h.in[d]
      IN /\ q[k].command = "MY" => q[k].value = addr[d] \/ Later(q, k, Status)
         /\ q[k].command = "joined" \/ q[k].value = "0" =>
               addr[d] # Undefined \/ Later(q, k, {"disassociated"})
         /\ q[k].command = "disassociated" => addr[d] = Undefined \/ Later(q, k, Status)

Sound(h, S) == h \in Drivers /\ Matched(h, S) /\ Framed(h) /\ Used(h) /\ News(h)

\* What the driver believes about the module, unless a status frame comes.
Corrected(h, d, C) == Later(h.in[d], 0, C)
Current(h, d) == h.dev[d].network = addr[d] \/ Corrected(h, d, Status)
Known(h, d) == h.dev[d].joined => addr[d] # Undefined \/ Corrected(h, d, {"disassociated"})
Fresh(h, d) == HasFlag(h, d, "DONE") /\ ~HasFlag(h, d, "REFRESH") => Current(h, d)
True(h) == \A d \in Device : Known(h, d) /\ Fresh(h, d)

\* The request in slot s is the one the list is at.
Tracks(h, d, s) == /\ h.table[s].device = d /\ h.table[s].callback = "list"
                   /\ h.clc.base = d /\ h.table[s].command = RegAt(h.clc.pos)

\* A query in progress has such a request in another slot than e.
Tracked(h, e) == \A d \in Device : HasFlag(h, d, "INPROGRESS") =>
                                      \E s \in Slot \ {e} : Tracks(h, d, s)

\* One list context serves one device.
OneDevice == \A c, d \in Device : c = d

AtInv == /\ Sound(Driver, Slot)
         /\ cts \in [Device -> BOOLEAN] /\ addr \in [Device -> Network]
         /\ OneDevice => True(Driver)
         /\ OneDevice /\ ~LateAnswers => Tracked(Driver, 0)

-----------------------------------------------------------------------------
(* What is on the wire about other slots *)

\* Every set of numbers has a smallest one.
LEMMA LeastNat ==
  ASSUME NEW T \in SUBSET Nat, T # {}
  PROVE  \E m \in T : \A k \in T : m <= k
<1> DEFINE R == OpToRel(<, Nat)
<1>1. \E x \in T : \A y \in T : ~ (<<y, x>> \in R)
  BY NatLessThanWellFounded, WFMin
<1>2. R = {ss \in Nat \X Nat : ss[1] < ss[2]}
  BY Zenon DEF OpToRel
<1> HIDE DEF R
<1>3. \A x, y \in Nat : <<y, x>> \notin R => x <= y
  BY <1>2
<1> QED BY <1>1, <1>3

LEMMA MinIn ==
  ASSUME NEW T \in SUBSET Nat, T # {}
  PROVE  Min(T) \in T
<1>1. \E m \in T : \A k \in T : m <= k
  BY LeastNat
<1>2. \E x \in T : \A y \in T : x <= y
  BY <1>1
<1> QED BY <1>2, Zenon DEF Min

\* p has what q has about other slots than s, up to the n-th, in this order:
\* its k-th is q's at[k]-th.
Picked(p, q, n, s, at) ==
   /\ at \in [1 .. Len(p) -> 1 .. n]
   /\ \A k \in 1 .. Len(p) : p[k] = q[at[k]] /\ q[at[k]].slot # s
   /\ \A k, m \in 1 .. Len(p) : k < m => at[k] < at[m]
   /\ \A j \in 1 .. n : q[j].slot # s => \E k \in 1 .. Len(p) : at[k] = j

Among(f, q, n, s) ==
   f = [i \in 0 .. n |-> IF i = 0 THEN <<>>
                         ELSE IF q[i].slot = s THEN f[i - 1]
                         ELSE Append(f[i - 1], q[i])]

LEMMA AmongExists ==
  ASSUME NEW S, NEW q \in Seq(S), NEW s
  PROVE  \E f : Among(f, q, Len(q), s)
<1> DEFINE T == {n \in 0 .. Len(q) : ~ \E f : Among(f, q, n, s)}
<1>1. Len(q) \in Nat
  BY LenProperties
<1> SUFFICES ASSUME T # {} PROVE FALSE
  BY <1>1
<1>2. PICK n \in T : \A k \in T : n <= k
  <2>1. T \in SUBSET Nat
    BY <1>1
  <2> HIDE DEF T
  <2> QED BY <2>1, LeastNat
<1>3. CASE n = 0
  <2> DEFINE f == [i \in 0 .. 0 |-> <<>>]
  <2>1. Among(f, q, 0, s)
    BY DEF Among
  <2> QED BY <1>2, <1>3, <2>1
<1>4. CASE n # 0
  <2>1. n - 1 \in 0 .. Len(q) /\ n - 1 \notin T /\ n \in Nat \ {0}
    BY <1>1, <1>2, <1>4
  <2>2. PICK g : Among(g, q, n - 1, s)
    BY <2>1
  <2> DEFINE step(h, i) == IF i = 0 THEN <<>>
                           ELSE IF q[i].slot = s THEN h[i - 1]
                           ELSE Append(h[i - 1], q[i])
             f == [i \in 0 .. n |-> step(g, i)]
  <2>3. g = [i \in 0 .. n - 1 |-> step(g, i)]
    BY <2>2 DEF Among
  <2> HIDE DEF step
  <2>4. \A i \in 0 .. n - 1 : f[i] = g[i]
    BY <2>1, <2>3
  <2>5. \A i \in 0 .. n : step(f, i) = step(g, i)
    <3> TAKE i \in 0 .. n
    <3>1. CASE i = 0
      BY <3>1 DEF step
    <3>2. CASE i # 0
      <4>1. f[i - 1] = g[i - 1]
        BY <2>1, <2>4, <3>2
      <4> HIDE DEF f
      <4> QED BY <4>1 DEF step
    <3> QED BY <3>1, <3>2
  <2>6. f = [i \in 0 .. n |-> step(f, i)]
    BY <2>5
  <2>7. Among(f, q, n, s)
    BY <2>6 DEF Among, step
  <2> QED BY <1>2, <2>7
<1> QED BY <1>3, <1>4

LEMMA OthersFacts ==
  ASSUME NEW S, NEW q \in Seq(S), NEW s
  PROVE  /\ Others(q, s) \in Seq(S)
         /\ \E at : Picked(Others(q, s), q, Len(q), s, at)
<1>1. Len(q) \in Nat /\ \A n \in 1 .. Len(q) : q[n] \in S
  BY LenProperties, ElementOfSeq
<1>2. PICK f : Among(f, q, Len(q), s) /\ Others(q, s) = f[Len(q)]
  <2>1. \E f : Among(f, q, Len(q), s)
    BY AmongExists
  <2> QED BY <2>1, Zenon DEF Among, Others
<1> DEFINE Good(n) == f[n] \in Seq(S) /\ \E at : Picked(f[n], q, n, s, at)
           T == {n \in 0 .. Len(q) : ~ Good(n)}
<1>3. \A n \in 0 .. Len(q) : f[n] = IF n = 0 THEN <<>>
                                    ELSE IF q[n].slot = s THEN f[n - 1]
                                    ELSE Append(f[n - 1], q[n])
  BY <1>2 DEF Among
<1>4. Good(0)
  <2>1. f[0] = <<>>
    BY <1>1, <1>3
  <2>2. \E at : Picked(<<>>, q, 0, s, at)
    <3>1. Picked(<<>>, q, 0, s, <<>>)
      BY DEF Picked
    <3> QED BY <3>1
  <2> QED BY <2>1, <2>2
<1>5. ASSUME NEW n \in 1 .. Len(q), Good(n - 1) PROVE Good(n)
  <2> DEFINE p == f[n - 1]
  <2>1. PICK at : Picked(p, q, n - 1, s, at)
    BY <1>5
  <2>2. p \in Seq(S) /\ Len(p) \in Nat /\ n \in Nat /\ n - 1 \in Nat
    BY <1>1, <1>5, LenProperties
  <2>3. f[n] = IF q[n].slot = s THEN p ELSE Append(p, q[n])
    BY <1>3
  <2> HIDE DEF p
  <2>4. CASE q[n].slot = s
    <3>1. Picked(p, q, n, s, at)
      BY <2>1, <2>2, <2>4 DEF Picked
    <3> QED BY <2>2, <2>3, <2>4, <3>1
  <2>5. CASE q[n].slot # s
    <3> DEFINE pp == Append(p, q[n])
               to == [k \in 1 .. Len(p) + 1 |-> IF k <= Len(p) THEN at[k] ELSE n]
    <3>1. /\ pp \in Seq(S) /\ Len(pp) = Len(p) + 1 /\ pp[Len(p) + 1] = q[n]
          /\ \A k \in 1 .. Len(p) : pp[k] = p[k]
      BY <1>1, <2>2, AppendProperties
    <3> HIDE DEF pp
    <3>2. /\ to \in [1 .. Len(p) + 1 -> 1 .. n] /\ to[Len(p) + 1] = n
          /\ \A k \in 1 .. Len(p) : to[k] = at[k] /\ at[k] \in 1 .. n - 1
      <4>1. \A k \in 1 .. Len(p) : at[k] \in 1 .. n - 1
        BY <2>1 DEF Picked
      <4>2. \A k \in 1 .. Len(p) + 1 : /\ k <= Len(p) => k \in 1 .. Len(p)
                                       /\ ~ k <= Len(p) => k = Len(p) + 1
        BY <2>2
      <4>3. \A k \in 1 .. Len(p) + 1 : to[k] \in 1 .. n
        BY <2>2, <4>1, <4>2
      <4>4. \A k \in 1 .. Len(p) : k \in 1 .. Len(p) + 1 /\ k <= Len(p)
        BY <2>2
      <4>5. Len(p) + 1 \in 1 .. Len(p) + 1 /\ ~ Len(p) + 1 <= Len(p)
        BY <2>2
      <4> QED BY <4>1, <4>3, <4>4, <4>5
    <3> HIDE DEF to
    <3>3. \A k \in 1 .. Len(pp) : k \in 1 .. Len(p) \/ k = Len(p) + 1
      BY <2>2, <3>1
    <3>4. \A k \in 1 .. Len(pp) : pp[k] = q[to[k]] /\ q[to[k]].slot # s
      BY <2>1, <2>5, <3>1, <3>2, <3>3 DEF Picked
    <3>5. \A k, m \in 1 .. Len(pp) : k < m => to[k] < to[m]
      BY <2>1, <2>2, <3>2, <3>3 DEF Picked
    <3>6. ASSUME NEW j \in 1 .. n, q[j].slot # s PROVE \E k \in 1 .. Len(pp) : to[k] = j
      <4>1. CASE j = n
        BY <2>2, <3>1, <3>2, <4>1
      <4>2. CASE j # n
        <5>1. j \in 1 .. n - 1
          BY <2>2, <4>2
        <5>2. PICK k \in 1 .. Len(p) : at[k] = j
          BY <2>1, <3>6, <5>1 DEF Picked
        <5>3. k \in 1 .. Len(pp) /\ to[k] = at[k]
          BY <2>2, <3>1, <3>2
        <5> QED BY <5>2, <5>3
      <4> QED BY <4>1, <4>2
    <3>7. Picked(pp, q, n, s, to)
      BY <3>1, <3>2, <3>4, <3>5, <3>6 DEF Picked
    <3> QED BY <2>3, <2>5, <3>1, <3>7 DEF pp
  <2> QED BY <2>4, <2>5
<1> HIDE DEF Good
<1>6. T = {}
  <2> SUFFICES ASSUME T # {} PROVE FALSE
    OBVIOUS
  <2>1. PICK n \in T : \A k \in T : n <= k
    <3>1. T \in SUBSET Nat
      BY <1>1
    <3> HIDE DEF T
    <3> QED BY <3>1, LeastNat
  <2>2. n # 0 /\ n \in 1 .. Len(q) /\ n - 1 \in 0 .. Len(q) /\ n - 1 \notin T
    BY <1>1, <1>4, <2>1
  <2> QED BY <1>5, <2>1, <2>2
<1>7. Good(Len(q))
  BY <1>1, <1>6
<1> QED BY <1>2, <1>7 DEF Good

-----------------------------------------------------------------------------
(* The table and the wires *)

\* Nothing is under way about slot s.
Quiet(h, s) == \A d \in Device : /\ \A k \in 1 .. Len(h.out[d]) : h.out[d][k].slot # s
                                 /\ \A k \in 1 .. Len(h.in[d]) : h.in[d][k].slot # s

\* Status frames under way in h are under way in g.
Wires(h, g) ==
   \A d \in Device : \A C \in SUBSET Status : Corrected(h, d, C) => Corrected(g, d, C)

\* What the driver believes in h may be believed in g.
Keeps(h, g) == OneDevice => /\ True(h) => True(g)
                            /\ \A d \in Device : Current(h, d) => Current(g, d)

LEMMA SameBelief ==
  ASSUME NEW h, NEW g, Wires(h, g), g.dev = h.dev
  PROVE  Keeps(h, g)
<1>1. \A d \in Device : /\ Corrected(h, d, Status) => Corrected(g, d, Status)
                        /\ Corrected(h, d, {"disassociated"}) =>
                              Corrected(g, d, {"disassociated"})
  BY DEF Wires, Status
<1> QED BY <1>1 DEF Keeps, True, Known, Fresh, Current, HasFlag

LEMMA SlotFacts == Slot \in SUBSET Nat /\ 0 \notin Slot /\ Slot \subseteq 0 .. TableSize
BY SizeAssumption DEF Slot

LEMMA WireFacts ==
  ASSUME NEW h \in Drivers, NEW d \in Device
  PROVE  /\ h.out[d] \in Seq(Asked) /\ h.in[d] \in Seq(Frame)
         /\ Len(h.out[d]) \in Nat /\ Len(h.in[d]) \in Nat
         /\ \A k \in 1 .. Len(h.out[d]) : h.out[d][k] \in Asked
         /\ \A k \in 1 .. Len(h.in[d]) : h.in[d][k] \in Frame
<1>1. h.out[d] \in Seq(Asked) /\ h.in[d] \in Seq(Frame)
  BY DEF Drivers
<1> QED BY <1>1, LenProperties, ElementOfSeq

LEMMA ForgetFields ==
  ASSUME NEW h \in Drivers, NEW s
  PROVE  /\ Forget(h, s) \in Drivers
         /\ Forget(h, s).table = h.table /\ Forget(h, s).dev = h.dev
         /\ Forget(h, s).clc = h.clc /\ Forget(h, s).ticked = h.ticked
         /\ \A d \in Device : /\ Forget(h, s).out[d] = Others(h.out[d], s)
                              /\ Forget(h, s).in[d] = Others(h.in[d], s)
<1>1. \A d \in Device : /\ Others(h.out[d], s) \in Seq(Asked)
                        /\ Others(h.in[d], s) \in Seq(Frame)
  BY WireFacts, OthersFacts
<1>2. \A d \in Device : d \in DOMAIN h.out /\ d \in DOMAIN h.in
  BY DEF Drivers
<1> QED BY <1>1, <1>2 DEF Forget, Drivers

LEMMA ForgetSound ==
  ASSUME NEW h, NEW s \in Slot, Sound(h, Slot \ {s})
  PROVE  /\ Sound(Forget(h, s), Slot)
         /\ Quiet(Forget(h, s), s)
         /\ Wires(h, Forget(h, s)) /\ Keeps(h, Forget(h, s))
<1> DEFINE g == Forget(h, s)
<1>1. h \in Drivers /\ Matched(h, Slot \ {s}) /\ Framed(h) /\ Used(h) /\ News(h)
  BY DEF Sound
<1>2. /\ g \in Drivers /\ g.table = h.table /\ g.dev = h.dev
      /\ g.clc = h.clc /\ g.ticked = h.ticked
      /\ \A d \in Device : g.out[d] = Others(h.out[d], s) /\ g.in[d] = Others(h.in[d], s)
  BY <1>1, ForgetFields
<1> HIDE DEF g
<1>3. \A d \in Device : /\ \E at : Picked(g.out[d], h.out[d], Len(h.out[d]), s, at)
                        /\ \E at : Picked(g.in[d], h.in[d], Len(h.in[d]), s, at)
  BY <1>1, <1>2, WireFacts, OthersFacts
<1>4. ASSUME NEW d \in Device
      PROVE  \A k \in 1 .. Len(g.out[d]) :
                /\ g.out[d][k].slot # s
                /\ \E j \in 1 .. Len(h.out[d]) : g.out[d][k] = h.out[d][j]
  <2>1. PICK at : Picked(g.out[d], h.out[d], Len(h.out[d]), s, at)
    BY <1>3
  <2>2. ASSUME NEW k \in 1 .. Len(g.out[d])
        PROVE  /\ g.out[d][k] = h.out[d][at[k]] /\ h.out[d][at[k]].slot # s
               /\ at[k] \in 1 .. Len(h.out[d])
    BY <2>1 DEF Picked
  <2> QED BY <2>2
<1>5. ASSUME NEW d \in Device
      PROVE  \A k \in 1 .. Len(g.in[d]) :
                /\ g.in[d][k].slot # s
                /\ \E j \in 1 .. Len(h.in[d]) :
                      /\ g.in[d][k] = h.in[d][j]
                      /\ \A C \in SUBSET Status : Later(h.in[d], j, C) => Later(g.in[d], k, C)
  <2>1. PICK at : Picked(g.in[d], h.in[d], Len(h.in[d]), s, at)
    BY <1>3
  <2>2. Len(g.in[d]) \in Nat /\ Len(h.in[d]) \in Nat
    BY <1>1, <1>2, WireFacts
  <2>3. ASSUME NEW k \in 1 .. Len(g.in[d]), NEW C \in SUBSET Status,
               Later(h.in[d], at[k], C)
        PROVE  Later(g.in[d], k, C)
    <3>1. PICK j \in 1 .. Len(h.in[d]) : j > at[k] /\ h.in[d][j].command \in C
      BY <2>3 DEF Later
    <3>2. h.in[d][j].slot # s
      BY <1>1, <3>1, SlotFacts DEF Framed
    <3>3. PICK m \in 1 .. Len(g.in[d]) : at[m] = j
      BY <2>1, <3>2 DEF Picked
    <3>4. m > k
      <4>1. at[k] \in 1 .. Len(h.in[d]) /\ at[m] \in 1 .. Len(h.in[d])
        BY <2>1 DEF Picked
      <4>2. m < k => at[m] < at[k]
        BY <2>1 DEF Picked
      <4> QED BY <2>2, <3>1, <3>3, <4>1, <4>2
    <3>5. g.in[d][m] = h.in[d][j]
      BY <2>1, <3>3 DEF Picked
    <3> QED BY <3>1, <3>4, <3>5 DEF Later
  <2> QED BY <2>1, <2>3 DEF Picked
<1>6. Quiet(g, s)
  BY <1>4, <1>5 DEF Quiet
<1>7. Matched(g, Slot)
  <2> SUFFICES ASSUME NEW d \in Device
               PROVE  /\ \A k \in 1 .. Len(g.out[d]) : g.out[d][k].slot \in Slot =>
                            /\ g.table[g.out[d][k].slot].device = d
                            /\ g.table[g.out[d][k].slot].command = g.out[d][k].command
                      /\ \A k \in 1 .. Len(g.in[d]) : g.in[d][k].slot \in Slot =>
                            /\ g.table[g.in[d][k].slot].device = d
                            /\ g.table[g.in[d][k].slot].command = g.in[d][k].command
    BY DEF Matched
  <2>1. /\ \A k \in 1 .. Len(h.out[d]) : h.out[d][k].slot \in Slot \ {s} =>
              /\ h.table[h.out[d][k].slot].device = d
              /\ h.table[h.out[d][k].slot].command = h.out[d][k].command
        /\ \A k \in 1 .. Len(h.in[d]) : h.in[d][k].slot \in Slot \ {s} =>
              /\ h.table[h.in[d][k].slot].device = d
              /\ h.table[h.in[d][k].slot].command = h.in[d][k].command
    BY <1>1 DEF Matched
  <2>2. ASSUME NEW k \in 1 .. Len(g.out[d]), g.out[d][k].slot \in Slot
        PROVE  /\ g.table[g.out[d][k].slot].device = d
               /\ g.table[g.out[d][k].slot].command = g.out[d][k].command
    <3>1. PICK j \in 1 .. Len(h.out[d]) : g.out[d][k] = h.out[d][j]
      BY <1>4
    <3>2. g.out[d][k].slot # s
      BY <1>4
    <3> QED BY <1>2, <2>1, <2>2, <3>1, <3>2
  <2>3. ASSUME NEW k \in 1 .. Len(g.in[d]), g.in[d][k].slot \in Slot
        PROVE  /\ g.table[g.in[d][k].slot].device = d
               /\ g.table[g.in[d][k].slot].command = g.in[d][k].command
    <3>1. PICK j \in 1 .. Len(h.in[d]) : g.in[d][k] = h.in[d][j]
      BY <1>5
    <3>2. g.in[d][k].slot # s
      BY <1>5
    <3> QED BY <1>2, <2>1, <2>3, <3>1, <3>2
  <2> QED BY <2>2, <2>3
<1>8. Framed(g)
  <2> SUFFICES ASSUME NEW d \in Device, NEW k \in 1 .. Len(g.in[d])
               PROVE  /\ g.in[d][k].slot = 0 <=> g.in[d][k].command \in Status
                      /\ g.in[d][k].command = "MY" => g.in[d][k].value \in Network
    BY DEF Framed
  <2>1. PICK j \in 1 .. Len(h.in[d]) : g.in[d][k] = h.in[d][j]
    BY <1>5
  <2>2. /\ h.in[d][j].slot = 0 <=> h.in[d][j].command \in Status
        /\ h.in[d][j].command = "MY" => h.in[d][j].value \in Network
    BY <1>1 DEF Framed
  <2> QED BY <2>1, <2>2
<1>9. Used(g)
  BY <1>1, <1>2 DEF Used
<1>10. News(g)
  <2> SUFFICES ASSUME NEW d \in Device, NEW k \in 1 .. Len(g.in[d])
               PROVE  LET q == g.in[d]
                      IN /\ q[k].command = "MY" => q[k].value = addr[d] \/ Later(q, k, Status)
                         /\ q[k].command = "joined" \/ q[k].value = "0" =>
                               addr[d] # Undefined \/ Later(q, k, {"disassociated"})
                         /\ q[k].command = "disassociated" =>
                               addr[d] = Undefined \/ Later(q, k, Status)
    BY DEF News
  <2>1. PICK j \in 1 .. Len(h.in[d]) :
                /\ g.in[d][k] = h.in[d][j]
                /\ \A C \in SUBSET Status : Later(h.in[d], j, C) => Later(g.in[d], k, C)
    BY <1>5
  <2>2. {"disassociated"} \in SUBSET Status /\ Status \in SUBSET Status
    BY DEF Status
  <2> QED BY <1>1, <2>1, <2>2 DEF News
<1>11. Wires(h, g)
  <2> SUFFICES ASSUME NEW d \in Device, NEW C \in SUBSET Status,
                      Later(h.in[d], 0, C)
               PROVE  Later(g.in[d], 0, C)
    BY DEF Wires, Corrected
  <2>1. PICK j \in 1 .. Len(h.in[d]) : h.in[d][j].command \in C
    BY DEF Later
  <2>2. h.in[d][j].slot # s
    BY <1>1, <2>1, SlotFacts DEF Framed
  <2>3. \E k \in 1 .. Len(g.in[d]) : g.in[d][k] = h.in[d][j]
    BY <1>3, <2>2 DEF Picked
  <2>4. Len(g.in[d]) \in Nat
    BY <1>2, WireFacts
  <2> QED BY <2>1, <2>3, <2>4 DEF Later
<1>12. Keeps(h, g)
  BY <1>2, <1>11, SameBelief
<1> QED BY <1>2, <1>6, <1>7, <1>8, <1>9, <1>10, <1>11, <1>12 DEF Sound, g

LEMMA QuietSound ==
  ASSUME NEW h, NEW s \in Slot, Sound(h, Slot), h.table[s].device = None
  PROVE  Quiet(h, s)
BY NoneAssumption DEF Sound, Matched, Quiet

LEMMA SoundBut ==
  ASSUME NEW h, NEW s, Sound(h, Slot)
  PROVE  Sound(h, Slot \ {s})
BY DEF Sound, Matched

\* A request is put into slot s, or the one there is changed.
Put(h, s, r) == [h EXCEPT !.table[s] = r]

LEMMA PutFields ==
  ASSUME NEW h \in Drivers, NEW s \in Slot, NEW r \in Request
  PROVE  /\ Put(h, s, r) \in Drivers
         /\ Put(h, s, r).dev = h.dev
         /\ Put(h, s, r).clc = h.clc /\ Put(h, s, r).ticked = h.ticked
         /\ Put(h, s, r).out = h.out /\ Put(h, s, r).in = h.in
         /\ Put(h, s, r).table[s] = r
         /\ \A t \in Slot \ {s} : Put(h, s, r).table[t] = h.table[t]
BY DEF Put, Drivers

LEMMA PutSound ==
  ASSUME NEW h, NEW s \in Slot, NEW r \in Request, NEW S \in SUBSET Slot, Sound(h, S),
         r.device = None <=> r.callback = "none",
         r.due => r.device # None,
         r.callback = "list" => h.clc.base \in Device,
         \/ s \notin S \/ Quiet(h, s)
         \/ r.device = h.table[s].device /\ r.command = h.table[s].command
  PROVE  Sound(Put(h, s, r), S) /\ Wires(h, Put(h, s, r)) /\ Keeps(h, Put(h, s, r))
<1> DEFINE g == Put(h, s, r)
<1>0. h \in Drivers
  BY DEF Sound
<1>1. Matched(h, S) /\ Framed(h) /\ Used(h) /\ News(h)
  BY DEF Sound
<1>2. /\ g \in Drivers /\ g.dev = h.dev /\ g.clc = h.clc /\ g.out = h.out /\ g.in = h.in
      /\ g.table[s] = r /\ \A t \in Slot \ {s} : g.table[t] = h.table[t]
  BY <1>0, PutFields
<1> HIDE DEF g
<1>3. Matched(g, S)
  <2> SUFFICES ASSUME NEW d \in Device
               PROVE  /\ \A k \in 1 .. Len(h.out[d]) : h.out[d][k].slot \in S =>
                            /\ g.table[h.out[d][k].slot].device = d
                            /\ g.table[h.out[d][k].slot].command = h.out[d][k].command
                      /\ \A k \in 1 .. Len(h.in[d]) : h.in[d][k].slot \in S =>
                            /\ g.table[h.in[d][k].slot].device = d
                            /\ g.table[h.in[d][k].slot].command = h.in[d][k].command
    BY <1>2 DEF Matched
  <2>1. /\ \A k \in 1 .. Len(h.out[d]) : h.out[d][k].slot \in S =>
              /\ h.table[h.out[d][k].slot].device = d
              /\ h.table[h.out[d][k].slot].command = h.out[d][k].command
        /\ \A k \in 1 .. Len(h.in[d]) : h.in[d][k].slot \in S =>
              /\ h.table[h.in[d][k].slot].device = d
              /\ h.table[h.in[d][k].slot].command = h.in[d][k].command
    BY <1>1 DEF Matched
  <2>2. CASE s \notin S \/ Quiet(h, s)
    <3>1. /\ \A k \in 1 .. Len(h.out[d]) : h.out[d][k].slot \in S => h.out[d][k].slot # s
          /\ \A k \in 1 .. Len(h.in[d]) : h.in[d][k].slot \in S => h.in[d][k].slot # s
      BY <2>2 DEF Quiet
    <3>2. \A t \in S : t # s => g.table[t] = h.table[t]
      BY <1>2
    <3> QED BY <2>1, <3>1, <3>2
  <2>3. CASE r.device = h.table[s].device /\ r.command = h.table[s].command
    <3>1. \A t \in S : /\ g.table[t].device = h.table[t].device
                       /\ g.table[t].command = h.table[t].command
      BY <1>2, <2>3
    <3> QED BY <2>1, <3>1
  <2> QED BY <2>2, <2>3
<1>4. Framed(g) /\ News(g) /\ Wires(h, g)
  BY <1>1, <1>2 DEF Framed, News, Wires, Corrected
<1>5. Used(g)
  BY <1>1, <1>2 DEF Used
<1>6. Keeps(h, g)
  BY <1>2, <1>4, SameBelief
<1> QED BY <1>2, <1>3, <1>4, <1>5, <1>6 DEF Sound, g

\* A command is said to the module of the request's device.
Say(h, d, m) == [h EXCEPT !.out[d] = Append(@, m)]

LEMMA SayFields ==
  ASSUME NEW h \in Drivers, NEW d \in Device, NEW m \in Asked
  PROVE  /\ Say(h, d, m) \in Drivers
         /\ Say(h, d, m).table = h.table /\ Say(h, d, m).dev = h.dev
         /\ Say(h, d, m).clc = h.clc /\ Say(h, d, m).ticked = h.ticked
         /\ Say(h, d, m).in = h.in
         /\ Say(h, d, m).out[d] = Append(h.out[d], m)
         /\ \A c \in Device \ {d} : Say(h, d, m).out[c] = h.out[c]
<1>1. h.out[d] \in Seq(Asked) /\ Append(h.out[d], m) \in Seq(Asked)
  BY WireFacts, AppendProperties
<1> QED BY <1>1 DEF Say, Drivers

LEMMA SaySound ==
  ASSUME NEW h, NEW d \in Device, NEW m \in Asked, Sound(h, Slot),
         h.table[m.slot].device = d, h.table[m.slot].command = m.command
  PROVE  Sound(Say(h, d, m), Slot) /\ Keeps(h, Say(h, d, m))
<1> DEFINE g == Say(h, d, m)
<1>0. h \in Drivers
  BY DEF Sound
<1>1. Matched(h, Slot) /\ Framed(h) /\ Used(h) /\ News(h)
  BY DEF Sound
<1>2. /\ g \in Drivers /\ g.table = h.table /\ g.dev = h.dev /\ g.clc = h.clc /\ g.in = h.in
      /\ g.out[d] = Append(h.out[d], m)
      /\ \A c \in Device \ {d} : g.out[c] = h.out[c]
  BY <1>0, SayFields
<1> HIDE DEF g
<1>3. \A k \in 1 .. Len(g.out[d]) :
         \/ k \in 1 .. Len(h.out[d]) /\ g.out[d][k] = h.out[d][k]
         \/ g.out[d][k] = m
  <2>1. h.out[d] \in Seq(Asked) /\ Len(h.out[d]) \in Nat
    BY <1>0, WireFacts
  <2> QED BY <1>2, <2>1, AppendProperties
<1>4. Matched(g, Slot)
  <2> SUFFICES ASSUME NEW c \in Device
               PROVE  /\ \A k \in 1 .. Len(g.out[c]) : g.out[c][k].slot \in Slot =>
                            /\ h.table[g.out[c][k].slot].device = c
                            /\ h.table[g.out[c][k].slot].command = g.out[c][k].command
                      /\ \A k \in 1 .. Len(h.in[c]) : h.in[c][k].slot \in Slot =>
                            /\ h.table[h.in[c][k].slot].device = c
                            /\ h.table[h.in[c][k].slot].command = h.in[c][k].command
    BY <1>2 DEF Matched
  <2>1. /\ \A k \in 1 .. Len(h.out[c]) : h.out[c][k].slot \in Slot =>
              /\ h.table[h.out[c][k].slot].device = c
              /\ h.table[h.out[c][k].slot].command = h.out[c][k].command
        /\ \A k \in 1 .. Len(h.in[c]) : h.in[c][k].slot \in Slot =>
              /\ h.table[h.in[c][k].slot].device = c
              /\ h.table[h.in[c][k].slot].command = h.in[c][k].command
    BY <1>1 DEF Matched
  <2>2. CASE c = d
    <3>1. ASSUME NEW k \in 1 .. Len(g.out[c]), g.out[c][k].slot \in Slot
          PROVE  /\ h.table[g.out[c][k].slot].device = c
                 /\ h.table[g.out[c][k].slot].command = g.out[c][k].command
      <4>1. CASE g.out[c][k] = m
        BY <2>2, <4>1
      <4>2. CASE k \in 1 .. Len(h.out[d]) /\ g.out[d][k] = h.out[d][k]
        BY <2>1, <2>2, <3>1, <4>2
      <4> QED BY <1>3, <2>2, <4>1, <4>2
    <3> QED BY <2>1, <3>1
  <2>3. CASE c # d
    BY <1>2, <2>1, <2>3
  <2> QED BY <2>2, <2>3
<1>5. Framed(g) /\ News(g) /\ Used(g) /\ Wires(h, g)
  BY <1>1, <1>2 DEF Framed, News, Used, Wires, Corrected
<1>6. Keeps(h, g)
  BY <1>2, <1>5, SameBelief
<1> QED BY <1>2, <1>4, <1>5, <1>6 DEF Sound, g

LEMMA KeepsTrans ==
  ASSUME NEW h, NEW g, NEW f, Keeps(h, g), Keeps(g, f)
  PROVE  Keeps(h, f)
BY DEF Keeps

LEMMA UnusedFacts ==
  /\ Unused \in Request /\ Unused.device = None /\ Unused.callback = "none"
  /\ ~ Unused.due
BY DEF Unused, Request, Command

LEMMA SendSound ==
  ASSUME NEW h, NEW s \in Slot, Sound(h, Slot \ {s}), h.table[s].device \in Device
  PROVE  /\ Sound(Send(h, s), Slot) /\ Keeps(h, Send(h, s))
         /\ Send(h, s).dev = h.dev /\ Send(h, s).clc = h.clc
         /\ Send(h, s).ticked = h.ticked
         /\ \A t \in Slot \ {s} : Send(h, s).table[t] = h.table[t]
         /\ Send(h, s).table[s].device = h.table[s].device
         /\ Send(h, s).table[s].callback = h.table[s].callback
         /\ Send(h, s).table[s].command = h.table[s].command
         /\ Send(h, s).table[s].due => h.table[s].due
<1> DEFINE f == Forget(h, s)
           d == h.table[s].device
           r == [device |-> d, callback |-> h.table[s].callback,
                 command |-> h.table[s].command, due |-> FALSE]
           m == [slot |-> s, command |-> h.table[s].command]
           p == Put(f, s, r)
           g == Say(p, d, m)
<1>0. h \in Drivers /\ Used(h)
  BY DEF Sound
<1>1. /\ h.table[s] \in Request /\ d \in Device /\ r \in Request /\ m \in Asked
      /\ r.device = d /\ r.callback = h.table[s].callback
      /\ r.command = h.table[s].command /\ r.due = FALSE
      /\ m.slot = s /\ m.command = h.table[s].command
  BY <1>0 DEF Drivers, Request, Asked
<1>2. /\ Sound(f, Slot) /\ Quiet(f, s) /\ Keeps(h, f)
      /\ f.table = h.table /\ f.dev = h.dev /\ f.clc = h.clc /\ f.ticked = h.ticked
  BY <1>0, ForgetSound, ForgetFields
<1>3. CASE ~ cts[d]
  <2>1. Send(h, s) = f
    BY <1>3 DEF Send
  <2> HIDE DEF f, d
  <2> QED BY <1>1, <1>2, <2>1
<1>4. CASE cts[d]
  <2>1. Send(h, s) = g
    <3>1. f \in Drivers
      BY <1>2 DEF Sound
    <3>2. [f.table EXCEPT ![s].due = FALSE] = [f.table EXCEPT ![s] = r]
      BY <1>1, <1>2 DEF Request
    <3> HIDE DEF f, r
    <3>3. [f EXCEPT !.out[d] = Append(@, m), !.table[s].due = FALSE]
             = [[f EXCEPT !.table[s] = r] EXCEPT !.out[d] = Append(@, m)]
      BY <3>1, <3>2 DEF Drivers
    <3> QED BY <1>4, <3>3 DEF Send, Say, Put, f
  <2> HIDE DEF f, r, m, d
  <2>2. /\ r.device = None <=> r.callback = "none"
        /\ r.callback = "list" => f.clc.base \in Device
    BY <1>0, <1>1, <1>2 DEF Used, d
  <2>3. Sound(p, Slot) /\ Keeps(f, p)
    BY <1>1, <1>2, <2>2, PutSound
  <2>4. /\ p.table[s] = r /\ p.dev = f.dev /\ p.clc = f.clc /\ p.ticked = f.ticked
        /\ \A t \in Slot \ {s} : p.table[t] = f.table[t]
    BY <1>1, <1>2, PutFields DEF Sound
  <2> HIDE DEF p
  <2>5. Sound(g, Slot) /\ Keeps(p, g)
    BY <1>1, <2>3, <2>4, SaySound
  <2>6. g.table = p.table /\ g.dev = p.dev /\ g.clc = p.clc /\ g.ticked = p.ticked
    BY <1>1, <2>3, SayFields DEF Sound
  <2> HIDE DEF g
  <2>7. Keeps(h, g)
    BY <1>2, <2>3, <2>5, KeepsTrans
  <2>8. /\ g.table[s].device = h.table[s].device
        /\ g.table[s].callback = h.table[s].callback
        /\ g.table[s].command = h.table[s].command /\ g.table[s].due = FALSE
        /\ \A t \in Slot \ {s} : g.table[t] = h.table[t]
    BY <1>1, <1>2, <2>4, <2>6 DEF d
  <2> QED BY <1>2, <2>1, <2>4, <2>5, <2>6, <2>7, <2>8
<1> QED BY <1>3, <1>4

LEMMA ReleaseSound ==
  ASSUME NEW h, NEW s \in Slot, Sound(h, Slot \ {s})
  PROVE  /\ Sound(Release(h, s), Slot) /\ Keeps(h, Release(h, s))
         /\ Release(h, s).dev = h.dev /\ Release(h, s).clc = h.clc
         /\ Release(h, s).ticked = h.ticked
         /\ \A t \in Slot \ {s} : Release(h, s).table[t] = h.table[t]
         /\ Release(h, s).table[s] = Unused
<1> DEFINE f == Forget(h, s)
<1>1. h \in Drivers
  BY DEF Sound
<1>2. /\ Sound(f, Slot) /\ Quiet(f, s) /\ Keeps(h, f)
      /\ f.table = h.table /\ f.dev = h.dev /\ f.clc = h.clc /\ f.ticked = h.ticked
  BY <1>1, ForgetSound, ForgetFields
<1>3. Release(h, s) = Put(f, s, Unused)
  BY DEF Release, Put
<1> HIDE DEF f
<1>4. Unused.callback # "list"
  BY UnusedFacts
<1>5. Sound(Put(f, s, Unused), Slot) /\ Keeps(f, Put(f, s, Unused))
  BY <1>2, <1>4, UnusedFacts, PutSound
<1>6. /\ Put(f, s, Unused).table[s] = Unused
      /\ Put(f, s, Unused).dev = f.dev /\ Put(f, s, Unused).clc = f.clc
      /\ Put(f, s, Unused).ticked = f.ticked
      /\ \A t \in Slot \ {s} : Put(f, s, Unused).table[t] = f.table[t]
  BY <1>2, UnusedFacts, PutFields DEF Sound
<1>7. Keeps(h, Put(f, s, Unused))
  BY <1>2, <1>5, KeepsTrans
<1> QED BY <1>2, <1>3, <1>5, <1>6, <1>7

-----------------------------------------------------------------------------
(* The flags and the list *)

\* g is sound if h is, and may be believed as far as h; whether h's list has a
\* device does not change.
Onward(h, g) == /\ Sound(h, Slot) => Sound(g, Slot)
                /\ Keeps(h, g)
                /\ h.clc.base \in Device => g.clc.base \in Device

LEMMA OnwardTrans ==
  ASSUME NEW h, NEW g, NEW f, Onward(h, g), Onward(g, f)
  PROVE  Onward(h, f)
BY DEF Onward, Keeps

LEMMA OnwardSame ==
  ASSUME NEW h
  PROVE  Onward(h, h)
BY DEF Onward, Keeps

\* Only the device's state or the list change.
LEMMA StateSound ==
  ASSUME NEW h, NEW g \in Drivers, Sound(h, Slot),
         g.table = h.table, g.out = h.out, g.in = h.in,
         h.clc.base \in Device => g.clc.base \in Device
  PROVE  Sound(g, Slot) /\ Wires(h, g)
<1>1. Matched(h, Slot) /\ Framed(h) /\ Used(h) /\ News(h)
  BY DEF Sound
<1>2. Matched(g, Slot)
  BY <1>1 DEF Matched
<1>3. Framed(g) /\ News(g) /\ Wires(h, g)
  BY <1>1 DEF Framed, News, Wires, Corrected
<1>4. Used(g)
  BY <1>1 DEF Used
<1> QED BY <1>2, <1>3, <1>4 DEF Sound

LEMMA FlagFields ==
  ASSUME NEW h \in Drivers, NEW d \in Device, NEW F \in SUBSET Flag
  PROVE  /\ AddFlags(h, d, F) \in Drivers
         /\ AddFlags(h, d, F).table = h.table /\ AddFlags(h, d, F).clc = h.clc
         /\ AddFlags(h, d, F).out = h.out /\ AddFlags(h, d, F).in = h.in
         /\ AddFlags(h, d, F).ticked = h.ticked
         /\ AddFlags(h, d, F).dev[d].flags = h.dev[d].flags \cup F
         /\ AddFlags(h, d, F).dev[d].network = h.dev[d].network
         /\ AddFlags(h, d, F).dev[d].joined = h.dev[d].joined
         /\ \A c \in Device \ {d} : AddFlags(h, d, F).dev[c] = h.dev[c]
         /\ DropFlags(h, d, F) \in Drivers
         /\ DropFlags(h, d, F).table = h.table /\ DropFlags(h, d, F).clc = h.clc
         /\ DropFlags(h, d, F).out = h.out /\ DropFlags(h, d, F).in = h.in
         /\ DropFlags(h, d, F).ticked = h.ticked
         /\ DropFlags(h, d, F).dev[d].flags = h.dev[d].flags \ F
         /\ DropFlags(h, d, F).dev[d].network = h.dev[d].network
         /\ DropFlags(h, d, F).dev[d].joined = h.dev[d].joined
         /\ \A c \in Device \ {d} : DropFlags(h, d, F).dev[c] = h.dev[c]
<1>1. h.dev[d] \in State
  BY DEF Drivers
<1>2. /\ [h.dev[d] EXCEPT !.flags = @ \cup F] \in State
      /\ [h.dev[d] EXCEPT !.flags = @ \ F] \in State
      /\ [h.dev[d] EXCEPT !.flags = @ \cup F].flags = h.dev[d].flags \cup F
      /\ [h.dev[d] EXCEPT !.flags = @ \ F].flags = h.dev[d].flags \ F
      /\ [h.dev[d] EXCEPT !.flags = @ \cup F].network = h.dev[d].network
      /\ [h.dev[d] EXCEPT !.flags = @ \ F].network = h.dev[d].network
      /\ [h.dev[d] EXCEPT !.flags = @ \cup F].joined = h.dev[d].joined
      /\ [h.dev[d] EXCEPT !.flags = @ \ F].joined = h.dev[d].joined
  BY <1>1 DEF State
<1> QED BY <1>2 DEF AddFlags, DropFlags, Drivers

\* A query that is marked as done has to stay true.
LEMMA AddFlagsOnward ==
  ASSUME NEW h \in Drivers, NEW d \in Device, NEW F \in SUBSET Flag,
         OneDevice /\ "DONE" \in F => Current(h, d)
  PROVE  Onward(h, AddFlags(h, d, F))
<1> DEFINE g == AddFlags(h, d, F)
<1>1. /\ g \in Drivers /\ g.table = h.table /\ g.clc = h.clc
      /\ g.out = h.out /\ g.in = h.in
      /\ g.dev[d].flags = h.dev[d].flags \cup F
      /\ g.dev[d].network = h.dev[d].network /\ g.dev[d].joined = h.dev[d].joined
      /\ \A c \in Device \ {d} : g.dev[c] = h.dev[c]
  BY FlagFields
<1> HIDE DEF g
<1>a. /\ \A c \in Device : /\ g.dev[c].network = h.dev[c].network
                          /\ g.dev[c].joined = h.dev[c].joined
      /\ \A c \in Device \ {d} : g.dev[c].flags = h.dev[c].flags
  BY <1>1
<1>2. \A c \in Device : /\ Current(h, c) => Current(g, c)
                        /\ Known(h, c) => Known(g, c)
  BY <1>1, <1>a DEF Current, Known, Corrected
<1>3. ASSUME OneDevice PROVE \A c \in Device : Fresh(h, c) => Fresh(g, c)
  BY <1>1, <1>a, <1>2, <1>3 DEF Fresh, HasFlag
<1>4. Sound(h, Slot) => Sound(g, Slot)
  BY <1>1, StateSound
<1> QED BY <1>1, <1>2, <1>3, <1>4 DEF Onward, Keeps, True, g

\* What is to be refreshed may be forgotten only with the mark that it is done.
LEMMA DropFlagsOnward ==
  ASSUME NEW h \in Drivers, NEW d \in Device, NEW F \in SUBSET Flag,
         "REFRESH" \in F => "DONE" \in F
  PROVE  Onward(h, DropFlags(h, d, F))
<1> DEFINE g == DropFlags(h, d, F)
<1>1. /\ g \in Drivers /\ g.table = h.table /\ g.clc = h.clc
      /\ g.out = h.out /\ g.in = h.in
      /\ g.dev[d].flags = h.dev[d].flags \ F
      /\ g.dev[d].network = h.dev[d].network /\ g.dev[d].joined = h.dev[d].joined
      /\ \A c \in Device \ {d} : g.dev[c] = h.dev[c]
  BY FlagFields
<1> HIDE DEF g
<1>a. /\ \A c \in Device : /\ g.dev[c].network = h.dev[c].network
                          /\ g.dev[c].joined = h.dev[c].joined
      /\ \A c \in Device \ {d} : g.dev[c].flags = h.dev[c].flags
  BY <1>1
<1>2. \A c \in Device : /\ Current(h, c) => Current(g, c)
                        /\ Known(h, c) => Known(g, c)
  BY <1>1, <1>a DEF Current, Known, Corrected
<1>3. \A c \in Device : Fresh(h, c) => Fresh(g, c)
  BY <1>1, <1>a, <1>2 DEF Fresh, HasFlag
<1>4. Sound(h, Slot) => Sound(g, Slot)
  BY <1>1, StateSound
<1> QED BY <1>1, <1>2, <1>3, <1>4 DEF Onward, Keeps, True, g

\* The list's status and position change.
LEMMA ListOnward ==
  ASSUME NEW h \in Drivers, NEW c \in List, h.clc.base \in Device => c.base \in Device
  PROVE  /\ Onward(h, [h EXCEPT !.clc = c])
         /\ [h EXCEPT !.clc = c] \in Drivers
         /\ [h EXCEPT !.clc = c].table = h.table /\ [h EXCEPT !.clc = c].clc = c
         /\ [h EXCEPT !.clc = c].out = h.out /\ [h EXCEPT !.clc = c].in = h.in
         /\ [h EXCEPT !.clc = c].ticked = h.ticked /\ [h EXCEPT !.clc = c].dev = h.dev
<1> DEFINE g == [h EXCEPT !.clc = c]
<1>1. /\ g \in Drivers /\ g.table = h.table /\ g.clc = c /\ g.dev = h.dev
      /\ g.out = h.out /\ g.in = h.in /\ g.ticked = h.ticked
  BY DEF Drivers
<1> HIDE DEF g
<1>2. Sound(h, Slot) => Sound(g, Slot)
  BY <1>1, StateSound
<1>3. Wires(h, g)
  BY <1>1 DEF Wires, Corrected
<1>4. Keeps(h, g)
  BY <1>1, <1>3, SameBelief
<1> QED BY <1>1, <1>2, <1>4 DEF Onward, g

LEMMA BeginListFields ==
  ASSUME NEW h \in Drivers, NEW d \in Device, NEW first \in 1 .. 2
  PROVE  /\ Onward(h, BeginList(h, d, first))
         /\ BeginList(h, d, first) \in Drivers
         /\ BeginList(h, d, first).table = h.table
         /\ BeginList(h, d, first).dev = h.dev
         /\ BeginList(h, d, first).ticked = h.ticked
         /\ BeginList(h, d, first).clc.base = d
         /\ BeginList(h, d, first).clc.pos = first
<1> DEFINE c == [base |-> d, pos |-> first, status |-> "running"]
<1>1. c \in List /\ c.base = d /\ c.pos = first
  BY DEF List
<1>2. BeginList(h, d, first) = [h EXCEPT !.clc = c]
  BY DEF BeginList
<1> HIDE DEF c
<1> QED BY <1>1, <1>2, ListOnward

-----------------------------------------------------------------------------
(* The query *)

LEMMA FreeFacts ==
  ASSUME NEW h, FreeSlots(h) # {}
  PROVE  Min(FreeSlots(h)) \in Slot /\ h.table[Min(FreeSlots(h))].device = None
<1>1. FreeSlots(h) \in SUBSET Nat
  BY SlotFacts DEF FreeSlots
<1>2. Min(FreeSlots(h)) \in FreeSlots(h)
  BY <1>1, MinIn
<1> QED BY <1>2 DEF FreeSlots

LEMMA RegFacts ==
  /\ Regs[1] = "AI" /\ Regs[2] = "NP" /\ Regs[3] = "MY" /\ Len(Regs) = 3
  /\ RegAt(1) = "AI" /\ RegAt(2) = "NP" /\ RegAt(3) = "MY" /\ RegAt(4) = "end"
  /\ Range(Regs) = {"AI", "NP", "MY"}
<1>1. Regs[1] = "AI" /\ Regs[2] = "NP" /\ Regs[3] = "MY" /\ Len(Regs) = 3
  BY DEF Regs
<1>2. DOMAIN Regs = 1 .. 3
  BY DEF Regs
<1>3. Range(Regs) = {"AI", "NP", "MY"}
  BY <1>1, <1>2 DEF Range
<1> QED BY <1>1, <1>3 DEF RegAt

LEMMA LaunchFacts ==
  ASSUME NEW h, NEW d \in Device, NEW first \in 1 .. 2,
         Sound(h, Slot), h.clc.base \in Device
  PROVE  /\ Onward(h, LaunchList(h, d, first))
         /\ LaunchList(h, d, first).clc = h.clc
         /\ LaunchList(h, d, first).ticked = h.ticked
         /\ \A t \in Slot : h.table[t].device # None =>
               LaunchList(h, d, first).table[t] = h.table[t]
         /\ FreeSlots(h) = {} => LaunchList(h, d, first) = h
         /\ ~ cts[d] => LaunchList(h, d, first).dev = h.dev
         /\ \A c \in Device \ {d} : LaunchList(h, d, first).dev[c] = h.dev[c]
         /\ FreeSlots(h) # {} /\ cts[d] =>
               /\ HasFlag(LaunchList(h, d, first), d, "INPROGRESS")
               /\ \E s \in Slot :
                     /\ h.table[s].device = None
                     /\ LaunchList(h, d, first).table[s].device = d
                     /\ LaunchList(h, d, first).table[s].callback = "list"
                     /\ LaunchList(h, d, first).table[s].command = Regs[first]
                     /\ ~ LaunchList(h, d, first).table[s].due
<1>1. CASE FreeSlots(h) = {}
  <2>1. LaunchList(h, d, first) = h
    BY <1>1 DEF LaunchList
  <2> QED BY <1>1, <2>1, OnwardSame
<1>2. CASE FreeSlots(h) # {}
  <2> DEFINE s == Min(FreeSlots(h))
             r == [Unused EXCEPT !.device = d, !.callback = "list", !.command = Regs[first]]
             p == Put(h, s, r)
             q == Send(p, s)
             a == AddFlags(q, d, {"BEGIN", "INPROGRESS"})
             b == DropFlags(a, d, {"ERROR", "DONE", "REFRESH"})
             g == LaunchList(h, d, first)
  <2>1. s \in Slot /\ h.table[s].device = None
    BY <1>2, FreeFacts
  <2>2. /\ r \in Request /\ r.device = d /\ r.callback = "list"
        /\ r.command = Regs[first] /\ ~ r.due /\ d # None
    <3>1. Regs[first] \in Command
      <4>1. first = 1 \/ first = 2
        OBVIOUS
      <4> QED BY <4>1, RegFacts DEF Command
    <3>2. d # None
      BY NoneAssumption
    <3> QED BY <3>1, <3>2, UnusedFacts DEF Request
  <2>3. g = IF ~ cts[d] THEN q ELSE b
    BY <1>2 DEF LaunchList, Put
  <2> HIDE DEF s, r
  <2>4. Quiet(h, s)
    BY <2>1, QuietSound
  <2>5. Sound(p, Slot) /\ Keeps(h, p)
    BY <2>1, <2>2, <2>4, PutSound
  <2>6. /\ p.table[s] = r /\ p.dev = h.dev /\ p.clc = h.clc /\ p.ticked = h.ticked
        /\ \A t \in Slot \ {s} : p.table[t] = h.table[t]
    BY <2>1, <2>2, PutFields DEF Sound
  <2> HIDE DEF p
  <2>7. /\ Sound(q, Slot) /\ Keeps(p, q)
        /\ q.dev = p.dev /\ q.clc = p.clc /\ q.ticked = p.ticked
        /\ \A t \in Slot \ {s} : q.table[t] = p.table[t]
        /\ q.table[s].device = d /\ q.table[s].callback = "list"
        /\ q.table[s].command = Regs[first] /\ ~ q.table[s].due
    BY <2>1, <2>2, <2>5, <2>6, SoundBut, SendSound
  <2> HIDE DEF q
  <2>8. /\ Onward(h, q) /\ q.clc = h.clc /\ q.ticked = h.ticked /\ q.dev = h.dev
        /\ \A t \in Slot : h.table[t].device # None => q.table[t] = h.table[t]
    <3>1. Keeps(h, q)
      BY <2>5, <2>7, KeepsTrans
    <3> QED BY <2>1, <2>6, <2>7, <3>1 DEF Onward
  <2>9. CASE ~ cts[d]
    <3> HIDE DEF g
    <3> QED BY <1>2, <2>3, <2>8, <2>9 DEF g
  <2>10. CASE cts[d]
    <3>1. q \in Drivers
      BY <2>7 DEF Sound
    <3>2. /\ Onward(q, a) /\ a \in Drivers /\ a.table = q.table /\ a.clc = q.clc
          /\ a.ticked = q.ticked
          /\ a.dev[d].flags = q.dev[d].flags \cup {"BEGIN", "INPROGRESS"}
          /\ \A c \in Device \ {d} : a.dev[c] = q.dev[c]
      <4>1. {"BEGIN", "INPROGRESS"} \in SUBSET Flag /\ "DONE" \notin {"BEGIN", "INPROGRESS"}
        BY DEF Flag
      <4> QED BY <3>1, <4>1, FlagFields, AddFlagsOnward
    <3> HIDE DEF a
    <3>3. /\ Onward(a, b) /\ b.table = a.table /\ b.clc = a.clc
          /\ b.ticked = a.ticked
          /\ b.dev[d].flags = a.dev[d].flags \ {"ERROR", "DONE", "REFRESH"}
          /\ \A c \in Device \ {d} : b.dev[c] = a.dev[c]
      <4> DEFINE F == {"ERROR", "DONE", "REFRESH"}
      <4>1. F \in SUBSET Flag /\ "DONE" \in F
        BY DEF Flag
      <4>2. b = DropFlags(a, d, F)
        OBVIOUS
      <4> HIDE DEF F, b
      <4>3. /\ Onward(a, b) /\ b.table = a.table /\ b.clc = a.clc
            /\ b.ticked = a.ticked /\ b.dev[d].flags = a.dev[d].flags \ F
            /\ \A c \in Device \ {d} : b.dev[c] = a.dev[c]
        BY <3>2, <4>1, <4>2, FlagFields, DropFlagsOnward
      <4> QED BY <4>3 DEF F
    <3> HIDE DEF b, g
    <3>4. Onward(h, b)
      BY <2>8, <3>2, <3>3, OnwardTrans
    <3>5. HasFlag(b, d, "INPROGRESS")
      BY <3>2, <3>3 DEF HasFlag
    <3>6. /\ g = b /\ g.clc = h.clc /\ g.ticked = h.ticked
          /\ \A t \in Slot : h.table[t].device # None => g.table[t] = h.table[t]
          /\ \A c \in Device \ {d} : g.dev[c] = h.dev[c]
          /\ g.table[s].device = d /\ g.table[s].callback = "list"
          /\ g.table[s].command = Regs[first] /\ ~ g.table[s].due
      BY <2>3, <2>7, <2>8, <2>10, <3>2, <3>3
    <3> QED BY <1>2, <2>1, <2>10, <3>4, <3>5, <3>6 DEF g
  <2> QED BY <2>9, <2>10
<1> QED BY <1>1, <1>2

LEMMA WantFacts ==
  ASSUME NEW h \in Drivers, NEW d \in Device, NEW refresh \in BOOLEAN
  PROVE  /\ Onward(h, WantQuery(h, d, refresh))
         /\ WantQuery(h, d, refresh) \in Drivers
         /\ WantQuery(h, d, refresh).table = h.table
         /\ WantQuery(h, d, refresh).clc = h.clc
         /\ WantQuery(h, d, refresh).ticked = h.ticked
         /\ \A c \in Device : \A f \in Flag \ {"REFRESH"} :
               HasFlag(WantQuery(h, d, refresh), c, f) <=> HasFlag(h, c, f)
         /\ refresh => HasFlag(WantQuery(h, d, refresh), d, "REFRESH")
<1>1. CASE refresh
  <2>1. {"REFRESH"} \in SUBSET Flag /\ "DONE" \notin {"REFRESH"}
    BY DEF Flag
  <2>2. WantQuery(h, d, refresh) = AddFlags(h, d, {"REFRESH"})
    BY <1>1 DEF WantQuery
  <2> DEFINE g == AddFlags(h, d, {"REFRESH"})
  <2>3. /\ Onward(h, g) /\ g \in Drivers /\ g.table = h.table /\ g.clc = h.clc
        /\ g.ticked = h.ticked /\ g.dev[d].flags = h.dev[d].flags \cup {"REFRESH"}
        /\ \A c \in Device \ {d} : g.dev[c] = h.dev[c]
    BY <2>1, FlagFields, AddFlagsOnward
  <2> HIDE DEF g
  <2>4. \A c \in Device : \A f \in Flag \ {"REFRESH"} : HasFlag(g, c, f) <=> HasFlag(h, c, f)
    BY <2>3 DEF HasFlag
  <2>5. HasFlag(g, d, "REFRESH")
    BY <2>3 DEF HasFlag
  <2> QED BY <2>2, <2>3, <2>4, <2>5 DEF g
<1>2. CASE ~ refresh
  <2>1. WantQuery(h, d, refresh) = h
    BY <1>2 DEF WantQuery
  <2> QED BY <1>2, <2>1, OnwardSame
<1> QED BY <1>1, <1>2

LEMMA FirstFacts ==
  ASSUME NEW refresh \in BOOLEAN
  PROVE  First(refresh) \in 1 .. 2
BY DEF First, RefreshIdx

\* What a call may do to the table: requests that are there stay.
Stay(h, g) == \A t \in Slot : h.table[t].device # None => g.table[t] = h.table[t]

\* The query that has been started has its request, which is not the one in e.
Launched(h, g, d) == \E t \in Slot : /\ h.table[t].device = None
                                     /\ Tracks(g, d, t) /\ ~ g.table[t].due

LEMMA QueryInTickFacts ==
  ASSUME NEW h, NEW d \in Device, NEW refresh \in BOOLEAN, Sound(h, Slot)
  PROVE  /\ Onward(h, QueryInTick(h, d, refresh))
         /\ QueryInTick(h, d, refresh).ticked = h.ticked
         /\ Stay(h, QueryInTick(h, d, refresh))
         /\ HasFlag(h, d, "INPROGRESS") =>
               /\ QueryInTick(h, d, refresh).table = h.table
               /\ QueryInTick(h, d, refresh).clc = h.clc
               /\ HasFlag(QueryInTick(h, d, refresh), d, "INPROGRESS")
         /\ ~ HasFlag(h, d, "INPROGRESS") /\ cts[d] /\ FreeSlots(h) # {} =>
               Launched(h, QueryInTick(h, d, refresh), d)
         /\ ~ HasFlag(h, d, "INPROGRESS") /\ ~ (cts[d] /\ FreeSlots(h) # {}) =>
               ~ HasFlag(QueryInTick(h, d, refresh), d, "INPROGRESS")
         /\ ~ HasFlag(h, d, "INPROGRESS") /\ FreeSlots(h) = {} /\ refresh =>
               /\ QueryInTick(h, d, refresh).table = h.table
               /\ HasFlag(QueryInTick(h, d, refresh), d, "REFRESH")
<1> DEFINE w == WantQuery(h, d, refresh)
           b == BeginList(w, d, First(refresh))
           l == LaunchList(b, d, First(refresh))
           g == QueryInTick(h, d, refresh)
<1>0. h \in Drivers /\ "INPROGRESS" \in Flag \ {"REFRESH"}
  BY DEF Sound, Flag
<1>1. /\ Onward(h, w) /\ w \in Drivers /\ w.table = h.table /\ w.clc = h.clc
      /\ w.ticked = h.ticked
      /\ HasFlag(w, d, "INPROGRESS") <=> HasFlag(h, d, "INPROGRESS")
      /\ refresh => HasFlag(w, d, "REFRESH")
  BY <1>0, WantFacts
<1>2. g = IF HasFlag(h, d, "INPROGRESS") THEN w ELSE l
  BY DEF QueryInTick
<1> HIDE DEF w
<1>3. CASE HasFlag(h, d, "INPROGRESS")
  <2>1. g = w
    BY <1>2, <1>3
  <2>2. Stay(h, w)
    BY <1>1 DEF Stay
  <2> HIDE DEF g
  <2> QED BY <1>1, <1>3, <2>1, <2>2 DEF g
<1>4. CASE ~ HasFlag(h, d, "INPROGRESS")
  <2>1. /\ Onward(w, b) /\ b.table = h.table /\ b.dev = w.dev /\ b.ticked = h.ticked
        /\ b.clc.base = d /\ b.clc.pos = First(refresh)
    BY <1>1, FirstFacts, BeginListFields
  <2> HIDE DEF b
  <2>2. Onward(h, b) /\ Sound(b, Slot) /\ FreeSlots(b) = FreeSlots(h)
    <3>1. FreeSlots(b) = FreeSlots(h)
      BY <2>1 DEF FreeSlots
    <3> QED BY <1>1, <2>1, <3>1, OnwardTrans DEF Onward
  <2>3. /\ Onward(b, l) /\ l.clc = b.clc /\ l.ticked = b.ticked
        /\ \A t \in Slot : b.table[t].device # None => l.table[t] = b.table[t]
        /\ FreeSlots(b) = {} => l = b
        /\ ~ cts[d] => l.dev = b.dev
        /\ FreeSlots(b) # {} /\ cts[d] =>
               \E s \in Slot :
                     /\ b.table[s].device = None
                     /\ l.table[s].device = d
                     /\ l.table[s].callback = "list"
                     /\ l.table[s].command = Regs[First(refresh)]
                     /\ ~ l.table[s].due
    BY <2>1, <2>2, FirstFacts, LaunchFacts
  <2> HIDE DEF l
  <2>4. Onward(h, l) /\ l.ticked = h.ticked /\ Stay(h, l)
    BY <2>1, <2>2, <2>3, OnwardTrans DEF Stay
  <2>5. ASSUME cts[d], FreeSlots(h) # {} PROVE Launched(h, l, d)
    <3>1. Regs[First(refresh)] = RegAt(l.clc.pos)
      <4>1. First(refresh) = 1 \/ First(refresh) = 2
        BY FirstFacts
      <4> QED BY <2>1, <2>3, <4>1, RegFacts
    <3> QED BY <2>1, <2>2, <2>3, <2>5, <3>1 DEF Launched, Tracks
  <2>6. ASSUME ~ (cts[d] /\ FreeSlots(h) # {}) PROVE ~ HasFlag(l, d, "INPROGRESS")
    <3>1. l.dev = w.dev
      BY <2>1, <2>2, <2>3, <2>6
    <3> QED BY <1>1, <1>4, <3>1 DEF HasFlag
  <2>7. ASSUME FreeSlots(h) = {}, refresh
        PROVE  l.table = h.table /\ HasFlag(l, d, "REFRESH")
    <3>1. l = b
      BY <2>2, <2>3, <2>7
    <3> QED BY <1>1, <2>1, <2>7, <3>1 DEF HasFlag
  <2>8. g = l
    BY <1>2, <1>4
  <2> HIDE DEF g
  <2> QED BY <1>4, <2>4, <2>5, <2>6, <2>7, <2>8 DEF g
<1> QED BY <1>3, <1>4

\* A query may end in success only when what it found is so.
LEMMA EndQueryFacts ==
  ASSUME NEW h, NEW failed \in BOOLEAN, Sound(h, Slot), h.clc.base \in Device,
         OneDevice /\ ~ failed => Current(h, h.clc.base)
  PROVE  /\ Onward(h, EndQuery(h, failed)) /\ Sound(EndQuery(h, failed), Slot)
         /\ EndQuery(h, failed).table = h.table
         /\ EndQuery(h, failed).clc = h.clc
         /\ EndQuery(h, failed).ticked = h.ticked
         /\ ~ HasFlag(EndQuery(h, failed), h.clc.base, "INPROGRESS")
<1> DEFINE d == h.clc.base
           F == {IF failed THEN "ERROR" ELSE "DONE"}
           p == DropFlags(h, d, {"INPROGRESS"})
           g == AddFlags(p, d, F)
           a == AddFlags(g, d, {"REFRESH"})
<1>0. h \in Drivers
  BY DEF Sound
<1>1. /\ {"INPROGRESS"} \in SUBSET Flag /\ "REFRESH" \notin {"INPROGRESS"}
      /\ F \in SUBSET Flag
      /\ "DONE" \in F => ~ failed
      /\ "INPROGRESS" \notin F
      /\ {"REFRESH"} \in SUBSET Flag /\ "DONE" \notin {"REFRESH"}
      /\ "INPROGRESS" \notin {"REFRESH"}
  BY DEF Flag
<1> HIDE DEF F
<1>2. /\ Onward(h, p) /\ p \in Drivers /\ p.table = h.table /\ p.clc = h.clc
      /\ p.ticked = h.ticked /\ p.dev[d].flags = h.dev[d].flags \ {"INPROGRESS"}
  BY <1>0, <1>1, FlagFields, DropFlagsOnward
<1> HIDE DEF p
<1>3. OneDevice /\ "DONE" \in F => Current(p, d)
  BY <1>1, <1>2 DEF Onward, Keeps
<1>4. /\ Onward(p, g) /\ g \in Drivers /\ g.table = p.table /\ g.clc = p.clc
      /\ g.ticked = p.ticked /\ g.dev[d].flags = p.dev[d].flags \cup F
  BY <1>1, <1>2, <1>3, FlagFields, AddFlagsOnward
<1> HIDE DEF g
<1>5. /\ Onward(g, a) /\ a.table = g.table /\ a.clc = g.clc
      /\ a.ticked = g.ticked /\ a.dev[d].flags = g.dev[d].flags \cup {"REFRESH"}
  BY <1>1, <1>4, FlagFields, AddFlagsOnward
<1> HIDE DEF a
<1>6. Onward(h, g) /\ Onward(h, a)
  BY <1>2, <1>4, <1>5, OnwardTrans
<1>7. ~ HasFlag(g, d, "INPROGRESS") /\ ~ HasFlag(a, d, "INPROGRESS")
  BY <1>1, <1>2, <1>4, <1>5 DEF HasFlag
<1>8. EndQuery(h, failed) = g \/ EndQuery(h, failed) = a
  BY DEF EndQuery, a, g, p, F
<1> QED BY <1>2, <1>4, <1>5, <1>6, <1>7, <1>8 DEF Onward

LEMMA EndInTickFacts ==
  ASSUME NEW h, Sound(h, Slot), h.clc.base \in Device
  PROVE  /\ Onward(h, EndInTick(h)) /\ EndInTick(h).ticked = h.ticked
         /\ Stay(h, EndInTick(h))
         /\ \/ /\ EndInTick(h).table = h.table /\ EndInTick(h).clc = h.clc
               /\ ~ HasFlag(EndInTick(h), h.clc.base, "INPROGRESS")
               /\ ~ HasFlag(EndInTick(h), h.clc.base, "REFRESH")
            \/ /\ cts[h.clc.base] /\ FreeSlots(h) # {}
               /\ Launched(h, EndInTick(h), h.clc.base)
            \/ /\ cts[h.clc.base] /\ FreeSlots(h) = {}
               /\ EndInTick(h).table = h.table
               /\ ~ HasFlag(EndInTick(h), h.clc.base, "INPROGRESS")
               /\ HasFlag(EndInTick(h), h.clc.base, "REFRESH")
            \/ /\ ~ cts[h.clc.base]
               /\ ~ HasFlag(EndInTick(h), h.clc.base, "INPROGRESS")
<1> DEFINE d == h.clc.base
           g == EndQuery(h, TRUE)
           q == QueryInTick(g, d, TRUE)
<1>1. /\ Onward(h, g) /\ Sound(g, Slot) /\ g.table = h.table /\ g.clc = h.clc
      /\ g.ticked = h.ticked /\ ~ HasFlag(g, d, "INPROGRESS")
  BY EndQueryFacts
<1> HIDE DEF g
<1>2. EndInTick(h) = IF HasFlag(g, d, "REFRESH") THEN q ELSE g
  BY <1>1 DEF EndInTick, g
<1>3. CASE ~ HasFlag(g, d, "REFRESH")
  <2>1. EndInTick(h) = g
    BY <1>2, <1>3
  <2> QED BY <1>1, <1>3, <2>1 DEF Stay
<1>4. CASE HasFlag(g, d, "REFRESH")
  <2>1. EndInTick(h) = q
    BY <1>2, <1>4
  <2>2. /\ Onward(g, q) /\ q.ticked = g.ticked /\ Stay(g, q)
        /\ cts[d] /\ FreeSlots(g) # {} => Launched(g, q, d)
        /\ ~ (cts[d] /\ FreeSlots(g) # {}) => ~ HasFlag(q, d, "INPROGRESS")
        /\ FreeSlots(g) = {} => q.table = g.table /\ HasFlag(q, d, "REFRESH")
    BY <1>1, QueryInTickFacts
  <2> HIDE DEF q
  <2>3. FreeSlots(g) = FreeSlots(h)
    BY <1>1 DEF FreeSlots
  <2>4. Onward(h, q)
    BY <1>1, <2>2, OnwardTrans
  <2>5. Stay(h, q) /\ (Launched(g, q, d) => Launched(h, q, d))
    BY <1>1, <2>2 DEF Stay, Launched
  <2> QED BY <1>1, <2>1, <2>2, <2>3, <2>4, <2>5
<1> QED BY <1>3, <1>4

-----------------------------------------------------------------------------
(* xbee_cmd_tick *)

\* Requests whose time is not up stay.
Timely(h, g) == \A t \in Slot : h.table[t].device # None /\ ~ h.table[t].due =>
                                   g.table[t] = h.table[t]

\* The request in slot e, which is being answered, stays.
Kept(h, e) == e \in Slot => h.table[e].device # None /\ ~ h.table[e].due

\* A query's request has been sent or is to be sent again.
Started(h, e, d) == \E t \in Slot \ {e} : Tracks(h, d, t) /\ ~ h.table[t].due

LEMMA TimelyTrans ==
  ASSUME NEW h, NEW g, NEW f, Timely(h, g), Timely(g, f)
  PROVE  Timely(h, f)
BY DEF Timely

LEMMA StayTimely ==
  ASSUME NEW h, NEW g, Stay(h, g)
  PROVE  Timely(h, g)
BY DEF Stay, Timely

LEMMA TimelyKept ==
  ASSUME NEW h, NEW g, Timely(h, g), NEW e, Kept(h, e)
  PROVE  Kept(g, e)
BY DEF Timely, Kept

LEMMA LaunchedStarted ==
  ASSUME NEW h, NEW g, NEW d, NEW e, Kept(h, e), Launched(h, g, d)
  PROVE  Started(g, e, d)
BY DEF Kept, Launched, Started

LEMMA StartedStays ==
  ASSUME NEW h, NEW g, NEW d \in Device, NEW e, Started(h, e, d), Timely(h, g),
         g.clc.base = h.clc.base, g.clc.pos = h.clc.pos
  PROVE  Started(g, e, d)
BY NoneAssumption DEF Started, Timely, Tracks

LEMMA StartedTracked ==
  ASSUME OneDevice, NEW h, NEW d \in Device, NEW e, Started(h, e, d)
  PROVE  Tracked(h, e)
BY DEF OneDevice, Started, Tracked

LEMMA IdleTracked ==
  ASSUME OneDevice, NEW h, NEW d \in Device, NEW e, ~ HasFlag(h, d, "INPROGRESS")
  PROVE  Tracked(h, e)
BY DEF OneDevice, Tracked

\* What xbee_cmd_tick starts from and what it comes to, for one request: the
\* request's own query may end, and another one may be started.
LEMMA ExpireFacts ==
  ASSUME NEW h, NEW s \in Slot, NEW keep \in BOOLEAN, Sound(h, Slot)
  PROVE  /\ Onward(h, Expire(h, s, keep))
         /\ Expire(h, s, keep).ticked = h.ticked
         /\ Timely(h, Expire(h, s, keep))
<1> DEFINE d == h.table[s].device
           timeout == [h EXCEPT !.clc.status = "timeout"]
           called == IF h.table[s].callback = "list" THEN EndInTick(timeout) ELSE h
           freed == Release(called, s)
           g == Expire(h, s, keep)
<1>0. h \in Drivers /\ Used(h)
  BY DEF Sound
<1>1. CASE ~ h.table[s].due \/ (h.table[s].callback = "user" /\ keep)
  <2>1. g = h
    BY <1>1 DEF Expire
  <2> QED BY <2>1, OnwardSame DEF Timely
<1>2. CASE h.table[s].due /\ ~ (h.table[s].callback = "user" /\ keep)
  <2>1. d \in Device
    BY <1>0, <1>2 DEF Used, Drivers, Request
  <2>2. g = IF HasFlag(freed, d, "REFRESH") THEN QueryInTick(freed, d, TRUE) ELSE freed
    BY <1>2 DEF Expire
  <2> HIDE DEF d
  <2>3. /\ Onward(h, called) /\ called.ticked = h.ticked /\ Stay(h, called)
    <3>1. CASE h.table[s].callback = "list"
      <4>1. h.clc.base \in Device /\ h.clc \in List
        BY <1>0, <3>1 DEF Used, Drivers
      <4>2. [h.clc EXCEPT !.status = "timeout"] \in List
        BY <4>1 DEF List
      <4>3. [h.clc EXCEPT !.status = "timeout"].base = h.clc.base
        BY <4>1 DEF List
      <4>4. timeout = [h EXCEPT !.clc = [h.clc EXCEPT !.status = "timeout"]]
        OBVIOUS
      <4> HIDE DEF timeout
      <4>5. /\ Onward(h, timeout) /\ timeout.table = h.table /\ timeout.ticked = h.ticked
            /\ timeout.clc.base = h.clc.base
        <5> DEFINE c == [h.clc EXCEPT !.status = "timeout"]
        <5>1. c \in List /\ c.base = h.clc.base /\ timeout = [h EXCEPT !.clc = c]
          BY <4>2, <4>3, <4>4
        <5> HIDE DEF c
        <5> QED BY <1>0, <5>1, ListOnward
      <4>6. Sound(timeout, Slot)
        BY <4>5 DEF Onward
      <4>7. called = EndInTick(timeout)
        BY <3>1
      <4> HIDE DEF called
      <4>8. /\ Onward(timeout, called) /\ called.ticked = timeout.ticked
            /\ Stay(timeout, called)
        BY <4>1, <4>5, <4>6, <4>7, EndInTickFacts
      <4>9. Onward(h, called)
        BY <4>5, <4>8, OnwardTrans
      <4> QED BY <4>5, <4>8, <4>9 DEF Stay
    <3>2. CASE h.table[s].callback # "list"
      <4>1. called = h
        BY <3>2
      <4> HIDE DEF called
      <4> QED BY <4>1, OnwardSame DEF Stay
    <3> QED BY <3>1, <3>2
  <2> HIDE DEF called
  <2>4. Sound(called, Slot)
    BY <2>3 DEF Onward
  <2>5. /\ Sound(freed, Slot) /\ Keeps(called, freed) /\ freed.clc = called.clc
        /\ freed.ticked = called.ticked
        /\ \A t \in Slot \ {s} : freed.table[t] = called.table[t]
    BY <2>4, SoundBut, ReleaseSound
  <2> HIDE DEF freed
  <2>6. /\ Onward(h, freed) /\ freed.ticked = h.ticked /\ Timely(h, freed)
    <3>1. Onward(called, freed)
      BY <2>5 DEF Onward
    <3>2. Timely(h, freed)
      BY <1>2, <2>3, <2>5 DEF Stay, Timely
    <3> QED BY <2>3, <2>5, <3>1, <3>2, OnwardTrans
  <2> DEFINE q == QueryInTick(freed, d, TRUE)
  <2>7. Onward(freed, q) /\ q.ticked = freed.ticked /\ Stay(freed, q)
    BY <2>1, <2>5, QueryInTickFacts
  <2> HIDE DEF q
  <2>8. Onward(h, q) /\ q.ticked = h.ticked /\ Timely(h, q)
    BY <2>6, <2>7, OnwardTrans, StayTimely, TimelyTrans
  <2>9. g = freed \/ g = q
    BY <2>2 DEF q
  <2> HIDE DEF g
  <2> QED BY <2>6, <2>8, <2>9 DEF g
<1> QED BY <1>1, <1>2

\* From the list's position, a query may be launched whose request the list is
\* then at, or one has been launched already.
Ready(h, e, d, first) == \/ h.clc.base = d /\ h.clc.pos = first
                         \/ Started(h, e, d)

LEMMA ExpireTracks ==
  ASSUME OneDevice, NEW h, NEW s \in Slot, NEW keep \in BOOLEAN, Sound(h, Slot),
         NEW d \in Device, NEW e, Kept(h, e), NEW first
  PROVE  /\ Tracked(h, e) => Tracked(Expire(h, s, keep), e)
         /\ cts[d] /\ Ready(h, e, d, first) => Ready(Expire(h, s, keep), e, d, first)
<1> DEFINE timeout == [h EXCEPT !.clc.status = "timeout"]
           called == IF h.table[s].callback = "list" THEN EndInTick(timeout) ELSE h
           freed == Release(called, s)
           g == Expire(h, s, keep)
           q == QueryInTick(freed, d, TRUE)
<1>0. h \in Drivers /\ Used(h)
  BY DEF Sound
<1>1. CASE ~ h.table[s].due \/ (h.table[s].callback = "user" /\ keep)
  <2>1. g = h
    BY <1>1 DEF Expire
  <2> QED BY <2>1
<1>2. CASE h.table[s].due /\ ~ (h.table[s].callback = "user" /\ keep)
  <2>1. h.table[s].device = d
    BY <1>0, <1>2 DEF Used, Drivers, Request, OneDevice
  <2>2. g = IF HasFlag(freed, d, "REFRESH") THEN q ELSE freed
    BY <1>2, <2>1 DEF Expire
  <2>3. e # s
    BY <1>2 DEF Kept
  <2>4. ASSUME Sound(called, Slot), Kept(called, e)
        PROVE  /\ Sound(freed, Slot) /\ freed.clc = called.clc /\ freed.dev = called.dev
               /\ \A t \in Slot \ {s} : freed.table[t] = called.table[t]
               /\ Kept(freed, e) /\ FreeSlots(freed) # {}
    <3>1. /\ Sound(freed, Slot) /\ freed.clc = called.clc /\ freed.dev = called.dev
          /\ \A t \in Slot \ {s} : freed.table[t] = called.table[t]
          /\ freed.table[s] = Unused
      <4> HIDE DEF called
      <4> QED BY <2>4, SoundBut, ReleaseSound
    <3> HIDE DEF freed, called
    <3>2. Kept(freed, e)
      BY <2>3, <2>4, <3>1 DEF Kept
    <3>3. s \in FreeSlots(freed)
      BY <3>1, UnusedFacts DEF FreeSlots
    <3> QED BY <3>1, <3>2, <3>3
  <2>5. ASSUME Sound(freed, Slot), Kept(freed, e), FreeSlots(freed) # {}
        PROVE  /\ HasFlag(freed, d, "INPROGRESS") =>
                     q.table = freed.table /\ q.clc = freed.clc
               /\ ~ HasFlag(freed, d, "INPROGRESS") /\ cts[d] => Started(q, e, d)
               /\ ~ HasFlag(freed, d, "INPROGRESS") /\ ~ cts[d] =>
                     ~ HasFlag(q, d, "INPROGRESS")
    <3> HIDE DEF freed
    <3>1. /\ HasFlag(freed, d, "INPROGRESS") => q.table = freed.table /\ q.clc = freed.clc
          /\ ~ HasFlag(freed, d, "INPROGRESS") /\ cts[d] => Launched(freed, q, d)
          /\ ~ HasFlag(freed, d, "INPROGRESS") /\ ~ cts[d] => ~ HasFlag(q, d, "INPROGRESS")
      BY <2>5, QueryInTickFacts
    <3> HIDE DEF q
    <3> QED BY <2>5, <3>1, LaunchedStarted
  <2>6. CASE h.table[s].callback = "list"
    <3>1. /\ Sound(timeout, Slot) /\ timeout.table = h.table /\ timeout.dev = h.dev
          /\ timeout.clc.base = h.clc.base /\ timeout.clc.pos = h.clc.pos
          /\ h.clc.base = d
      <4> DEFINE c == [h.clc EXCEPT !.status = "timeout"]
      <4>1. h.clc.base \in Device /\ h.clc \in List
        BY <1>0, <2>6 DEF Used, Drivers
      <4>2. c \in List /\ c.base = h.clc.base /\ c.pos = h.clc.pos
        BY <4>1 DEF List
      <4>3. timeout = [h EXCEPT !.clc = c]
        OBVIOUS
      <4> HIDE DEF c, timeout
      <4>4. /\ Onward(h, timeout) /\ timeout.table = h.table /\ timeout.clc = c
            /\ timeout.dev = h.dev
        BY <1>0, <4>2, <4>3, ListOnward
      <4> QED BY <4>1, <4>2, <4>4 DEF Onward, OneDevice
    <3>2. called = EndInTick(timeout)
      BY <2>6
    <3> HIDE DEF timeout, called
    <3>3. /\ Onward(timeout, called) /\ Stay(timeout, called)
          /\ \/ /\ called.table = h.table
                /\ called.clc.base = h.clc.base /\ called.clc.pos = h.clc.pos
                /\ ~ HasFlag(called, d, "INPROGRESS") /\ ~ HasFlag(called, d, "REFRESH")
             \/ /\ cts[d] /\ FreeSlots(timeout) # {} /\ Launched(timeout, called, d)
             \/ /\ cts[d] /\ called.table = h.table
                /\ ~ HasFlag(called, d, "INPROGRESS") /\ HasFlag(called, d, "REFRESH")
             \/ ~ cts[d] /\ ~ HasFlag(called, d, "INPROGRESS")
      BY <3>1, <3>2, EndInTickFacts
    <3>4. Sound(called, Slot) /\ Timely(h, called) /\ Kept(called, e)
      <4>1. Timely(h, called)
        BY <3>1, <3>3, StayTimely DEF Timely
      <4> QED BY <3>1, <3>3, <4>1, TimelyKept DEF Onward
    <3>5. /\ Sound(freed, Slot) /\ freed.clc = called.clc /\ freed.dev = called.dev
          /\ \A t \in Slot \ {s} : freed.table[t] = called.table[t]
          /\ Kept(freed, e) /\ FreeSlots(freed) # {}
      BY <2>4, <3>4
    <3> HIDE DEF freed
    <3>6. /\ \A f : HasFlag(freed, d, f) <=> HasFlag(called, d, f)
          /\ Timely(h, freed)
      BY <1>2, <3>4, <3>5 DEF HasFlag, Timely
    <3>7. /\ HasFlag(freed, d, "INPROGRESS") => q.table = freed.table /\ q.clc = freed.clc
          /\ ~ HasFlag(freed, d, "INPROGRESS") /\ cts[d] => Started(q, e, d)
          /\ ~ HasFlag(freed, d, "INPROGRESS") /\ ~ cts[d] => ~ HasFlag(q, d, "INPROGRESS")
      BY <2>5, <3>5
    <3> HIDE DEF q
    <3>8. CASE /\ called.clc.base = h.clc.base /\ called.clc.pos = h.clc.pos
               /\ ~ HasFlag(called, d, "INPROGRESS") /\ ~ HasFlag(called, d, "REFRESH")
      <4>1. g = freed
        BY <2>2, <3>6, <3>8
      <4>2. Tracked(freed, e)
        BY <3>6, <3>8, IdleTracked
      <4>3. Ready(h, e, d, first) => Ready(freed, e, d, first)
        BY <3>5, <3>6, <3>8, StartedStays DEF Ready
      <4> HIDE DEF g
      <4> QED BY <4>1, <4>2, <4>3 DEF g
    <3>9. CASE Launched(timeout, called, d)
      <4>1. Started(freed, e, d)
        <5>1. PICK t \in Slot : h.table[t].device = None /\ Tracks(called, d, t)
                                /\ ~ called.table[t].due
          BY <3>1, <3>9 DEF Launched
        <5>2. t # s /\ t # e
          BY <2>1, <5>1, NoneAssumption DEF Kept
        <5> QED BY <3>5, <5>1, <5>2 DEF Started, Tracks
      <4>2. CASE HasFlag(freed, d, "REFRESH") /\ ~ HasFlag(freed, d, "INPROGRESS")
        <5>1. CASE cts[d]
          <6>1. Started(q, e, d) /\ g = q
            BY <2>2, <3>7, <4>2, <5>1
          <6>2. Tracked(q, e)
            BY <6>1, StartedTracked
          <6> HIDE DEF g
          <6> QED BY <6>1, <6>2 DEF Ready, g
        <5>2. CASE ~ cts[d]
          <6>1. ~ HasFlag(q, d, "INPROGRESS") /\ g = q
            BY <2>2, <3>7, <4>2, <5>2
          <6>2. Tracked(q, e)
            BY <6>1, IdleTracked
          <6> HIDE DEF g
          <6> QED BY <5>2, <6>1, <6>2 DEF g
        <5> QED BY <5>1, <5>2
      <4>3. CASE ~ HasFlag(freed, d, "REFRESH") \/ HasFlag(freed, d, "INPROGRESS")
        <5>1. g.table = freed.table /\ g.clc = freed.clc
          BY <2>2, <3>7, <4>3
        <5>2. Started(g, e, d)
          <6> HIDE DEF g
          <6> QED BY <4>1, <5>1 DEF Started, Tracks
        <5> HIDE DEF g
        <5>3. Tracked(g, e)
          BY <5>2, StartedTracked
        <5> QED BY <5>2, <5>3 DEF Ready, g
      <4> QED BY <4>2, <4>3
    <3>10. CASE cts[d] /\ ~ HasFlag(called, d, "INPROGRESS") /\ HasFlag(called, d, "REFRESH")
      <4>1. g = q /\ Started(q, e, d)
        BY <2>2, <3>6, <3>7, <3>10
      <4>2. Tracked(q, e)
        BY <4>1, StartedTracked
      <4> HIDE DEF g
      <4> QED BY <4>1, <4>2 DEF Ready, g
    <3>11. CASE ~ cts[d] /\ ~ HasFlag(called, d, "INPROGRESS")
      <4>1. ~ HasFlag(g, d, "INPROGRESS")
        BY <2>2, <3>6, <3>7, <3>11
      <4> HIDE DEF g
      <4>2. Tracked(g, e)
        BY <4>1, IdleTracked
      <4> QED BY <3>11, <4>2 DEF g
    <3> QED BY <3>3, <3>8, <3>9, <3>10, <3>11
  <2>7. CASE h.table[s].callback # "list"
    <3>1. called = h
      BY <2>7
    <3> HIDE DEF called
    <3>2. /\ Sound(freed, Slot) /\ freed.clc = h.clc /\ freed.dev = h.dev
          /\ \A t \in Slot \ {s} : freed.table[t] = h.table[t]
          /\ Kept(freed, e) /\ FreeSlots(freed) # {}
      BY <2>4, <3>1
    <3> HIDE DEF freed
    <3>3. /\ HasFlag(freed, d, "INPROGRESS") => q.table = freed.table /\ q.clc = freed.clc
          /\ ~ HasFlag(freed, d, "INPROGRESS") /\ cts[d] => Started(q, e, d)
          /\ ~ HasFlag(freed, d, "INPROGRESS") /\ ~ cts[d] => ~ HasFlag(q, d, "INPROGRESS")
      BY <2>5, <3>2
    <3> HIDE DEF q
    <3>4. CASE HasFlag(freed, d, "REFRESH") /\ ~ HasFlag(freed, d, "INPROGRESS")
      <4>1. g = q
        BY <2>2, <3>4
      <4> HIDE DEF g
      <4>2. CASE cts[d]
        BY <3>3, <3>4, <4>1, <4>2, StartedTracked DEF Ready, g
      <4>3. CASE ~ cts[d]
        BY <3>3, <3>4, <4>1, <4>3, IdleTracked DEF g
      <4> QED BY <4>2, <4>3
    <3>5. CASE HasFlag(freed, d, "INPROGRESS") \/ ~ HasFlag(freed, d, "REFRESH")
      <4>1. g.table = freed.table /\ g.clc = freed.clc
        BY <2>2, <3>3, <3>5
      <4>2. HasFlag(g, d, "INPROGRESS") => HasFlag(h, d, "INPROGRESS")
        <5>1. HasFlag(freed, d, "INPROGRESS") <=> HasFlag(h, d, "INPROGRESS")
          BY <3>2 DEF HasFlag
        <5>2. CASE HasFlag(freed, d, "INPROGRESS")
          BY <5>1, <5>2
        <5>3. CASE ~ HasFlag(freed, d, "REFRESH")
          BY <2>2, <5>1, <5>3
        <5> QED BY <3>5, <5>2, <5>3
      <4> HIDE DEF g
      <4>3. Tracked(h, e) => Tracked(g, e)
        <5> SUFFICES ASSUME Tracked(h, e), NEW c \in Device, HasFlag(g, c, "INPROGRESS")
                     PROVE  \E t \in Slot \ {e} : Tracks(g, c, t)
          BY DEF Tracked
        <5>1. c = d
          BY DEF OneDevice
        <5>2. PICK t \in Slot \ {e} : Tracks(h, d, t)
          BY <4>2, <5>1 DEF Tracked
        <5>3. t # s
          BY <2>7, <5>2 DEF Tracks
        <5> QED BY <3>2, <4>1, <5>1, <5>2, <5>3 DEF Tracks
      <4>4. Timely(h, g)
        BY <1>2, <3>2, <4>1 DEF Timely
      <4>5. Ready(h, e, d, first) => Ready(g, e, d, first)
        BY <3>2, <4>1, <4>4, StartedStays DEF Ready
      <4> QED BY <4>3, <4>5 DEF g
    <3> QED BY <3>4, <3>5
  <2> QED BY <2>6, <2>7
<1> QED BY <1>1, <1>2

\* The states that xbee_cmd_tick goes through, up to slot n.
Ticking(f, h, keep, n) ==
   f = [s \in 0 .. n |-> IF s = 0 THEN [h EXCEPT !.ticked = TRUE]
                         ELSE Expire(f[s - 1], s, keep)]

LEMMA TickExists ==
  ASSUME NEW h, NEW keep
  PROVE  \E f : Ticking(f, h, keep, TableSize)
<1> DEFINE F(f, n) == Ticking(f, h, keep, n)
           T == {n \in 0 .. TableSize : ~ \E f : F(f, n)}
<1>1. TableSize \in Nat
  BY SizeAssumption
<1> SUFFICES ASSUME T # {} PROVE FALSE
  BY <1>1
<1>2. PICK n \in T : \A k \in T : n <= k
  <2>1. T \in SUBSET Nat
    BY <1>1
  <2> HIDE DEF T
  <2> QED BY <2>1, LeastNat
<1>3. CASE n = 0
  <2> DEFINE f == [i \in 0 .. 0 |-> [h EXCEPT !.ticked = TRUE]]
  <2>1. F(f, 0)
    BY DEF Ticking
  <2> QED BY <1>2, <1>3, <2>1
<1>4. CASE n # 0
  <2>1. n - 1 \in 0 .. TableSize /\ n - 1 \notin T /\ n \in Nat \ {0}
    BY <1>1, <1>2, <1>4
  <2>2. PICK g : F(g, n - 1)
    BY <2>1
  <2> DEFINE step(p, i) == IF i = 0 THEN [h EXCEPT !.ticked = TRUE]
                           ELSE Expire(p[i - 1], i, keep)
             f == [i \in 0 .. n |-> step(g, i)]
  <2>3. g = [i \in 0 .. n - 1 |-> step(g, i)]
    BY <2>2 DEF Ticking
  <2> HIDE DEF step
  <2>4. \A i \in 0 .. n - 1 : f[i] = g[i]
    BY <2>1, <2>3
  <2>5. \A i \in 0 .. n : step(f, i) = step(g, i)
    <3> TAKE i \in 0 .. n
    <3>1. CASE i = 0
      BY <3>1 DEF step
    <3>2. CASE i # 0
      <4>1. i - 1 \in 0 .. n - 1
        BY <2>1, <3>2
      <4>2. f[i - 1] = g[i - 1]
        BY <2>4, <4>1
      <4> HIDE DEF f
      <4> QED BY <4>2 DEF step
    <3> QED BY <3>1, <3>2
  <2>6. f = [i \in 0 .. n |-> step(f, i)]
    BY <2>5
  <2>7. F(f, n)
    BY <2>6 DEF Ticking, step
  <2> QED BY <1>2, <2>7
<1> QED BY <1>3, <1>4

\* xbee_cmd_tick goes through the table, slot by slot.
LEMMA TickSteps ==
  ASSUME NEW h, NEW keep, ~ h.ticked
  PROVE  \E f : /\ f[0] = [h EXCEPT !.ticked = TRUE]
                /\ \A s \in Slot : f[s] = Expire(f[s - 1], s, keep)
                /\ Tick(h, keep) = f[TableSize]
<1>1. PICK f : Ticking(f, h, keep, TableSize) /\ Tick(h, keep) = f[TableSize]
  <2>1. \E f : Ticking(f, h, keep, TableSize)
    BY TickExists
  <2> QED BY <2>1, Zenon DEF Ticking, Tick
<1>2. 0 \in 0 .. TableSize /\ \A s \in Slot : s \in 0 .. TableSize /\ s # 0
  BY SizeAssumption DEF Slot
<1>3. f[0] = [h EXCEPT !.ticked = TRUE] /\ \A s \in Slot : f[s] = Expire(f[s - 1], s, keep)
  BY <1>1, <1>2 DEF Ticking
<1> QED BY <1>1, <1>3

LEMMA TickedFields ==
  ASSUME NEW h, Sound(h, Slot)
  PROVE  /\ Onward(h, [h EXCEPT !.ticked = TRUE])
         /\ [h EXCEPT !.ticked = TRUE].table = h.table
         /\ [h EXCEPT !.ticked = TRUE].dev = h.dev
         /\ [h EXCEPT !.ticked = TRUE].clc = h.clc
         /\ [h EXCEPT !.ticked = TRUE].ticked = TRUE
<1> DEFINE g == [h EXCEPT !.ticked = TRUE]
<1>1. /\ g \in Drivers /\ g.table = h.table /\ g.clc = h.clc /\ g.dev = h.dev
      /\ g.out = h.out /\ g.in = h.in /\ g.ticked = TRUE
  BY DEF Sound, Drivers
<1> HIDE DEF g
<1>2. Sound(g, Slot) /\ Wires(h, g)
  BY <1>1, StateSound
<1>3. Keeps(h, g)
  BY <1>1, <1>2, SameBelief
<1> QED BY <1>1, <1>2, <1>3 DEF Onward, g

LEMMA TickFacts ==
  ASSUME NEW h, NEW keep \in BOOLEAN, Sound(h, Slot)
  PROVE  /\ Onward(h, Tick(h, keep)) /\ Timely(h, Tick(h, keep))
         /\ Tick(h, keep).ticked /\ (h.ticked => Tick(h, keep) = h)
<1>1. CASE h.ticked
  <2>1. Tick(h, keep) = h
    BY <1>1 DEF Tick
  <2> QED BY <1>1, <2>1, OnwardSame DEF Timely
<1>2. CASE ~ h.ticked
  <2>1. PICK f : /\ f[0] = [h EXCEPT !.ticked = TRUE]
                 /\ \A s \in Slot : f[s] = Expire(f[s - 1], s, keep)
                 /\ Tick(h, keep) = f[TableSize]
    BY <1>2, TickSteps
  <2> DEFINE Good(n) == Onward(h, f[n]) /\ Timely(h, f[n]) /\ f[n].ticked
             T == {n \in 0 .. TableSize : ~ Good(n)}
  <2>2. Good(0)
    BY <2>1, TickedFields DEF Timely
  <2>3. ASSUME NEW s \in Slot, Good(s - 1) PROVE Good(s)
    <3> DEFINE p == f[s - 1]
    <3>1. Onward(h, p) /\ Timely(h, p) /\ p.ticked /\ Sound(p, Slot)
      BY <2>3 DEF Onward
    <3>2. f[s] = Expire(p, s, keep)
      BY <2>1
    <3> HIDE DEF p
    <3>3. /\ Onward(p, Expire(p, s, keep)) /\ Timely(p, Expire(p, s, keep))
          /\ Expire(p, s, keep).ticked = p.ticked
      BY <3>1, ExpireFacts
    <3> QED BY <3>1, <3>2, <3>3, OnwardTrans, TimelyTrans
  <2> HIDE DEF Good
  <2>4. T = {}
    <3> SUFFICES ASSUME T # {} PROVE FALSE
      OBVIOUS
    <3>1. PICK n \in T : \A k \in T : n <= k
      <4>1. T \in SUBSET Nat
        BY SizeAssumption
      <4> HIDE DEF T
      <4> QED BY <4>1, LeastNat
    <3>2. n # 0 /\ n \in Slot /\ n - 1 \in 0 .. TableSize /\ n - 1 \notin T
      BY <2>2, <3>1, SizeAssumption DEF Slot
    <3> QED BY <2>3, <3>1, <3>2
  <2>5. Good(TableSize)
    BY <2>4, SizeAssumption
  <2> QED BY <1>2, <2>1, <2>5 DEF Good
<1> QED BY <1>1, <1>2

LEMMA TickTracks ==
  ASSUME OneDevice, NEW h, NEW keep \in BOOLEAN, Sound(h, Slot),
         NEW d \in Device, NEW e, Kept(h, e), NEW first
  PROVE  /\ Tracked(h, e) => Tracked(Tick(h, keep), e)
         /\ cts[d] /\ Ready(h, e, d, first) => Ready(Tick(h, keep), e, d, first)
<1>1. CASE h.ticked
  <2>1. Tick(h, keep) = h
    BY <1>1 DEF Tick
  <2> QED BY <2>1
<1>2. CASE ~ h.ticked
  <2>1. PICK f : /\ f[0] = [h EXCEPT !.ticked = TRUE]
                 /\ \A s \in Slot : f[s] = Expire(f[s - 1], s, keep)
                 /\ Tick(h, keep) = f[TableSize]
    BY <1>2, TickSteps
  <2> DEFINE Good(n) == /\ Sound(f[n], Slot) /\ Kept(f[n], e)
                        /\ Tracked(h, e) => Tracked(f[n], e)
                        /\ cts[d] /\ Ready(h, e, d, first) => Ready(f[n], e, d, first)
             T == {n \in 0 .. TableSize : ~ Good(n)}
  <2>2. Good(0)
    <3> DEFINE p == f[0]
    <3>1. /\ Onward(h, p) /\ p.table = h.table /\ p.dev = h.dev /\ p.clc = h.clc
      BY <2>1, TickedFields
    <3> HIDE DEF p
    <3>2. Sound(p, Slot)
      BY <3>1 DEF Onward
    <3>3. /\ Kept(p, e) /\ (Tracked(h, e) => Tracked(p, e))
          /\ Ready(h, e, d, first) => Ready(p, e, d, first)
      BY <3>1 DEF Kept, Tracked, HasFlag, Tracks, Ready, Started
    <3> QED BY <3>2, <3>3 DEF p
  <2>3. ASSUME NEW s \in Slot, Good(s - 1) PROVE Good(s)
    <3> DEFINE p == f[s - 1]
    <3>1. /\ Sound(p, Slot) /\ Kept(p, e)
          /\ Tracked(h, e) => Tracked(p, e)
          /\ cts[d] /\ Ready(h, e, d, first) => Ready(p, e, d, first)
      BY <2>3
    <3>2. f[s] = Expire(p, s, keep)
      BY <2>1
    <3> HIDE DEF p
    <3>3. /\ Onward(p, Expire(p, s, keep)) /\ Timely(p, Expire(p, s, keep))
      BY <3>1, ExpireFacts
    <3>4. Sound(Expire(p, s, keep), Slot) /\ Kept(Expire(p, s, keep), e)
      BY <3>1, <3>3, TimelyKept DEF Onward
    <3>5. /\ Tracked(p, e) => Tracked(Expire(p, s, keep), e)
          /\ cts[d] /\ Ready(p, e, d, first) => Ready(Expire(p, s, keep), e, d, first)
      BY <3>1, ExpireTracks
    <3> QED BY <3>1, <3>2, <3>4, <3>5
  <2> HIDE DEF Good
  <2>4. T = {}
    <3> SUFFICES ASSUME T # {} PROVE FALSE
      OBVIOUS
    <3>1. PICK n \in T : \A k \in T : n <= k
      <4>1. T \in SUBSET Nat
        BY SizeAssumption
      <4> HIDE DEF T
      <4> QED BY <4>1, LeastNat
    <3>2. n # 0 /\ n \in Slot /\ n - 1 \in 0 .. TableSize /\ n - 1 \notin T
      BY <2>2, <3>1, SizeAssumption DEF Slot
    <3> QED BY <2>3, <3>1, <3>2
  <2>5. Good(TableSize)
    BY <2>4, SizeAssumption
  <2> QED BY <2>1, <2>5 DEF Good
<1> QED BY <1>1, <1>2

-----------------------------------------------------------------------------
(* Queries from outside xbee_cmd_tick *)

\* xbee_cmd_tick would not make room.
Full(h) == FreeSlots(h) = {} /\ h.ticked

\* A query launched now leaves the list where its request is.
Ripe(h, e, d, first) == ~ cts[d] \/ Ready(h, e, d, first) \/ Full(h)

LEMMA MakeRoomFacts ==
  ASSUME NEW h, NEW keep \in BOOLEAN, Sound(h, Slot)
  PROVE  /\ Onward(h, MakeRoom(h, keep)) /\ Timely(h, MakeRoom(h, keep))
         /\ FreeSlots(MakeRoom(h, keep)) = {} => MakeRoom(h, keep).ticked
<1>1. CASE FreeSlots(h) = {}
  <2>1. MakeRoom(h, keep) = Tick(h, keep)
    BY <1>1 DEF MakeRoom
  <2> QED BY <2>1, TickFacts
<1>2. CASE FreeSlots(h) # {}
  <2>1. MakeRoom(h, keep) = h
    BY <1>2 DEF MakeRoom
  <2> QED BY <1>2, <2>1, OnwardSame DEF Timely
<1> QED BY <1>1, <1>2

LEMMA MakeRoomTracks ==
  ASSUME OneDevice, NEW h, NEW keep \in BOOLEAN, Sound(h, Slot),
         NEW d \in Device, NEW e, Kept(h, e), NEW first
  PROVE  /\ Tracked(h, e) => Tracked(MakeRoom(h, keep), e)
         /\ Ripe(h, e, d, first) => Ripe(MakeRoom(h, keep), e, d, first)
<1>1. CASE FreeSlots(h) = {}
  <2>1. MakeRoom(h, keep) = Tick(h, keep)
    BY <1>1 DEF MakeRoom
  <2>2. h.ticked => Tick(h, keep) = h
    BY TickFacts
  <2>3. /\ Tracked(h, e) => Tracked(Tick(h, keep), e)
        /\ cts[d] /\ Ready(h, e, d, first) => Ready(Tick(h, keep), e, d, first)
    BY TickTracks
  <2> QED BY <2>1, <2>2, <2>3 DEF Ripe, Full
<1>2. CASE FreeSlots(h) # {}
  <2>1. MakeRoom(h, keep) = h
    BY <1>2 DEF MakeRoom
  <2> QED BY <2>1
<1> QED BY <1>1, <1>2

LEMMA LaunchTracks ==
  ASSUME OneDevice, NEW h, NEW d \in Device, NEW first \in 1 .. 2, Sound(h, Slot),
         h.clc.base \in Device, NEW e, Kept(h, e), Tracked(h, e),
         Ripe(h, e, d, first), FreeSlots(h) = {} => h.ticked
  PROVE  /\ Tracked(LaunchList(h, d, first), e)
         /\ \A f : Ripe(LaunchList(h, d, first), e, d, f)
<1> DEFINE g == LaunchList(h, d, first)
<1>1. /\ g.clc = h.clc
      /\ \A t \in Slot : h.table[t].device # None => g.table[t] = h.table[t]
      /\ FreeSlots(h) = {} => g = h
      /\ ~ cts[d] => g.dev = h.dev
      /\ FreeSlots(h) # {} /\ cts[d] =>
            \E s \in Slot :
                     /\ h.table[s].device = None
                     /\ g.table[s].device = d
                     /\ g.table[s].callback = "list"
                     /\ g.table[s].command = Regs[first]
                     /\ ~ g.table[s].due
  BY LaunchFacts
<1> HIDE DEF g
<1>2. CASE FreeSlots(h) = {}
  <2>1. Full(h)
    BY <1>2 DEF Full
  <2> QED BY <1>1, <1>2, <2>1 DEF Ripe, g
<1>3. CASE ~ cts[d]
  <2>1. Tracked(g, e)
    <3> SUFFICES ASSUME NEW c \in Device, HasFlag(g, c, "INPROGRESS")
                 PROVE  \E t \in Slot \ {e} : Tracks(g, c, t)
      BY DEF Tracked
    <3>1. PICK t \in Slot \ {e} : Tracks(h, c, t)
      BY <1>1, <1>3 DEF Tracked, HasFlag
    <3>2. h.table[t].device # None
      BY <3>1, NoneAssumption DEF Tracks
    <3> QED BY <1>1, <3>1, <3>2 DEF Tracks
  <2> QED BY <1>3, <2>1 DEF Ripe, g
<1>4. CASE FreeSlots(h) # {} /\ cts[d]
  <2>1. Ready(h, e, d, first)
    BY <1>4 DEF Ripe, Full
  <2>2. CASE h.clc.base = d /\ h.clc.pos = first
    <3>1. PICK s \in Slot : /\ h.table[s].device = None
                            /\ g.table[s].device = d /\ g.table[s].callback = "list"
                            /\ g.table[s].command = Regs[first] /\ ~ g.table[s].due
      BY <1>1, <1>4
    <3>2. Regs[first] = RegAt(first)
      <4>1. first = 1 \/ first = 2
        OBVIOUS
      <4> QED BY <4>1, RegFacts
    <3>3. s # e
      BY <3>1 DEF Kept
    <3>4. Started(g, e, d)
      BY <1>1, <2>2, <3>1, <3>2, <3>3 DEF Started, Tracks
    <3> QED BY <3>4, StartedTracked DEF Ripe, Ready, g
  <2>3. CASE Started(h, e, d)
    <3>1. Timely(h, g)
      BY <1>1 DEF Timely
    <3>2. Started(g, e, d)
      BY <1>1, <2>3, <3>1, StartedStays
    <3> QED BY <3>2, StartedTracked DEF Ripe, Ready, g
  <2> QED BY <2>1, <2>2, <2>3 DEF Ready
<1> QED BY <1>2, <1>3, <1>4

LEMMA LaunchTimely ==
  ASSUME NEW h, NEW d \in Device, NEW first \in 1 .. 2, Sound(h, Slot),
         h.clc.base \in Device
  PROVE  Timely(h, LaunchList(h, d, first))
<1>1. \A t \in Slot : h.table[t].device # None =>
                         LaunchList(h, d, first).table[t] = h.table[t]
  BY LaunchFacts
<1> QED BY <1>1 DEF Timely

\* Only the flags change, and not the one for a query in progress.
LEMMA SameTracked ==
  ASSUME NEW h, NEW g, NEW e, g.table = h.table, g.clc = h.clc,
         \A d \in Device : HasFlag(g, d, "INPROGRESS") => HasFlag(h, d, "INPROGRESS")
  PROVE  Tracked(h, e) => Tracked(g, e)
BY DEF Tracked, Tracks

LEMMA SameTable ==
  ASSUME NEW h, NEW g, g.table = h.table
  PROVE  /\ Timely(h, g) /\ FreeSlots(g) = FreeSlots(h)
         /\ \A e : Kept(h, e) => Kept(g, e)
BY DEF Timely, FreeSlots, Kept

LEMMA QueryReadyFacts ==
  ASSUME NEW h, NEW d \in Device, NEW refresh \in BOOLEAN, NEW keep \in BOOLEAN,
         Sound(h, Slot)
  PROVE  /\ Onward(h, QueryReady(h, d, refresh, keep))
         /\ Timely(h, QueryReady(h, d, refresh, keep))
<1> DEFINE w == WantQuery(h, d, refresh)
           b == BeginList(w, d, First(refresh))
           m == MakeRoom(b, keep)
           l == LaunchList(m, d, First(refresh))
           g == QueryReady(h, d, refresh, keep)
<1>0. h \in Drivers
  BY DEF Sound
<1>1. Onward(h, w) /\ w \in Drivers /\ w.table = h.table
  BY <1>0, WantFacts
<1>2. g = IF HasFlag(h, d, "INPROGRESS") THEN w ELSE l
  BY DEF QueryReady
<1> HIDE DEF w
<1>3. Onward(w, b) /\ b.table = w.table /\ b.clc.base = d
  BY <1>1, FirstFacts, BeginListFields
<1> HIDE DEF b
<1>4. Sound(b, Slot) /\ Timely(h, w) /\ Timely(h, b)
  BY <1>1, <1>3, SameTable DEF Onward
<1>5. Onward(b, m) /\ Timely(b, m)
  BY <1>4, MakeRoomFacts
<1> HIDE DEF m
<1>6. Sound(m, Slot) /\ m.clc.base \in Device
  BY <1>3, <1>4, <1>5 DEF Onward
<1>7. Onward(m, l) /\ Timely(m, l)
  BY <1>6, FirstFacts, LaunchFacts, LaunchTimely
<1> HIDE DEF l
<1>8. Onward(h, l) /\ Timely(h, l)
  <2>1. Onward(h, b)
    BY <1>1, <1>3, OnwardTrans
  <2>2. Onward(h, m) /\ Timely(h, m)
    BY <1>4, <1>5, <2>1, OnwardTrans, TimelyTrans
  <2> QED BY <1>7, <2>2, OnwardTrans, TimelyTrans
<1>9. g = w \/ g = l
  BY <1>2
<1> HIDE DEF g
<1> QED BY <1>1, <1>4, <1>8, <1>9 DEF g

\* After WantQuery, BeginList and what comes in between, the launch.
LEMMA RoomThenLaunch ==
  ASSUME OneDevice, NEW h, NEW d \in Device, NEW refresh \in BOOLEAN, NEW keep \in BOOLEAN,
         Sound(h, Slot), h.clc.base \in Device, NEW e, Kept(h, e), Tracked(h, e),
         Ripe(h, e, d, First(refresh))
  PROVE  /\ Tracked(LaunchList(MakeRoom(h, keep), d, First(refresh)), e)
         /\ \A f : Ripe(LaunchList(MakeRoom(h, keep), d, First(refresh)), e, d, f)
<1> DEFINE m == MakeRoom(h, keep)
<1>1. Onward(h, m) /\ Timely(h, m) /\ (FreeSlots(m) = {} => m.ticked)
  BY MakeRoomFacts
<1>2. Tracked(m, e) /\ Ripe(m, e, d, First(refresh))
  BY MakeRoomTracks
<1> HIDE DEF m
<1>3. Sound(m, Slot) /\ m.clc.base \in Device /\ Kept(m, e)
  BY <1>1, TimelyKept DEF Onward
<1>4. First(refresh) \in 1 .. 2
  BY FirstFacts
<1>5. /\ Tracked(LaunchList(m, d, First(refresh)), e)
      /\ \A f : Ripe(LaunchList(m, d, First(refresh)), e, d, f)
  BY <1>1, <1>2, <1>3, <1>4, LaunchTracks
<1> QED BY <1>5 DEF m

LEMMA QueryReadyTracks ==
  ASSUME OneDevice, NEW h, NEW d \in Device, NEW refresh \in BOOLEAN, NEW keep \in BOOLEAN,
         Sound(h, Slot), NEW e, Kept(h, e)
  PROVE  /\ Tracked(h, e) => Tracked(QueryReady(h, d, refresh, keep), e)
         /\ ~ HasFlag(h, d, "INPROGRESS") =>
               \A f : Ripe(QueryReady(h, d, refresh, keep), e, d, f)
<1> DEFINE w == WantQuery(h, d, refresh)
           b == BeginList(w, d, First(refresh))
           l == LaunchList(MakeRoom(b, keep), d, First(refresh))
           g == QueryReady(h, d, refresh, keep)
<1>0. h \in Drivers /\ "INPROGRESS" \in Flag \ {"REFRESH"}
  BY DEF Sound, Flag
<1>1. /\ Onward(h, w) /\ w \in Drivers /\ w.table = h.table /\ w.clc = h.clc
      /\ HasFlag(w, d, "INPROGRESS") <=> HasFlag(h, d, "INPROGRESS")
  BY <1>0, WantFacts
<1>2. g = IF HasFlag(h, d, "INPROGRESS") THEN w ELSE l
  BY DEF QueryReady
<1> HIDE DEF w
<1>3. CASE HasFlag(h, d, "INPROGRESS")
  <2>1. \A c \in Device : HasFlag(w, c, "INPROGRESS") => HasFlag(h, c, "INPROGRESS")
    BY <1>1, <1>3 DEF OneDevice
  <2>2. Tracked(h, e) => Tracked(w, e)
    BY <1>1, <2>1, SameTracked
  <2>3. g = w
    BY <1>2, <1>3
  <2> HIDE DEF g
  <2> QED BY <1>3, <2>2, <2>3 DEF g
<1>4. CASE ~ HasFlag(h, d, "INPROGRESS")
  <2>1. /\ Onward(w, b) /\ b.table = w.table /\ b.dev = w.dev /\ b.clc.base = d
        /\ b.clc.pos = First(refresh)
    BY <1>1, FirstFacts, BeginListFields
  <2> HIDE DEF b
  <2>2. Sound(b, Slot) /\ Kept(b, e)
    BY <1>1, <2>1, SameTable DEF Onward
  <2>3. Tracked(b, e) /\ Ripe(b, e, d, First(refresh))
    <3>1. ~ HasFlag(b, d, "INPROGRESS")
      BY <1>1, <1>4, <2>1 DEF HasFlag
    <3> QED BY <2>1, <3>1, IdleTracked DEF Ripe, Ready
  <2>4. Tracked(l, e) /\ \A f : Ripe(l, e, d, f)
    BY <2>1, <2>2, <2>3, RoomThenLaunch
  <2>5. g = l
    BY <1>2, <1>4
  <2> HIDE DEF g, l
  <2> QED BY <2>4, <2>5 DEF g
<1> QED BY <1>3, <1>4

LEMMA InitDeviceFacts ==
  ASSUME NEW h, NEW d \in Device, NEW keep \in BOOLEAN, Sound(h, Slot)
  PROVE  Onward(h, InitDevice(h, d, keep)) /\ Timely(h, InitDevice(h, d, keep))
<1> DEFINE a == AddFlags(h, d, {"INIT"})
           q == QueryReady(a, d, FALSE, keep)
           g == InitDevice(h, d, keep)
<1>0. h \in Drivers /\ {"INIT"} \in SUBSET Flag /\ "DONE" \notin {"INIT"}
  BY DEF Sound, Flag
<1>1. Onward(h, a) /\ a.table = h.table
  BY <1>0, FlagFields, AddFlagsOnward
<1>2. g = h \/ g = a \/ g = q
  BY DEF InitDevice
<1> HIDE DEF a
<1>3. Sound(a, Slot) /\ Timely(h, a) /\ Timely(h, h) /\ Onward(h, h)
  BY <1>1, SameTable, OnwardSame DEF Onward
<1>4. Onward(a, q) /\ Timely(a, q)
  BY <1>3, QueryReadyFacts
<1> HIDE DEF q
<1>5. Onward(h, q) /\ Timely(h, q)
  BY <1>1, <1>3, <1>4, OnwardTrans, TimelyTrans
<1> HIDE DEF g
<1> QED BY <1>1, <1>2, <1>3, <1>5 DEF g

LEMMA InitDeviceTracks ==
  ASSUME OneDevice, NEW h, NEW d \in Device, NEW keep \in BOOLEAN,
         Sound(h, Slot), NEW e, Kept(h, e), NEW first
  PROVE  /\ Tracked(h, e) => Tracked(InitDevice(h, d, keep), e)
         /\ ~ HasFlag(h, d, "INPROGRESS") /\ Ripe(h, e, d, first) =>
               Ripe(InitDevice(h, d, keep), e, d, first)
<1> DEFINE a == AddFlags(h, d, {"INIT"})
           q == QueryReady(a, d, FALSE, keep)
           g == InitDevice(h, d, keep)
<1>0. /\ h \in Drivers /\ {"INIT"} \in SUBSET Flag /\ "DONE" \notin {"INIT"}
      /\ "INPROGRESS" \notin {"INIT"}
  BY DEF Sound, Flag
<1>1. /\ Onward(h, a) /\ a.table = h.table /\ a.clc = h.clc /\ a.ticked = h.ticked
      /\ a.dev[d].flags = h.dev[d].flags \cup {"INIT"}
  BY <1>0, FlagFields, AddFlagsOnward
<1>2. g = h \/ g = a \/ g = q
  BY DEF InitDevice
<1> HIDE DEF a
<1>3. /\ HasFlag(a, d, "INPROGRESS") <=> HasFlag(h, d, "INPROGRESS")
      /\ Sound(a, Slot) /\ Kept(a, e) /\ FreeSlots(a) = FreeSlots(h)
  BY <1>0, <1>1, SameTable DEF HasFlag, Onward
<1>4. Tracked(h, e) => Tracked(a, e)
  <2>1. \A c \in Device : HasFlag(a, c, "INPROGRESS") => HasFlag(h, c, "INPROGRESS")
    BY <1>3 DEF OneDevice
  <2> QED BY <1>1, <2>1, SameTracked
<1>5. Ripe(h, e, d, first) => Ripe(a, e, d, first)
  BY <1>1, <1>3 DEF Ripe, Ready, Started, Tracks, Full
<1>6. /\ Tracked(a, e) => Tracked(q, e)
      /\ ~ HasFlag(a, d, "INPROGRESS") => Ripe(q, e, d, first)
  BY <1>3, QueryReadyTracks
<1> HIDE DEF g, q
<1> QED BY <1>2, <1>3, <1>4, <1>5, <1>6 DEF g

LEMMA QueryFacts ==
  ASSUME NEW h, NEW d \in Device, NEW refresh \in BOOLEAN, NEW keep \in BOOLEAN,
         Sound(h, Slot)
  PROVE  /\ Onward(h, Query(h, d, refresh, keep))
         /\ Onward(WantQuery(h, d, refresh), Query(h, d, refresh, keep))
         /\ Timely(h, Query(h, d, refresh, keep))
<1> DEFINE w == WantQuery(h, d, refresh)
           b == BeginList(w, d, First(refresh))
           i == InitDevice(b, d, keep)
           m == MakeRoom(i, keep)
           l == LaunchList(m, d, First(refresh))
           g == Query(h, d, refresh, keep)
<1>0. h \in Drivers
  BY DEF Sound
<1>1. Onward(h, w) /\ w \in Drivers /\ w.table = h.table
  BY <1>0, WantFacts
<1>2. g = IF HasFlag(h, d, "INPROGRESS") THEN w ELSE l
  BY DEF Query
<1> HIDE DEF w
<1>3. Onward(w, b) /\ b.table = w.table /\ b.clc.base = d
  BY <1>1, FirstFacts, BeginListFields
<1> HIDE DEF b
<1>4. Sound(b, Slot) /\ Timely(h, w) /\ Timely(h, b)
  BY <1>1, <1>3, SameTable DEF Onward
<1>5. Onward(b, i) /\ Timely(b, i)
  BY <1>4, InitDeviceFacts
<1> HIDE DEF i
<1>6. Sound(i, Slot)
  BY <1>4, <1>5 DEF Onward
<1>7. Onward(i, m) /\ Timely(i, m)
  BY <1>6, MakeRoomFacts
<1> HIDE DEF m
<1>8. Sound(m, Slot) /\ m.clc.base \in Device
  BY <1>3, <1>5, <1>6, <1>7 DEF Onward
<1>9. Onward(m, l) /\ Timely(m, l)
  BY <1>8, FirstFacts, LaunchFacts, LaunchTimely
<1> HIDE DEF l
<1>10. Onward(w, l) /\ Timely(h, l)
  <2>1. Onward(w, i) /\ Timely(h, i)
    BY <1>3, <1>4, <1>5, OnwardTrans, TimelyTrans
  <2>2. Onward(w, m) /\ Timely(h, m)
    BY <1>7, <2>1, OnwardTrans, TimelyTrans
  <2> QED BY <1>9, <2>2, OnwardTrans, TimelyTrans
<1>11. Onward(w, g) /\ Timely(h, g)
  <2>1. g = w \/ g = l
    BY <1>2
  <2> HIDE DEF g
  <2> QED BY <1>4, <1>10, <2>1, OnwardSame
<1>12. Onward(h, g)
  <2> HIDE DEF g
  <2> QED BY <1>1, <1>11, OnwardTrans
<1> QED BY <1>11, <1>12 DEF w

LEMMA QueryTracks ==
  ASSUME OneDevice, NEW h, NEW d \in Device, NEW refresh \in BOOLEAN, NEW keep \in BOOLEAN,
         Sound(h, Slot), NEW e, Kept(h, e)
  PROVE  Tracked(h, e) => Tracked(Query(h, d, refresh, keep), e)
<1> DEFINE w == WantQuery(h, d, refresh)
           b == BeginList(w, d, First(refresh))
           i == InitDevice(b, d, keep)
           l == LaunchList(MakeRoom(i, keep), d, First(refresh))
           g == Query(h, d, refresh, keep)
<1>0. h \in Drivers /\ "INPROGRESS" \in Flag \ {"REFRESH"}
  BY DEF Sound, Flag
<1>1. /\ Onward(h, w) /\ w \in Drivers /\ w.table = h.table /\ w.clc = h.clc
      /\ HasFlag(w, d, "INPROGRESS") <=> HasFlag(h, d, "INPROGRESS")
  BY <1>0, WantFacts
<1>2. g = IF HasFlag(h, d, "INPROGRESS") THEN w ELSE l
  BY DEF Query
<1> HIDE DEF w
<1>3. CASE HasFlag(h, d, "INPROGRESS")
  <2>1. \A c \in Device : HasFlag(w, c, "INPROGRESS") => HasFlag(h, c, "INPROGRESS")
    BY <1>1, <1>3 DEF OneDevice
  <2>2. Tracked(h, e) => Tracked(w, e)
    BY <1>1, <2>1, SameTracked
  <2>3. g = w
    BY <1>2, <1>3
  <2> HIDE DEF g
  <2> QED BY <2>2, <2>3 DEF g
<1>4. CASE ~ HasFlag(h, d, "INPROGRESS")
  <2>1. /\ Onward(w, b) /\ b.table = w.table /\ b.dev = w.dev /\ b.clc.base = d
        /\ b.clc.pos = First(refresh)
    BY <1>1, FirstFacts, BeginListFields
  <2> HIDE DEF b
  <2>2. Sound(b, Slot) /\ Kept(b, e)
    BY <1>1, <2>1, SameTable DEF Onward
  <2>3. /\ ~ HasFlag(b, d, "INPROGRESS")
        /\ Tracked(b, e) /\ Ripe(b, e, d, First(refresh))
    <3>1. ~ HasFlag(b, d, "INPROGRESS")
      BY <1>1, <1>4, <2>1 DEF HasFlag
    <3> QED BY <2>1, <3>1, IdleTracked DEF Ripe, Ready
  <2>4. Tracked(i, e) /\ Ripe(i, e, d, First(refresh))
    BY <2>2, <2>3, InitDeviceTracks
  <2>5. Onward(b, i) /\ Timely(b, i)
    BY <2>2, InitDeviceFacts
  <2> HIDE DEF i
  <2>6. Sound(i, Slot) /\ i.clc.base \in Device /\ Kept(i, e)
    BY <2>1, <2>2, <2>5, TimelyKept DEF Onward
  <2>7. Tracked(l, e)
    BY <2>4, <2>6, RoomThenLaunch
  <2>8. g = l
    BY <1>2, <1>4
  <2> HIDE DEF g, l
  <2> QED BY <2>7, <2>8 DEF g
<1> QED BY <1>3, <1>4

-----------------------------------------------------------------------------
(* Answers *)

\* What the driver believes about the device changes.
Told(h, d, st) == [h EXCEPT !.dev[d] = st]

LEMMA ToldFields ==
  ASSUME NEW h \in Drivers, NEW d \in Device, NEW st \in State
  PROVE  /\ Told(h, d, st) \in Drivers
         /\ Told(h, d, st).table = h.table /\ Told(h, d, st).clc = h.clc
         /\ Told(h, d, st).out = h.out /\ Told(h, d, st).in = h.in
         /\ Told(h, d, st).ticked = h.ticked
         /\ Told(h, d, st).dev[d] = st
         /\ \A c \in Device \ {d} : Told(h, d, st).dev[c] = h.dev[c]
BY DEF Told, Drivers

\* The device may be told what is so.
LEMMA ToldOnward ==
  ASSUME NEW h \in Drivers, NEW d \in Device, NEW st \in State,
         st.flags = h.dev[d].flags,
         OneDevice => /\ st.joined => \/ h.dev[d].joined \/ addr[d] # Undefined
                                      \/ Corrected(h, d, {"disassociated"})
                      /\ \/ st.network \in {h.dev[d].network, addr[d]}
                         \/ Corrected(h, d, Status)
  PROVE  Onward(h, Told(h, d, st))
<1> DEFINE g == Told(h, d, st)
<1>1. /\ g \in Drivers /\ g.table = h.table /\ g.clc = h.clc
      /\ g.out = h.out /\ g.in = h.in /\ g.dev[d] = st
  BY ToldFields
<1> HIDE DEF g
<1>2. Sound(h, Slot) => Sound(g, Slot)
  BY <1>1, StateSound
<1>3. ASSUME OneDevice
      PROVE  /\ Current(h, d) => Current(g, d)
             /\ Known(h, d) => Known(g, d)
             /\ \A c \in Device : c = d
  BY <1>1, <1>3 DEF OneDevice, Current, Known, Corrected
<1>4. ASSUME OneDevice PROVE Fresh(h, d) => Fresh(g, d)
  BY <1>1, <1>3, <1>4 DEF Fresh, HasFlag
<1> QED BY <1>1, <1>2, <1>3, <1>4 DEF Onward, Keeps, True, g

LEMMA EndOnAnswerFacts ==
  ASSUME NEW h, NEW failed \in BOOLEAN, NEW keep \in BOOLEAN,
         Sound(h, Slot), h.clc.base \in Device,
         OneDevice /\ ~ failed => Current(h, h.clc.base)
  PROVE  /\ Onward(h, EndOnAnswer(h, failed, keep))
         /\ Timely(h, EndOnAnswer(h, failed, keep))
         /\ \A e : OneDevice /\ Kept(h, e) => Tracked(EndOnAnswer(h, failed, keep), e)
<1> DEFINE d == h.clc.base
           g == EndQuery(h, failed)
           q == Query(g, d, TRUE, keep)
<1>1. /\ Onward(h, g) /\ Sound(g, Slot) /\ g.table = h.table /\ g.clc = h.clc
      /\ ~ HasFlag(g, d, "INPROGRESS")
  BY EndQueryFacts
<1>2. EndOnAnswer(h, failed, keep) = IF HasFlag(g, d, "REFRESH") THEN q ELSE g
  <2> HIDE DEF g
  <2> QED BY <1>1 DEF EndOnAnswer, g
<1> HIDE DEF g
<1>3. Timely(h, g) /\ \A e : Kept(h, e) => Kept(g, e)
  BY <1>1, SameTable
<1>4. Onward(g, q) /\ Timely(g, q)
  BY <1>1, QueryFacts
<1>5. ASSUME NEW e, OneDevice, Kept(h, e) PROVE Tracked(g, e) /\ Tracked(q, e)
  <2>1. Tracked(g, e)
    BY <1>1, <1>5, IdleTracked
  <2> QED BY <1>1, <1>3, <1>5, <2>1, QueryTracks
<1> HIDE DEF q
<1>6. Onward(h, q) /\ Timely(h, q)
  BY <1>1, <1>3, <1>4, OnwardTrans, TimelyTrans
<1> DEFINE x == EndOnAnswer(h, failed, keep)
<1>7. x = q \/ x = g
  BY <1>2
<1> HIDE DEF x
<1>8. Onward(h, x) /\ Timely(h, x) /\ \A e : OneDevice /\ Kept(h, e) => Tracked(x, e)
  BY <1>1, <1>3, <1>5, <1>6, <1>7
<1> QED BY <1>8 DEF x

\* The list's status changes.
LEMMA StatusFields ==
  ASSUME NEW h \in Drivers, NEW st \in {"running", "done", "timeout", "error"}
  PROVE  /\ Onward(h, [h EXCEPT !.clc.status = st])
         /\ [h EXCEPT !.clc.status = st] \in Drivers
         /\ [h EXCEPT !.clc.status = st].table = h.table
         /\ [h EXCEPT !.clc.status = st].dev = h.dev
         /\ [h EXCEPT !.clc.status = st].out = h.out
         /\ [h EXCEPT !.clc.status = st].in = h.in
         /\ [h EXCEPT !.clc.status = st].clc.base = h.clc.base
         /\ [h EXCEPT !.clc.status = st].clc.pos = h.clc.pos
<1> DEFINE c == [h.clc EXCEPT !.status = st]
           g == [h EXCEPT !.clc.status = st]
<1>1. c \in List /\ c.base = h.clc.base /\ c.pos = h.clc.pos
  BY DEF Drivers, List
<1>2. g = [h EXCEPT !.clc = c]
  OBVIOUS
<1> HIDE DEF c, g
<1>3. /\ Onward(h, g) /\ g \in Drivers /\ g.table = h.table /\ g.clc = c
      /\ g.out = h.out /\ g.in = h.in /\ g.dev = h.dev
  BY <1>1, <1>2, ListOnward
<1> QED BY <1>1, <1>3 DEF g

LEMMA HandleAIFacts ==
  ASSUME NEW h, NEW value, Sound(h, Slot), h.clc.base \in Device,
         OneDevice /\ value = "0" =>
            addr[h.clc.base] # Undefined \/ Corrected(h, h.clc.base, {"disassociated"})
  PROVE  /\ Onward(h, HandleAI(h, value))
         /\ HandleAI(h, value).table = h.table /\ HandleAI(h, value).clc = h.clc
         /\ \A d \in Device : \A f :
               HasFlag(HandleAI(h, value), d, f) <=> HasFlag(h, d, f)
<1> DEFINE d == h.clc.base
           st == [h.dev[d] EXCEPT !.joined = TRUE]
           g == Told(h, d, st)
<1>0. h \in Drivers /\ h.dev[d] \in State
  BY DEF Sound, Drivers
<1>1. CASE value = "0"
  <2>1. HandleAI(h, value) = g
    BY <1>1 DEF HandleAI, Told
  <2>2. st \in State /\ st.flags = h.dev[d].flags /\ st.network = h.dev[d].network
    BY <1>0 DEF State
  <2> HIDE DEF st
  <2>3. Onward(h, g)
    BY <1>0, <1>1, <2>2, ToldOnward
  <2>4. /\ g.table = h.table /\ g.clc = h.clc /\ g.dev[d].flags = h.dev[d].flags
        /\ \A c \in Device \ {d} : g.dev[c] = h.dev[c]
    BY <1>0, <2>2, ToldFields
  <2> HIDE DEF g
  <2> QED BY <2>1, <2>3, <2>4 DEF HasFlag
<1>2. CASE value # "0"
  <2>1. HandleAI(h, value) = h
    BY <1>2 DEF HandleAI
  <2> QED BY <2>1, OnwardSame
<1> QED BY <1>1, <1>2

LEMMA MismatchFacts ==
  ASSUME NEW h, NEW value, NEW keep \in BOOLEAN, Sound(h, Slot), h.clc.base \in Device,
         OneDevice /\ value = "0" =>
            addr[h.clc.base] # Undefined \/ Corrected(h, h.clc.base, {"disassociated"})
  PROVE  /\ Onward(h, Mismatch(h, value, keep))
         /\ \A e : OneDevice /\ Kept(h, e) /\ Tracked(h, e) =>
                      Tracked(Mismatch(h, value, keep), e)
<1> DEFINE g == [h EXCEPT !.clc.status = "error"]
           x == Mismatch(h, value, keep)
<1>0. h \in Drivers
  BY DEF Sound
<1>1. /\ Onward(h, g) /\ g \in Drivers /\ g.table = h.table /\ g.dev = h.dev /\ g.in = h.in
      /\ g.clc.base = h.clc.base /\ g.clc.pos = h.clc.pos
  BY <1>0, StatusFields
<1>2. x = g \/ x = HandleAI(g, value) \/ x = EndOnAnswer(g, TRUE, keep)
  BY DEF Mismatch
<1> HIDE DEF g
<1>3. Sound(g, Slot) /\ \A e : (Kept(h, e) => Kept(g, e)) /\ (Tracked(h, e) => Tracked(g, e))
  BY <1>1, SameTable DEF Onward, Tracked, Tracks, HasFlag
<1>4. OneDevice /\ value = "0" =>
         addr[g.clc.base] # Undefined \/ Corrected(g, g.clc.base, {"disassociated"})
  BY <1>1 DEF Corrected
<1>5. /\ Onward(g, HandleAI(g, value))
      /\ \A e : Tracked(g, e) => Tracked(HandleAI(g, value), e)
  <2> DEFINE a == HandleAI(g, value)
  <2>1. /\ Onward(g, a) /\ a.table = g.table /\ a.clc = g.clc
        /\ \A d \in Device : HasFlag(a, d, "INPROGRESS") <=> HasFlag(g, d, "INPROGRESS")
    BY <1>1, <1>3, <1>4, HandleAIFacts
  <2> HIDE DEF a
  <2>2. \A e : Tracked(g, e) => Tracked(a, e)
    BY <2>1, SameTracked
  <2> QED BY <2>1, <2>2 DEF a
<1>6. /\ Onward(g, EndOnAnswer(g, TRUE, keep))
      /\ \A e : OneDevice /\ Kept(g, e) => Tracked(EndOnAnswer(g, TRUE, keep), e)
  BY <1>1, <1>3, EndOnAnswerFacts
<1>7. Onward(h, HandleAI(g, value)) /\ Onward(h, EndOnAnswer(g, TRUE, keep))
  BY <1>1, <1>5, <1>6, OnwardTrans
<1> HIDE DEF x
<1> QED BY <1>1, <1>2, <1>3, <1>5, <1>6, <1>7 DEF x

\* What an answer brings: for AI, whether the module has joined a network, and
\* for MY its address.
Brings(h, c, value) ==
   /\ c = "MY" => value \in Network
   /\ OneDevice => \A d \in Device :
         /\ c = "MY" => value = addr[d] \/ Corrected(h, d, Status)
         /\ value = "0" => addr[d] # Undefined \/ Corrected(h, d, {"disassociated"})

\* Release leaves the requests in the other slots.
LEMMA ReleaseTracked ==
  ASSUME NEW h, NEW s \in Slot, Sound(h, Slot), Tracked(h, s)
  PROVE  Tracked(Release(h, s), 0)
<1> DEFINE g == Release(h, s)
<1>1. /\ g.dev = h.dev /\ g.clc = h.clc
      /\ \A t \in Slot \ {s} : g.table[t] = h.table[t]
  BY SoundBut, ReleaseSound
<1> HIDE DEF g
<1>2. Tracked(g, 0)
  <2> SUFFICES ASSUME NEW d \in Device, HasFlag(g, d, "INPROGRESS")
               PROVE  \E t \in Slot \ {0} : Tracks(g, d, t)
    BY DEF Tracked
  <2>1. PICK t \in Slot \ {s} : Tracks(h, d, t)
    BY <1>1 DEF Tracked, HasFlag
  <2> QED BY <1>1, <2>1, SlotFacts DEF Tracks
<1> QED BY <1>2 DEF g

LEMMA ReleaseOnward ==
  ASSUME NEW h, NEW s \in Slot, Sound(h, Slot)
  PROVE  Onward(h, Release(h, s))
<1>1. Sound(h, Slot \ {s})
  BY SoundBut
<1> QED BY <1>1, ReleaseSound DEF Onward

\* The request's command changes, and it is sent again.
Again(h, s, c) ==
   [Send([h EXCEPT !.table[s].command = c], s) EXCEPT !.table[s].due = FALSE]

LEMMA AgainFacts ==
  ASSUME NEW h, NEW s \in Slot, NEW c \in Command, Sound(h, Slot),
         h.table[s].device \in Device
  PROVE  /\ Onward(h, Again(h, s, c))
         /\ Again(h, s, c).dev = h.dev /\ Again(h, s, c).clc = h.clc
         /\ Again(h, s, c).table[s].device = h.table[s].device
         /\ Again(h, s, c).table[s].callback = h.table[s].callback
         /\ Again(h, s, c).table[s].command = c
<1> DEFINE r == [h.table[s] EXCEPT !.command = c]
           p == Put(h, s, r)
           sent == Send(p, s)
           t == [sent.table[s] EXCEPT !.due = FALSE]
           g == Put(sent, s, t)
<1>0. h \in Drivers /\ Used(h) /\ h.table[s] \in Request /\ h.clc.base \in Device \cup {None}
  BY DEF Sound, Drivers, List
<1>1. /\ r \in Request /\ r.device = h.table[s].device /\ r.callback = h.table[s].callback
      /\ r.command = c /\ r.due = h.table[s].due
  BY <1>0 DEF Request
<1> HIDE DEF r
<1>2. /\ r.device = None <=> r.callback = "none"
      /\ r.due => r.device # None
      /\ r.callback = "list" => h.clc.base \in Device
  BY <1>0, <1>1 DEF Used
<1>3. Sound(h, Slot \ {s})
  BY SoundBut
<1>4. Sound(p, Slot \ {s}) /\ Keeps(h, p)
  <2>1. s \notin Slot \ {s} /\ Slot \ {s} \in SUBSET Slot
    OBVIOUS
  <2> QED BY <1>1, <1>2, <1>3, <2>1, PutSound
<1>5. /\ p.table[s] = r /\ p.dev = h.dev /\ p.clc = h.clc
  BY <1>0, <1>1, PutFields
<1> HIDE DEF p
<1>6. /\ Sound(sent, Slot) /\ Keeps(p, sent) /\ sent.dev = p.dev /\ sent.clc = p.clc
      /\ sent.table[s].device = r.device /\ sent.table[s].callback = r.callback
      /\ sent.table[s].command = r.command
  BY <1>1, <1>4, <1>5, SendSound
<1> HIDE DEF sent
<1>7. /\ t \in Request /\ t.device = r.device /\ t.callback = r.callback
      /\ t.command = r.command /\ ~ t.due
  <2>1. sent.table[s] \in Request
    BY <1>6 DEF Sound, Drivers
  <2> QED BY <1>6, <2>1 DEF Request
<1> HIDE DEF t
<1>8. Sound(g, Slot) /\ Keeps(sent, g)
  <2>1. /\ t.device = None <=> t.callback = "none"
        /\ t.due => t.device # None
        /\ t.callback = "list" => sent.clc.base \in Device
        /\ t.device = sent.table[s].device /\ t.command = sent.table[s].command
    BY <1>2, <1>5, <1>6, <1>7
  <2> QED BY <1>6, <1>7, <2>1, PutSound
<1>9. g.table[s] = t /\ g.dev = sent.dev /\ g.clc = sent.clc
  BY <1>6, <1>7, PutFields DEF Sound
<1> HIDE DEF g
<1>10. Keeps(h, g)
  BY <1>4, <1>6, <1>8, KeepsTrans
<1>11. /\ Onward(h, g) /\ g.dev = h.dev /\ g.clc = h.clc
       /\ g.table[s].device = h.table[s].device
       /\ g.table[s].callback = h.table[s].callback /\ g.table[s].command = c
  BY <1>1, <1>5, <1>6, <1>7, <1>8, <1>9, <1>10 DEF Onward
<1>12. g = Again(h, s, c)
  BY DEF g, Put, t, sent, p, r, Again
<1> QED BY <1>11, <1>12

LEMMA AdvanceFacts ==
  ASSUME NEW h, NEW s \in Slot, NEW value, NEW keep \in BOOLEAN, Sound(h, Slot),
         h.table[s].device \in Device, h.table[s].callback = "list",
         h.table[s].command = RegAt(h.clc.pos),
         Brings(h, h.table[s].command, value)
  PROVE  /\ Onward(h, Advance(h, s, value, keep))
         /\ OneDevice /\ Kept(h, s) => Tracked(Advance(h, s, value, keep), 0)
<1> DEFINE d == h.clc.base
           st == [h.dev[d] EXCEPT !.network = value]
           my == Told(h, d, st)
           copied == CASE RegAt(h.clc.pos) = "AI" -> HandleAI(h, value)
                       [] RegAt(h.clc.pos) = "MY" -> [h EXCEPT !.dev[h.clc.base].network = value]
                       [] OTHER -> h
           c == [copied.clc EXCEPT !.pos = @ + 1]
           g == [copied EXCEPT !.clc.pos = @ + 1]
           again == Again(g, s, RegAt(g.clc.pos))
           over == [g EXCEPT !.clc.status = "done"]
           ended == EndOnAnswer(over, FALSE, keep)
           x == Advance(h, s, value, keep)
<1>0. /\ h \in Drivers /\ d \in Device /\ h.dev[d] \in State /\ h.clc \in List
      /\ h.table[s].command \in Command
  BY DEF Sound, Used, Drivers, Request
<1>1. h.clc.pos \in 1 .. 3
  <2>1. h.clc.pos \in 1 .. 4
    BY <1>0 DEF List
  <2>2. "end" \notin Command
    BY DEF Command
  <2> QED BY <1>0, <2>1, <2>2, RegFacts
<1>2. x = IF g.clc.pos <= Len(Regs) THEN again ELSE Release(ended, s)
  BY DEF Advance, Again
<1>3. /\ Onward(h, copied) /\ copied \in Drivers
      /\ copied.table = h.table /\ copied.clc = h.clc
      /\ OneDevice /\ h.clc.pos = 3 => Current(copied, d)
  <2>1. CASE h.clc.pos = 1
    <3>1. copied = HandleAI(h, value)
      BY <2>1, RegFacts
    <3> HIDE DEF copied
    <3>2. OneDevice /\ value = "0" =>
             addr[h.clc.base] # Undefined \/ Corrected(h, h.clc.base, {"disassociated"})
      BY <1>0 DEF Brings
    <3>3. /\ Onward(h, copied) /\ copied.table = h.table /\ copied.clc = h.clc
      BY <1>0, <3>1, <3>2, HandleAIFacts
    <3> QED BY <2>1, <3>3 DEF Onward, Sound
  <2>2. CASE h.clc.pos = 2
    <3>1. copied = h
      BY <2>2, RegFacts
    <3> HIDE DEF copied
    <3> QED BY <1>0, <2>2, <3>1, OnwardSame
  <2>3. CASE h.clc.pos = 3
    <3>1. copied = my
      BY <2>3, RegFacts DEF Told
    <3>2. /\ st \in State /\ st.flags = h.dev[d].flags /\ st.joined = h.dev[d].joined
          /\ st.network = value
      <4>1. value \in Network
        BY <2>3, RegFacts DEF Brings
      <4> QED BY <1>0, <4>1 DEF State
    <3> HIDE DEF st, copied
    <3>3. OneDevice => st.network = addr[d] \/ Corrected(h, d, Status)
      BY <1>0, <2>3, <3>2, RegFacts DEF Brings
    <3>4. Onward(h, my)
      BY <1>0, <3>2, <3>3, ToldOnward
    <3>5. /\ my \in Drivers /\ my.table = h.table /\ my.clc = h.clc /\ my.in = h.in
          /\ my.dev[d] = st
      BY <1>0, <3>2, ToldFields
    <3> HIDE DEF my
    <3> QED BY <3>1, <3>3, <3>4, <3>5 DEF Current, Corrected
  <2> QED BY <1>1, <2>1, <2>2, <2>3
<1> HIDE DEF copied
<1>4. /\ c \in List /\ c.base = d /\ c.pos = h.clc.pos + 1
  BY <1>0, <1>1, <1>3 DEF List
<1>5. g = [copied EXCEPT !.clc = c]
  OBVIOUS
<1> HIDE DEF c, g
<1>6. /\ Onward(copied, g) /\ g \in Drivers /\ g.table = h.table /\ g.clc = c
      /\ g.dev = copied.dev /\ g.in = copied.in
  BY <1>3, <1>4, <1>5, ListOnward
<1>7. Onward(h, g) /\ Sound(g, Slot)
  BY <1>3, <1>6, OnwardTrans DEF Onward
<1>8. CASE h.clc.pos \in 1 .. 2
  <2>1. RegAt(g.clc.pos) \in Command /\ g.clc.pos <= Len(Regs)
    <3>1. h.clc.pos = 1 \/ h.clc.pos = 2
      BY <1>8
    <3>2. g.clc.pos = 2 \/ g.clc.pos = 3
      BY <1>4, <1>6, <3>1
    <3>3. RegAt(2) \in Command /\ RegAt(3) \in Command /\ Len(Regs) = 3
      BY RegFacts DEF Command
    <3> QED BY <3>2, <3>3
  <2>2. x = again
    BY <1>2, <2>1
  <2>3. /\ Onward(g, again) /\ again.clc = g.clc
        /\ again.table[s].device = g.table[s].device
        /\ again.table[s].callback = g.table[s].callback
        /\ again.table[s].command = RegAt(g.clc.pos)
    BY <1>6, <1>7, <2>1, AgainFacts
  <2> HIDE DEF again, x
  <2>4. Onward(h, again)
    BY <1>7, <2>3, OnwardTrans
  <2>5. ASSUME OneDevice PROVE Tracked(again, 0)
    <3>1. h.table[s].device = d
      BY <1>0, <2>5 DEF OneDevice
    <3>2. Tracks(again, d, s)
      BY <1>4, <1>6, <2>3, <3>1 DEF Tracks
    <3> QED BY <1>0, <2>5, <3>2, SlotFacts DEF Tracked, OneDevice
  <2> QED BY <2>2, <2>4, <2>5 DEF x
<1>9. CASE h.clc.pos = 3
  <2>1. ~ g.clc.pos <= Len(Regs)
    BY <1>4, <1>6, <1>9, RegFacts
  <2>2. x = Release(ended, s)
    BY <1>2, <2>1
  <2>3. /\ Onward(g, over) /\ over.table = g.table /\ over.dev = g.dev
        /\ over.in = g.in /\ over.clc.base = d
    BY <1>4, <1>6, StatusFields
  <2> HIDE DEF over
  <2>4. Onward(h, over) /\ Sound(over, Slot)
    BY <1>7, <2>3, OnwardTrans DEF Onward
  <2>5. OneDevice => Current(over, d)
    BY <1>3, <1>6, <1>9, <2>3 DEF Current, Corrected
  <2>6. /\ Onward(over, ended)
        /\ \A e : OneDevice /\ Kept(over, e) => Tracked(ended, e)
    BY <1>0, <2>3, <2>4, <2>5, EndOnAnswerFacts
  <2> HIDE DEF ended
  <2>7. Onward(h, ended) /\ Sound(ended, Slot)
    BY <2>4, <2>6, OnwardTrans DEF Onward
  <2>8. Onward(h, Release(ended, s))
    BY <2>7, ReleaseOnward, OnwardTrans
  <2>9. ASSUME OneDevice, Kept(h, s) PROVE Tracked(Release(ended, s), 0)
    <3>1. Kept(over, s)
      BY <1>6, <2>3, <2>9 DEF Kept
    <3> QED BY <2>6, <2>7, <2>9, <3>1, ReleaseTracked
  <2> HIDE DEF x
  <2> QED BY <2>2, <2>8, <2>9 DEF x
<1>10. h.clc.pos \in 1 .. 2 \/ h.clc.pos = 3
  BY <1>1
<1> QED BY <1>8, <1>9, <1>10

LEMMA ListCallbackFacts ==
  ASSUME NEW h, NEW s \in Slot, NEW value, NEW keep \in BOOLEAN, Sound(h, Slot),
         h.table[s].device \in Device, h.table[s].callback = "list",
         Brings(h, h.table[s].command, value)
  PROVE  /\ Onward(h, ListCallback(h, s, value, keep))
         /\ OneDevice /\ Kept(h, s) /\ Tracked(h, 0) =>
               Tracked(ListCallback(h, s, value, keep), 0)
<1>1. CASE h.table[s].command = RegAt(h.clc.pos)
  <2>1. ListCallback(h, s, value, keep) = Advance(h, s, value, keep)
    BY <1>1 DEF ListCallback
  <2>2. /\ Onward(h, Advance(h, s, value, keep))
        /\ OneDevice /\ Kept(h, s) => Tracked(Advance(h, s, value, keep), 0)
    BY <1>1, AdvanceFacts
  <2> QED BY <2>1, <2>2
<1>2. CASE h.table[s].command # RegAt(h.clc.pos)
  <2> DEFINE g == Mismatch(h, value, keep)
  <2>1. ListCallback(h, s, value, keep) = Release(g, s)
    BY <1>2 DEF ListCallback
  <2>2. h.clc.base \in Device
    BY DEF Sound, Used
  <2>3. OneDevice /\ value = "0" =>
           addr[h.clc.base] # Undefined \/ Corrected(h, h.clc.base, {"disassociated"})
    BY <2>2 DEF Brings
  <2>4. /\ Onward(h, g)
        /\ \A e : OneDevice /\ Kept(h, e) /\ Tracked(h, e) => Tracked(g, e)
    BY <2>2, <2>3, MismatchFacts
  <2> HIDE DEF g
  <2>5. Sound(g, Slot)
    BY <2>4 DEF Onward
  <2>6. Onward(h, Release(g, s))
    BY <2>4, <2>5, ReleaseOnward, OnwardTrans
  <2>7. Tracked(h, 0) => Tracked(h, s)
    <3> SUFFICES ASSUME Tracked(h, 0), NEW d \in Device, HasFlag(h, d, "INPROGRESS")
                 PROVE  \E t \in Slot \ {s} : Tracks(h, d, t)
      BY DEF Tracked
    <3>1. PICK t \in Slot : Tracks(h, d, t)
      BY DEF Tracked
    <3>2. t # s
      BY <1>2, <3>1 DEF Tracks
    <3> QED BY <3>1, <3>2
  <2> QED BY <2>1, <2>4, <2>5, <2>6, <2>7, ReleaseTracked
<1> QED BY <1>1, <1>2

LEMMA HandleResponseFacts ==
  ASSUME NEW h, NEW m, NEW keep \in BOOLEAN, Sound(h, Slot), m.slot \in Slot,
         h.table[m.slot].device \in Device, h.table[m.slot].command = m.command,
         Brings(h, m.command, m.value)
  PROVE  /\ Onward(h, HandleResponse(h, m, keep))
         /\ OneDevice /\ Kept(h, m.slot) /\ Tracked(h, 0) =>
               Tracked(HandleResponse(h, m, keep), 0)
<1> DEFINE s == m.slot
           r == [h.table[s] EXCEPT !.due = FALSE]
           x == HandleResponse(h, m, keep)
<1>0. h \in Drivers /\ s \in Slot /\ h.table[s] \in Request
  BY DEF Sound, Drivers
<1>1. h.table[s].callback = "list" \/ h.table[s].callback = "user"
  BY NoneAssumption DEF Sound, Used, Drivers, Request
<1>2. CASE h.table[s].callback = "list"
  <2>1. x = ListCallback(h, s, m.value, keep)
    BY <1>2 DEF HandleResponse
  <2> HIDE DEF x, s
  <2>2. Brings(h, h.table[s].command, m.value) /\ h.table[s].device \in Device
    BY DEF s
  <2>3. /\ Onward(h, ListCallback(h, s, m.value, keep))
        /\ OneDevice /\ Kept(h, s) /\ Tracked(h, 0) =>
              Tracked(ListCallback(h, s, m.value, keep), 0)
    BY <1>0, <1>2, <2>2, ListCallbackFacts
  <2> QED BY <2>1, <2>3 DEF x, s
<1>3. CASE h.table[s].callback = "user" /\ keep
  <2>1. x = Put(h, s, r)
    BY <1>3 DEF HandleResponse, Put
  <2> HIDE DEF x
  <2>2. /\ r \in Request /\ r.device = h.table[s].device /\ r.callback = h.table[s].callback
        /\ r.command = h.table[s].command /\ ~ r.due
    BY <1>0 DEF Request
  <2> HIDE DEF r, s
  <2>3. /\ r.device = None <=> r.callback = "none"
        /\ r.due => r.device # None
        /\ r.callback = "list" => h.clc.base \in Device
    BY <1>0, <2>2 DEF Sound, Used
  <2>4. Sound(Put(h, s, r), Slot) /\ Keeps(h, Put(h, s, r))
    BY <1>0, <2>2, <2>3, PutSound
  <2> DEFINE p == Put(h, s, r)
  <2>5. /\ p.dev = h.dev /\ p.clc = h.clc /\ p.table[s] = r
        /\ \A t \in Slot \ {s} : p.table[t] = h.table[t]
    BY <1>0, <2>2, PutFields
  <2> HIDE DEF p
  <2>6. Tracked(h, 0) => Tracked(p, 0)
    <3>1. \A d \in Device, t \in Slot : Tracks(h, d, t) => Tracks(p, d, t)
      BY <1>0, <2>2, <2>5 DEF Tracks
    <3> QED BY <2>5, <3>1 DEF Tracked, HasFlag
  <2> QED BY <2>1, <2>4, <2>5, <2>6 DEF Onward, p, x
<1>4. CASE h.table[s].callback = "user" /\ ~ keep
  <2>1. x = Release(h, s)
    BY <1>4 DEF HandleResponse
  <2> HIDE DEF x, s
  <2>2. Onward(h, Release(h, s))
    BY <1>0, ReleaseOnward
  <2>3. Tracked(h, 0) => Tracked(h, s)
    BY <1>4 DEF Tracked, Tracks
  <2> QED BY <1>0, <2>1, <2>2, <2>3, ReleaseTracked DEF x
<1> QED BY <1>1, <1>2, <1>3, <1>4

\* The frame that arrived first is taken.
Pop(h, d) == [h EXCEPT !.in[d] = Tail(@)]

LEMMA PopFacts ==
  ASSUME NEW h, NEW d \in Device, Sound(h, Slot), h.in[d] # <<>>
  PROVE  /\ Pop(h, d) \in Drivers
         /\ Pop(h, d).table = h.table /\ Pop(h, d).dev = h.dev
         /\ Pop(h, d).clc = h.clc /\ Pop(h, d).out = h.out
         /\ Pop(h, d).ticked = h.ticked
         /\ \A c \in Device \ {d} : Pop(h, d).in[c] = h.in[c]
         /\ Len(h.in[d]) \in Nat \ {0} /\ Len(Pop(h, d).in[d]) = Len(h.in[d]) - 1
         /\ \A k \in 1 .. Len(Pop(h, d).in[d]) : Pop(h, d).in[d][k] = h.in[d][k + 1]
         /\ Head(h.in[d]) = h.in[d][1] /\ Head(h.in[d]) \in Frame
<1>1. h \in Drivers
  BY DEF Sound
<1>2. h.in[d] \in Seq(Frame) /\ Len(h.in[d]) \in Nat
  BY <1>1, WireFacts
<1>3. /\ Len(h.in[d]) \in Nat \ {0} /\ Head(h.in[d]) = h.in[d][1]
      /\ Head(h.in[d]) \in Frame /\ Tail(h.in[d]) \in Seq(Frame)
      /\ Len(Tail(h.in[d])) = Len(h.in[d]) - 1
      /\ \A k \in 1 .. Len(Tail(h.in[d])) : Tail(h.in[d])[k] = h.in[d][k + 1]
  BY <1>2, HeadTailProperties, EmptySeq
<1> DEFINE g == Pop(h, d)
<1>4. /\ g \in Drivers /\ g.table = h.table /\ g.dev = h.dev
      /\ g.clc = h.clc /\ g.out = h.out /\ g.ticked = h.ticked
      /\ g.in[d] = Tail(h.in[d]) /\ \A c \in Device \ {d} : g.in[c] = h.in[c]
  BY <1>1, <1>3 DEF Pop, Drivers
<1> HIDE DEF g
<1> QED BY <1>3, <1>4 DEF g

LEMMA PopSound ==
  ASSUME NEW h, NEW d \in Device, Sound(h, Slot), h.in[d] # <<>>
  PROVE  /\ Sound(Pop(h, d), Slot)
         /\ \A C : Later(h.in[d], 1, C) => Corrected(Pop(h, d), d, C)
         /\ Head(h.in[d]).command \notin Status => Onward(h, Pop(h, d))
<1> DEFINE g == Pop(h, d)
<1>0. h \in Drivers /\ Matched(h, Slot) /\ Framed(h) /\ Used(h) /\ News(h)
  BY DEF Sound
<1>1. /\ g \in Drivers /\ g.table = h.table /\ g.dev = h.dev
      /\ g.clc = h.clc /\ g.out = h.out
      /\ \A c \in Device \ {d} : g.in[c] = h.in[c]
      /\ Len(h.in[d]) \in Nat \ {0} /\ Len(g.in[d]) = Len(h.in[d]) - 1
      /\ \A k \in 1 .. Len(g.in[d]) : g.in[d][k] = h.in[d][k + 1]
      /\ Head(h.in[d]) = h.in[d][1]
  BY PopFacts
<1> HIDE DEF g
<1>2. \A k \in 1 .. Len(g.in[d]) : k + 1 \in 1 .. Len(h.in[d])
  BY <1>1
<1>a. \A c \in Device : \A k \in 1 .. Len(g.in[c]) :
         \E j \in 1 .. Len(h.in[c]) : g.in[c][k] = h.in[c][j]
  <2> TAKE c \in Device
  <2>1. CASE c = d
    BY <1>1, <1>2, <2>1
  <2>2. CASE c # d
    BY <1>1, <2>2
  <2> QED BY <2>1, <2>2
<1>3. ASSUME NEW C, NEW k \in 0 .. Len(g.in[d]), Later(h.in[d], k + 1, C)
      PROVE  Later(g.in[d], k, C)
  <2>1. PICK j \in 1 .. Len(h.in[d]) : j > k + 1 /\ h.in[d][j].command \in C
    BY <1>3 DEF Later
  <2>2. j - 1 \in 1 .. Len(g.in[d]) /\ j - 1 > k /\ (j - 1) + 1 = j
    BY <1>1, <2>1
  <2>3. g.in[d][j - 1] = h.in[d][j]
    BY <1>1, <2>2
  <2> QED BY <2>1, <2>2, <2>3 DEF Later
<1>4. Matched(g, Slot)
  <2> SUFFICES ASSUME NEW c \in Device
               PROVE  /\ \A k \in 1 .. Len(h.out[c]) : h.out[c][k].slot \in Slot =>
                            /\ h.table[h.out[c][k].slot].device = c
                            /\ h.table[h.out[c][k].slot].command = h.out[c][k].command
                      /\ \A k \in 1 .. Len(g.in[c]) : g.in[c][k].slot \in Slot =>
                            /\ h.table[g.in[c][k].slot].device = c
                            /\ h.table[g.in[c][k].slot].command = g.in[c][k].command
    BY <1>1 DEF Matched
  <2>1. /\ \A k \in 1 .. Len(h.out[c]) : h.out[c][k].slot \in Slot =>
              /\ h.table[h.out[c][k].slot].device = c
              /\ h.table[h.out[c][k].slot].command = h.out[c][k].command
        /\ \A k \in 1 .. Len(h.in[c]) : h.in[c][k].slot \in Slot =>
              /\ h.table[h.in[c][k].slot].device = c
              /\ h.table[h.in[c][k].slot].command = h.in[c][k].command
    BY <1>0 DEF Matched
  <2>2. ASSUME NEW k \in 1 .. Len(g.in[c]), g.in[c][k].slot \in Slot
        PROVE  /\ h.table[g.in[c][k].slot].device = c
               /\ h.table[g.in[c][k].slot].command = g.in[c][k].command
    <3>1. PICK j \in 1 .. Len(h.in[c]) : g.in[c][k] = h.in[c][j]
      BY <1>a
    <3> QED BY <2>1, <2>2, <3>1
  <2> QED BY <2>1, <2>2
<1>5. Framed(g)
  <2> SUFFICES ASSUME NEW c \in Device, NEW k \in 1 .. Len(g.in[c])
               PROVE  /\ g.in[c][k].slot = 0 <=> g.in[c][k].command \in Status
                      /\ g.in[c][k].command = "MY" => g.in[c][k].value \in Network
    BY DEF Framed
  <2>1. PICK j \in 1 .. Len(h.in[c]) : g.in[c][k] = h.in[c][j]
    BY <1>a
  <2>2. /\ h.in[c][j].slot = 0 <=> h.in[c][j].command \in Status
        /\ h.in[c][j].command = "MY" => h.in[c][j].value \in Network
    BY <1>0 DEF Framed
  <2> QED BY <2>1, <2>2
<1>6. Used(g)
  BY <1>0, <1>1 DEF Used
<1>7. News(g)
  <2> SUFFICES ASSUME NEW c \in Device, NEW k \in 1 .. Len(g.in[c])
               PROVE  LET q == g.in[c]
                      IN /\ q[k].command = "MY" => q[k].value = addr[c] \/ Later(q, k, Status)
                         /\ q[k].command = "joined" \/ q[k].value = "0" =>
                               addr[c] # Undefined \/ Later(q, k, {"disassociated"})
                         /\ q[k].command = "disassociated" =>
                               addr[c] = Undefined \/ Later(q, k, Status)
    BY DEF News
  <2>1. CASE c = d
    <3>1. /\ k + 1 \in 1 .. Len(h.in[d]) /\ g.in[d][k] = h.in[d][k + 1]
          /\ k \in 0 .. Len(g.in[d])
      BY <1>1, <1>2, <2>1
    <3> QED BY <1>0, <1>3, <2>1, <3>1 DEF News
  <2>2. CASE c # d
    BY <1>0, <1>1, <2>2 DEF News
  <2> QED BY <2>1, <2>2
<1>8. \A C : Later(h.in[d], 1, C) => Corrected(g, d, C)
  BY <1>1, <1>3 DEF Corrected
<1>9. ASSUME Head(h.in[d]).command \notin Status PROVE Onward(h, g)
  <2>1. Wires(h, g)
    <3> SUFFICES ASSUME NEW c \in Device, NEW C \in SUBSET Status, Later(h.in[c], 0, C)
                 PROVE  Later(g.in[c], 0, C)
      BY DEF Wires, Corrected
    <3>1. CASE c = d
      <4>1. PICK j \in 1 .. Len(h.in[d]) : h.in[d][j].command \in C
        BY <3>1 DEF Later
      <4>2. j # 1
        BY <1>1, <1>9, <4>1
      <4>3. Later(h.in[d], 1, C)
        BY <4>1, <4>2 DEF Later
      <4> QED BY <1>1, <1>3, <3>1, <4>3
    <3>2. CASE c # d
      BY <1>1, <3>2
    <3> QED BY <3>1, <3>2
  <2>2. Keeps(h, g)
    BY <1>1, <2>1, SameBelief
  <2> QED BY <1>1, <1>4, <1>5, <1>6, <1>7, <2>2 DEF Onward, Sound
<1> QED BY <1>1, <1>4, <1>5, <1>6, <1>7, <1>8, <1>9 DEF Sound, g

\* What the frame that arrived first says.
LEMMA HeadFacts ==
  ASSUME NEW h, NEW d \in Device, Sound(h, Slot), h.in[d] # <<>>
  PROVE  LET m == Head(h.in[d])
             g == Pop(h, d)
         IN  /\ m.command \notin Status =>
                   /\ m.slot \in Slot /\ h.table[m.slot].device = d
                   /\ h.table[m.slot].command = m.command
                   /\ Brings(g, m.command, m.value)
             /\ m.command = "joined" =>
                   addr[d] # Undefined \/ Corrected(g, d, {"disassociated"})
             /\ m.command = "disassociated" =>
                   addr[d] = Undefined \/ Corrected(g, d, Status)
<1> DEFINE m == Head(h.in[d])
           g == Pop(h, d)
<1>0. Matched(h, Slot) /\ Framed(h) /\ News(h)
  BY DEF Sound
<1>1. /\ 1 \in 1 .. Len(h.in[d]) /\ m = h.in[d][1] /\ m \in Frame
      /\ \A C : Later(h.in[d], 1, C) => Corrected(g, d, C)
  <2>1. Len(h.in[d]) \in Nat \ {0} /\ m = h.in[d][1] /\ m \in Frame
    BY PopFacts
  <2> QED BY <2>1, PopSound
<1> HIDE DEF g, m
<1>2. /\ m.slot = 0 <=> m.command \in Status
      /\ m.command = "MY" => m.value \in Network
  BY <1>0, <1>1 DEF Framed
<1>3. /\ m.command = "MY" => m.value = addr[d] \/ Corrected(g, d, Status)
      /\ m.command = "joined" \/ m.value = "0" =>
            addr[d] # Undefined \/ Corrected(g, d, {"disassociated"})
      /\ m.command = "disassociated" => addr[d] = Undefined \/ Corrected(g, d, Status)
  BY <1>0, <1>1 DEF News
<1>4. m.command \notin Status =>
         /\ m.slot \in Slot /\ h.table[m.slot].device = d
         /\ h.table[m.slot].command = m.command
  <2>1. m.command \notin Status => m.slot \in Slot
    BY <1>1, <1>2 DEF Frame, Slot
  <2> QED BY <1>0, <1>1, <2>1 DEF Matched
<1>5. Brings(g, m.command, m.value)
  BY <1>2, <1>3 DEF Brings, OneDevice
<1> QED BY <1>3, <1>4, <1>5 DEF g, m

LEMMA ModemStatusFacts ==
  ASSUME NEW h, NEW d \in Device, NEW m, NEW keep \in BOOLEAN, Sound(h, Slot),
         m.command \in Status,
         m.command = "joined" => addr[d] # Undefined \/ Corrected(h, d, {"disassociated"}),
         m.command = "disassociated" => addr[d] = Undefined \/ Corrected(h, d, Status)
  PROVE  /\ Sound(ModemStatus(h, d, m, keep), Slot)
         /\ OneDevice => True(ModemStatus(h, d, m, keep))
         /\ OneDevice /\ Tracked(h, 0) => Tracked(ModemStatus(h, d, m, keep), 0)
<1>0. h \in Drivers /\ h.dev[d] \in State
  BY DEF Sound, Drivers
<1>1. CASE m.command = "joined"
  <2> DEFINE st == [h.dev[d] EXCEPT !.joined = TRUE]
             g == Told(h, d, st)
             w == WantQuery(g, d, TRUE)
             q == Query(g, d, TRUE, keep)
             x == ModemStatus(h, d, m, keep)
  <2>1. x = q
    BY <1>1 DEF ModemStatus, Told
  <2>2. st \in State /\ st.flags = h.dev[d].flags /\ st.joined
    BY <1>0 DEF State
  <2> HIDE DEF st, x
  <2>3. /\ g \in Drivers /\ g.table = h.table /\ g.clc = h.clc
        /\ g.out = h.out /\ g.in = h.in /\ g.dev[d] = st
        /\ \A c \in Device \ {d} : g.dev[c] = h.dev[c]
    BY <1>0, <2>2, ToldFields
  <2> HIDE DEF g
  <2>4. Sound(g, Slot)
    BY <2>3, StateSound
  <2>5. /\ Onward(g, q) /\ Onward(w, q)
        /\ \A e : OneDevice /\ Kept(g, e) /\ Tracked(g, e) => Tracked(q, e)
    BY <2>4, QueryFacts, QueryTracks
  <2> HIDE DEF q
  <2>6. /\ w \in Drivers /\ w.in = g.in
        /\ w.dev[d].flags = g.dev[d].flags \cup {"REFRESH"}
    <3>1. w = AddFlags(g, d, {"REFRESH"}) /\ {"REFRESH"} \in SUBSET Flag
      BY DEF WantQuery, Flag
    <3> HIDE DEF w
    <3> QED BY <2>3, <3>1, FlagFields
  <2> HIDE DEF w
  <2>7. ASSUME OneDevice PROVE True(w)
    <3> SUFFICES ASSUME NEW c \in Device PROVE Known(w, c) /\ Fresh(w, c)
      BY DEF True
    <3>1. c = d
      BY <2>7 DEF OneDevice
    <3>2. Known(w, d)
      BY <1>1, <2>3, <2>6 DEF Known, Corrected
    <3>3. Fresh(w, d)
      BY <2>6 DEF Fresh, HasFlag
    <3> QED BY <3>1, <3>2, <3>3
  <2>8. Kept(g, 0) /\ (Tracked(h, 0) => Tracked(g, 0))
    <3>1. \A c \in Device : HasFlag(g, c, "INPROGRESS") => HasFlag(h, c, "INPROGRESS")
      BY <2>2, <2>3 DEF HasFlag
    <3> QED BY <2>3, <3>1, SlotFacts, SameTracked DEF Kept
  <2>9. /\ Sound(q, Slot) /\ (OneDevice => True(q))
        /\ OneDevice /\ Tracked(h, 0) => Tracked(q, 0)
    BY <2>4, <2>5, <2>7, <2>8 DEF Onward, Keeps
  <2> QED BY <2>1, <2>9 DEF x
<1>2. CASE m.command = "disassociated"
  <2> DEFINE st == [h.dev[d] EXCEPT !.joined = FALSE, !.network = Undefined]
             g == Told(h, d, st)
             x == ModemStatus(h, d, m, keep)
  <2>1. x = g
    <3>1. h.dev \in [Device -> State]
      BY <1>0 DEF Drivers
    <3>2. x = [h EXCEPT !.dev[d].joined = FALSE, !.dev[d].network = Undefined]
      BY <1>2 DEF ModemStatus
    <3>3. [h EXCEPT !.dev[d].joined = FALSE, !.dev[d].network = Undefined]
             = [h EXCEPT !.dev[d] = [h.dev[d] EXCEPT !.joined = FALSE, !.network = Undefined]]
      BY <1>0, <3>1 DEF Drivers, State
    <3> QED BY <3>2, <3>3, Zenon DEF Told
  <2>2. st \in State /\ st.flags = h.dev[d].flags /\ ~ st.joined /\ st.network = Undefined
    BY <1>0 DEF State, Network
  <2> HIDE DEF st, x
  <2>3. /\ g \in Drivers /\ g.table = h.table /\ g.clc = h.clc
        /\ g.out = h.out /\ g.in = h.in /\ g.dev[d] = st
        /\ \A c \in Device \ {d} : g.dev[c] = h.dev[c]
    BY <1>0, <2>2, ToldFields
  <2> HIDE DEF g
  <2>4. Sound(g, Slot)
    BY <2>3, StateSound
  <2>5. ASSUME OneDevice PROVE True(g)
    <3> SUFFICES ASSUME NEW c \in Device PROVE Known(g, c) /\ Fresh(g, c)
      BY DEF True
    <3>1. c = d
      BY <2>5 DEF OneDevice
    <3>2. Known(g, d) /\ Current(g, d)
      BY <1>2, <2>2, <2>3 DEF Known, Current, Corrected
    <3> QED BY <3>1, <3>2 DEF Fresh
  <2>6. Tracked(h, 0) => Tracked(g, 0)
    <3>1. \A c \in Device : HasFlag(g, c, "INPROGRESS") => HasFlag(h, c, "INPROGRESS")
      BY <2>2, <2>3 DEF HasFlag
    <3> QED BY <2>3, <3>1, SameTracked
  <2> QED BY <2>1, <2>4, <2>5, <2>6 DEF x
<1> QED BY <1>1, <1>2 DEF Status

-----------------------------------------------------------------------------
(* Every step keeps the invariant. *)

LEMMA BecomeInv ==
  ASSUME NEW g, AtInv, Become(g), UNCHANGED <<cts, addr>>, Sound(g, Slot),
         OneDevice => True(g), OneDevice /\ ~ LateAnswers => Tracked(g, 0)
  PROVE  AtInv'
<1> DEFINE x == [table |-> g.table, dev |-> g.dev, clc |-> g.clc, out |-> g.out,
                 in |-> g.in, ticked |-> FALSE]
<1>1. Driver' = x
  BY DEF Become, Driver
<1>2. /\ x \in Drivers /\ x.table = g.table /\ x.dev = g.dev /\ x.clc = g.clc
      /\ x.out = g.out /\ x.in = g.in
  BY DEF Sound, Drivers
<1> HIDE DEF x
<1>3. Sound(x, Slot) /\ Wires(g, x)
  BY <1>2, StateSound
<1>4. Keeps(g, x)
  BY <1>2, <1>3, SameBelief
<1>5. OneDevice => True(x)
  BY <1>4 DEF Keeps
<1>6. OneDevice /\ ~ LateAnswers => Tracked(x, 0)
  BY <1>2 DEF Tracked, HasFlag, Tracks
<1>7. Sound(Driver, Slot)'
  BY <1>1, <1>3 DEF Sound, News
<1>8. (OneDevice => True(Driver))'
  BY <1>1, <1>5 DEF True, Known, Fresh, Current
<1>9. (OneDevice /\ ~ LateAnswers => Tracked(Driver, 0))'
  BY <1>1, <1>6
<1> QED BY <1>7, <1>8, <1>9 DEF AtInv

LEMMA OnwardInv ==
  ASSUME NEW g, AtInv, Become(g), UNCHANGED <<cts, addr>>, Onward(Driver, g),
         OneDevice /\ Tracked(Driver, 0) => Tracked(g, 0)
  PROVE  AtInv'
BY BecomeInv DEF AtInv, Onward, Keeps

LEMMA DriverFacts ==
  ASSUME AtInv
  PROVE  /\ Sound(Driver, Slot) /\ Driver \in Drivers /\ Kept(Driver, 0)
         /\ Driver.table = table /\ Driver.dev = dev /\ Driver.clc = clc
         /\ Driver.out = out /\ Driver.in = in
         /\ table \in [Slot -> Request] /\ in \in [Device -> Seq(Frame)]
         /\ out \in [Device -> Seq(Asked)]
<1>1. Sound(Driver, Slot)
  BY DEF AtInv
<1>2. Driver \in Drivers
  BY <1>1 DEF Sound
<1>3. /\ Driver.table = table /\ Driver.dev = dev /\ Driver.clc = clc
      /\ Driver.out = out /\ Driver.in = in
  BY DEF Driver
<1> QED BY <1>1, <1>2, <1>3, SlotFacts DEF Kept, Drivers

LEMMA CmdInitInv ==
  ASSUME AtInv, NEW d \in Device, CmdInit(d)
  PROVE  AtInv'
<1>1. PICK keep \in BOOLEAN : Become(InitDevice(Driver, d, keep))
  BY DEF CmdInit
<1>2. Onward(Driver, InitDevice(Driver, d, keep))
  BY DriverFacts, InitDeviceFacts
<1>3. OneDevice /\ Tracked(Driver, 0) => Tracked(InitDevice(Driver, d, keep), 0)
  BY DriverFacts, InitDeviceTracks
<1> QED BY <1>1, <1>2, <1>3, OnwardInv DEF CmdInit

LEMMA CmdQueryInv ==
  ASSUME AtInv, NEW d \in Device, CmdQuery(d)
  PROVE  AtInv'
<1>1. PICK refresh \in BOOLEAN, keep \in BOOLEAN : Become(Query(Driver, d, refresh, keep))
  BY DEF CmdQuery
<1>2. Onward(Driver, Query(Driver, d, refresh, keep))
  BY DriverFacts, QueryFacts
<1>3. OneDevice /\ Tracked(Driver, 0) => Tracked(Query(Driver, d, refresh, keep), 0)
  BY DriverFacts, QueryTracks
<1> QED BY <1>1, <1>2, <1>3, OnwardInv DEF CmdQuery

LEMMA CmdTickInv ==
  ASSUME AtInv, CmdTick
  PROVE  AtInv'
<1>1. PICK keep \in BOOLEAN : Become(Tick(Driver, keep))
  BY DEF CmdTick
<1>2. Onward(Driver, Tick(Driver, keep))
  BY DriverFacts, TickFacts
<1>3. OneDevice /\ Tracked(Driver, 0) => Tracked(Tick(Driver, keep), 0)
  <2>1. CASE Device = {}
    BY <2>1 DEF Tracked
  <2>2. CASE Device # {}
    <3>1. PICK d \in Device : TRUE
      BY <2>2
    <3> QED BY <3>1, DriverFacts, TickTracks
  <2> QED BY <2>1, <2>2
<1> QED BY <1>1, <1>2, <1>3, OnwardInv DEF CmdTick

LEMMA CreateInv ==
  ASSUME AtInv, NEW d \in Device, Create(d)
  PROVE  AtInv'
<1>1. PICK keep \in BOOLEAN :
         LET h == MakeRoom(InitDevice(Driver, d, keep), keep)
         IN  Become(IF FreeSlots(h) = {} THEN h
                    ELSE [h EXCEPT !.table[Min(FreeSlots(h))] =
                             [Unused EXCEPT !.device = d, !.callback = "user",
                                            !.command = "ND"]])
  BY DEF Create
<1> DEFINE i == InitDevice(Driver, d, keep)
           h == MakeRoom(i, keep)
           s == Min(FreeSlots(h))
           r == [Unused EXCEPT !.device = d, !.callback = "user", !.command = "ND"]
           p == Put(h, s, r)
<1>2. Onward(Driver, i) /\ Timely(Driver, i)
  BY DriverFacts, InitDeviceFacts
<1>3. OneDevice /\ Tracked(Driver, 0) => Tracked(i, 0)
  BY DriverFacts, InitDeviceTracks
<1>4. Become(IF FreeSlots(h) = {} THEN h ELSE p)
  BY <1>1 DEF Put
<1> HIDE DEF i
<1>5. Sound(i, Slot) /\ Kept(i, 0)
  BY <1>2, DriverFacts, SlotFacts DEF Onward, Kept
<1>6. Onward(i, h)
  BY <1>5, MakeRoomFacts
<1>7. OneDevice /\ Tracked(i, 0) => Tracked(h, 0)
  BY <1>5, MakeRoomTracks
<1> HIDE DEF h
<1>8. Onward(Driver, h) /\ Sound(h, Slot)
  BY <1>2, <1>5, <1>6, OnwardTrans DEF Onward
<1>9. CASE FreeSlots(h) = {}
  BY <1>3, <1>4, <1>7, <1>8, <1>9, OnwardInv DEF Create
<1>10. CASE FreeSlots(h) # {}
  <2>1. s \in Slot /\ h.table[s].device = None
    BY <1>10, FreeFacts
  <2>2. /\ r \in Request /\ r.device = d /\ r.callback = "user" /\ ~ r.due /\ d # None
    BY UnusedFacts, NoneAssumption DEF Request, Command
  <2> HIDE DEF s, r
  <2>3. Quiet(h, s)
    BY <1>8, <2>1, QuietSound
  <2>4. Sound(p, Slot) /\ Keeps(h, p)
    <3>1. r.callback # "list"
      BY <2>2
    <3> QED BY <1>8, <2>1, <2>2, <2>3, <3>1, PutSound
  <2>5. /\ p.dev = h.dev /\ p.clc = h.clc
        /\ \A t \in Slot \ {s} : p.table[t] = h.table[t]
    BY <1>8, <2>1, <2>2, PutFields DEF Sound
  <2> HIDE DEF p
  <2>6. Onward(Driver, p)
    <3>1. Onward(h, p)
      BY <2>4, <2>5 DEF Onward
    <3> QED BY <1>8, <3>1, OnwardTrans
  <2>7. Tracked(h, 0) => Tracked(p, 0)
    <3>1. ASSUME NEW c \in Device, NEW t \in Slot, Tracks(h, c, t) PROVE Tracks(p, c, t)
      BY <2>1, <2>5, <3>1, NoneAssumption DEF Tracks
    <3> QED BY <2>5, <3>1 DEF Tracked, HasFlag
  <2> QED BY <1>3, <1>4, <1>7, <1>10, <2>6, <2>7, OnwardInv DEF Create
<1> QED BY <1>9, <1>10

LEMMA SendRequestInv ==
  ASSUME AtInv, NEW s \in Slot, SendRequest(s)
  PROVE  AtInv'
<1> DEFINE g == Send(Driver, s)
<1>1. table[s].callback = "user" /\ Become(g)
  BY DEF SendRequest, Requests
<1>2. Driver.table[s].device \in Device
  BY <1>1, DriverFacts, NoneAssumption DEF Sound, Used, Request
<1>3. /\ Sound(g, Slot) /\ Keeps(Driver, g) /\ g.dev = Driver.dev /\ g.clc = Driver.clc
      /\ \A t \in Slot \ {s} : g.table[t] = Driver.table[t]
  BY <1>2, DriverFacts, SoundBut, SendSound
<1> HIDE DEF g
<1>4. Tracked(Driver, 0) => Tracked(g, 0)
  <2>1. ASSUME NEW c \in Device, NEW t \in Slot, Tracks(Driver, c, t) PROVE Tracks(g, c, t)
    BY <1>1, <1>3, <2>1, DriverFacts DEF Tracks
  <2> QED BY <1>3, <2>1 DEF Tracked, HasFlag
<1> QED BY <1>1, <1>3, <1>4, OnwardInv DEF SendRequest, Onward

LEMMA ReleaseHandleInv ==
  ASSUME AtInv, NEW s \in Slot, ReleaseHandle(s)
  PROVE  AtInv'
<1>1. table[s].callback = "user" /\ Become(Release(Driver, s))
  BY DEF ReleaseHandle, Requests
<1>2. Onward(Driver, Release(Driver, s))
  BY DriverFacts, ReleaseOnward
<1>3. Tracked(Driver, 0) => Tracked(Driver, s)
  BY <1>1, DriverFacts DEF Tracked, Tracks
<1>4. Tracked(Driver, 0) => Tracked(Release(Driver, s), 0)
  BY <1>3, DriverFacts, ReleaseTracked
<1> QED BY <1>1, <1>2, <1>4, OnwardInv DEF ReleaseHandle

LEMMA ElapseInv ==
  ASSUME AtInv, NEW s \in Slot, Elapse(s)
  PROVE  AtInv'
<1> DEFINE r == [table[s] EXCEPT !.due = TRUE]
           g == Put(Driver, s, r)
<1>1. /\ r \in Request /\ r.device = table[s].device /\ r.callback = table[s].callback
      /\ r.command = table[s].command
  BY DriverFacts DEF Request
<1>2. Become(g)
  <2>1. table' = [table EXCEPT ![s] = r] /\ UNCHANGED <<dev, clc, out, in>>
    BY DEF Elapse
  <2> HIDE DEF r
  <2> QED BY <2>1 DEF Become, Put, Driver
<1> HIDE DEF r
<1>3. Sound(g, Slot) /\ Keeps(Driver, g)
  <2>1. /\ r.device = None <=> r.callback = "none"
        /\ r.device # None
        /\ r.callback = "list" => Driver.clc.base \in Device
        /\ r.device = Driver.table[s].device /\ r.command = Driver.table[s].command
    BY <1>1, DriverFacts DEF Sound, Used, Elapse
  <2> QED BY <1>1, <2>1, DriverFacts, PutSound
<1>4. /\ g.dev = Driver.dev /\ g.clc = Driver.clc /\ g.table[s] = r
      /\ \A t \in Slot \ {s} : g.table[t] = Driver.table[t]
  BY <1>1, DriverFacts, PutFields
<1> HIDE DEF g
<1>5. Tracked(Driver, 0) => Tracked(g, 0)
  <2>1. ASSUME NEW c \in Device, NEW t \in Slot, Tracks(Driver, c, t) PROVE Tracks(g, c, t)
    <3>1. CASE t = s
      BY <1>1, <1>4, <2>1, <3>1, DriverFacts DEF Tracks
    <3>2. CASE t # s
      BY <1>4, <2>1, <3>2 DEF Tracks
    <3> QED BY <3>1, <3>2
  <2> QED BY <1>4, <2>1 DEF Tracked, HasFlag
<1> QED BY <1>2, <1>3, <1>4, <1>5, OnwardInv DEF Elapse, Onward

LEMMA ToggleCtsInv ==
  ASSUME AtInv, NEW d \in Device, ToggleCts(d)
  PROVE  AtInv'
<1>1. Driver' = Driver /\ addr' = addr /\ cts' \in [Device -> BOOLEAN]
  BY DEF ToggleCts, Driver, AtInv
<1>2. Sound(Driver, Slot)'
  BY <1>1 DEF AtInv, Sound, News
<1>3. (OneDevice => True(Driver))'
  BY <1>1 DEF AtInv, True, Known, Fresh, Current
<1>4. (OneDevice /\ ~ LateAnswers => Tracked(Driver, 0))'
  BY <1>1 DEF AtInv
<1> QED BY <1>1, <1>2, <1>3, <1>4 DEF AtInv

LEMMA LoseAnswerInv ==
  ASSUME AtInv, NEW d \in Device, LoseAnswer(d)
  PROVE  AtInv'
<1> DEFINE g == Pop(Driver, d)
<1>1. in[d] # <<>> /\ Head(in[d]).command \notin Status /\ Become(g)
  BY DriverFacts DEF LoseAnswer, IsStatus, Status, Become, Pop, Driver
<1>2. Onward(Driver, g)
  BY <1>1, DriverFacts, PopSound
<1>3. g.table = Driver.table /\ g.dev = Driver.dev /\ g.clc = Driver.clc
  BY <1>1, DriverFacts, PopFacts
<1> HIDE DEF g
<1>4. Tracked(Driver, 0) => Tracked(g, 0)
  BY <1>3 DEF Tracked, HasFlag, Tracks
<1> QED BY <1>1, <1>2, <1>4, OnwardInv DEF LoseAnswer

LEMMA ReceiveInv ==
  ASSUME AtInv, NEW d \in Device, Receive(d)
  PROVE  AtInv'
<1> DEFINE m == Head(in[d])
           h == Pop(Driver, d)
<1>1. /\ in[d] # <<>>
      /\ ~ (LateAnswers \/ IsStatus(m)) => ~ table[m.slot].due
      /\ \E keep \in BOOLEAN : Become(IF IsStatus(m) THEN ModemStatus(h, d, m, keep)
                                      ELSE HandleResponse(h, m, keep))
      /\ UNCHANGED <<cts, addr>>
  BY DEF Receive, Pop
<1>2. PICK keep \in BOOLEAN : Become(IF IsStatus(m) THEN ModemStatus(h, d, m, keep)
                                     ELSE HandleResponse(h, m, keep))
  BY <1>1
<1>3. /\ m.command \notin Status =>
            /\ m.slot \in Slot /\ table[m.slot].device = d
            /\ table[m.slot].command = m.command
            /\ Brings(h, m.command, m.value)
      /\ m.command = "joined" =>
            addr[d] # Undefined \/ Corrected(h, d, {"disassociated"})
      /\ m.command = "disassociated" =>
            addr[d] = Undefined \/ Corrected(h, d, Status)
  BY <1>1, DriverFacts, HeadFacts
<1>4. /\ Sound(h, Slot) /\ (m.command \notin Status => Onward(Driver, h))
      /\ h.table = table /\ h.dev = dev /\ h.clc = clc
  BY <1>1, DriverFacts, PopSound, PopFacts
<1> HIDE DEF m, h
<1>5. OneDevice /\ ~ LateAnswers => Tracked(h, 0)
  BY <1>4, DriverFacts DEF AtInv, Tracked, HasFlag, Tracks
<1>6. CASE IsStatus(m)
  <2> DEFINE x == ModemStatus(h, d, m, keep)
  <2>1. m.command \in Status
    BY <1>6 DEF IsStatus, Status
  <2>2. /\ Sound(x, Slot) /\ (OneDevice => True(x))
        /\ OneDevice /\ Tracked(h, 0) => Tracked(x, 0)
    BY <1>3, <1>4, <2>1, ModemStatusFacts
  <2>3. Become(x)
    BY <1>2, <1>6
  <2> HIDE DEF x
  <2> QED BY <1>1, <1>5, <2>2, <2>3, BecomeInv
<1>7. CASE ~ IsStatus(m)
  <2> DEFINE x == HandleResponse(h, m, keep)
  <2>1. m.command \notin Status
    BY <1>7 DEF IsStatus, Status
  <2>2. /\ Onward(h, x)
        /\ OneDevice /\ Kept(h, m.slot) /\ Tracked(h, 0) => Tracked(x, 0)
    BY <1>3, <1>4, <2>1, HandleResponseFacts
  <2>3. Become(x)
    BY <1>2, <1>7
  <2> HIDE DEF x
  <2>4. Sound(x, Slot) /\ (OneDevice => True(x))
    BY <1>4, <2>1, <2>2 DEF Onward, Keeps, AtInv
  <2>5. ~ LateAnswers => Kept(h, m.slot)
    BY <1>1, <1>3, <1>4, <1>7, <2>1, NoneAssumption DEF Kept
  <2> QED BY <1>1, <1>5, <2>2, <2>3, <2>4, <2>5, BecomeInv
<1> QED BY <1>6, <1>7

\* A frame comes behind those under way.
Arrives(h, d, m) == [h EXCEPT !.in[d] = Append(@, m)]

LEMMA ArrivesFacts ==
  ASSUME NEW h \in Drivers, NEW d \in Device, NEW m \in Frame
  PROVE  /\ Arrives(h, d, m) \in Drivers
         /\ Arrives(h, d, m).table = h.table /\ Arrives(h, d, m).dev = h.dev
         /\ Arrives(h, d, m).clc = h.clc /\ Arrives(h, d, m).out = h.out
         /\ \A c \in Device \ {d} : Arrives(h, d, m).in[c] = h.in[c]
         /\ Len(h.in[d]) \in Nat /\ Len(Arrives(h, d, m).in[d]) = Len(h.in[d]) + 1
         /\ \A k \in 1 .. Len(h.in[d]) : Arrives(h, d, m).in[d][k] = h.in[d][k]
         /\ Arrives(h, d, m).in[d][Len(h.in[d]) + 1] = m
<1> DEFINE g == Arrives(h, d, m)
           q == Append(h.in[d], m)
<1>1. h.in[d] \in Seq(Frame) /\ Len(h.in[d]) \in Nat
  BY WireFacts
<1>2. /\ q \in Seq(Frame) /\ Len(q) = Len(h.in[d]) + 1
      /\ \A k \in 1 .. Len(h.in[d]) : q[k] = h.in[d][k]
      /\ q[Len(h.in[d]) + 1] = m
  BY <1>1, AppendProperties
<1> HIDE DEF q
<1>3. g = [h EXCEPT !.in[d] = q]
  BY DEF Arrives, q
<1> HIDE DEF g
<1>4. /\ g \in Drivers /\ g.table = h.table /\ g.dev = h.dev /\ g.clc = h.clc
      /\ g.out = h.out /\ g.in[d] = q /\ \A c \in Device \ {d} : g.in[c] = h.in[c]
  BY <1>2, <1>3 DEF Drivers
<1> QED BY <1>1, <1>2, <1>4 DEF g

\* What is behind a frame stays behind it.
LEMMA ArrivesLater ==
  ASSUME NEW h \in Drivers, NEW d \in Device, NEW m \in Frame
  PROVE  /\ \A c \in Device : \A k \in 0 .. Len(h.in[c]) : \A C :
               Later(h.in[c], k, C) => Later(Arrives(h, d, m).in[c], k, C)
         /\ \A k \in 0 .. Len(h.in[d]) : \A C :
               m.command \in C => Later(Arrives(h, d, m).in[d], k, C)
         /\ \A c \in Device : \A k \in 1 .. Len(Arrives(h, d, m).in[c]) :
               \/ k \in 1 .. Len(h.in[c]) /\ Arrives(h, d, m).in[c][k] = h.in[c][k]
               \/ c = d /\ Arrives(h, d, m).in[c][k] = m
<1> DEFINE g == Arrives(h, d, m)
<1>1. /\ \A c \in Device \ {d} : g.in[c] = h.in[c]
      /\ Len(h.in[d]) \in Nat /\ Len(g.in[d]) = Len(h.in[d]) + 1
      /\ \A k \in 1 .. Len(h.in[d]) : g.in[d][k] = h.in[d][k]
      /\ g.in[d][Len(h.in[d]) + 1] = m
  BY ArrivesFacts
<1> HIDE DEF g
<1>2. ASSUME NEW c \in Device, NEW k \in 0 .. Len(h.in[c]), NEW C, Later(h.in[c], k, C)
      PROVE  Later(g.in[c], k, C)
  <2>1. CASE c = d
    <3>1. PICK j \in 1 .. Len(h.in[d]) : j > k /\ h.in[d][j].command \in C
      BY <1>2, <2>1 DEF Later
    <3>2. j \in 1 .. Len(g.in[d]) /\ g.in[d][j] = h.in[d][j]
      BY <1>1, <3>1
    <3> QED BY <2>1, <3>1, <3>2 DEF Later
  <2>2. CASE c # d
    BY <1>1, <1>2, <2>2
  <2> QED BY <2>1, <2>2
<1>3. ASSUME NEW k \in 0 .. Len(h.in[d]), NEW C, m.command \in C
      PROVE  Later(g.in[d], k, C)
  <2>1. Len(h.in[d]) + 1 \in 1 .. Len(g.in[d]) /\ Len(h.in[d]) + 1 > k
    BY <1>1
  <2> QED BY <1>1, <1>3, <2>1 DEF Later
<1>4. ASSUME NEW c \in Device, NEW k \in 1 .. Len(g.in[c])
      PROVE  \/ k \in 1 .. Len(h.in[c]) /\ g.in[c][k] = h.in[c][k]
             \/ c = d /\ g.in[c][k] = m
  <2>1. CASE c = d
    <3>1. k \in 1 .. Len(h.in[d]) \/ k = Len(h.in[d]) + 1
      BY <1>1, <2>1
    <3> QED BY <1>1, <2>1, <3>1
  <2>2. CASE c # d
    BY <1>1, <2>2
  <2> QED BY <2>1, <2>2
<1> QED BY <1>2, <1>3, <1>4 DEF g

LEMMA ArrivesShape ==
  ASSUME NEW h, NEW d \in Device, NEW m \in Frame, Sound(h, Slot),
         m.slot \in Slot => h.table[m.slot].device = d /\ h.table[m.slot].command = m.command,
         m.slot = 0 <=> m.command \in Status,
         m.command = "MY" => m.value \in Network
  PROVE  /\ Arrives(h, d, m) \in Drivers /\ Matched(Arrives(h, d, m), Slot)
         /\ Framed(Arrives(h, d, m)) /\ Used(Arrives(h, d, m))
         /\ Wires(h, Arrives(h, d, m))
<1> DEFINE g == Arrives(h, d, m)
<1>0. h \in Drivers /\ Matched(h, Slot) /\ Framed(h) /\ Used(h)
  BY DEF Sound
<1>1. /\ g \in Drivers /\ g.table = h.table /\ g.clc = h.clc /\ g.out = h.out
  BY <1>0, ArrivesFacts
<1>2. /\ \A c \in Device : \A k \in 0 .. Len(h.in[c]) : \A C :
            Later(h.in[c], k, C) => Later(g.in[c], k, C)
      /\ \A c \in Device : \A k \in 1 .. Len(g.in[c]) :
            \/ k \in 1 .. Len(h.in[c]) /\ g.in[c][k] = h.in[c][k]
            \/ c = d /\ g.in[c][k] = m
  <2>1. \A c \in Device : \A k \in 0 .. Len(h.in[c]) : \A C :
           Later(h.in[c], k, C) => Later(g.in[c], k, C)
    BY <1>0, ArrivesLater
  <2>2. \A c \in Device : \A k \in 1 .. Len(g.in[c]) :
            \/ k \in 1 .. Len(h.in[c]) /\ g.in[c][k] = h.in[c][k]
            \/ c = d /\ g.in[c][k] = m
    BY <1>0, ArrivesLater
  <2> QED BY <2>1, <2>2
<1> HIDE DEF g
<1>3. Matched(g, Slot)
  <2> SUFFICES ASSUME NEW c \in Device
               PROVE  /\ \A k \in 1 .. Len(h.out[c]) : h.out[c][k].slot \in Slot =>
                            /\ h.table[h.out[c][k].slot].device = c
                            /\ h.table[h.out[c][k].slot].command = h.out[c][k].command
                      /\ \A k \in 1 .. Len(g.in[c]) : g.in[c][k].slot \in Slot =>
                            /\ h.table[g.in[c][k].slot].device = c
                            /\ h.table[g.in[c][k].slot].command = g.in[c][k].command
    BY <1>1 DEF Matched
  <2>1. /\ \A k \in 1 .. Len(h.out[c]) : h.out[c][k].slot \in Slot =>
              /\ h.table[h.out[c][k].slot].device = c
              /\ h.table[h.out[c][k].slot].command = h.out[c][k].command
        /\ \A k \in 1 .. Len(h.in[c]) : h.in[c][k].slot \in Slot =>
              /\ h.table[h.in[c][k].slot].device = c
              /\ h.table[h.in[c][k].slot].command = h.in[c][k].command
    BY <1>0 DEF Matched
  <2>2. ASSUME NEW k \in 1 .. Len(g.in[c]), g.in[c][k].slot \in Slot
        PROVE  /\ h.table[g.in[c][k].slot].device = c
               /\ h.table[g.in[c][k].slot].command = g.in[c][k].command
    <3>1. CASE k \in 1 .. Len(h.in[c]) /\ g.in[c][k] = h.in[c][k]
      BY <2>1, <2>2, <3>1
    <3>2. CASE c = d /\ g.in[c][k] = m
      BY <2>2, <3>2
    <3> QED BY <1>2, <3>1, <3>2
  <2> QED BY <2>1, <2>2
<1>4. Framed(g)
  <2> SUFFICES ASSUME NEW c \in Device, NEW k \in 1 .. Len(g.in[c])
               PROVE  /\ g.in[c][k].slot = 0 <=> g.in[c][k].command \in Status
                      /\ g.in[c][k].command = "MY" => g.in[c][k].value \in Network
    BY DEF Framed
  <2>1. CASE k \in 1 .. Len(h.in[c]) /\ g.in[c][k] = h.in[c][k]
    BY <1>0, <2>1 DEF Framed
  <2>2. CASE c = d /\ g.in[c][k] = m
    BY <2>2
  <2> QED BY <1>2, <2>1, <2>2
<1>5. Used(g)
  BY <1>0, <1>1 DEF Used
<1>6. Wires(h, g)
  <2>1. \A c \in Device : 0 \in 0 .. Len(h.in[c])
    BY <1>0, WireFacts
  <2> QED BY <1>2, <2>1 DEF Wires, Corrected
<1> QED BY <1>1, <1>3, <1>4, <1>5, <1>6 DEF g

\* The module takes the command that came first.
Take(h, d) == [h EXCEPT !.out[d] = Tail(@)]

LEMMA TakeSound ==
  ASSUME NEW h, NEW d \in Device, Sound(h, Slot), h.out[d] # <<>>
  PROVE  /\ Onward(h, Take(h, d))
         /\ Take(h, d).table = h.table /\ Take(h, d).dev = h.dev
         /\ Take(h, d).clc = h.clc /\ Take(h, d).in = h.in
         /\ Head(h.out[d]) \in Asked
         /\ h.table[Head(h.out[d]).slot].device = d
         /\ h.table[Head(h.out[d]).slot].command = Head(h.out[d]).command
<1> DEFINE g == Take(h, d)
           q == Tail(h.out[d])
<1>0. h \in Drivers /\ Matched(h, Slot) /\ Framed(h) /\ Used(h) /\ News(h)
  BY DEF Sound
<1>1. h.out[d] \in Seq(Asked)
  BY <1>0, WireFacts
<1>2. /\ Len(h.out[d]) \in Nat \ {0} /\ Head(h.out[d]) = h.out[d][1]
      /\ Head(h.out[d]) \in Asked /\ q \in Seq(Asked)
      /\ Len(q) = Len(h.out[d]) - 1
      /\ \A k \in 1 .. Len(q) : q[k] = h.out[d][k + 1]
  BY <1>1, HeadTailProperties, EmptySeq
<1> HIDE DEF q
<1>3. g = [h EXCEPT !.out[d] = q]
  BY DEF Take, q
<1> HIDE DEF g
<1>4. /\ g \in Drivers /\ g.table = h.table /\ g.dev = h.dev /\ g.clc = h.clc
      /\ g.in = h.in /\ g.out[d] = q /\ \A c \in Device \ {d} : g.out[c] = h.out[c]
  BY <1>0, <1>2, <1>3 DEF Drivers
<1>5. \A c \in Device : \A k \in 1 .. Len(g.out[c]) :
         \E j \in 1 .. Len(h.out[c]) : g.out[c][k] = h.out[c][j]
  <2> TAKE c \in Device
  <2>1. CASE c = d
    <3>1. \A k \in 1 .. Len(q) : k + 1 \in 1 .. Len(h.out[d])
      BY <1>2
    <3> QED BY <1>2, <1>4, <2>1, <3>1
  <2>2. CASE c # d
    BY <1>4, <2>2
  <2> QED BY <2>1, <2>2
<1>6. Matched(g, Slot)
  <2> SUFFICES ASSUME NEW c \in Device
               PROVE  /\ \A k \in 1 .. Len(g.out[c]) : g.out[c][k].slot \in Slot =>
                            /\ h.table[g.out[c][k].slot].device = c
                            /\ h.table[g.out[c][k].slot].command = g.out[c][k].command
                      /\ \A k \in 1 .. Len(h.in[c]) : h.in[c][k].slot \in Slot =>
                            /\ h.table[h.in[c][k].slot].device = c
                            /\ h.table[h.in[c][k].slot].command = h.in[c][k].command
    BY <1>4 DEF Matched
  <2>1. /\ \A k \in 1 .. Len(h.out[c]) : h.out[c][k].slot \in Slot =>
              /\ h.table[h.out[c][k].slot].device = c
              /\ h.table[h.out[c][k].slot].command = h.out[c][k].command
        /\ \A k \in 1 .. Len(h.in[c]) : h.in[c][k].slot \in Slot =>
              /\ h.table[h.in[c][k].slot].device = c
              /\ h.table[h.in[c][k].slot].command = h.in[c][k].command
    BY <1>0 DEF Matched
  <2>2. ASSUME NEW k \in 1 .. Len(g.out[c]), g.out[c][k].slot \in Slot
        PROVE  /\ h.table[g.out[c][k].slot].device = c
               /\ h.table[g.out[c][k].slot].command = g.out[c][k].command
    <3>1. PICK j \in 1 .. Len(h.out[c]) : g.out[c][k] = h.out[c][j]
      BY <1>5
    <3> QED BY <2>1, <2>2, <3>1
  <2> QED BY <2>1, <2>2
<1>7. Framed(g) /\ Used(g) /\ News(g) /\ Wires(h, g)
  BY <1>0, <1>4 DEF Framed, Used, News, Wires, Corrected
<1>8. Keeps(h, g)
  BY <1>4, <1>7, SameBelief
<1>9. /\ h.table[Head(h.out[d]).slot].device = d
      /\ h.table[Head(h.out[d]).slot].command = Head(h.out[d]).command
  <2>1. 1 \in 1 .. Len(h.out[d]) /\ Head(h.out[d]).slot \in Slot
    BY <1>2 DEF Asked
  <2> QED BY <1>0, <1>2, <2>1 DEF Matched
<1> QED BY <1>2, <1>4, <1>6, <1>7, <1>8, <1>9 DEF Onward, Sound, g

LEMMA AnswerInv ==
  ASSUME AtInv, NEW d \in Device, Answer(d)
  PROVE  AtInv'
<1> DEFINE x == Head(out[d])
           m == Answered(d, x)
           h == Take(Driver, d)
           g == Arrives(h, d, m)
<1>1. out[d] # <<>> /\ Become(g)
  <2>1. /\ table' = table /\ dev' = dev /\ clc' = clc
        /\ out' = [out EXCEPT ![d] = Tail(@)]
        /\ in' = [in EXCEPT ![d] = Append(@, m)]
    BY DEF Answer
  <2> HIDE DEF m
  <2> QED BY <2>1 DEF Answer, Become, Arrives, Take, Driver
<1>2. /\ Onward(Driver, h) /\ h.table = table /\ h.dev = dev /\ h.clc = clc /\ h.in = in
      /\ x \in Asked /\ table[x.slot].device = d /\ table[x.slot].command = x.command
  BY <1>1, DriverFacts, TakeSound
<1> HIDE DEF h, x
<1>3. Sound(h, Slot) /\ addr[d] \in Network
  BY <1>2, DriverFacts DEF Onward, AtInv
<1>4. /\ m \in Frame /\ m.slot = x.slot /\ m.command = x.command
      /\ m.command = "MY" => m.value = addr[d]
      /\ m.value = "0" => addr[d] # Undefined
      /\ m.command \notin Status /\ m.slot \in Slot
  <2> DEFINE v == CASE x.command = "AI" -> IF addr[d] = Undefined THEN "1" ELSE "0"
                    [] x.command = "MY" -> addr[d]
                    [] OTHER -> "1"
  <2>1. m = [slot |-> x.slot, command |-> x.command, value |-> v]
    BY DEF Answered
  <2>2. /\ v \in Network \cup {"0", "1"}
        /\ x.command = "MY" => v = addr[d]
        /\ v = "0" => addr[d] # Undefined
    <3>1. CASE x.command = "AI"
      BY <3>1
    <3>2. CASE x.command = "MY"
      BY <1>3, <3>2 DEF Undefined
    <3>3. CASE x.command # "AI" /\ x.command # "MY"
      BY <3>3
    <3> QED BY <3>1, <3>2, <3>3
  <2> HIDE DEF v, m
  <2>3. x.slot \in Slot /\ x.command \in Command
    BY <1>2 DEF Asked
  <2>4. /\ x.slot \in 0 .. TableSize /\ x.command \in Command \cup Status
        /\ x.command \notin Status
    BY <2>3, SlotFacts DEF Command, Status
  <2> QED BY <2>1, <2>2, <2>3, <2>4 DEF Frame
<1> HIDE DEF m
<1>5. /\ g \in Drivers /\ Matched(g, Slot) /\ Framed(g) /\ Used(g) /\ Wires(h, g)
  BY <1>2, <1>3, <1>4, SlotFacts, ArrivesShape
<1>6. g.dev = h.dev /\ g.table = h.table /\ g.clc = h.clc
  BY <1>3, <1>4, ArrivesFacts DEF Sound
<1>7. News(g)
  <2> SUFFICES ASSUME NEW c \in Device, NEW k \in 1 .. Len(g.in[c])
               PROVE  LET q == g.in[c]
                      IN /\ q[k].command = "MY" => q[k].value = addr[c] \/ Later(q, k, Status)
                         /\ q[k].command = "joined" \/ q[k].value = "0" =>
                               addr[c] # Undefined \/ Later(q, k, {"disassociated"})
                         /\ q[k].command = "disassociated" =>
                               addr[c] = Undefined \/ Later(q, k, Status)
    BY DEF News
  <2>1. CASE k \in 1 .. Len(h.in[c]) /\ g.in[c][k] = h.in[c][k]
    <3>1. \A C : Later(h.in[c], k, C) => Later(g.in[c], k, C)
      <4>1. k \in 0 .. Len(h.in[c])
        BY <2>1
      <4> QED BY <1>3, <1>4, <4>1, ArrivesLater DEF Sound
    <3> QED BY <1>3, <2>1, <3>1 DEF Sound, News
  <2>2. CASE c = d /\ g.in[c][k] = m
    BY <1>4, <2>2 DEF Status
  <2>3. \/ k \in 1 .. Len(h.in[c]) /\ g.in[c][k] = h.in[c][k]
        \/ c = d /\ g.in[c][k] = m
    BY <1>3, <1>4, ArrivesLater DEF Sound
  <2> QED BY <2>1, <2>2, <2>3
<1> HIDE DEF g
<1>8. Keeps(h, g)
  BY <1>5, <1>6, SameBelief
<1>9. Onward(Driver, g)
  <2>1. Onward(h, g)
    BY <1>5, <1>6, <1>7, <1>8 DEF Onward, Sound
  <2> QED BY <1>2, <2>1, OnwardTrans
<1>10. Tracked(Driver, 0) => Tracked(g, 0)
  <2>1. g.table = Driver.table /\ g.clc = Driver.clc /\ g.dev = Driver.dev
    BY <1>2, <1>6, DriverFacts
  <2> QED BY <2>1, SameTracked DEF HasFlag
<1> QED BY <1>1, <1>9, <1>10, OnwardInv DEF Answer

LEMMA ArriveStep ==
  ASSUME NEW d, NEW m, in' = [in EXCEPT ![d] = Append(@, m)],
         UNCHANGED <<table, dev, clc, cts, out>>
  PROVE  Driver' = Arrives(Driver, d, m)
<1>1. /\ table' = table /\ dev' = dev /\ clc' = clc /\ out' = out
  OBVIOUS
<1> DEFINE q == [in EXCEPT ![d] = Append(@, m)]
<1>2. in' = q
  OBVIOUS
<1>3. Driver' = [table |-> table, dev |-> dev, clc |-> clc, out |-> out, in |-> q,
                 ticked |-> FALSE]
  <2> HIDE DEF q
  <2> QED BY <1>1, <1>2 DEF Driver
<1>4. Arrives(Driver, d, m) = [table |-> table, dev |-> dev, clc |-> clc, out |-> out,
                               in |-> q, ticked |-> FALSE]
  <2>1. Driver.in = in
    BY DEF Driver
  <2>2. Arrives(Driver, d, m) = [Driver EXCEPT !.in = q]
    BY <2>1 DEF Arrives
  <2> HIDE DEF q
  <2> QED BY <2>2 DEF Driver
<1> QED BY <1>3, <1>4

\* The module joins a network or leaves it, and says so.
LEMMA ReportInv ==
  ASSUME AtInv, NEW d \in Device, NEW a \in Network, NEW status \in Status,
         status = "joined" <=> a # Undefined,
         addr' = [addr EXCEPT ![d] = a],
         in' = [in EXCEPT ![d] =
                   Append(@, [slot |-> 0, command |-> status, value |-> "1"])],
         UNCHANGED <<table, dev, clc, cts, out>>
  PROVE  AtInv'
<1> DEFINE m == [slot |-> 0, command |-> status, value |-> "1"]
           h == Driver
           g == Arrives(h, d, m)
<1>1. Driver' = g
  BY ArriveStep
<1>2. /\ m \in Frame /\ m.slot = 0 /\ m.command = status /\ m.value = "1"
  <2>1. 0 \in 0 .. TableSize
    BY SizeAssumption
  <2> QED BY <2>1 DEF Frame
<1> HIDE DEF m, h
<1>3. h = Driver /\ Sound(h, Slot) /\ h \in Drivers
  BY DriverFacts DEF h
<1>4. /\ g \in Drivers /\ Matched(g, Slot) /\ Framed(g) /\ Used(g) /\ Wires(h, g)
  <2>1. m.command # "MY"
    BY <1>2 DEF Status
  <2> QED BY <1>2, <1>3, <2>1, SlotFacts, ArrivesShape
<1>5. g.dev = h.dev /\ g.table = h.table /\ g.clc = h.clc /\ Len(h.in[d]) \in Nat
  BY <1>2, <1>3, ArrivesFacts
<1>6. /\ addr'[d] = a /\ \A c \in Device \ {d} : addr'[c] = addr[c]
      /\ addr' \in [Device -> Network]
  BY DEF AtInv
<1>7. /\ \A c \in Device : \A k \in 0 .. Len(h.in[c]) : \A C :
            Later(h.in[c], k, C) => Later(g.in[c], k, C)
      /\ \A k \in 0 .. Len(h.in[d]) : \A C : m.command \in C => Later(g.in[d], k, C)
  <2>1. \A c \in Device : \A k \in 0 .. Len(h.in[c]) : \A C :
           Later(h.in[c], k, C) => Later(g.in[c], k, C)
    BY <1>2, <1>3, ArrivesLater
  <2>2. \A k \in 0 .. Len(h.in[d]) : \A C : m.command \in C => Later(g.in[d], k, C)
    BY <1>2, <1>3, ArrivesLater
  <2> QED BY <2>1, <2>2
<1>8. \A c \in Device : \A k \in 1 .. Len(g.in[c]) :
         \/ k \in 1 .. Len(h.in[c]) /\ g.in[c][k] = h.in[c][k]
         \/ c = d /\ g.in[c][k] = m
  BY <1>2, <1>3, ArrivesLater
<1> HIDE DEF g
<1>9. News(Driver)'
  <2> SUFFICES ASSUME NEW c \in Device, NEW k \in 1 .. Len(g.in[c])
               PROVE  LET q == g.in[c]
                      IN /\ q[k].command = "MY" => q[k].value = addr'[c] \/ Later(q, k, Status)
                         /\ q[k].command = "joined" \/ q[k].value = "0" =>
                               addr'[c] # Undefined \/ Later(q, k, {"disassociated"})
                         /\ q[k].command = "disassociated" =>
                               addr'[c] = Undefined \/ Later(q, k, Status)
    BY <1>1 DEF News
  <2>1. CASE k \in 1 .. Len(h.in[c]) /\ g.in[c][k] = h.in[c][k] /\ c = d
    <3>1. k \in 0 .. Len(h.in[d])
      BY <2>1
    <3>2. Later(g.in[d], k, Status)
      BY <1>2, <1>7, <3>1
    <3>3. a = Undefined => Later(g.in[d], k, {"disassociated"})
      <4>1. a = Undefined => m.command = "disassociated"
        BY <1>2 DEF Status
      <4> QED BY <1>7, <3>1, <4>1
    <3> QED BY <1>6, <2>1, <3>2, <3>3
  <2>2. CASE k \in 1 .. Len(h.in[c]) /\ g.in[c][k] = h.in[c][k] /\ c # d
    <3>1. k \in 0 .. Len(h.in[c])
      BY <2>2
    <3>2. \A C : Later(h.in[c], k, C) => Later(g.in[c], k, C)
      BY <1>7, <3>1
    <3>3. addr'[c] = addr[c]
      BY <1>6, <2>2
    <3> QED BY <1>3, <2>2, <3>2, <3>3 DEF Sound, News
  <2>3. CASE c = d /\ g.in[c][k] = m
    BY <1>2, <1>6, <2>3 DEF Status
  <2> QED BY <1>8, <2>1, <2>2, <2>3
<1>10. Sound(Driver, Slot)'
  BY <1>1, <1>4, <1>9 DEF Sound
<1>11. ASSUME OneDevice PROVE True(Driver)'
  <2>1. 0 \in 0 .. Len(h.in[d])
    BY <1>5
  <2>2. Later(g.in[d], 0, Status)
    BY <1>2, <1>7, <2>1
  <2>3. a = Undefined => Later(g.in[d], 0, {"disassociated"})
    <3>1. a = Undefined => m.command = "disassociated"
      BY <1>2 DEF Status
    <3> QED BY <1>7, <2>1, <3>1
  <2>4. \A c \in Device : c = d
    BY <1>11 DEF OneDevice
  <2> QED BY <1>1, <1>6, <2>2, <2>3, <2>4 DEF True, Known, Fresh, Current, Corrected
<1>12. ASSUME OneDevice, ~ LateAnswers PROVE Tracked(Driver, 0)'
  <2>1. Tracked(h, 0)
    BY <1>3, <1>12 DEF AtInv
  <2>2. Tracked(g, 0)
    BY <1>5, <2>1, SameTracked DEF HasFlag
  <2> QED BY <1>1, <2>2
<1>13. cts' \in [Device -> BOOLEAN]
  BY DEF AtInv
<1> QED BY <1>6, <1>10, <1>11, <1>12, <1>13 DEF AtInv

LEMMA JoinInv ==
  ASSUME AtInv, NEW d \in Device, Join(d)
  PROVE  AtInv'
<1>1. PICK a \in Address \ {addr[d]} : addr' = [addr EXCEPT ![d] = a]
  BY DEF Join
<1>2. a \in Network /\ a # Undefined
  BY AddressAssumption DEF Network
<1>3. /\ in' = [in EXCEPT ![d] =
                  Append(@, [slot |-> 0, command |-> "joined", value |-> "1"])]
      /\ UNCHANGED <<table, dev, clc, cts, out>>
  BY DEF Join, Report
<1>4. "joined" \in Status
  BY DEF Status
<1> QED BY <1>1, <1>2, <1>3, <1>4, ReportInv

LEMMA LeaveInv ==
  ASSUME AtInv, NEW d \in Device, Leave(d)
  PROVE  AtInv'
<1>1. /\ addr' = [addr EXCEPT ![d] = Undefined]
      /\ in' = [in EXCEPT ![d] =
                  Append(@, [slot |-> 0, command |-> "disassociated", value |-> "1"])]
      /\ UNCHANGED <<table, dev, clc, cts, out>>
  BY DEF Leave, Report
<1>2. "disassociated" \in Status /\ Undefined \in Network
  BY DEF Status, Network
<1> QED BY <1>1, <1>2, ReportInv

LEMMA AtInit == Init => AtInv
<1> SUFFICES ASSUME Init PROVE AtInv
  OBVIOUS
<1> DEFINE h == Driver
<1>1. /\ h.table = [s \in Slot |-> Unused]
      /\ h.dev = [d \in Device |-> [flags |-> {}, network |-> Undefined, joined |-> FALSE]]
      /\ h.clc = [base |-> None, pos |-> 1, status |-> "done"]
      /\ h.out = [d \in Device |-> <<>>] /\ h.in = [d \in Device |-> <<>>]
      /\ cts \in [Device -> BOOLEAN] /\ addr \in [Device -> Network]
  BY DEF Init, Driver, Network
<1>2. h \in Drivers
  <2>1. /\ h.table \in [Slot -> Request] /\ h.clc \in List
        /\ h.out \in [Device -> Seq(Asked)] /\ h.in \in [Device -> Seq(Frame)]
    BY <1>1, UnusedFacts DEF List
  <2>2. [flags |-> {}, network |-> Undefined, joined |-> FALSE] \in State
    BY DEF State, Network
  <2>3. h.dev \in [Device -> State]
    BY <1>1, <2>2
  <2>4. h.table = table /\ h.dev = dev /\ h.clc = clc /\ h.out = out /\ h.in = in
    BY DEF Driver
  <2>5. /\ table \in [Slot -> Request] /\ dev \in [Device -> State] /\ clc \in List
        /\ out \in [Device -> Seq(Asked)] /\ in \in [Device -> Seq(Frame)]
    BY <2>1, <2>3, <2>4
  <2> QED BY <2>5 DEF Drivers, Driver
<1> HIDE DEF h
<1>3. \A d \in Device : Len(h.out[d]) = 0 /\ Len(h.in[d]) = 0
  BY <1>1
<1>4. Matched(h, Slot) /\ Framed(h) /\ News(h)
  BY <1>3 DEF Matched, Framed, News
<1>5. Used(h)
  BY <1>1, UnusedFacts DEF Used
<1>6. \A d \in Device : h.dev[d].flags = {} /\ ~ h.dev[d].joined
  BY <1>1
<1>7. True(h) /\ Tracked(h, 0)
  BY <1>6 DEF True, Known, Fresh, HasFlag, Tracked
<1> QED BY <1>1, <1>2, <1>4, <1>5, <1>7 DEF AtInv, Sound, h

LEMMA AtStep == AtInv /\ [Next]_vars => AtInv'
<1> SUFFICES ASSUME AtInv, [Next]_vars PROVE AtInv'
  OBVIOUS
<1>1. CASE CmdTick
  BY <1>1, CmdTickInv
<1>2. ASSUME NEW s \in Slot, SendRequest(s) \/ ReleaseHandle(s) \/ Elapse(s)
      PROVE  AtInv'
  BY <1>2, SendRequestInv, ReleaseHandleInv, ElapseInv
<1>3. ASSUME NEW d \in Device,
             \/ CmdInit(d) \/ CmdQuery(d) \/ Create(d)
             \/ Receive(d) \/ Answer(d) \/ ToggleCts(d)
             \/ LoseAnswer(d) \/ Join(d) \/ Leave(d)
      PROVE  AtInv'
  BY <1>3, CmdInitInv, CmdQueryInv, CreateInv, ReceiveInv, AnswerInv, ToggleCtsInv,
     LoseAnswerInv, JoinInv, LeaveInv
<1>4. CASE UNCHANGED vars
  <2>1. Driver' = Driver /\ addr' = addr /\ cts' = cts
    BY <1>4 DEF vars, Driver
  <2>2. Sound(Driver, Slot)' /\ (OneDevice => True(Driver))'
    BY <2>1 DEF AtInv, Sound, News, True, Known, Fresh, Current
  <2>3. (OneDevice /\ ~ LateAnswers => Tracked(Driver, 0))'
    BY <2>1 DEF AtInv
  <2> QED BY <2>1, <2>2, <2>3 DEF AtInv
<1> QED BY <1>1, <1>2, <1>3, <1>4 DEF Next

LEMMA AtAlways == Spec => []AtInv
BY AtInit, AtStep, PTL DEF Spec

-----------------------------------------------------------------------------
(* The theorems *)

LEMMA RangeFacts ==
  ASSUME AtInv, NEW d \in Device
  PROVE  /\ \A m \in Range(out[d]) : \E k \in 1 .. Len(out[d]) : m = out[d][k]
         /\ \A m \in Range(in[d]) : \E k \in 1 .. Len(in[d]) : m = in[d][k]
         /\ \A k \in 1 .. Len(in[d]) : in[d][k] \in Range(in[d])
<1>1. /\ DOMAIN out[d] = 1 .. Len(out[d]) /\ DOMAIN in[d] = 1 .. Len(in[d])
  BY DriverFacts, LenProperties
<1> QED BY <1>1 DEF Range

\* Requests, flags, the list and what is under way have their types, and a frame
\* under way names the request it belongs to: its device and its command.
THEOREM AtTypes == Spec => []TypeOK
<1>1. AtInv => TypeOK
  <2> SUFFICES ASSUME AtInv PROVE TypeOK
    OBVIOUS
  <2>1. /\ table \in [Slot -> Request] /\ dev \in [Device -> State] /\ clc \in List
        /\ cts \in [Device -> BOOLEAN] /\ addr \in [Device -> Network]
    BY DriverFacts DEF Drivers, AtInv
  <2>2. Range(Regs) \cup {"", "ND"} = Command /\ Len(Regs) + 1 = 4
    BY RegFacts DEF Command
  <2>3. ASSUME NEW d \in Device, NEW m \in Range(out[d]) \cup Range(in[d]), m.slot # 0
        PROVE  table[m.slot].device = d /\ table[m.slot].command = m.command
    <3>1. Matched(Driver, Slot) /\ Driver.table = table /\ Driver.out = out /\ Driver.in = in
      BY DriverFacts DEF Sound
    <3>2. CASE m \in Range(out[d])
      <4>1. PICK k \in 1 .. Len(out[d]) : m = out[d][k]
        BY <3>2, RangeFacts
      <4>2. m.slot \in Slot
        BY <4>1, DriverFacts, WireFacts DEF Asked
      <4> QED BY <3>1, <4>1, <4>2 DEF Matched
    <3>3. CASE m \in Range(in[d])
      <4>1. PICK k \in 1 .. Len(in[d]) : m = in[d][k]
        BY <3>3, RangeFacts
      <4>2. m \in Frame
        BY <4>1, DriverFacts, WireFacts
      <4>3. m.slot \in Slot
        BY <2>3, <4>2 DEF Frame, Slot
      <4> QED BY <3>1, <4>1, <4>3 DEF Matched
    <3> QED BY <3>2, <3>3
  <2> QED BY <2>1, <2>2, <2>3 DEF TypeOK, Request, State, List, Network
<1> QED BY <1>1, AtAlways, PTL

\* With one device, a device that the driver believes to be joined is, or news
\* that it is not are on their way: _xbee_cmd_query_handle_ai and the handler of
\* status frames, in whatever order calls, answers and timeouts come.
THEOREM JoinedRightly == ASSUME OneDevice PROVE Spec => []JoinedTrue
<1>1. AtInv => JoinedTrue
  <2> SUFFICES ASSUME AtInv, NEW d \in Device, dev[d].joined
               PROVE  \/ addr[d] # Undefined
                      \/ \E m \in Range(in[d]) : m.command = "disassociated"
    BY DEF JoinedTrue
  <2>1. addr[d] # Undefined \/ Later(in[d], 0, {"disassociated"})
    BY DriverFacts DEF AtInv, True, Known, Corrected
  <2> QED BY <2>1, RangeFacts DEF Later
<1> QED BY <1>1, AtAlways, PTL

\* With one device, once a query has ended well, nothing more is to be refreshed
\* and no status frame is on its way, the driver has the module's address.
THEOREM AddressRight == ASSUME OneDevice PROVE Spec => []AddressFresh
<1>1. AtInv => AddressFresh
  <2> SUFFICES ASSUME AtInv, NEW d \in Device, Settled(d)
               PROVE  dev[d].network = addr[d]
    BY DEF AddressFresh
  <2>1. HasFlag(Driver, d, "DONE") /\ ~ HasFlag(Driver, d, "REFRESH")
    BY DriverFacts DEF Settled, HasFlag
  <2>2. dev[d].network = addr[d] \/ Later(in[d], 0, Status)
    BY <2>1, DriverFacts DEF AtInv, True, Fresh, Current, Corrected
  <2>3. ~ Later(in[d], 0, Status)
    BY RangeFacts DEF Settled, IsStatus, Later, Status
  <2> QED BY <2>2, <2>3
<1> QED BY <1>1, AtAlways, PTL

\* With one device and no answer handled after its request's time, a query that
\* is marked as in progress has a request in the table that will end it.
THEOREM QueryEnds == ASSUME OneDevice, ~ LateAnswers PROVE Spec => []QueryTracked
<1>1. AtInv => QueryTracked
  BY DriverFacts DEF AtInv, QueryTracked, Tracked, Tracks, HasFlag
<1> QED BY <1>1, AtAlways, PTL
=============================================================================
