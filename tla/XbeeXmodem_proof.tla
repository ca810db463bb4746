-------------------------- MODULE XbeeXmodem_proof --------------------------
(***************************************************************************)
(* Peers that wait for each other transfer every file correctly, whatever  *)
(* its length, the number of distinct block numbers (two are enough) and   *)
(* what the line loses or corrupts.                                        *)
(***************************************************************************)
EXTENDS XbeeXmodem, SequenceTheorems, TLAPS

\* While a block is under way the sender and the receiver differ by at most
\* that block, and an acknowledgement on the line is that block's.
BlockUnderWay ==
   state \in {"SENDING", "RESEND", "WAIT_ACK"} =>
      /\ num = pos - base /\ num >= 1
      /\ buffer = File[pos]
      /\ Len(got) \in {num - 1, num}

Line1 ==
   \/ down = <<>> /\ up = <<>>
   \/ down = <<>> /\ Len(up) = 1 /\ (up[1] = "ACK" => Len(got) = num)
   \/ /\ up = <<>> /\ Len(down) = 1 /\ down[1].kind = "block"
      /\ down[1].num = num % NumMod /\ down[1].data = buffer

OneUnderWay ==
   /\ state \in {"SENDING", "RESEND", "SEND"} => down = <<>> /\ up = <<>>
   /\ state = "WAIT_ACK" => Line1

Start == state = "START" => pos = base /\ got = <<>> /\ down = <<>>

Between == state = "SEND" => num = pos - base + 1 /\ Len(got) = pos - base

AllSent ==
   /\ state \in {"EOF", "FINAL_ACK", "SUCCESS"} =>
        pos = Len(File) /\ Len(got) = pos - base
   /\ state \in {"EOF", "FINAL_ACK", "SUCCESS", "FAILURE"} =>
        \A i \in 1 .. Len(down) : down[i].kind # "block"

XInv == /\ XTypeOK /\ InOrder
        /\ Start /\ Between /\ BlockUnderWay /\ OneUnderWay /\ AllSent

-----------------------------------------------------------------------------
(* Numbers, packets and the two directions of the line *)

USE FileAssumption, NumAssumption, NoneAssumption

LEMMA NoUnitMultiple ==
  ASSUME NEW d \in Int
  PROVE  NumMod * d # 1
<1>1. CASE d <= 0
  BY <1>1
<1>2. CASE d >= 1
  <2>1. NumMod * d >= NumMod
    BY <1>2
  <2> QED BY <2>1
<1> QED BY <1>1, <1>2

LEMMA Division ==
  ASSUME NEW n \in Nat
  PROVE  n = NumMod * (n \div NumMod) + (n % NumMod) /\ n \div NumMod \in Int
<1>1. n \div NumMod \in Int
  OBVIOUS
<1>2. n = NumMod * (n \div NumMod) + (n % NumMod)
  OBVIOUS
<1> QED BY <1>1, <1>2

\* A block's number differs from the next one's.
LEMMA NextNumber ==
  ASSUME NEW n \in Nat
  PROVE  /\ n % NumMod \in 0 .. NumMod - 1
         /\ (n + 1) % NumMod # n % NumMod
<1>1. n % NumMod \in 0 .. NumMod - 1
  OBVIOUS
<1>2. ASSUME (n + 1) % NumMod = n % NumMod
      PROVE  FALSE
  <2>1. n = NumMod * (n \div NumMod) + (n % NumMod)
    BY Division
  <2>2. n + 1 = NumMod * ((n + 1) \div NumMod) + (n % NumMod)
    BY <1>2, Division
  <2>a. n \div NumMod \in Int /\ (n + 1) \div NumMod \in Int
    BY Division
  <2>3. PICK p \in Int, q \in Int : p = n \div NumMod /\ q = (n + 1) \div NumMod
    BY <2>a, Zenon
  <2>4. PICK r \in Int : r = n % NumMod
    BY <1>1
  <2>5. n = NumMod * p + r /\ n + 1 = NumMod * q + r
    BY <2>1, <2>2, <2>3, <2>4
  <2>6. NumMod * (q - p) = NumMod * q - NumMod * p
    BY <2>3
  <2>7. NumMod * q - NumMod * p = 1
    BY <2>3, <2>4, <2>5
  <2> QED BY <2>3, <2>6, <2>7, NoUnitMultiple
<1> QED BY <1>1, <1>2

LEMMA FileBlocks == Len(File) \in Nat /\ \A i \in 1 .. Len(File) : File[i] \in Nat
  OBVIOUS

LEMMA BlockPacket ==
  ASSUME NEW n \in Nat, NEW b \in Nat \cup {None}
  PROVE  [kind |-> "block", num |-> n % NumMod, data |-> b, ok |-> TRUE] \in Packet
  BY NextNumber DEF Packet

LEMMA OtherPacket ==
  ASSUME NEW k \in {"EOT", "CAN"}
  PROVE  [kind |-> k, num |-> 0, data |-> None, ok |-> TRUE] \in Packet
  BY DEF Packet

LEMMA AppendDown ==
  ASSUME NEW s \in Seq(Packet), NEW p \in Packet
  PROVE  /\ Append(s, p) \in Seq(Packet)
         /\ Len(Append(s, p)) = Len(s) + 1
         /\ \A i \in 1 .. Len(s) : Append(s, p)[i] = s[i]
         /\ Append(s, p)[Len(s) + 1] = p
  OBVIOUS

LEMMA TailDown ==
  ASSUME NEW s \in Seq(Packet), s # <<>>
  PROVE  /\ Tail(s) \in Seq(Packet) /\ Head(s) \in Packet /\ Head(s) = s[1]
         /\ Len(Tail(s)) = Len(s) - 1
         /\ \A i \in 1 .. Len(Tail(s)) : Tail(s)[i] = s[i + 1]
         /\ Len(s) = 1 => Tail(s) = <<>>
<1>1. /\ Tail(s) \in Seq(Packet) /\ Head(s) \in Packet /\ Head(s) = s[1]
      /\ Len(Tail(s)) = Len(s) - 1
      /\ \A i \in 1 .. Len(Tail(s)) : Tail(s)[i] = s[i + 1]
  BY HeadTailProperties
<1> QED BY <1>1, EmptySeq

LEMMA CorruptDown ==
  ASSUME NEW s \in Seq(Packet), s # <<>>
  PROVE  LET c == [s EXCEPT ![1].ok = FALSE]
         IN  /\ c \in Seq(Packet) /\ Len(c) = Len(s)
             /\ c[1].kind = s[1].kind /\ c[1].num = s[1].num /\ c[1].data = s[1].data
             /\ \A i \in 1 .. Len(s) : c[i].kind = s[i].kind
<1> DEFINE p == [s[1] EXCEPT !.ok = FALSE]
           c == [s EXCEPT ![1] = p]
<1>1. s[1] \in Packet
  OBVIOUS
<1>2. p \in Packet /\ p.kind = s[1].kind /\ p.num = s[1].num /\ p.data = s[1].data
  BY <1>1 DEF Packet
<1> HIDE DEF p
<1>3. c \in Seq(Packet) /\ Len(c) = Len(s) /\ c[1] = p
      /\ \A i \in 1 .. Len(s) : i # 1 => c[i] = s[i]
  BY <1>2
<1>4. [s EXCEPT ![1].ok = FALSE] = c
  BY DEF p
<1> HIDE DEF c
<1> QED
  BY <1>2, <1>3, <1>4

LEMMA ReplyUp ==
  ASSUME NEW s \in Seq(Chars), NEW c \in Chars
  PROVE  /\ Append(s, c) \in Seq(Chars)
         /\ s = <<>> => Len(Append(s, c)) = 1 /\ Append(s, c)[1] = c
  OBVIOUS

LEMMA TailUp ==
  ASSUME NEW s \in Seq(Chars), s # <<>>
  PROVE  /\ Tail(s) \in Seq(Chars) /\ Head(s) = s[1]
         /\ Len(s) = 1 => Tail(s) = <<>>
<1>1. Tail(s) \in Seq(Chars) /\ Head(s) = s[1] /\ Len(Tail(s)) = Len(s) - 1
  BY HeadTailProperties
<1> QED BY <1>1, EmptySeq

\* A cancellation or an end of transmission adds no block to the line.
LEMMA NoBlockAdded ==
  ASSUME NEW s \in Seq(Packet), NEW p \in Packet, p.kind # "block"
  PROVE  /\ Append(s, p) \in Seq(Packet)
         /\ (\A i \in 1 .. Len(s) : s[i].kind # "block") =>
              \A i \in 1 .. Len(Append(s, p)) : Append(s, p)[i].kind # "block"
  BY AppendDown

LEMMA Cancels ==
  ASSUME NEW s \in Seq(Packet)
  PROVE  LET can == [kind |-> "CAN", num |-> 0, data |-> None, ok |-> TRUE]
         IN  /\ Append(s, can) \in Seq(Packet)
             /\ (\A i \in 1 .. Len(s) : s[i].kind # "block") =>
                  \A i \in 1 .. Len(Append(s, can)) : Append(s, can)[i].kind # "block"
  BY OtherPacket, NoBlockAdded

LEMMA Ends ==
  ASSUME NEW s \in Seq(Packet)
  PROVE  LET eot == [kind |-> "EOT", num |-> 0, data |-> None, ok |-> TRUE]
         IN  /\ Append(s, eot) \in Seq(Packet)
             /\ (\A i \in 1 .. Len(s) : s[i].kind # "block") =>
                  \A i \in 1 .. Len(Append(s, eot)) : Append(s, eot)[i].kind # "block"
  BY OtherPacket, NoBlockAdded

-----------------------------------------------------------------------------
(* The invariant *)

LEMMA InitInv == XInit => XInv
  BY DEF XInit, XInv, XTypeOK, InOrder, Start, Between, BlockUnderWay, OneUnderWay,
         AllSent, MaxTries

LEMMA StepInv ==
  ASSUME Punctual, XInv, [XNext]_xvars
  PROVE  XInv'
<1>1. CASE TickStart
  <2>1. XTypeOK /\ InOrder /\ Start /\ Between /\ BlockUnderWay /\ OneUnderWay
         /\ AllSent
    BY DEF XInv
  <2>2. up # <<>> => /\ Tail(up) \in Seq(Chars) /\ Head(up) = up[1]
                     /\ Len(up) = 1 => Tail(up) = <<>>
    BY <2>1, TailUp DEF XTypeOK
  <2>3. XTypeOK'
    <3>1. CASE Head(up) = "C" /\ pos < Len(File)
      <4>0. pos + 1 \in 1 .. Len(File) /\ pos + 1 \in Nat /\ base \in 0 .. pos + 1
        BY <2>1, <3>1, FileBlocks DEF XTypeOK
      <4>1. File[pos + 1] \in Nat
        BY <4>0, FileBlocks
      <4>2. /\ state' = "SENDING" /\ num' = 1 /\ tries' = MaxTries /\ pos' = pos + 1
            /\ buffer' = File[pos + 1] /\ up' = <<>> /\ UNCHANGED <<base, down, got, rstate>>
        BY <1>1, <3>1 DEF TickStart, ReadBlock, receiver
      <4> QED BY <2>1, <4>0, <4>1, <4>2 DEF XTypeOK, MaxTries
    <3>2. CASE Head(up) = "C" /\ pos = Len(File)
      <4>1. /\ state' = "EOF" /\ num' = 1 /\ tries' = MaxTries /\ up' = Tail(up) /\ up # <<>>
            /\ UNCHANGED <<buffer, pos, base, down, got, rstate>>
        BY <1>1, <3>2, FileBlocks DEF TickStart, ReadBlock, receiver
      <4> QED BY <2>1, <2>2, <4>1 DEF XTypeOK, MaxTries
    <3>3. CASE Head(up) # "C"
      BY <1>1, <2>1, <2>2, <3>3 DEF TickStart, receiver, XTypeOK
    <3> QED BY <2>1, <3>1, <3>2, <3>3, FileBlocks DEF XTypeOK
  <2>4. InOrder'
    BY <1>1, <2>1, <2>2 DEF TickStart, ReadBlock, MaxTries, sender, receiver,
        XTypeOK, InOrder
  <2>5. Start'
    BY <1>1, <2>1, <2>2 DEF TickStart, ReadBlock, MaxTries, sender, receiver,
        XTypeOK, Start
  <2>6. Between'
    BY <1>1, <2>1, <2>2 DEF TickStart, ReadBlock, MaxTries, sender, receiver,
        XTypeOK, Between
  <2>7. BlockUnderWay'
    <3>1. state = "START" /\ pos = base /\ got = <<>> /\ got' = got /\ base' = base
      BY <1>1, <2>1 DEF TickStart, receiver, Start
    <3>2. CASE Head(up) = "C" /\ pos < Len(File)
      <4>1. num' = 1 /\ pos' = pos + 1 /\ buffer' = File[pos + 1]
        BY <1>1, <3>2 DEF TickStart, ReadBlock
      <4> QED BY <2>1, <3>1, <4>1 DEF BlockUnderWay, XTypeOK
    <3>3. CASE Head(up) = "C" /\ ~(pos < Len(File))
      BY <1>1, <3>3 DEF TickStart, ReadBlock, BlockUnderWay
    <3>4. CASE Head(up) # "C"
      BY <1>1, <3>4 DEF TickStart, BlockUnderWay
    <3> QED BY <3>2, <3>3, <3>4
  <2>8. OneUnderWay'
    BY <1>1, <2>1, <2>2 DEF TickStart, ReadBlock, MaxTries, sender, receiver,
        XTypeOK, OneUnderWay, Line1, BlockUnderWay, Between, Start
  <2>9. AllSent'
    BY <1>1, <2>1, <2>2 DEF TickStart, ReadBlock, MaxTries, sender, receiver,
        XTypeOK, AllSent, OneUnderWay, Line1, BlockUnderWay, Between, Start
  <2> QED BY <2>3, <2>4, <2>5, <2>6, <2>7, <2>8, <2>9 DEF XInv
<1>2. CASE TickSend
  <2>1. XTypeOK /\ InOrder /\ Start /\ Between /\ BlockUnderWay /\ OneUnderWay
         /\ AllSent
    BY DEF XInv
  <2>2. XTypeOK'
    <3>1. CASE pos < Len(File)
      <4>1. pos + 1 \in 1 .. Len(File) /\ pos + 1 \in Nat /\ base \in 0 .. pos + 1
        BY <2>1, <3>1, FileBlocks DEF XTypeOK
      <4>2. File[pos + 1] \in Nat
        BY <4>1, FileBlocks
      <4>3. /\ state' = "SENDING" /\ tries' = MaxTries /\ pos' = pos + 1
            /\ buffer' = File[pos + 1] /\ up' = <<>>
            /\ UNCHANGED <<num, base, down, got, rstate>>
        BY <1>2, <3>1 DEF TickSend, ReadBlock, receiver
      <4> QED BY <2>1, <4>1, <4>2, <4>3 DEF XTypeOK, MaxTries
    <3>2. CASE pos = Len(File)
      BY <1>2, <2>1, <3>2, FileBlocks DEF TickSend, ReadBlock, receiver, XTypeOK, MaxTries
    <3> QED BY <2>1, <3>1, <3>2, FileBlocks DEF XTypeOK
  <2>3. InOrder'
    BY <1>2, <2>1 DEF TickSend, ReadBlock, MaxTries, sender, receiver,
        XTypeOK, InOrder
  <2>4. Start'
    BY <1>2, <2>1 DEF TickSend, ReadBlock, MaxTries, sender, receiver,
        XTypeOK, Start
  <2>5. Between'
    BY <1>2, <2>1 DEF TickSend, ReadBlock, MaxTries, sender, receiver,
        XTypeOK, Between
  <2>6. BlockUnderWay'
    BY <1>2, <2>1 DEF TickSend, ReadBlock, MaxTries, sender, receiver,
        XTypeOK, BlockUnderWay, OneUnderWay, Line1, Between, Start
  <2>7. OneUnderWay'
    BY <1>2, <2>1 DEF TickSend, ReadBlock, MaxTries, sender, receiver,
        XTypeOK, OneUnderWay, Line1
  <2>8. AllSent'
    BY <1>2, <2>1 DEF TickSend, ReadBlock, MaxTries, sender, receiver,
        XTypeOK, AllSent, OneUnderWay, Line1, BlockUnderWay, Between, Start
  <2> QED BY <2>2, <2>3, <2>4, <2>5, <2>6, <2>7, <2>8 DEF XInv
<1>3. CASE TickResend
  <2>1. XTypeOK /\ InOrder /\ Start /\ Between /\ BlockUnderWay /\ OneUnderWay
         /\ AllSent
    BY DEF XInv
  <2>2. XTypeOK'
    BY <1>3, <2>1 DEF TickResend, sender, receiver, XTypeOK, MaxTries
  <2>3. InOrder'
    BY <1>3, <2>1 DEF TickResend, sender, receiver, XTypeOK, InOrder
  <2>4. Start'
    BY <1>3, <2>1 DEF TickResend, sender, receiver, XTypeOK, Start
  <2>5. Between'
    BY <1>3, <2>1 DEF TickResend, sender, receiver, XTypeOK, Between
  <2>6. BlockUnderWay'
    BY <1>3, <2>1 DEF TickResend, sender, receiver, XTypeOK, BlockUnderWay
  <2>7. OneUnderWay'
    BY <1>3, <2>1 DEF TickResend, sender, receiver, XTypeOK, OneUnderWay,
        Line1
  <2>8. AllSent'
    BY <1>3, <2>1 DEF TickResend, sender, receiver, XTypeOK, AllSent
  <2> QED BY <2>2, <2>3, <2>4, <2>5, <2>6, <2>7, <2>8 DEF XInv
<1>4. CASE TickSending
  <2>1. XTypeOK /\ InOrder /\ Start /\ Between /\ BlockUnderWay /\ OneUnderWay
         /\ AllSent
    BY DEF XInv
  <2>2. /\ down' \in Seq(Packet)
        /\ down = <<>> => Len(down') = 1 /\ down'[1].kind = "block"
                          /\ down'[1].num = num % NumMod /\ down'[1].data = buffer
    <3> DEFINE b == [kind |-> "block", num |-> num % NumMod, data |-> buffer, ok |-> TRUE]
    <3>1. b \in Packet
      BY <2>1, BlockPacket DEF XTypeOK
    <3>2. /\ b.kind = "block" /\ b.num = num % NumMod /\ b.data = buffer
      OBVIOUS
    <3>3. down' = Append(down, b)
      BY <1>4 DEF TickSending
    <3> HIDE DEF b
    <3> QED BY <2>1, <3>1, <3>2, <3>3, AppendDown DEF XTypeOK
  <2>3. XTypeOK'
    BY <1>4, <2>1, <2>2 DEF TickSending, sender, receiver, XTypeOK, MaxTries
  <2>4. InOrder'
    BY <1>4, <2>1, <2>2 DEF TickSending, sender, receiver, XTypeOK, InOrder
  <2>5. Start'
    BY <1>4, <2>1, <2>2 DEF TickSending, sender, receiver, XTypeOK, Start
  <2>6. Between'
    BY <1>4, <2>1, <2>2 DEF TickSending, sender, receiver, XTypeOK, Between
  <2>7. BlockUnderWay'
    BY <1>4, <2>1, <2>2 DEF TickSending, sender, receiver, XTypeOK,
        BlockUnderWay
  <2>8. OneUnderWay'
    BY <1>4, <2>1, <2>2 DEF TickSending, sender, receiver, XTypeOK,
        OneUnderWay, Line1
  <2>9. AllSent'
    BY <1>4, <2>1, <2>2 DEF TickSending, sender, receiver, XTypeOK, AllSent
  <2> QED BY <2>3, <2>4, <2>5, <2>6, <2>7, <2>8, <2>9 DEF XInv
<1>5. CASE Acked
  <2>1. XTypeOK /\ InOrder /\ Start /\ Between /\ BlockUnderWay /\ OneUnderWay
         /\ AllSent
    BY DEF XInv
  <2>2. up # <<>> => /\ Tail(up) \in Seq(Chars) /\ Head(up) = up[1]
                     /\ Len(up) = 1 => Tail(up) = <<>>
    BY <2>1, TailUp DEF XTypeOK
  <2>3. XTypeOK'
    BY <1>5, <2>1, <2>2 DEF Acked, sender, receiver, XTypeOK, MaxTries
  <2>4. InOrder'
    BY <1>5, <2>1, <2>2 DEF Acked, sender, receiver, XTypeOK, InOrder
  <2>5. Start'
    BY <1>5, <2>1, <2>2 DEF Acked, sender, receiver, XTypeOK, Start
  <2>6. Between'
    BY <1>5, <2>1, <2>2 DEF Acked, sender, receiver, XTypeOK, Between,
        OneUnderWay, Line1, BlockUnderWay, Start
  <2>7. BlockUnderWay'
    BY <1>5, <2>1, <2>2 DEF Acked, sender, receiver, XTypeOK, BlockUnderWay
  <2>8. OneUnderWay'
    BY <1>5, <2>1, <2>2 DEF Acked, sender, receiver, XTypeOK, OneUnderWay,
        Line1
  <2>9. AllSent'
    BY <1>5, <2>1, <2>2 DEF Acked, sender, receiver, XTypeOK, AllSent
  <2> QED BY <2>3, <2>4, <2>5, <2>6, <2>7, <2>8, <2>9 DEF XInv
<1>6. CASE Refused
  <2>1. XTypeOK /\ InOrder /\ Start /\ Between /\ BlockUnderWay /\ OneUnderWay
         /\ AllSent
    BY DEF XInv
  <2>2. up # <<>> => /\ Tail(up) \in Seq(Chars) /\ Head(up) = up[1]
                     /\ Len(up) = 1 => Tail(up) = <<>>
    BY <2>1, TailUp DEF XTypeOK
  <2>3. GiveUp =>
           /\ down' \in Seq(Packet)
           /\ (\A i \in 1 .. Len(down) : down[i].kind # "block") =>
                \A i \in 1 .. Len(down') : down'[i].kind # "block"
    BY <2>1, Cancels DEF XTypeOK, GiveUp
  <2>4. XTypeOK'
    <3>1. tries' \in 0 .. MaxTries
      BY <1>6, <2>1 DEF Refused, TryAgain, XTypeOK, MaxTries
    <3>2. state' \in {"RESEND", "EOF", "FAILURE"}
      BY <1>6 DEF Refused, TryAgain, GiveUp
    <3>3. down' \in Seq(Packet)
      BY <1>6, <2>1, <2>3 DEF Refused, TryAgain, XTypeOK
    <3>4. up' \in Seq(Chars)
      BY <1>6, <2>1, <2>2 DEF Refused, XTypeOK
    <3> QED BY <1>6, <2>1, <3>1, <3>2, <3>3, <3>4 DEF Refused, receiver, XTypeOK
  <2>5. InOrder'
    BY <1>6, <2>1, <2>2, <2>3 DEF Refused, TryAgain, GiveUp, MaxTries, sender,
        receiver, XTypeOK, InOrder
  <2>6. Start'
    BY <1>6, <2>1, <2>2, <2>3 DEF Refused, TryAgain, GiveUp, MaxTries, sender,
        receiver, XTypeOK, Start
  <2>7. Between'
    BY <1>6, <2>1, <2>2, <2>3 DEF Refused, TryAgain, GiveUp, MaxTries, sender,
        receiver, XTypeOK, Between
  <2>8. BlockUnderWay'
    BY <1>6, <2>1, <2>2, <2>3 DEF Refused, TryAgain, GiveUp, MaxTries, sender,
        receiver, XTypeOK, BlockUnderWay
  <2>9. OneUnderWay'
    BY <1>6, <2>1, <2>2, <2>3 DEF Refused, TryAgain, GiveUp, MaxTries, sender,
        receiver, XTypeOK, OneUnderWay, Line1
  <2>10. AllSent'
    <3>1. state = "WAIT_ACK" /\ up # <<>>
      BY <1>6 DEF Refused
    <3>2. down = <<>>
      BY <2>1, <3>1 DEF OneUnderWay, Line1
    <3>3. state' \in {"RESEND", "FAILURE"} /\ (state' = "FAILURE" => GiveUp)
      BY <1>6 DEF Refused, TryAgain, GiveUp
    <3>4. \A i \in 1 .. Len(down) : down[i].kind # "block"
      BY <3>2
    <3> QED BY <2>3, <3>3, <3>4 DEF AllSent
  <2> QED BY <2>4, <2>5, <2>6, <2>7, <2>8, <2>9, <2>10 DEF XInv
<1>7. CASE BlockTimeout
  <2>1. XTypeOK /\ InOrder /\ Start /\ Between /\ BlockUnderWay /\ OneUnderWay
         /\ AllSent
    BY DEF XInv
  <2>2. GiveUp =>
           /\ down' \in Seq(Packet)
           /\ (\A i \in 1 .. Len(down) : down[i].kind # "block") =>
                \A i \in 1 .. Len(down') : down'[i].kind # "block"
    BY <2>1, Cancels DEF XTypeOK, GiveUp
  <2>3. XTypeOK'
    <3>1. tries' \in 0 .. MaxTries
      BY <1>7, <2>1 DEF BlockTimeout, TryAgain, XTypeOK, MaxTries
    <3>2. state' \in {"RESEND", "EOF", "FAILURE"}
      BY <1>7 DEF BlockTimeout, TryAgain, GiveUp
    <3>3. down' \in Seq(Packet)
      BY <1>7, <2>1, <2>2 DEF BlockTimeout, TryAgain, XTypeOK
    <3>4. up' \in Seq(Chars)
      BY <1>7, <2>1 DEF BlockTimeout, XTypeOK
    <3> QED BY <1>7, <2>1, <3>1, <3>2, <3>3, <3>4 DEF BlockTimeout, receiver, XTypeOK
  <2>4. InOrder'
    BY <1>7, <2>1, <2>2 DEF BlockTimeout, TryAgain, GiveUp, MaxTries, Quiet,
        sender, receiver, XTypeOK, InOrder
  <2>5. Start'
    BY <1>7, <2>1, <2>2 DEF BlockTimeout, TryAgain, GiveUp, MaxTries, Quiet,
        sender, receiver, XTypeOK, Start
  <2>6. Between'
    BY <1>7, <2>1, <2>2 DEF BlockTimeout, TryAgain, GiveUp, MaxTries, Quiet,
        sender, receiver, XTypeOK, Between
  <2>7. BlockUnderWay'
    BY <1>7, <2>1, <2>2 DEF BlockTimeout, TryAgain, GiveUp, MaxTries, Quiet,
        sender, receiver, XTypeOK, BlockUnderWay
  <2>8. OneUnderWay'
    BY <1>7, <2>1, <2>2 DEF BlockTimeout, TryAgain, GiveUp, MaxTries, Quiet,
        sender, receiver, XTypeOK, OneUnderWay, Line1
  <2>9. AllSent'
    BY <1>7, <2>1, <2>2 DEF BlockTimeout, TryAgain, GiveUp, MaxTries, Quiet,
        sender, receiver, XTypeOK, AllSent
  <2> QED BY <2>3, <2>4, <2>5, <2>6, <2>7, <2>8, <2>9 DEF XInv
<1>8. CASE TickEof
  <2>1. XTypeOK /\ InOrder /\ Start /\ Between /\ BlockUnderWay /\ OneUnderWay
         /\ AllSent
    BY DEF XInv
  <2>2. /\ down' \in Seq(Packet)
        /\ (\A i \in 1 .. Len(down) : down[i].kind # "block") =>
             \A i \in 1 .. Len(down') : down'[i].kind # "block"
    BY <2>1, <1>8, Ends DEF XTypeOK, TickEof
  <2>3. XTypeOK'
    BY <1>8, <2>1, <2>2 DEF TickEof, sender, receiver, XTypeOK, MaxTries
  <2>4. InOrder'
    BY <1>8, <2>1, <2>2 DEF TickEof, sender, receiver, XTypeOK, InOrder
  <2>5. Start'
    BY <1>8, <2>1, <2>2 DEF TickEof, sender, receiver, XTypeOK, Start
  <2>6. Between'
    BY <1>8, <2>1, <2>2 DEF TickEof, sender, receiver, XTypeOK, Between
  <2>7. BlockUnderWay'
    BY <1>8, <2>1, <2>2 DEF TickEof, sender, receiver, XTypeOK, BlockUnderWay
  <2>8. OneUnderWay'
    BY <1>8, <2>1, <2>2 DEF TickEof, sender, receiver, XTypeOK, OneUnderWay,
        Line1
  <2>9. AllSent'
    BY <1>8, <2>1, <2>2 DEF TickEof, sender, receiver, XTypeOK, AllSent
  <2> QED BY <2>3, <2>4, <2>5, <2>6, <2>7, <2>8, <2>9 DEF XInv
<1>9. CASE FinalAcked
  <2>1. XTypeOK /\ InOrder /\ Start /\ Between /\ BlockUnderWay /\ OneUnderWay
         /\ AllSent
    BY DEF XInv
  <2>2. up # <<>> => /\ Tail(up) \in Seq(Chars) /\ Head(up) = up[1]
                     /\ Len(up) = 1 => Tail(up) = <<>>
    BY <2>1, TailUp DEF XTypeOK
  <2>3. XTypeOK'
    BY <1>9, <2>1, <2>2 DEF FinalAcked, sender, receiver, XTypeOK, MaxTries
  <2>4. InOrder'
    BY <1>9, <2>1, <2>2 DEF FinalAcked, sender, receiver, XTypeOK, InOrder
  <2>5. Start'
    BY <1>9, <2>1, <2>2 DEF FinalAcked, sender, receiver, XTypeOK, Start
  <2>6. Between'
    BY <1>9, <2>1, <2>2 DEF FinalAcked, sender, receiver, XTypeOK, Between
  <2>7. BlockUnderWay'
    BY <1>9, <2>1, <2>2 DEF FinalAcked, sender, receiver, XTypeOK,
        BlockUnderWay
  <2>8. OneUnderWay'
    BY <1>9, <2>1, <2>2 DEF FinalAcked, sender, receiver, XTypeOK,
        OneUnderWay, Line1
  <2>9. AllSent'
    BY <1>9, <2>1, <2>2 DEF FinalAcked, sender, receiver, XTypeOK, AllSent
  <2> QED BY <2>3, <2>4, <2>5, <2>6, <2>7, <2>8, <2>9 DEF XInv
<1>10. CASE FinalRefused
  <2>1. XTypeOK /\ InOrder /\ Start /\ Between /\ BlockUnderWay /\ OneUnderWay
         /\ AllSent
    BY DEF XInv
  <2>2. up # <<>> => /\ Tail(up) \in Seq(Chars) /\ Head(up) = up[1]
                     /\ Len(up) = 1 => Tail(up) = <<>>
    BY <2>1, TailUp DEF XTypeOK
  <2>3. GiveUp =>
           /\ down' \in Seq(Packet)
           /\ (\A i \in 1 .. Len(down) : down[i].kind # "block") =>
                \A i \in 1 .. Len(down') : down'[i].kind # "block"
    BY <2>1, Cancels DEF XTypeOK, GiveUp
  <2>4. XTypeOK'
    <3>1. tries' \in 0 .. MaxTries
      BY <1>10, <2>1 DEF FinalRefused, TryAgain, XTypeOK, MaxTries
    <3>2. state' \in {"RESEND", "EOF", "FAILURE"}
      BY <1>10 DEF FinalRefused, TryAgain, GiveUp
    <3>3. down' \in Seq(Packet)
      BY <1>10, <2>1, <2>3 DEF FinalRefused, TryAgain, XTypeOK
    <3>4. up' \in Seq(Chars)
      BY <1>10, <2>1, <2>2 DEF FinalRefused, XTypeOK
    <3> QED BY <1>10, <2>1, <3>1, <3>2, <3>3, <3>4 DEF FinalRefused, receiver, XTypeOK
  <2>5. InOrder'
    BY <1>10, <2>1, <2>2, <2>3 DEF FinalRefused, TryAgain, GiveUp, MaxTries,
        sender, receiver, XTypeOK, InOrder
  <2>6. Start'
    BY <1>10, <2>1, <2>2, <2>3 DEF FinalRefused, TryAgain, GiveUp, MaxTries,
        sender, receiver, XTypeOK, Start
  <2>7. Between'
    BY <1>10, <2>1, <2>2, <2>3 DEF FinalRefused, TryAgain, GiveUp, MaxTries,
        sender, receiver, XTypeOK, Between
  <2>8. BlockUnderWay'
    BY <1>10, <2>1, <2>2, <2>3 DEF FinalRefused, TryAgain, GiveUp, MaxTries,
        sender, receiver, XTypeOK, BlockUnderWay
  <2>9. OneUnderWay'
    BY <1>10, <2>1, <2>2, <2>3 DEF FinalRefused, TryAgain, GiveUp, MaxTries,
        sender, receiver, XTypeOK, OneUnderWay, Line1
  <2>10. AllSent'
    BY <1>10, <2>1, <2>2, <2>3 DEF FinalRefused, TryAgain, GiveUp, MaxTries,
        sender, receiver, XTypeOK, AllSent
  <2> QED BY <2>4, <2>5, <2>6, <2>7, <2>8, <2>9, <2>10 DEF XInv
<1>11. CASE FinalTimeout
  <2>1. XTypeOK /\ InOrder /\ Start /\ Between /\ BlockUnderWay /\ OneUnderWay
         /\ AllSent
    BY DEF XInv
  <2>2. GiveUp =>
           /\ down' \in Seq(Packet)
           /\ (\A i \in 1 .. Len(down) : down[i].kind # "block") =>
                \A i \in 1 .. Len(down') : down'[i].kind # "block"
    BY <2>1, Cancels DEF XTypeOK, GiveUp
  <2>3. XTypeOK'
    <3>1. tries' \in 0 .. MaxTries
      BY <1>11, <2>1 DEF FinalTimeout, TryAgain, XTypeOK, MaxTries
    <3>2. state' \in {"RESEND", "EOF", "FAILURE"}
      BY <1>11 DEF FinalTimeout, TryAgain, GiveUp
    <3>3. down' \in Seq(Packet)
      BY <1>11, <2>1, <2>2 DEF FinalTimeout, TryAgain, XTypeOK
    <3>4. up' \in Seq(Chars)
      BY <1>11, <2>1 DEF FinalTimeout, XTypeOK
    <3> QED BY <1>11, <2>1, <3>1, <3>2, <3>3, <3>4 DEF FinalTimeout, receiver, XTypeOK
  <2>4. InOrder'
    BY <1>11, <2>1, <2>2 DEF FinalTimeout, TryAgain, GiveUp, MaxTries, Quiet,
        sender, receiver, XTypeOK, InOrder
  <2>5. Start'
    BY <1>11, <2>1, <2>2 DEF FinalTimeout, TryAgain, GiveUp, MaxTries, Quiet,
        sender, receiver, XTypeOK, Start
  <2>6. Between'
    BY <1>11, <2>1, <2>2 DEF FinalTimeout, TryAgain, GiveUp, MaxTries, Quiet,
        sender, receiver, XTypeOK, Between
  <2>7. BlockUnderWay'
    BY <1>11, <2>1, <2>2 DEF FinalTimeout, TryAgain, GiveUp, MaxTries, Quiet,
        sender, receiver, XTypeOK, BlockUnderWay
  <2>8. OneUnderWay'
    BY <1>11, <2>1, <2>2 DEF FinalTimeout, TryAgain, GiveUp, MaxTries, Quiet,
        sender, receiver, XTypeOK, OneUnderWay, Line1
  <2>9. AllSent'
    BY <1>11, <2>1, <2>2 DEF FinalTimeout, TryAgain, GiveUp, MaxTries, Quiet,
        sender, receiver, XTypeOK, AllSent
  <2> QED BY <2>3, <2>4, <2>5, <2>6, <2>7, <2>8, <2>9 DEF XInv
<1>12. CASE Ask
  <2>1. XTypeOK /\ InOrder /\ Start /\ Between /\ BlockUnderWay /\ OneUnderWay
         /\ AllSent
    BY DEF XInv
  <2>2. \A c \in Chars : /\ Append(up, c) \in Seq(Chars)
                         /\ up = <<>> => Len(Append(up, c)) = 1 /\ Append(up, c)[1] = c
    BY <2>1, ReplyUp DEF XTypeOK
  <2>3. XTypeOK'
    BY <1>12, <2>1, <2>2 DEF Ask, Reply, Ended, sender, receiver, Chars,
        XTypeOK, MaxTries
  <2>4. InOrder'
    BY <1>12, <2>1, <2>2 DEF Ask, Reply, Ended, sender, receiver, XTypeOK,
        InOrder
  <2>5. Start'
    BY <1>12, <2>1, <2>2 DEF Ask, Reply, Ended, sender, receiver, XTypeOK,
        Start
  <2>6. Between'
    BY <1>12, <2>1, <2>2 DEF Ask, Reply, Ended, sender, receiver, XTypeOK,
        Between
  <2>7. BlockUnderWay'
    BY <1>12, <2>1, <2>2 DEF Ask, Reply, Ended, sender, receiver, XTypeOK,
        BlockUnderWay
  <2>8. OneUnderWay'
    BY <1>12, <2>1, <2>2 DEF Ask, Reply, Ended, sender, receiver, XTypeOK,
        OneUnderWay, Line1
  <2>9. AllSent'
    BY <1>12, <2>1, <2>2 DEF Ask, Reply, Ended, sender, receiver, XTypeOK,
        AllSent
  <2> QED BY <2>3, <2>4, <2>5, <2>6, <2>7, <2>8, <2>9 DEF XInv
<1>13. CASE BlockArrives
  <2>1. XTypeOK /\ InOrder /\ Start /\ Between /\ BlockUnderWay /\ OneUnderWay
         /\ AllSent
    BY DEF XInv
  <2>2. /\ Tail(down) \in Seq(Packet) /\ Head(down) \in Packet /\ Head(down) = down[1]
        /\ Len(down) = 1 => Tail(down) = <<>>
        /\ Len(Tail(down)) = Len(down) - 1
        /\ \A i \in 1 .. Len(Tail(down)) : Tail(down)[i] = down[i + 1]
    BY <2>1, <1>13, TailDown DEF XTypeOK, BlockArrives
  <2>3. \A c \in Chars : /\ Append(up, c) \in Seq(Chars)
                         /\ up = <<>> => Len(Append(up, c)) = 1 /\ Append(up, c)[1] = c
    BY <2>1, ReplyUp DEF XTypeOK
  <2>4. Len(got) \in Nat /\ \A n \in Nat : (n + 1) % NumMod # n % NumMod
    <3>1. Len(got) \in Nat
      BY <2>1 DEF XTypeOK
    <3> QED BY <3>1, NextNumber
  <2>5. /\ state = "WAIT_ACK" /\ up = <<>> /\ down' = <<>>
        /\ num \in Nat /\ num = pos - base /\ num >= 1 /\ buffer = File[pos]
        /\ Len(got) \in {num - 1, num}
        /\ Head(down).num = num % NumMod /\ Head(down).data = buffer
    <3>1. Head(down).kind = "block" /\ down # <<>> /\ down' = Tail(down)
      BY <1>13 DEF BlockArrives
    <3>2. down[1].kind = "block" /\ 1 \in 1 .. Len(down)
      BY <2>1, <2>2, <3>1, EmptySeq DEF XTypeOK
    <3>3. state = "WAIT_ACK"
      BY <2>1, <3>1, <3>2 DEF XTypeOK, Start, OneUnderWay, AllSent
    <3> QED BY <2>1, <2>2, <3>1, <3>3 DEF XTypeOK, BlockUnderWay, OneUnderWay, Line1
  <2>6. /\ UNCHANGED sender /\ up' \in Seq(Chars) /\ Len(up') = 1
        /\ \/ UNCHANGED receiver /\ up'[1] # "ACK"
           \/ /\ got' = Append(got, buffer) /\ rstate' = "receiving"
              /\ Len(got) = num - 1 /\ up'[1] = "ACK"
           \/ UNCHANGED receiver /\ Len(got) = num /\ up'[1] = "ACK"
           \/ got' = got /\ rstate' = "cancelled" /\ up'[1] # "ACK"
    <3>1. UNCHANGED sender
      BY <1>13 DEF BlockArrives
    <3>2. \A c \in Chars : Reply(c) => up' \in Seq(Chars) /\ Len(up') = 1 /\ up'[1] = c
      BY <2>3, <2>5 DEF Reply
    <3>3. {"ACK", "NAK", "CAN"} \subseteq Chars
      BY DEF Chars
    <3>4. CASE Reply("NAK") /\ UNCHANGED receiver
      BY <3>1, <3>2, <3>3, <3>4
    <3>5. CASE /\ Head(down).num = (Len(got) + 1) % NumMod
               /\ got' = Append(got, Head(down).data) /\ rstate' = "receiving"
               /\ Reply("ACK")
      <4>1. Len(got) # num
        BY <2>4, <2>5, <3>5
      <4> QED BY <2>5, <3>1, <3>2, <3>3, <3>5, <4>1
    <3>6. CASE /\ Head(down).num = Len(got) % NumMod
               /\ Reply("ACK") /\ UNCHANGED receiver
      <4>1. Len(got) # num - 1
        <5>1. num - 1 \in Nat /\ (num - 1) + 1 = num
          BY <2>5
        <5>2. num % NumMod # (num - 1) % NumMod
          BY <2>4, <5>1
        <5> QED BY <2>5, <3>6, <5>2
      <4> QED BY <2>5, <3>1, <3>2, <3>3, <3>6, <4>1
    <3>7. CASE rstate' = "cancelled" /\ Reply("CAN") /\ UNCHANGED got
      BY <3>1, <3>2, <3>3, <3>7
    <3> QED BY <1>13, <3>4, <3>5, <3>6, <3>7 DEF BlockArrives
  <2>7. XTypeOK'
    <3>1. File[pos] \in Nat /\ Append(got, buffer) \in Seq(Nat)
      BY <2>1, <2>5 DEF XTypeOK
    <3>2. got' \in Seq(Nat) /\ rstate' \in {"waiting", "receiving", "done", "cancelled"}
      BY <2>1, <2>6, <3>1 DEF receiver, XTypeOK
    <3> QED BY <2>1, <2>5, <2>6, <3>2 DEF sender, XTypeOK
  <2>8. InOrder'
    <3>1. CASE got' = got
      BY <2>1, <2>6, <3>1 DEF sender, InOrder
    <3>2. CASE got' = Append(got, buffer) /\ Len(got) = num - 1
      <4>1. /\ Len(got') = num /\ got'[num] = File[base + num]
            /\ \A i \in 1 .. Len(got) : got'[i] = got[i]
        BY <2>1, <2>5, <3>2 DEF XTypeOK
      <4>2. \A i \in 1 .. num : i = num \/ i \in 1 .. Len(got)
        BY <2>5, <3>2
      <4>3. \A i \in 1 .. Len(got) : got[i] = File[base + i]
        BY <2>1 DEF InOrder
      <4>4. \A i \in 1 .. num : got'[i] = File[base + i]
        BY <4>1, <4>2, <4>3
      <4>5. pos' = pos /\ base' = base /\ num = pos - base
        BY <2>5, <2>6 DEF sender
      <4>6. num <= pos - base
        BY <2>5
      <4> QED BY <4>1, <4>4, <4>5, <4>6 DEF InOrder
    <3> QED BY <2>6, <3>1, <3>2 DEF receiver
  <2>9. Start'
    BY <2>5, <2>6 DEF sender, Start
  <2>10. Between'
    BY <2>5, <2>6 DEF sender, Between
  <2>11. BlockUnderWay'
    <3>1. Len(got') \in {num - 1, num}
      <4>1. CASE got' = got
        BY <2>5, <4>1
      <4>2. CASE got' = Append(got, buffer) /\ Len(got) = num - 1
        BY <2>1, <2>5, <4>2 DEF XTypeOK
      <4> QED BY <2>6, <4>1, <4>2 DEF receiver
    <3> QED BY <2>5, <2>6, <3>1 DEF sender, BlockUnderWay
  <2>12. OneUnderWay'
    <3>1. up'[1] = "ACK" => Len(got') = num
      <4>1. CASE got' = Append(got, buffer) /\ Len(got) = num - 1
        BY <2>1, <2>5, <4>1 DEF XTypeOK
      <4> QED BY <2>6, <4>1 DEF receiver
    <3>2. state' = "WAIT_ACK" /\ num' = num /\ down' = <<>> /\ Len(up') = 1
      BY <2>5, <2>6 DEF sender
    <3> QED BY <3>1, <3>2 DEF OneUnderWay, Line1
  <2>13. AllSent'
    BY <2>5, <2>6 DEF sender, AllSent
  <2> QED BY <2>7, <2>8, <2>9, <2>10, <2>11, <2>12, <2>13 DEF XInv
<1>14. CASE EndArrives
  <2>1. XTypeOK /\ InOrder /\ Start /\ Between /\ BlockUnderWay /\ OneUnderWay
         /\ AllSent
    BY DEF XInv
  <2>2. /\ Tail(down) \in Seq(Packet) /\ Head(down) \in Packet /\ Head(down) = down[1]
        /\ Len(down) = 1 => Tail(down) = <<>>
        /\ Len(Tail(down)) = Len(down) - 1
        /\ \A i \in 1 .. Len(Tail(down)) : Tail(down)[i] = down[i + 1]
    BY <2>1, <1>14, TailDown DEF XTypeOK, EndArrives
  <2>3. \A c \in Chars : /\ Append(up, c) \in Seq(Chars)
                         /\ up = <<>> => Len(Append(up, c)) = 1 /\ Append(up, c)[1] = c
    BY <2>1, ReplyUp DEF XTypeOK
  <2>4. XTypeOK'
    BY <1>14, <2>1, <2>2, <2>3 DEF EndArrives, Reply, sender, receiver, Chars,
        XTypeOK, MaxTries
  <2>5. InOrder'
    BY <1>14, <2>1, <2>2, <2>3 DEF EndArrives, Reply, sender, receiver,
        XTypeOK, InOrder
  <2>6. Start'
    BY <1>14, <2>1, <2>2, <2>3 DEF EndArrives, Reply, sender, receiver,
        XTypeOK, Start
  <2>7. Between'
    BY <1>14, <2>1, <2>2, <2>3 DEF EndArrives, Reply, sender, receiver,
        XTypeOK, Between
  <2>8. BlockUnderWay'
    BY <1>14, <2>1, <2>2, <2>3 DEF EndArrives, Reply, sender, receiver,
        XTypeOK, BlockUnderWay
  <2>9. OneUnderWay'
    BY <1>14, <2>1, <2>2, <2>3 DEF EndArrives, Reply, sender, receiver,
        XTypeOK, OneUnderWay, Line1
  <2>10. AllSent'
    BY <1>14, <2>1, <2>2, <2>3 DEF EndArrives, Reply, sender, receiver,
        XTypeOK, AllSent
  <2> QED BY <2>4, <2>5, <2>6, <2>7, <2>8, <2>9, <2>10 DEF XInv
<1>15. CASE CancelArrives
  <2>1. XTypeOK /\ InOrder /\ Start /\ Between /\ BlockUnderWay /\ OneUnderWay
         /\ AllSent
    BY DEF XInv
  <2>2. /\ Tail(down) \in Seq(Packet) /\ Head(down) \in Packet /\ Head(down) = down[1]
        /\ Len(down) = 1 => Tail(down) = <<>>
        /\ Len(Tail(down)) = Len(down) - 1
        /\ \A i \in 1 .. Len(Tail(down)) : Tail(down)[i] = down[i + 1]
    BY <2>1, <1>15, TailDown DEF XTypeOK, CancelArrives
  <2>3. XTypeOK'
    BY <1>15, <2>1, <2>2 DEF CancelArrives, sender, receiver, XTypeOK,
        MaxTries
  <2>4. InOrder'
    BY <1>15, <2>1, <2>2 DEF CancelArrives, sender, receiver, XTypeOK, InOrder
  <2>5. Start'
    BY <1>15, <2>1, <2>2 DEF CancelArrives, sender, receiver, XTypeOK, Start
  <2>6. Between'
    BY <1>15, <2>1, <2>2 DEF CancelArrives, sender, receiver, XTypeOK, Between
  <2>7. BlockUnderWay'
    BY <1>15, <2>1, <2>2 DEF CancelArrives, sender, receiver, XTypeOK,
        BlockUnderWay
  <2>8. OneUnderWay'
    BY <1>15, <2>1, <2>2 DEF CancelArrives, sender, receiver, XTypeOK,
        OneUnderWay, Line1
  <2>9. AllSent'
    BY <1>15, <2>1, <2>2 DEF CancelArrives, sender, receiver, XTypeOK, AllSent
  <2> QED BY <2>3, <2>4, <2>5, <2>6, <2>7, <2>8, <2>9 DEF XInv
<1>16. CASE Ignored
  <2>1. XTypeOK /\ InOrder /\ Start /\ Between /\ BlockUnderWay /\ OneUnderWay
         /\ AllSent
    BY DEF XInv
  <2>2. /\ Tail(down) \in Seq(Packet) /\ Head(down) \in Packet /\ Head(down) = down[1]
        /\ Len(down) = 1 => Tail(down) = <<>>
        /\ Len(Tail(down)) = Len(down) - 1
        /\ \A i \in 1 .. Len(Tail(down)) : Tail(down)[i] = down[i + 1]
    BY <2>1, <1>16, TailDown DEF XTypeOK, Ignored
  <2>3. XTypeOK'
    BY <1>16, <2>1, <2>2 DEF Ignored, sender, receiver, XTypeOK, MaxTries
  <2>4. InOrder'
    BY <1>16, <2>1, <2>2 DEF Ignored, sender, receiver, XTypeOK, InOrder
  <2>5. Start'
    BY <1>16, <2>1, <2>2 DEF Ignored, sender, receiver, XTypeOK, Start
  <2>6. Between'
    BY <1>16, <2>1, <2>2 DEF Ignored, sender, receiver, XTypeOK, Between
  <2>7. BlockUnderWay'
    BY <1>16, <2>1, <2>2 DEF Ignored, sender, receiver, XTypeOK, BlockUnderWay
  <2>8. OneUnderWay'
    BY <1>16, <2>1, <2>2 DEF Ignored, sender, receiver, XTypeOK, OneUnderWay,
        Line1
  <2>9. AllSent'
    BY <1>16, <2>1, <2>2 DEF Ignored, sender, receiver, XTypeOK, AllSent
  <2> QED BY <2>3, <2>4, <2>5, <2>6, <2>7, <2>8, <2>9 DEF XInv
<1>17. CASE LoseDown
  <2>1. XTypeOK /\ InOrder /\ Start /\ Between /\ BlockUnderWay /\ OneUnderWay
         /\ AllSent
    BY DEF XInv
  <2>2. /\ Tail(down) \in Seq(Packet) /\ Head(down) \in Packet /\ Head(down) = down[1]
        /\ Len(down) = 1 => Tail(down) = <<>>
        /\ Len(Tail(down)) = Len(down) - 1
        /\ \A i \in 1 .. Len(Tail(down)) : Tail(down)[i] = down[i + 1]
    BY <2>1, <1>17, TailDown DEF XTypeOK, LoseDown
  <2>3. XTypeOK'
    BY <1>17, <2>1, <2>2 DEF LoseDown, sender, receiver, XTypeOK, MaxTries
  <2>4. InOrder'
    BY <1>17, <2>1, <2>2 DEF LoseDown, sender, receiver, XTypeOK, InOrder
  <2>5. Start'
    BY <1>17, <2>1, <2>2 DEF LoseDown, sender, receiver, XTypeOK, Start
  <2>6. Between'
    BY <1>17, <2>1, <2>2 DEF LoseDown, sender, receiver, XTypeOK, Between
  <2>7. BlockUnderWay'
    BY <1>17, <2>1, <2>2 DEF LoseDown, sender, receiver, XTypeOK,
        BlockUnderWay
  <2>8. OneUnderWay'
    BY <1>17, <2>1, <2>2 DEF LoseDown, sender, receiver, XTypeOK, OneUnderWay,
        Line1
  <2>9. AllSent'
    BY <1>17, <2>1, <2>2 DEF LoseDown, sender, receiver, XTypeOK, AllSent
  <2> QED BY <2>3, <2>4, <2>5, <2>6, <2>7, <2>8, <2>9 DEF XInv
<1>18. CASE Corrupt
  <2>1. XTypeOK /\ InOrder /\ Start /\ Between /\ BlockUnderWay /\ OneUnderWay
         /\ AllSent
    BY DEF XInv
  <2>2. /\ down' \in Seq(Packet) /\ Len(down') = Len(down)
        /\ down'[1].kind = down[1].kind /\ down'[1].num = down[1].num
        /\ down'[1].data = down[1].data
        /\ \A i \in 1 .. Len(down) : down'[i].kind = down[i].kind
    BY <2>1, <1>18, CorruptDown DEF XTypeOK, Corrupt
  <2>3. XTypeOK'
    BY <1>18, <2>1, <2>2 DEF Corrupt, sender, receiver, XTypeOK, MaxTries
  <2>4. InOrder'
    BY <1>18, <2>1, <2>2 DEF Corrupt, sender, receiver, XTypeOK, InOrder
  <2>5. Start'
    BY <1>18, <2>1, <2>2 DEF Corrupt, sender, receiver, XTypeOK, Start
  <2>6. Between'
    BY <1>18, <2>1, <2>2 DEF Corrupt, sender, receiver, XTypeOK, Between
  <2>7. BlockUnderWay'
    BY <1>18, <2>1, <2>2 DEF Corrupt, sender, receiver, XTypeOK, BlockUnderWay
  <2>8. OneUnderWay'
    BY <1>18, <2>1, <2>2 DEF Corrupt, sender, receiver, XTypeOK, OneUnderWay,
        Line1
  <2>9. AllSent'
    BY <1>18, <2>1, <2>2 DEF Corrupt, sender, receiver, XTypeOK, AllSent
  <2> QED BY <2>3, <2>4, <2>5, <2>6, <2>7, <2>8, <2>9 DEF XInv
<1>19. CASE LoseUp
  <2>1. XTypeOK /\ InOrder /\ Start /\ Between /\ BlockUnderWay /\ OneUnderWay
         /\ AllSent
    BY DEF XInv
  <2>2. up # <<>> => /\ Tail(up) \in Seq(Chars) /\ Head(up) = up[1]
                     /\ Len(up) = 1 => Tail(up) = <<>>
    BY <2>1, TailUp DEF XTypeOK
  <2>3. XTypeOK'
    BY <1>19, <2>1, <2>2 DEF LoseUp, sender, receiver, XTypeOK, MaxTries
  <2>4. InOrder'
    BY <1>19, <2>1, <2>2 DEF LoseUp, sender, receiver, XTypeOK, InOrder
  <2>5. Start'
    BY <1>19, <2>1, <2>2 DEF LoseUp, sender, receiver, XTypeOK, Start
  <2>6. Between'
    BY <1>19, <2>1, <2>2 DEF LoseUp, sender, receiver, XTypeOK, Between
  <2>7. BlockUnderWay'
    BY <1>19, <2>1, <2>2 DEF LoseUp, sender, receiver, XTypeOK, BlockUnderWay
  <2>8. OneUnderWay'
    BY <1>19, <2>1, <2>2 DEF LoseUp, sender, receiver, XTypeOK, OneUnderWay,
        Line1
  <2>9. AllSent'
    BY <1>19, <2>1, <2>2 DEF LoseUp, sender, receiver, XTypeOK, AllSent
  <2> QED BY <2>3, <2>4, <2>5, <2>6, <2>7, <2>8, <2>9 DEF XInv
<1>20. CASE Garble
  <2>1. XTypeOK /\ InOrder /\ Start /\ Between /\ BlockUnderWay /\ OneUnderWay
         /\ AllSent
    BY DEF XInv
  <2>2. up # <<>> => /\ Tail(up) \in Seq(Chars) /\ Head(up) = up[1]
                     /\ Len(up) = 1 => Tail(up) = <<>>
    BY <2>1, TailUp DEF XTypeOK
  <2>3. /\ up' \in Seq(Chars) /\ Len(up') = Len(up)
        /\ up'[1] = "other"
    BY <2>1, <2>2, <1>20 DEF XTypeOK, Chars, Garble
  <2>4. XTypeOK'
    BY <1>20, <2>1, <2>2, <2>3 DEF Garble, sender, receiver, XTypeOK, MaxTries
  <2>5. InOrder'
    BY <1>20, <2>1, <2>2, <2>3 DEF Garble, sender, receiver, XTypeOK, InOrder
  <2>6. Start'
    BY <1>20, <2>1, <2>2, <2>3 DEF Garble, sender, receiver, XTypeOK, Start
  <2>7. Between'
    BY <1>20, <2>1, <2>2, <2>3 DEF Garble, sender, receiver, XTypeOK, Between
  <2>8. BlockUnderWay'
    BY <1>20, <2>1, <2>2, <2>3 DEF Garble, sender, receiver, XTypeOK,
        BlockUnderWay
  <2>9. OneUnderWay'
    BY <1>20, <2>1, <2>2, <2>3 DEF Garble, sender, receiver, XTypeOK,
        OneUnderWay, Line1
  <2>10. AllSent'
    BY <1>20, <2>1, <2>2, <2>3 DEF Garble, sender, receiver, XTypeOK, AllSent
  <2> QED BY <2>4, <2>5, <2>6, <2>7, <2>8, <2>9, <2>10 DEF XInv
<1>21. CASE UNCHANGED xvars
  BY <1>21 DEF xvars, sender, receiver, XInv, XTypeOK, InOrder, Start, Between,
     BlockUnderWay, OneUnderWay, Line1, AllSent
<1> QED BY <1>1, <1>2, <1>3, <1>4, <1>5, <1>6, <1>7, <1>8, <1>9, <1>10, <1>11,
         <1>12, <1>13, <1>14, <1>15, <1>16, <1>17, <1>18, <1>19, <1>20, <1>21
     DEF XNext, Tick, Receiver, Line

-----------------------------------------------------------------------------
(* What is proved *)

\* Whatever the line loses or corrupts, the receiver of peers that wait for
\* each other has the blocks of the source, in order, without a gap or a
\* repetition: a repeated block (xbee_xmodem.c, RESEND) is never taken for the
\* next one, and the next one never for a repetition.
THEOREM Order ==
  ASSUME Punctual
  PROVE  XSpec => []InOrder
<1>1. XInv /\ [XNext]_xvars => XInv'
  BY StepInv
<1>2. XInv => InOrder
  BY DEF XInv
<1> QED BY InitInv, <1>1, <1>2, PTL DEF XSpec

\* A return of 1 from xbee_xmodem_tx_tick means that the receiver has every
\* block that was read from the source, and that the source is at its end.
THEOREM Completeness ==
  ASSUME Punctual
  PROVE  XSpec => []Complete
<1>1. XInv /\ [XNext]_xvars => XInv'
  BY StepInv
<1>2. XInv => Complete
  BY DEF XInv, AllSent, Complete
<1> QED BY InitInv, <1>1, <1>2, PTL DEF XSpec
=============================================================================
