-------------------------- MODULE XbeeFirmware_proof --------------------------
(***************************************************************************)
(* With peers that wait for each other, the firmware update gives the      *)
(* module only what its source gave since the transfer began, and tells it *)
(* to run only what it has received to the end: for every image, whatever  *)
(* the line loses or damages and however often the update starts over.     *)
(***************************************************************************)
EXTENDS XbeeFirmware, XbeeXmodem_proof

Typed ==
   /\ fstate \in {"INIT", "RESET", "BREAK", "PROMPT", "XMODEM_WAIT", "XMODEM_SEND",
                  "XMODEM_DONE", "FINAL_PROMPT", "SUCCESS", "FAILURE"}
   /\ ftries \in 0 .. MaxResets /\ result \in {"0", "1", "-ETIMEDOUT"}
   /\ state \in {"START", "SEND", "RESEND", "SENDING", "WAIT_ACK", "EOF",
                 "FINAL_ACK", "SUCCESS", "FAILURE"}
   /\ num \in Nat /\ tries \in 0 .. MaxTries /\ buffer \in Nat \cup {None}
   /\ pos \in 0 .. Len(File) /\ base \in 0 .. pos
   /\ down \in Seq([kind : {"block", "EOT", "CAN", "CR", "1", "2"}, num : 0 .. NumMod - 1,
                    data : Nat \cup {None}, ok : BOOLEAN])
   /\ up \in Seq(Chars \cup {">"})
   /\ got \in Seq(Nat)
   /\ rstate \in {"menu", "waiting", "receiving", "done", "cancelled", "running"}

\* All that is under way to the receiver is of the kinds K.
DownOnly(K) == \A i \in 1 .. Len(down) : down[i].kind \in K

\* Requests and answers under way together: a request makes one answer, so
\* that the lines need no more room than this.
Outstanding == /\ Len(down) + Len(up) <= 2
               /\ state \in {"EOF", "SUCCESS"} => Len(down) + Len(up) <= 1

\* The end of a transfer is acknowledged only by a receiver that has had it.
Ending ==
   /\ state \in {"START", "EOF", "FINAL_ACK", "SUCCESS"} =>
         \A i \in 1 .. Len(up) : up[i] = "ACK" => state # "START" /\ rstate = "done"
   /\ state \in {"EOF", "FINAL_ACK", "SUCCESS"} => DownOnly({"EOT"})
   /\ state = "SUCCESS" => rstate = "done"

\* The transfer, while the update is in it.
Transfer == XInv /\ Outstanding /\ Ending

\* Where the update stands.
Before == fstate \in {"INIT", "RESET"} =>
             /\ down = <<>> /\ Len(up) <= 2
             /\ rstate \in {"menu", "waiting", "done"}
Reset == fstate = "BREAK" => down = <<>> /\ up = <<>> /\ rstate = "menu" /\ got = <<>>
Prompt == fstate = "PROMPT" =>
             /\ rstate = "menu" /\ got = <<>>
             /\ DownOnly({"CR"}) /\ Len(down) + Len(up) <= 1
Wait == fstate = "XMODEM_WAIT" =>
           /\ got = <<>> /\ up \in Seq(Chars) /\ Len(up) <= 2
           /\ \A i \in 1 .. Len(up) : up[i] # "ACK"
           /\ \/ rstate = "menu" /\ up = <<>> /\ DownOnly({"1"}) /\ Len(down) <= 1
              \/ rstate = "waiting" /\ down = <<>>
Sending == fstate = "XMODEM_SEND" => Transfer /\ state \notin Ended
Failed == fstate = "FAILURE" => Transfer /\ state = "FAILURE"
Delivered == fstate \in {"XMODEM_DONE", "FINAL_PROMPT", "SUCCESS"} =>
                /\ state = "SUCCESS" /\ pos = Len(File) /\ Len(got) = pos - base
                /\ rstate \in {"done", "running"}
                /\ fstate # "SUCCESS" => rstate = "done"
                /\ DownOnly({"EOT", "CR", "2"})
                /\ fstate # "SUCCESS" => DownOnly({"EOT", "CR"})
                /\ Len(down) + Len(up) <= 2
                /\ fstate = "XMODEM_DONE" => Len(down) + Len(up) <= 1

Idle == fstate \notin {"XMODEM_SEND", "FAILURE", "XMODEM_DONE", "FINAL_PROMPT", "SUCCESS"}
           => state \in {"START", "SUCCESS"}

FwInv == /\ Typed /\ InOrder /\ Complete
         /\ Idle /\ Before /\ Reset /\ Prompt /\ Wait /\ Sending /\ Failed /\ Delivered
         /\ result = "1" => fstate = "SUCCESS"

-----------------------------------------------------------------------------
(* The lines *)

FwPacket == [kind : {"block", "EOT", "CAN", "CR", "1", "2"}, num : 0 .. NumMod - 1,
             data : Nat \cup {None}, ok : BOOLEAN]
FwChars == Chars \cup {">"}

LEMMA Appended ==
  ASSUME NEW S, NEW s \in Seq(S), NEW e \in S
  PROVE  /\ Append(s, e) \in Seq(S) /\ Len(Append(s, e)) = Len(s) + 1
         /\ \A i \in 1 .. Len(Append(s, e)) :
               \/ i \in 1 .. Len(s) /\ Append(s, e)[i] = s[i]
               \/ i = Len(s) + 1 /\ Append(s, e)[i] = e
  OBVIOUS

LEMMA Taken ==
  ASSUME NEW S, NEW s \in Seq(S), s # <<>>
  PROVE  /\ Tail(s) \in Seq(S) /\ Len(Tail(s)) = Len(s) - 1 /\ Len(s) >= 1
         /\ Head(s) = s[1] /\ 1 \in 1 .. Len(s)
         /\ \A i \in 1 .. Len(Tail(s)) : i + 1 \in 1 .. Len(s) /\ Tail(s)[i] = s[i + 1]
         /\ Len(s) = 1 => Tail(s) = <<>>
<1>1. /\ Tail(s) \in Seq(S) /\ Len(Tail(s)) = Len(s) - 1 /\ Head(s) = s[1]
      /\ \A i \in 1 .. Len(Tail(s)) : Tail(s)[i] = s[i + 1]
  BY HeadTailProperties
<1>2. Len(s) \in Nat /\ Len(s) >= 1
  BY EmptySeq
<1> QED BY <1>1, <1>2, EmptySeq

LEMMA Empty ==
  ASSUME NEW S, NEW s \in Seq(S)
  PROVE  Len(s) \in Nat /\ (s = <<>> <=> Len(s) = 0)
  BY EmptySeq

\* What the update says to the bootloader is under way behind the rest.
LEMMA Said ==
  ASSUME down \in Seq(FwPacket), NEW c \in {"CR", "1", "2"}, Say(c)
  PROVE  /\ down' \in Seq(FwPacket) /\ Len(down') = Len(down) + 1
         /\ \A K : DownOnly(K) /\ c \in K => DownOnly(K)'
<1> DEFINE p == [kind |-> c, num |-> 0, data |-> None, ok |-> TRUE]
<1>1. p \in FwPacket /\ p.kind = c
  BY NumAssumption DEF FwPacket
<1>2. down' = Append(down, p)
  BY DEF Say
<1> HIDE DEF p
<1> QED BY <1>1, <1>2, Appended DEF DownOnly

LEMMA NothingDown ==
  ASSUME down = <<>>
  PROVE  \A K : DownOnly(K)
  BY DEF DownOnly

LEMMA Dropped ==
  ASSUME down \in Seq(FwPacket), down # <<>>, down' = Tail(down), NEW K
  PROVE  /\ down' \in Seq(FwPacket) /\ Len(down') = Len(down) - 1
         /\ Head(down) \in FwPacket /\ Len(down) >= 1
         /\ DownOnly(K) => DownOnly(K)' /\ Head(down).kind \in K
  BY Taken DEF DownOnly

-----------------------------------------------------------------------------
(* A step of the transfer *)

\* What a step may do to the two lines.
LEMMA LineFacts ==
  ASSUME XTypeOK
  PROVE  /\ Len(up) \in Nat /\ Len(down) \in Nat
         /\ (up = <<>> <=> Len(up) = 0) /\ (down = <<>> <=> Len(down) = 0)
         /\ up # <<>> => /\ Len(Tail(up)) = Len(up) - 1 /\ Head(up) = up[1]
                         /\ 1 \in 1 .. Len(up)
                         /\ \A i \in 1 .. Len(Tail(up)) :
                               i + 1 \in 1 .. Len(up) /\ Tail(up)[i] = up[i + 1]
         /\ down # <<>> => /\ Len(Tail(down)) = Len(down) - 1 /\ Head(down) = down[1]
                           /\ 1 \in 1 .. Len(down)
                           /\ \A i \in 1 .. Len(Tail(down)) :
                                 i + 1 \in 1 .. Len(down) /\ Tail(down)[i] = down[i + 1]
         /\ \A c \in Chars : /\ Len(Append(up, c)) = Len(up) + 1
                              /\ \A i \in 1 .. Len(Append(up, c)) :
                                    \/ i \in 1 .. Len(up) /\ Append(up, c)[i] = up[i]
                                    \/ i = Len(up) + 1 /\ Append(up, c)[i] = c
         /\ \A e \in Packet : /\ Len(Append(down, e)) = Len(down) + 1
                               /\ \A i \in 1 .. Len(Append(down, e)) :
                                     \/ i \in 1 .. Len(down) /\ Append(down, e)[i] = down[i]
                                     \/ i = Len(down) + 1 /\ Append(down, e)[i] = e
<1>1. up \in Seq(Chars) /\ down \in Seq(Packet)
  BY DEF XTypeOK
<1>2. /\ Len(up) \in Nat /\ Len(down) \in Nat
      /\ (up = <<>> <=> Len(up) = 0) /\ (down = <<>> <=> Len(down) = 0)
  BY <1>1, Empty
<1>3. up # <<>> => /\ Len(Tail(up)) = Len(up) - 1 /\ Head(up) = up[1]
                  /\ 1 \in 1 .. Len(up)
                  /\ \A i \in 1 .. Len(Tail(up)) :
                        i + 1 \in 1 .. Len(up) /\ Tail(up)[i] = up[i + 1]
  BY <1>1, Taken
<1>4. down # <<>> => /\ Len(Tail(down)) = Len(down) - 1 /\ Head(down) = down[1]
                    /\ 1 \in 1 .. Len(down)
                    /\ \A i \in 1 .. Len(Tail(down)) :
                          i + 1 \in 1 .. Len(down) /\ Tail(down)[i] = down[i + 1]
  BY <1>1, Taken
<1>5. \A c \in Chars : /\ Len(Append(up, c)) = Len(up) + 1
                       /\ \A i \in 1 .. Len(Append(up, c)) :
                             \/ i \in 1 .. Len(up) /\ Append(up, c)[i] = up[i]
                             \/ i = Len(up) + 1 /\ Append(up, c)[i] = c
  BY <1>1, Appended
<1>6. \A e \in Packet : /\ Len(Append(down, e)) = Len(down) + 1
                        /\ \A i \in 1 .. Len(Append(down, e)) :
                              \/ i \in 1 .. Len(down) /\ Append(down, e)[i] = down[i]
                              \/ i = Len(down) + 1 /\ Append(down, e)[i] = e
  BY <1>1, Appended
<1> QED BY <1>2, <1>3, <1>4, <1>5, <1>6

LEMMA TransferStep ==
  ASSUME Punctual, Transfer, XNext
  PROVE  Transfer'
<1>0. XInv'
  BY StepInv DEF Transfer
<1>a. /\ XTypeOK /\ Outstanding /\ Ending
      /\ Start /\ Between /\ BlockUnderWay /\ OneUnderWay /\ AllSent
  BY DEF Transfer, XInv
<1>1. CASE TickStart
  <2>1. Outstanding'
    BY <1>a, <1>1, LineFacts DEF TickStart, ReadBlock, sender, receiver,
       XTypeOK, MaxTries, Outstanding, Start, OneUnderWay, Line1
  <2>2. Ending'
    <3>1. /\ up # <<>> /\ down = <<>> /\ down' = down /\ rstate' = rstate
          /\ \A i \in 1 .. Len(up) : up[i] # "ACK"
      BY <1>a, <1>1 DEF TickStart, receiver, Start, Ending
    <3>2. state' \in {"START", "EOF"} => up' = Tail(up)
      BY <1>a, <1>1 DEF TickStart, ReadBlock, XTypeOK
    <3>3. state' \in {"START", "SENDING", "EOF"}
      BY <1>1 DEF TickStart, ReadBlock
    <3>4. \A i \in 1 .. Len(Tail(up)) : Tail(up)[i] # "ACK"
      BY <1>a, <3>1, LineFacts
    <3>5. DownOnly({"EOT"})'
      BY <1>a, <3>1, LineFacts DEF DownOnly
    <3> QED BY <3>2, <3>3, <3>4, <3>5 DEF Ending
  <2> QED BY <1>0, <2>1, <2>2 DEF Transfer
<1>2. CASE TickSend
  <2>1. Outstanding'
    BY <1>a, <1>2, LineFacts DEF TickSend, ReadBlock, sender, receiver,
       XTypeOK, MaxTries, Outstanding, Start, OneUnderWay, Line1
  <2>2. Ending'
    BY <1>a, <1>2, LineFacts DEF TickSend, ReadBlock, sender, receiver,
       XTypeOK, MaxTries, Ending, DownOnly, Start, OneUnderWay, Line1
  <2> QED BY <1>0, <2>1, <2>2 DEF Transfer
<1>3. CASE TickResend
  <2>1. Outstanding'
    BY <1>a, <1>3, LineFacts DEF TickResend, sender, receiver,
       XTypeOK, MaxTries, Outstanding, Start, OneUnderWay, Line1
  <2>2. Ending'
    BY <1>a, <1>3, LineFacts DEF TickResend, sender, receiver,
       XTypeOK, MaxTries, Ending, DownOnly, Start, OneUnderWay, Line1
  <2> QED BY <1>0, <2>1, <2>2 DEF Transfer
<1>4. CASE TickSending
  <2>1. Outstanding'
    BY <1>a, <1>4, LineFacts DEF TickSending, sender, receiver,
       XTypeOK, MaxTries, Outstanding, Start, OneUnderWay, Line1
  <2>2. Ending'
    BY <1>a, <1>4, LineFacts DEF TickSending, sender, receiver,
       XTypeOK, MaxTries, Ending, DownOnly, Start, OneUnderWay, Line1
  <2> QED BY <1>0, <2>1, <2>2 DEF Transfer
<1>5. CASE Acked
  <2>1. Outstanding'
    BY <1>a, <1>5, LineFacts DEF Acked, sender, receiver,
       XTypeOK, MaxTries, Outstanding, Start, OneUnderWay, Line1
  <2>2. Ending'
    BY <1>a, <1>5, LineFacts DEF Acked, sender, receiver,
       XTypeOK, MaxTries, Ending, DownOnly, Start, OneUnderWay, Line1
  <2> QED BY <1>0, <2>1, <2>2 DEF Transfer
<1>6. CASE Refused
  <2>1. Outstanding'
    BY <1>a, <1>6, LineFacts DEF Refused, TryAgain, GiveUp, sender, receiver,
       XTypeOK, MaxTries, Outstanding, Start, OneUnderWay, Line1
  <2>2. Ending'
    BY <1>a, <1>6, LineFacts DEF Refused, TryAgain, GiveUp, sender, receiver,
       XTypeOK, MaxTries, Ending, DownOnly, Start, OneUnderWay, Line1
  <2> QED BY <1>0, <2>1, <2>2 DEF Transfer
<1>7. CASE BlockTimeout
  <2>1. Outstanding'
    <3> DEFINE can == [kind |-> "CAN", num |-> 0, data |-> None, ok |-> TRUE]
    <3>1. can \in Packet
      BY OtherPacket
    <3>2. down = <<>> /\ up = <<>> /\ up' = up
      BY <1>7 DEF BlockTimeout, Quiet
    <3>3. /\ down' \in {down, Append(down, can)}
          /\ state' \in {"RESEND", "FAILURE"}
      BY <1>7 DEF BlockTimeout, TryAgain, GiveUp
    <3> HIDE DEF can
    <3> QED BY <1>a, <3>1, <3>2, <3>3, LineFacts DEF Outstanding
  <2>2. Ending'
    BY <1>a, <1>7, LineFacts DEF BlockTimeout, TryAgain, GiveUp, Quiet, sender, receiver,
       XTypeOK, MaxTries, Ending, DownOnly, Start, OneUnderWay, Line1
  <2> QED BY <1>0, <2>1, <2>2 DEF Transfer
<1>8. CASE TickEof
  <2>1. Outstanding'
    BY <1>a, <1>8, LineFacts DEF TickEof, sender, receiver,
       XTypeOK, MaxTries, Outstanding, Start, OneUnderWay, Line1
  <2>2. Ending'
    <3> DEFINE eot == [kind |-> "EOT", num |-> 0, data |-> None, ok |-> TRUE]
    <3>1. eot \in Packet /\ eot.kind = "EOT"
      BY OtherPacket
    <3>2. /\ down' \in {down, Append(down, eot)} /\ up' = up /\ rstate' = rstate
          /\ state = "EOF" /\ state' = "FINAL_ACK"
      BY <1>8 DEF TickEof, receiver
    <3> HIDE DEF eot
    <3> QED BY <1>a, <3>1, <3>2, LineFacts DEF Ending, DownOnly
  <2> QED BY <1>0, <2>1, <2>2 DEF Transfer
<1>9. CASE FinalAcked
  <2>1. Outstanding'
    BY <1>a, <1>9, LineFacts DEF FinalAcked, sender, receiver,
       XTypeOK, MaxTries, Outstanding, Start, OneUnderWay, Line1
  <2>2. Ending'
    BY <1>a, <1>9, LineFacts DEF FinalAcked, sender, receiver,
       XTypeOK, MaxTries, Ending, DownOnly, Start, OneUnderWay, Line1
  <2> QED BY <1>0, <2>1, <2>2 DEF Transfer
<1>10. CASE FinalRefused
  <2>1. Outstanding'
    BY <1>a, <1>10, LineFacts DEF FinalRefused, TryAgain, GiveUp, sender, receiver,
       XTypeOK, MaxTries, Outstanding, Start, OneUnderWay, Line1
  <2>2. Ending'
    BY <1>a, <1>10, LineFacts DEF FinalRefused, TryAgain, GiveUp, sender, receiver,
       XTypeOK, MaxTries, Ending, DownOnly, Start, OneUnderWay, Line1
  <2> QED BY <1>0, <2>1, <2>2 DEF Transfer
<1>11. CASE FinalTimeout
  <2>1. Outstanding'
    BY <1>a, <1>11, LineFacts DEF FinalTimeout, TryAgain, GiveUp, Quiet, sender, receiver,
       XTypeOK, MaxTries, Outstanding, Start, OneUnderWay, Line1
  <2>2. Ending'
    BY <1>a, <1>11, LineFacts DEF FinalTimeout, TryAgain, GiveUp, Quiet, sender, receiver,
       XTypeOK, MaxTries, Ending, DownOnly, Start, OneUnderWay, Line1
  <2> QED BY <1>0, <2>1, <2>2 DEF Transfer
<1>12. CASE Ask
  <2>1. Outstanding'
    BY <1>a, <1>12, LineFacts DEF Ask, Reply, Chars, Ended, sender, Outstanding, Ending
  <2>2. Ending'
    BY <1>a, <1>12, LineFacts DEF Ask, Reply, Chars, Ended, sender, receiver,
       XTypeOK, MaxTries, Ending, DownOnly, Start, OneUnderWay, Line1
  <2> QED BY <1>0, <2>1, <2>2 DEF Transfer
<1>13. CASE BlockArrives
  <2>1. Outstanding'
    BY <1>a, <1>13, LineFacts DEF BlockArrives, Reply, Chars, sender, receiver,
       XTypeOK, MaxTries, Outstanding, Start, OneUnderWay, Line1
  <2>2. Ending'
    BY <1>a, <1>13, LineFacts DEF BlockArrives, Reply, Chars, sender, receiver,
       XTypeOK, MaxTries, Ending, DownOnly, Start, OneUnderWay, Line1
  <2> QED BY <1>0, <2>1, <2>2 DEF Transfer
<1>14. CASE EndArrives
  <2>1. Outstanding'
    BY <1>a, <1>14, LineFacts DEF EndArrives, Reply, Chars, sender, receiver,
       XTypeOK, MaxTries, Outstanding, Start, OneUnderWay, Line1
  <2>2. Ending'
    BY <1>a, <1>14, LineFacts DEF EndArrives, Reply, Chars, sender, receiver,
       XTypeOK, MaxTries, Ending, DownOnly, Start, OneUnderWay, Line1
  <2> QED BY <1>0, <2>1, <2>2 DEF Transfer
<1>15. CASE CancelArrives
  <2>1. Outstanding'
    BY <1>a, <1>15, LineFacts DEF CancelArrives, sender, receiver,
       XTypeOK, MaxTries, Outstanding, Start, OneUnderWay, Line1
  <2>2. Ending'
    BY <1>a, <1>15, LineFacts DEF CancelArrives, sender, receiver,
       XTypeOK, MaxTries, Ending, DownOnly, Start, OneUnderWay, Line1
  <2> QED BY <1>0, <2>1, <2>2 DEF Transfer
<1>16. CASE Ignored
  <2>1. Outstanding'
    BY <1>a, <1>16, LineFacts DEF Ignored, sender, receiver,
       XTypeOK, MaxTries, Outstanding, Start, OneUnderWay, Line1
  <2>2. Ending'
    BY <1>a, <1>16, LineFacts DEF Ignored, sender, receiver,
       XTypeOK, MaxTries, Ending, DownOnly, Start, OneUnderWay, Line1
  <2> QED BY <1>0, <2>1, <2>2 DEF Transfer
<1>17. CASE LoseDown
  <2>1. Outstanding'
    BY <1>a, <1>17, LineFacts DEF LoseDown, sender, receiver,
       XTypeOK, MaxTries, Outstanding, Start, OneUnderWay, Line1
  <2>2. Ending'
    BY <1>a, <1>17, LineFacts DEF LoseDown, sender, receiver,
       XTypeOK, MaxTries, Ending, DownOnly, Start, OneUnderWay, Line1
  <2> QED BY <1>0, <2>1, <2>2 DEF Transfer
<1>18. CASE Corrupt
  <2>1. Outstanding'
    BY <1>a, <1>18, LineFacts DEF Corrupt, sender, receiver,
       XTypeOK, MaxTries, Outstanding, Start, OneUnderWay, Line1
  <2>2. Ending'
    BY <1>a, <1>18, LineFacts DEF Corrupt, sender, receiver,
       XTypeOK, MaxTries, Ending, DownOnly, Start, OneUnderWay, Line1
  <2> QED BY <1>0, <2>1, <2>2 DEF Transfer
<1>19. CASE LoseUp
  <2>1. Outstanding'
    BY <1>a, <1>19, LineFacts DEF LoseUp, sender, receiver,
       XTypeOK, MaxTries, Outstanding, Start, OneUnderWay, Line1
  <2>2. Ending'
    BY <1>a, <1>19, LineFacts DEF LoseUp, sender, receiver,
       XTypeOK, MaxTries, Ending, DownOnly, Start, OneUnderWay, Line1
  <2> QED BY <1>0, <2>1, <2>2 DEF Transfer
<1>20. CASE Garble
  <2>1. Outstanding'
    BY <1>a, <1>20, LineFacts DEF Garble, sender, XTypeOK, Outstanding, Start,
       OneUnderWay, Line1
  <2>2. Ending'
    BY <1>a, <1>20, LineFacts DEF Garble, sender, receiver, XTypeOK, Ending, DownOnly,
       Start, OneUnderWay, Line1
  <2> QED BY <1>0, <2>1, <2>2 DEF Transfer
<1> QED BY <1>1, <1>2, <1>3, <1>4, <1>5, <1>6, <1>7, <1>8, <1>9, <1>10, <1>11, <1>12,
           <1>13, <1>14, <1>15, <1>16, <1>17, <1>18, <1>19, <1>20 DEF XNext, Tick,
           Receiver, Line

-----------------------------------------------------------------------------
(* The invariant of the update *)

LEMMA FwInitInv == FwInit => FwInv
<1> SUFFICES ASSUME FwInit PROVE FwInv
  OBVIOUS
<1>1. Typed
  BY DEF FwInit, XInit, Typed, MaxResets, MaxTries
<1> QED
  BY <1>1 DEF FwInit, XInit, FwInv, InOrder, Complete, Idle, Before, Reset, Prompt,
     Wait, Sending, Failed, Delivered

\* What the invariant says of the lines.
LEMMA FwFacts ==
  ASSUME Typed
  PROVE  /\ down \in Seq(FwPacket) /\ up \in Seq(FwChars)
         /\ Len(up) \in Nat /\ Len(down) \in Nat
         /\ (up = <<>> <=> Len(up) = 0) /\ (down = <<>> <=> Len(down) = 0)
         /\ up # <<>> => /\ Tail(up) \in Seq(FwChars) /\ Len(Tail(up)) = Len(up) - 1
                         /\ Head(up) = up[1] /\ 1 \in 1 .. Len(up)
                         /\ \A i \in 1 .. Len(Tail(up)) :
                               i + 1 \in 1 .. Len(up) /\ Tail(up)[i] = up[i + 1]
         /\ \A c \in FwChars : /\ Append(up, c) \in Seq(FwChars)
                                /\ Len(Append(up, c)) = Len(up) + 1
                                /\ \A i \in 1 .. Len(Append(up, c)) :
                                      \/ i \in 1 .. Len(up) /\ Append(up, c)[i] = up[i]
                                      \/ i = Len(up) + 1 /\ Append(up, c)[i] = c
<1>1. up \in Seq(FwChars) /\ down \in Seq(FwPacket)
  BY DEF Typed, FwChars, FwPacket
<1>2. /\ Len(up) \in Nat /\ Len(down) \in Nat
      /\ (up = <<>> <=> Len(up) = 0) /\ (down = <<>> <=> Len(down) = 0)
  BY <1>1, Empty
<1>3. up # <<>> => /\ Tail(up) \in Seq(FwChars) /\ Len(Tail(up)) = Len(up) - 1
                  /\ Head(up) = up[1] /\ 1 \in 1 .. Len(up)
                  /\ \A i \in 1 .. Len(Tail(up)) :
                        i + 1 \in 1 .. Len(up) /\ Tail(up)[i] = up[i + 1]
  BY <1>1, Taken
<1>4. \A c \in FwChars : /\ Append(up, c) \in Seq(FwChars)
                         /\ Len(Append(up, c)) = Len(up) + 1
                         /\ \A i \in 1 .. Len(Append(up, c)) :
                               \/ i \in 1 .. Len(up) /\ Append(up, c)[i] = up[i]
                               \/ i = Len(up) + 1 /\ Append(up, c)[i] = c
  BY <1>1, Appended
<1> QED BY <1>1, <1>2, <1>3, <1>4

LEMMA UpdateStep ==
  ASSUME Punctual, FwInv,
         FwReset \/ FwBreak \/ FwSkip \/ FwPrompt \/ FwDone \/ FwRun \/ FwTimeout
  PROVE  FwInv'
<1>a. /\ Typed /\ InOrder /\ Complete /\ Idle
      /\ Before /\ Reset /\ Prompt /\ Wait /\ Sending /\ Failed /\ Delivered
      /\ result = "1" => fstate = "SUCCESS"
  BY DEF FwInv
<1>1. CASE FwReset
  <2>1. Typed'
    BY <1>a, <1>1 DEF FwReset, sender, Typed, MaxResets, MaxTries
  <2>2. InOrder'
    BY <1>a, <1>1 DEF FwReset, sender, Typed, InOrder
  <2>3. Complete'
    BY <1>a, <1>1 DEF FwReset, Complete
  <2>4. Idle'
    BY <1>a, <1>1 DEF FwReset, sender, Idle
  <2>5. Before'
    BY <1>a, <1>1 DEF FwReset, Before
  <2>6. Reset'
    BY <1>a, <1>1 DEF FwReset, Reset
  <2>7. Prompt'
    BY <1>a, <1>1 DEF FwReset, Prompt
  <2>8. Wait'
    BY <1>a, <1>1 DEF FwReset, Wait
  <2>9. Sending'
    BY <1>a, <1>1 DEF FwReset, Sending
  <2>10. Failed'
    BY <1>a, <1>1 DEF FwReset, Failed
  <2>11. Delivered'
    BY <1>a, <1>1 DEF FwReset, Delivered
  <2>12. (result = "1" => fstate = "SUCCESS")'
    BY <1>a, <1>1 DEF FwReset, fvars, Typed
  <2> QED BY <2>1, <2>2, <2>3, <2>4, <2>5, <2>6, <2>7, <2>8, <2>9, <2>10, <2>11, <2>12
             DEF FwInv
<1>2. CASE FwBreak
  <2>0. /\ down' \in Seq(FwPacket) /\ Len(down') = Len(down) + 1
        /\ \A K : DownOnly(K) /\ "CR" \in K => DownOnly(K)'
    BY <1>a, <1>2, Said, FwFacts DEF FwBreak
  <2>1. Typed'
    BY <2>0, <1>a, <1>2 DEF FwBreak, sender, receiver, Typed, FwPacket, FwChars
  <2>2. InOrder'
    BY <2>0, <1>a, <1>2 DEF FwBreak, sender, receiver, InOrder
  <2>3. Complete'
    BY <2>0, <1>a, <1>2 DEF FwBreak, receiver, Complete, Reset
  <2>4. Idle'
    BY <2>0, <1>a, <1>2 DEF FwBreak, sender, Idle
  <2>5. Before'
    BY <2>0, <1>a, <1>2 DEF FwBreak, Before
  <2>6. Reset'
    BY <2>0, <1>a, <1>2 DEF FwBreak, Reset
  <2>7. Prompt'
    BY <2>0, <1>a, <1>2, NothingDown DEF FwBreak, receiver, Reset, Prompt
  <2>8. Wait'
    BY <2>0, <1>a, <1>2 DEF FwBreak, Wait
  <2>9. Sending'
    BY <2>0, <1>a, <1>2 DEF FwBreak, Sending
  <2>10. Failed'
    BY <2>0, <1>a, <1>2 DEF FwBreak, Failed
  <2>11. Delivered'
    BY <2>0, <1>a, <1>2 DEF FwBreak, Delivered
  <2>12. (result = "1" => fstate = "SUCCESS")'
    BY <1>a, <1>2 DEF FwBreak, fvars, Typed
  <2> QED BY <2>1, <2>2, <2>3, <2>4, <2>5, <2>6, <2>7, <2>8, <2>9, <2>10, <2>11, <2>12
             DEF FwInv
<1>3. CASE FwSkip
  <2>1. Typed'
    BY <1>a, <1>3 DEF FwSkip, sender, receiver, fvars, Typed
  <2>2. InOrder'
    BY <1>a, <1>3 DEF FwSkip, sender, receiver, InOrder
  <2>3. Complete'
    BY <1>a, <1>3 DEF FwSkip, sender, receiver, Complete
  <2>4. Idle'
    BY <1>a, <1>3 DEF FwSkip, sender, Idle, Delivered
  <2>5. Before'
    BY <1>a, <1>3 DEF FwSkip, fvars, Before
  <2>6. Reset'
    BY <1>a, <1>3 DEF FwSkip, fvars, Reset
  <2>7. Prompt'
    BY <1>a, <1>3 DEF FwSkip, receiver, fvars, Prompt, DownOnly
  <2>8. Wait'
    BY <1>a, <1>3 DEF FwSkip, receiver, fvars, Wait
  <2>9. Sending'
    BY <1>a, <1>3 DEF FwSkip, fvars, Sending
  <2>10. Failed'
    BY <1>a, <1>3 DEF FwSkip, fvars, Failed
  <2>11. Delivered'
    BY <1>a, <1>3 DEF FwSkip, sender, receiver, fvars, Delivered, DownOnly
  <2>12. (result = "1" => fstate = "SUCCESS")'
    BY <1>a, <1>3 DEF FwSkip, fvars, Typed
  <2> QED BY <2>1, <2>2, <2>3, <2>4, <2>5, <2>6, <2>7, <2>8, <2>9, <2>10, <2>11, <2>12
             DEF FwInv
<1>4. CASE FwPrompt
  <2>0. /\ down' \in Seq(FwPacket) /\ Len(down') = Len(down) + 1
        /\ \A K : DownOnly(K) /\ "1" \in K => DownOnly(K)'
    BY <1>a, <1>4, Said, FwFacts DEF FwPrompt
  <2>1. Typed'
    BY <2>0, <1>a, <1>4 DEF FwPrompt, sender, receiver, Typed, FwPacket, FwChars
  <2>2. InOrder'
    BY <2>0, <1>a, <1>4 DEF FwPrompt, sender, receiver, InOrder
  <2>3. Complete'
    BY <2>0, <1>a, <1>4 DEF FwPrompt, receiver, Complete, Prompt
  <2>4. Idle'
    BY <2>0, <1>a, <1>4 DEF FwPrompt, sender, Idle
  <2>5. Before'
    BY <2>0, <1>a, <1>4 DEF FwPrompt, Before
  <2>6. Reset'
    BY <2>0, <1>a, <1>4 DEF FwPrompt, Reset
  <2>7. Prompt'
    BY <2>0, <1>a, <1>4 DEF FwPrompt, Prompt
  <2>8. Wait'
    <3>1. down = <<>> /\ up' = <<>> /\ rstate' = "menu" /\ got' = <<>>
      BY <1>a, <1>4 DEF FwPrompt, receiver, Prompt
    <3> QED BY <2>0, <1>a, <3>1, NothingDown DEF Wait
  <2>9. Sending'
    BY <2>0, <1>a, <1>4 DEF FwPrompt, Sending
  <2>10. Failed'
    BY <2>0, <1>a, <1>4 DEF FwPrompt, Failed
  <2>11. Delivered'
    BY <2>0, <1>a, <1>4 DEF FwPrompt, Delivered
  <2>12. (result = "1" => fstate = "SUCCESS")'
    BY <1>a, <1>4 DEF FwPrompt, fvars, Typed
  <2> QED BY <2>1, <2>2, <2>3, <2>4, <2>5, <2>6, <2>7, <2>8, <2>9, <2>10, <2>11, <2>12
             DEF FwInv
<1>5. CASE FwDone
  <2>0. /\ down' \in Seq(FwPacket) /\ Len(down') = Len(down) + 1
        /\ \A K : DownOnly(K) /\ "CR" \in K => DownOnly(K)'
    BY <1>a, <1>5, Said, FwFacts DEF FwDone
  <2>1. Typed'
    BY <2>0, <1>a, <1>5 DEF FwDone, sender, receiver, Typed, FwPacket, FwChars
  <2>2. InOrder'
    BY <2>0, <1>a, <1>5 DEF FwDone, sender, receiver, InOrder
  <2>3. Complete'
    BY <2>0, <1>a, <1>5 DEF FwDone, sender, receiver, Complete
  <2>4. Idle'
    BY <2>0, <1>a, <1>5 DEF FwDone, Idle
  <2>5. Before'
    BY <2>0, <1>a, <1>5 DEF FwDone, Before
  <2>6. Reset'
    BY <2>0, <1>a, <1>5 DEF FwDone, Reset
  <2>7. Prompt'
    BY <2>0, <1>a, <1>5 DEF FwDone, Prompt
  <2>8. Wait'
    BY <2>0, <1>a, <1>5 DEF FwDone, Wait
  <2>9. Sending'
    BY <2>0, <1>a, <1>5 DEF FwDone, Sending
  <2>10. Failed'
    BY <2>0, <1>a, <1>5 DEF FwDone, Failed
  <2>11. Delivered'
    <3>1. DownOnly({"EOT", "CR", "2"})' /\ DownOnly({"EOT", "CR"})'
      BY <2>0, <1>a, <1>5 DEF FwDone, Delivered
    <3> QED BY <2>0, <1>a, <1>5, <3>1 DEF FwDone, sender, receiver, Delivered
  <2>12. (result = "1" => fstate = "SUCCESS")'
    BY <1>a, <1>5 DEF FwDone, fvars, Typed
  <2> QED BY <2>1, <2>2, <2>3, <2>4, <2>5, <2>6, <2>7, <2>8, <2>9, <2>10, <2>11, <2>12
             DEF FwInv
<1>6. CASE FwRun
  <2>0. /\ down' \in Seq(FwPacket) /\ Len(down') = Len(down) + 1
        /\ \A K : DownOnly(K) /\ "2" \in K => DownOnly(K)'
    BY <1>a, <1>6, Said, FwFacts DEF FwRun
  <2>1. Typed'
    BY <2>0, <1>a, <1>6 DEF FwRun, sender, receiver, Typed, FwPacket, FwChars
  <2>2. InOrder'
    BY <2>0, <1>a, <1>6 DEF FwRun, sender, receiver, InOrder
  <2>3. Complete'
    BY <2>0, <1>a, <1>6 DEF FwRun, sender, receiver, Complete
  <2>4. Idle'
    BY <2>0, <1>a, <1>6 DEF FwRun, Idle
  <2>5. Before'
    BY <2>0, <1>a, <1>6 DEF FwRun, Before
  <2>6. Reset'
    BY <2>0, <1>a, <1>6 DEF FwRun, Reset
  <2>7. Prompt'
    BY <2>0, <1>a, <1>6 DEF FwRun, Prompt
  <2>8. Wait'
    BY <2>0, <1>a, <1>6 DEF FwRun, Wait
  <2>9. Sending'
    BY <2>0, <1>a, <1>6 DEF FwRun, Sending
  <2>10. Failed'
    BY <2>0, <1>a, <1>6 DEF FwRun, Failed
  <2>11. Delivered'
    <3>1. DownOnly({"EOT", "CR", "2"})'
      BY <2>0, <1>a, <1>6 DEF FwRun, Delivered
    <3> QED BY <2>0, <1>a, <1>6, <3>1 DEF FwRun, sender, receiver, Delivered
  <2>12. (result = "1" => fstate = "SUCCESS")'
    BY <1>a, <1>6 DEF FwRun, fvars, Typed
  <2> QED BY <2>1, <2>2, <2>3, <2>4, <2>5, <2>6, <2>7, <2>8, <2>9, <2>10, <2>11, <2>12
             DEF FwInv
<1>7. CASE FwTimeout
  <2>1. Typed'
    BY <1>a, <1>7 DEF FwTimeout, Quiet, sender, receiver, xvars, Typed, MaxResets,
       MaxTries
  <2>2. InOrder'
    BY <1>a, <1>7 DEF FwTimeout, Quiet, sender, receiver, xvars, InOrder
  <2>3. Complete'
    BY <1>a, <1>7 DEF FwTimeout, Quiet, sender, receiver, xvars, Complete
  <2>4. Idle'
    BY <1>a, <1>7 DEF FwTimeout, Quiet, sender, xvars, Idle, Delivered
  <2>5. Before'
    BY <1>a, <1>7 DEF FwTimeout, Quiet, sender, receiver, xvars, Before, Prompt, Wait,
       Delivered
  <2>6. Reset'
    BY <1>a, <1>7 DEF FwTimeout, Quiet, Reset
  <2>7. Prompt'
    BY <1>a, <1>7 DEF FwTimeout, Quiet, sender, receiver, xvars, Prompt, DownOnly
  <2>8. Wait'
    BY <1>a, <1>7 DEF FwTimeout, Quiet, sender, receiver, xvars, Wait, DownOnly
  <2>9. Sending'
    BY <1>a, <1>7 DEF FwTimeout, Quiet, Sending
  <2>10. Failed'
    BY <1>a, <1>7 DEF FwTimeout, Quiet, Failed
  <2>11. Delivered'
    BY <1>a, <1>7 DEF FwTimeout, Quiet, sender, receiver, xvars, Delivered, DownOnly
  <2>12. (result = "1" => fstate = "SUCCESS")'
    BY <1>a, <1>7 DEF FwTimeout, fvars, Typed
  <2> QED BY <2>1, <2>2, <2>3, <2>4, <2>5, <2>6, <2>7, <2>8, <2>9, <2>10, <2>11, <2>12
             DEF FwInv
<1> QED BY <1>1, <1>2, <1>3, <1>4, <1>5, <1>6, <1>7

\* After a step of the transfer, the update has the types it asks for.
LEMMA TransferTypes ==
  ASSUME Transfer', fstate' \in {"XMODEM_SEND", "FAILURE", "XMODEM_DONE"},
         ftries' \in 0 .. MaxResets, result' \in {"0", "1", "-ETIMEDOUT"}
  PROVE  (Typed /\ InOrder /\ Complete)'
<1>1. (XTypeOK /\ InOrder /\ AllSent)'
  BY DEF Transfer, XInv
<1>2. (down \in Seq(FwPacket))'
  <2>1. Packet \subseteq FwPacket
    BY DEF Packet, FwPacket
  <2> QED BY <1>1, <2>1 DEF XTypeOK
<1>3. (up \in Seq(FwChars))'
  BY <1>1 DEF XTypeOK, FwChars
<1>4. Typed'
  BY <1>1, <1>2, <1>3 DEF XTypeOK, Typed, FwPacket, FwChars
<1> QED BY <1>1, <1>4 DEF AllSent, Complete

LEMMA StartStep ==
  ASSUME FwInv, FwStart
  PROVE  FwInv'
<1>1. Typed /\ Wait /\ result # "1"
  BY DEF FwInv, FwStart
<1>2. /\ up # <<>> /\ down = <<>> /\ rstate = "waiting" /\ got = <<>>
      /\ up \in Seq(Chars) /\ Len(up) <= 2 /\ \A i \in 1 .. Len(up) : up[i] # "ACK"
  BY <1>1, FwFacts DEF FwStart, Wait
<1>3. /\ state' = "START" /\ num' = 0 /\ base' = pos /\ fstate' = "XMODEM_SEND"
      /\ up' = Tail(up)
      /\ UNCHANGED <<tries, buffer, pos, down, got, rstate, ftries, result>>
  BY DEF FwStart, receiver
<1>4. /\ Tail(up) \in Seq(Chars) /\ Len(Tail(up)) <= 1
      /\ \A i \in 1 .. Len(Tail(up)) : Tail(up)[i] # "ACK"
  BY <1>2, Taken
<1>5. XTypeOK'
  BY <1>1, <1>2, <1>3, <1>4 DEF Typed, XTypeOK
<1>6. XInv'
  BY <1>1, <1>2, <1>3, <1>5 DEF Typed, XInv, InOrder, Start, Between, BlockUnderWay, OneUnderWay,
     AllSent
<1>7. Transfer'
  BY <1>2, <1>3, <1>4, <1>6 DEF Transfer, Outstanding, Ending
<1>8. (Typed /\ InOrder /\ Complete)'
  BY <1>1, <1>3, <1>7, TransferTypes DEF Typed
<1> QED
  BY <1>1, <1>3, <1>7, <1>8 DEF FwInv, Idle, Before, Reset, Prompt, Wait, Sending, Failed,
     Delivered, Ended

LEMMA SendStep ==
  ASSUME Punctual, FwInv, FwSend
  PROVE  FwInv'
<1>1. Typed /\ Transfer /\ result # "1"
  BY DEF FwInv, Sending, FwSend
<1>2. Transfer'
  BY <1>1, TransferStep DEF FwSend, XNext
<1>3. /\ \/ fstate' = "XMODEM_SEND" /\ state' \notin Ended /\ result' = result
         \/ fstate' = "XMODEM_DONE" /\ state' = "SUCCESS" /\ result' = result
         \/ fstate' = "FAILURE" /\ state' = "FAILURE" /\ result' = "-ETIMEDOUT"
      /\ ftries' = ftries
  BY DEF FwSend, Ended
<1>4. (Typed /\ InOrder /\ Complete)'
  BY <1>1, <1>2, <1>3, TransferTypes DEF Typed
<1>5. Delivered'
  <2>1. state' = "SUCCESS" =>
           (/\ pos = Len(File) /\ Len(got) = pos - base /\ rstate = "done"
            /\ DownOnly({"EOT"}) /\ Len(down) + Len(up) <= 1)'
    BY <1>2 DEF Transfer, XInv, AllSent, Ending, Outstanding
  <2>2. DownOnly({"EOT"})' => DownOnly({"EOT", "CR", "2"})' /\ DownOnly({"EOT", "CR"})'
    BY DEF DownOnly
  <2>3. Len(down') \in Nat /\ Len(up') \in Nat
    BY <1>4, FwFacts
  <2> QED BY <1>3, <2>1, <2>2, <2>3 DEF Delivered
<1> QED
  BY <1>1, <1>2, <1>3, <1>4, <1>5 DEF FwInv, Idle, Before, Reset, Prompt, Wait, Sending,
     Failed

LEMMA MenuStep ==
  ASSUME FwInv, Menu
  PROVE  FwInv'
<1>a. /\ Typed /\ InOrder /\ Complete /\ Idle
      /\ Before /\ Reset /\ Prompt /\ Wait /\ Sending /\ Failed /\ Delivered
      /\ result = "1" => fstate = "SUCCESS"
  BY DEF FwInv
<1>b. /\ down # <<>> /\ down' = Tail(down)
      /\ UNCHANGED <<state, num, tries, buffer, pos, base, fstate, ftries, result>>
  BY DEF Menu, sender, fvars
<1>c. /\ down' \in Seq(FwPacket) /\ Len(down') = Len(down) - 1 /\ Len(down) >= 1
      /\ \A K : DownOnly(K) => DownOnly(K)' /\ Head(down).kind \in K
  BY <1>a, <1>b, FwFacts, Dropped
<1>d. fstate \in {"PROMPT", "XMODEM_WAIT", "XMODEM_DONE", "FINAL_PROMPT", "SUCCESS"}
  <2>1. fstate \notin {"XMODEM_SEND", "FAILURE"}
    <3>1. SUFFICES ASSUME Transfer PROVE FALSE
      BY <1>a DEF Sending, Failed
    <3>2. Head(down) \in Packet
      BY <1>b, <3>1, Taken DEF Transfer, XInv, XTypeOK
    <3> QED BY <3>2 DEF Menu, Packet
  <2> QED BY <1>a, <1>b, <2>1 DEF Typed, Before, Reset
<1>1. CASE Head(down).kind = "CR" /\ up' = Append(up, ">") /\ UNCHANGED receiver
  <2>1. fstate # "XMODEM_WAIT"
    BY <1>1, <1>a, <1>c DEF Wait
  <2>2. up' \in Seq(FwChars) /\ Len(up') = Len(up) + 1
    BY <1>1, <1>a, FwFacts DEF FwChars
  <2>3. Typed'
    BY <1>1, <1>a, <1>b, <1>c, <2>2 DEF Typed, receiver, FwPacket, FwChars
  <2>4. Prompt'
    BY <1>1, <1>a, <1>b, <1>c, <2>2, FwFacts DEF receiver, Prompt
  <2>5. Delivered'
    BY <1>1, <1>a, <1>b, <1>c, <2>2, FwFacts DEF receiver, Delivered
  <2> QED
    BY <1>1, <1>a, <1>b, <1>d, <2>1, <2>3, <2>4, <2>5 DEF FwInv, receiver, InOrder, Complete,
       Idle, Before, Reset, Wait, Sending, Failed
<1>2. CASE Head(down).kind = "1" /\ rstate' = "waiting" /\ got' = <<>> /\ UNCHANGED up
  <2>1. fstate = "XMODEM_WAIT"
    BY <1>2, <1>a, <1>c, <1>d DEF Prompt, Delivered
  <2>2. Typed'
    BY <1>2, <1>a, <1>b, <1>c DEF Typed, FwPacket, FwChars
  <2>3. InOrder' /\ Complete'
    BY <1>2, <1>a, <1>b DEF Typed, InOrder, Complete
  <2>4. Wait'
    <3>1. up = <<>> /\ Len(down) <= 1
      BY <1>a, <1>b, <2>1 DEF Wait
    <3>2. down' = <<>>
      BY <1>a, <1>c, <2>2, <3>1, FwFacts
    <3> QED BY <1>2, <1>a, <1>b, <2>1, <3>1, <3>2, FwFacts DEF Wait
  <2> QED
    BY <1>a, <1>b, <2>1, <2>2, <2>3, <2>4 DEF FwInv, Idle, Before, Reset, Prompt, Sending,
       Failed, Delivered
<1>3. CASE Head(down).kind = "2" /\ rstate' = "running" /\ UNCHANGED <<up, got>>
  <2>1. fstate = "SUCCESS"
    BY <1>3, <1>a, <1>c, <1>d DEF Prompt, Wait, Delivered
  <2>2. Typed'
    BY <1>3, <1>a, <1>b, <1>c DEF Typed, FwPacket, FwChars
  <2>3. Delivered'
    BY <1>3, <1>a, <1>b, <1>c, <2>1, FwFacts DEF Delivered
  <2> QED
    BY <1>3, <1>a, <1>b, <2>1, <2>2, <2>3 DEF FwInv, InOrder, Complete, Idle, Before, Reset,
       Prompt, Wait, Sending, Failed
<1> QED BY <1>1, <1>2, <1>3 DEF Menu

LEMMA UploadStep ==
  ASSUME Punctual, FwInv, Upload
  PROVE  FwInv'
<1>a. /\ Typed /\ InOrder /\ Complete /\ Idle
      /\ Before /\ Reset /\ Prompt /\ Wait /\ Sending /\ Failed /\ Delivered
      /\ result = "1" => fstate = "SUCCESS"
  BY DEF FwInv
<1>b. UNCHANGED <<state, num, tries, buffer, pos, base, fstate, ftries, result>>
  BY DEF Upload, Receiver, Line, Ask, BlockArrives, EndArrives, CancelArrives, Ignored,
     LoseDown, Corrupt, LoseUp, Garble, sender, fvars
<1>1. CASE fstate \in {"XMODEM_SEND", "FAILURE"}
  <2>1. Transfer'
    BY <1>1, <1>a, TransferStep DEF Sending, Failed, Upload, XNext
  <2>2. (Typed /\ InOrder /\ Complete)'
    BY <1>1, <1>a, <1>b, <2>1, TransferTypes DEF Typed
  <2> QED
    BY <1>1, <1>a, <1>b, <2>1, <2>2 DEF FwInv, Idle, Before, Reset, Prompt, Wait, Sending,
       Failed, Delivered
<1>2. CASE fstate \notin {"XMODEM_SEND", "FAILURE"}
  <2>1. Sending' /\ Failed' /\ Idle'
    BY <1>2, <1>a, <1>b DEF Sending, Failed, Idle
  <2>2. DownOnly({"EOT", "CR", "1", "2"})
    BY <1>2, <1>a DEF Typed, DownOnly, Before, Reset, Prompt, Wait, Delivered
  <2>3. down # <<>> => Head(down).kind \in {"EOT", "CR", "1", "2"}
    BY <1>a, <2>2, FwFacts, Taken DEF DownOnly
  <2>4. CASE Ask
    <3>1. /\ rstate = "waiting" /\ down = <<>> /\ Len(up) < 2 /\ up' = Append(up, "C")
          /\ UNCHANGED <<down, got, rstate>>
      BY <2>4 DEF Ask, Reply, receiver
    <3>2. /\ up' \in Seq(FwChars) /\ Len(up') = Len(up) + 1
          /\ up \in Seq(Chars) => up' \in Seq(Chars)
          /\ (\A i \in 1 .. Len(up) : up[i] # "ACK") => \A i \in 1 .. Len(up') : up'[i] # "ACK"
      BY <1>a, <3>1, FwFacts, Appended DEF FwChars, Chars
    <3>3. Typed'
      BY <1>a, <1>b, <3>1, <3>2 DEF Typed, FwChars
    <3>4. Wait' /\ Before'
      BY <1>a, <1>b, <3>1, <3>2, FwFacts DEF Wait, Before
    <3> QED
      BY <1>a, <1>b, <2>1, <3>1, <3>3, <3>4 DEF FwInv, InOrder, Complete, Reset, Prompt, Delivered
  <2>5. ~BlockArrives /\ ~CancelArrives /\ ~Corrupt
    BY <2>3 DEF BlockArrives, CancelArrives, Corrupt
  <2>6. CASE EndArrives \/ Ignored \/ LoseDown
    <3>1. /\ down # <<>> /\ down' = Tail(down) /\ got' = got
          /\ \/ UNCHANGED <<up, rstate>>
             \/ /\ Head(down).kind = "EOT" /\ rstate' = "done"
                /\ \E c \in FwChars : up' = Append(up, c)
      BY <2>6 DEF EndArrives, Ignored, LoseDown, Reply, receiver, FwChars, Chars
    <3>2. /\ down' \in Seq(FwPacket) /\ Len(down') = Len(down) - 1 /\ Len(down) >= 1
          /\ \A K : DownOnly(K) => DownOnly(K)' /\ Head(down).kind \in K
      BY <1>a, <3>1, FwFacts, Dropped
    <3>3. up' \in Seq(FwChars) /\ Len(up') \in {Len(up), Len(up) + 1}
      BY <1>a, <3>1, FwFacts
    <3>4. Typed'
      BY <1>a, <1>b, <3>1, <3>2, <3>3 DEF Typed, FwChars, FwPacket
    <3>5. fstate \in {"PROMPT", "XMODEM_WAIT"} => UNCHANGED <<up, rstate>>
      BY <1>a, <3>1, <3>2 DEF Prompt, Wait
    <3>6. Complete'
      BY <1>2, <1>a, <1>b, <3>1, <3>5 DEF Complete, Typed, Before, Reset, Delivered
    <3>7. Prompt' /\ Wait'
      BY <1>a, <1>b, <3>1, <3>2, <3>5, FwFacts DEF Prompt, Wait
    <3>8. Delivered'
      <4>1. SUFFICES ASSUME fstate \in {"XMODEM_DONE", "FINAL_PROMPT", "SUCCESS"}
                     PROVE  Delivered'
        BY <1>b DEF Delivered
      <4> QED BY <4>1, <1>a, <1>b, <3>1, <3>2, <3>3, FwFacts DEF Delivered
    <3> QED
      BY <1>a, <1>b, <2>1, <3>1, <3>4, <3>6, <3>7, <3>8 DEF FwInv, InOrder, Before, Reset
  <2>7. CASE LoseUp \/ Garble
    <3>1. /\ up # <<>> /\ up' \in {Tail(up), <<"other">> \o Tail(up)}
          /\ UNCHANGED <<down, got, rstate>>
      BY <2>7 DEF LoseUp, Garble, receiver
    <3>2. \A S : up \in Seq(S) /\ "other" \in S => up' \in Seq(S)
      <4> SUFFICES ASSUME NEW S, up \in Seq(S), "other" \in S PROVE up' \in Seq(S)
        OBVIOUS
      <4>1. Tail(up) \in Seq(S) /\ <<"other">> \in Seq(S)
        BY <3>1, Taken
      <4> QED BY <3>1, <4>1, ConcatProperties
    <3>3. /\ Len(up') <= Len(up) /\ Len(up') \in Nat
          /\ (\A i \in 1 .. Len(up) : up[i] # "ACK") => \A i \in 1 .. Len(up') : up'[i] # "ACK"
      <4>1. up \in Seq(FwChars) /\ "other" \in FwChars
        BY <1>a, FwFacts DEF FwChars, Chars
      <4>2. CASE up' = Tail(up)
        BY <3>1, <4>1, <4>2, Taken
      <4>3. CASE up' = <<"other">> \o Tail(up)
        <5>1. /\ Tail(up) \in Seq(FwChars) /\ Len(Tail(up)) = Len(up) - 1
              /\ \A i \in 1 .. Len(Tail(up)) : i + 1 \in 1 .. Len(up) /\ Tail(up)[i] = up[i + 1]
          BY <3>1, <4>1, Taken
        <5>2. /\ Len(up') = Len(up) /\ up'[1] = "other"
              /\ \A i \in 2 .. Len(up) : up'[i] = Tail(up)[i - 1] /\ i - 1 \in 1 .. Len(Tail(up))
          BY <4>1, <4>3, <5>1
        <5> QED BY <4>1, <5>1, <5>2
      <4> QED BY <3>1, <4>2, <4>3
    <3>4. Typed'
      BY <1>a, <1>b, <3>1, <3>2 DEF Typed, Chars
    <3>5. Wait'
      BY <1>a, <1>b, <3>1, <3>2, <3>3, FwFacts DEF Wait, DownOnly, Chars
    <3>6. Before' /\ Reset' /\ Prompt' /\ Delivered'
      BY <1>a, <1>b, <3>1, <3>3, FwFacts DEF Before, Reset, Prompt, Delivered, DownOnly
    <3> QED BY <1>a, <1>b, <2>1, <3>1, <3>4, <3>5, <3>6 DEF FwInv, InOrder, Complete
  <2> QED BY <2>4, <2>5, <2>6, <2>7 DEF Upload, Receiver, Line
<1> QED BY <1>1, <1>2

LEMMA FwInductive ==
  ASSUME Punctual, FwInv, [FwNext]_vars
  PROVE  FwInv'
<1>1. CASE UNCHANGED vars
  BY <1>1 DEF vars, xvars, sender, receiver, fvars, FwInv, Typed, InOrder, Complete, Idle,
     Before, Reset, Prompt, Wait, Sending, Failed, Delivered, DownOnly, Transfer, XInv, XTypeOK,
     Start, Between, BlockUnderWay, OneUnderWay, Line1, AllSent, Outstanding, Ending
<1> QED
  BY <1>1, UpdateStep, StartStep, SendStep, MenuStep, UploadStep DEF FwNext, FwTick

-----------------------------------------------------------------------------
(* What is proved *)

\* The types, and that each line of the serial port never has more than two
\* things under way: every request is waited for (xbee_firmware.c, the states of
\* xbee_fw_install_ebl_tick, and WAIT_ACK and FINAL_ACK of xbee_xmodem.c).
THEOREM FwTypes ==
  ASSUME Punctual
  PROVE  FwSpec => []FwTypeOK
<1>1. FwInv /\ [FwNext]_vars => FwInv'
  BY FwInductive
<1>2. FwInv => FwTypeOK
  <2> SUFFICES ASSUME FwInv PROVE FwTypeOK
    OBVIOUS
  <2>1. Typed /\ Before /\ Reset /\ Prompt /\ Wait /\ Sending /\ Failed /\ Delivered
    BY DEF FwInv
  <2>2. Len(down) + Len(up) <= 2
    BY <2>1, FwFacts DEF Typed, Before, Reset, Prompt, Wait, Sending, Failed, Delivered, Transfer,
       Outstanding
  <2> QED BY <2>1, <2>2, FwFacts DEF Typed, FwTypeOK
<1> QED BY FwInitInv, <1>1, <1>2, PTL DEF FwSpec

\* At no time of an update, however often it starts over, has the module
\* anything but the blocks that the source gave since the transfer began, in
\* their order.
THEOREM FwOrder ==
  ASSUME Punctual
  PROVE  FwSpec => []InOrder
<1>1. FwInv /\ [FwNext]_vars => FwInv'
  BY FwInductive
<1>2. FwInv => InOrder
  BY DEF FwInv
<1> QED BY FwInitInv, <1>1, <1>2, PTL DEF FwSpec

\* A transfer within an update that succeeds has delivered all that was read,
\* to the end of the source.
THEOREM FwCompleteness ==
  ASSUME Punctual
  PROVE  FwSpec => []Complete
<1>1. FwInv /\ [FwNext]_vars => FwInv'
  BY FwInductive
<1>2. FwInv => Complete
  BY DEF FwInv
<1> QED BY FwInitInv, <1>1, <1>2, PTL DEF FwSpec

\* The module is told to run (the 2 that FINAL_PROMPT sends) only what it has
\* received to the end: nothing between the end of the transfer and that
\* command, neither a repeated EOT nor a second prompt, makes the bootloader
\* begin another upload.
THEOREM FwLoaded ==
  ASSUME Punctual
  PROVE  FwSpec => []Loaded
<1>1. FwInv /\ [FwNext]_vars => FwInv'
  BY FwInductive
<1>2. FwInv => Loaded
  BY DEF FwInv, Delivered, Loaded
<1> QED BY FwInitInv, <1>1, <1>2, PTL DEF FwSpec

\* ImageComplete, which fails when the update starts over after part of a
\* transfer, holds as long as the transfer began where the source begins.
THEOREM FirstTransferComplete ==
  ASSUME Punctual
  PROVE  FwSpec => [](base = 0 => ImageComplete)
<1>1. FwInv /\ [FwNext]_vars => FwInv'
  BY FwInductive
<1>2. FwInv => (base = 0 => ImageComplete)
  <2> SUFFICES ASSUME FwInv, base = 0, result = "1" PROVE got = File
    BY DEF ImageComplete
  <2>1. /\ pos = Len(File) /\ Len(got) = pos - base
        /\ \A i \in 1 .. Len(got) : got[i] = File[base + i]
        /\ got \in Seq(Nat) /\ File \in Seq(Nat)
    BY FileAssumption DEF FwInv, Delivered, InOrder, Typed
  <2>2. Len(got) = Len(File) /\ \A i \in 1 .. Len(got) : got[i] = File[i]
    BY <2>1
  <2> QED BY <2>1, <2>2, SeqEqual
<1> QED BY FwInitInv, <1>1, <1>2, PTL DEF FwSpec
=============================================================================
