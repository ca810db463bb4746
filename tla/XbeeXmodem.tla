----------------------------- MODULE XbeeXmodem -----------------------------
(***************************************************************************)
(* The XMODEM sender of xbee_xmodem.c, driven by calls to                  *)
(* xbee_xmodem_tx_tick, over a serial line that may lose or corrupt what   *)
(* it carries, and the receiver at the other end.                          *)
(*                                                                         *)
(* The receiver is not in this repository. It asks for the first block     *)
(* with the character C, acknowledges a good block that is the next one or *)
(* a repetition of the last, refuses a bad one, cancels when a block is    *)
(* neither, and acknowledges the end of transmission.                      *)
(***************************************************************************)
EXTENDS Integers, Sequences

CONSTANTS File,      \* the blocks of the source
          NumMod,    \* what a block number counts to: 256
          Punctual,  \* whether the peers wait for each other: no timeout fires
                     \* while something is under way, and the receiver does not
                     \* ask for a block that is being sent
          None

ASSUME FileAssumption == File \in Seq(Nat)
ASSUME NumAssumption == NumMod \in Nat /\ NumMod >= 2
ASSUME PunctualAssumption == Punctual \in BOOLEAN
ASSUME NoneAssumption == None \notin Nat

VARIABLES state,   \* xbxm->state
          num,     \* xbxm->packet_num
          tries,   \* xbxm->tries
          buffer,  \* the block in xbxm->buffer
          pos,     \* blocks read from the source so far
          base,    \* pos when xbee_xmodem_tx_init was called
          down,    \* what is under way to the receiver
          up,      \* what is under way to the sender
          got,     \* the blocks the receiver has accepted
          rstate   \* the receiver: waiting for its first block, receiving,
                   \* done, or after a cancellation
sender == <<state, num, tries, buffer, pos, base>>
receiver == <<got, rstate>>
xvars == <<sender, down, up, receiver>>

MaxTries == 3

Ended == {"SUCCESS", "FAILURE"}

Packet == [kind : {"block", "EOT", "CAN"}, num : 0 .. NumMod - 1,
           data : Nat \cup {None}, ok : BOOLEAN]

Chars == {"C", "ACK", "NAK", "CAN", "other"}

XInit == /\ state = "START" /\ num = 0 /\ tries = 0 /\ buffer = None
         /\ pos = 0 /\ base = 0
         /\ down = <<>> /\ up = <<>>
         /\ got = <<>> /\ rstate = "waiting"

-----------------------------------------------------------------------------
(* The sender. `tick' is a call of xbee_xmodem_tx_tick. *)

\* The end of the transfer for want of an answer.
GiveUp == /\ state' = "FAILURE"
          /\ down' = Append(down, [kind |-> "CAN", num |-> 0, data |-> None, ok |-> TRUE])

\* XBEE_XMODEM_STATE_SEND, up to the first part of the packet: read a block,
\* and flush what the receiver has sent beyond what was expected.
ReadBlock == \/ /\ pos < Len(File)
                /\ buffer' = File[pos + 1] /\ pos' = pos + 1
                /\ state' = "SENDING" /\ up' = <<>>
             \/ /\ pos = Len(File)
                /\ state' = "EOF"
                /\ UNCHANGED <<buffer, pos>>

\* XBEE_XMODEM_STATE_START: anything but the character C is ignored.
TickStart == /\ state = "START" /\ up # <<>>
             /\ \/ /\ Head(up) = "C"
                   /\ num' = 1 /\ tries' = MaxTries
                   /\ ReadBlock
                   /\ pos = Len(File) => up' = Tail(up)
                \/ /\ Head(up) # "C"
                   /\ up' = Tail(up)
                   /\ UNCHANGED <<state, num, tries, buffer, pos>>
             /\ UNCHANGED <<base, down, receiver>>

TickSend == /\ state = "SEND"
            /\ tries' = MaxTries
            /\ ReadBlock
            /\ pos = Len(File) => UNCHANGED up
            /\ UNCHANGED <<num, base, down, receiver>>

\* Mutant: a refused block is read again from the source.
TickResendRead == /\ state = "RESEND"
                  /\ ReadBlock
                  /\ pos = Len(File) => UNCHANGED up
                  /\ UNCHANGED <<num, tries, base, down, receiver>>

TickResend == /\ state = "RESEND"
              /\ state' = "SENDING"
              /\ UNCHANGED <<num, tries, buffer, pos, base, down, up, receiver>>

\* XBEE_XMODEM_STATE_SENDING, when the serial buffer takes the last part of
\* the packet.
TickSending == /\ state = "SENDING"
               /\ down' = Append(down, [kind |-> "block", num |-> num % NumMod,
                                        data |-> buffer, ok |-> TRUE])
               /\ state' = "WAIT_ACK"
               /\ UNCHANGED <<num, tries, buffer, pos, base, up, receiver>>

\* Mutant: the next block has the number of the last.
AckedSameNumber == /\ state = "WAIT_ACK" /\ up # <<>> /\ Head(up) = "ACK"
                   /\ state' = "SEND"
                   /\ up' = Tail(up)
                   /\ UNCHANGED <<num, tries, buffer, pos, base, down, receiver>>

Acked == /\ state = "WAIT_ACK" /\ up # <<>> /\ Head(up) = "ACK"
         /\ num' = num + 1
         /\ state' = "SEND"
         /\ up' = Tail(up)
         /\ UNCHANGED <<tries, buffer, pos, base, down, receiver>>

\* Mutant: the count is tested before it is decremented.
TryAgainTestFirst(s) == /\ tries' = tries - 1
                        /\ \/ tries > 0 /\ state' = s /\ UNCHANGED down
                           \/ tries = 0 /\ GiveUp

\* Mutant: attempts are not counted.
TryAgainForever(s) == state' = s /\ UNCHANGED <<tries, down>>

TryAgain(s) == /\ tries' = tries - 1
               /\ \/ tries > 1 /\ state' = s /\ UNCHANGED down
                  \/ tries = 1 /\ GiveUp

\* Anything but an acknowledgement is taken as a refusal.
Refused == /\ state = "WAIT_ACK" /\ up # <<>> /\ Head(up) # "ACK"
           /\ TryAgain("RESEND")
           /\ up' = Tail(up)
           /\ UNCHANGED <<num, buffer, pos, base, receiver>>

\* Ten seconds without an answer to a block, three without one to the end.
Quiet == Punctual => down = <<>>

BlockTimeout == /\ state = "WAIT_ACK" /\ up = <<>> /\ Quiet
                /\ TryAgain("RESEND")
                /\ UNCHANGED <<num, buffer, pos, base, up, receiver>>

\* XBEE_XMODEM_STATE_EOF: EOT is not sent if the serial buffer is full.
TickEof == /\ state = "EOF"
           /\ \/ down' = Append(down, [kind |-> "EOT", num |-> 0, data |-> None, ok |-> TRUE])
              \/ UNCHANGED down
           /\ state' = "FINAL_ACK"
           /\ UNCHANGED <<num, tries, buffer, pos, base, up, receiver>>

FinalAcked == /\ state = "FINAL_ACK" /\ up # <<>> /\ Head(up) = "ACK"
              /\ state' = "SUCCESS"
              /\ up' = Tail(up)
              /\ UNCHANGED <<num, tries, buffer, pos, base, down, receiver>>

FinalRefused == /\ state = "FINAL_ACK" /\ up # <<>> /\ Head(up) # "ACK"
                /\ TryAgain("EOF")
                /\ up' = Tail(up)
                /\ UNCHANGED <<num, buffer, pos, base, receiver>>

FinalTimeout == /\ state = "FINAL_ACK" /\ up = <<>> /\ Quiet
                /\ TryAgain("EOF")
                /\ UNCHANGED <<num, buffer, pos, base, up, receiver>>

Tick == \/ TickStart \/ TickSend \/ TickResend \/ TickSending
        \/ Acked \/ Refused \/ BlockTimeout
        \/ TickEof \/ FinalAcked \/ FinalRefused \/ FinalTimeout

-----------------------------------------------------------------------------
(* The receiver *)

Reply(c) == up' = Append(up, c)

Ask == /\ rstate = "waiting" /\ down = <<>> /\ Len(up) < 2
       /\ Punctual => state \in {"START"} \cup Ended
       /\ Reply("C")
       /\ UNCHANGED <<sender, down, receiver>>

BlockArrives ==
   /\ down # <<>> /\ Head(down).kind = "block" /\ rstate \in {"waiting", "receiving"}
   /\ LET next == (Len(got) + 1) % NumMod
          last == Len(got) % NumMod
      IN  \/ /\ ~Head(down).ok
             /\ Reply("NAK") /\ UNCHANGED receiver
          \/ /\ Head(down).ok /\ Head(down).num = next
             /\ got' = Append(got, Head(down).data) /\ rstate' = "receiving"
             /\ Reply("ACK")
          \/ /\ Head(down).ok /\ Head(down).num = last /\ got # <<>>
             /\ Reply("ACK") /\ UNCHANGED receiver
          \/ /\ Head(down).ok /\ Head(down).num # next
             /\ Head(down).num = last => got = <<>>
             /\ rstate' = "cancelled" /\ Reply("CAN") /\ UNCHANGED got
   /\ down' = Tail(down)
   /\ UNCHANGED sender

\* A receiver that is done may answer another EOT, or be back at its prompt.
EndArrives == /\ down # <<>> /\ Head(down).kind = "EOT"
              /\ rstate \in {"waiting", "receiving", "done"}
              /\ \/ Reply("ACK")
                 \/ rstate = "done" /\ Reply("other")
              /\ rstate' = "done"
              /\ down' = Tail(down)
              /\ UNCHANGED <<sender, got>>

CancelArrives == /\ down # <<>> /\ Head(down).kind = "CAN"
                 /\ rstate' = IF rstate = "done" THEN "done" ELSE "cancelled"
                 /\ down' = Tail(down)
                 /\ UNCHANGED <<sender, up, got>>

\* Nobody listens any more.
Ignored == /\ down # <<>>
           /\ \/ Head(down).kind = "block" /\ rstate \in {"done", "cancelled"}
              \/ Head(down).kind = "EOT" /\ rstate = "cancelled"
           /\ down' = Tail(down)
           /\ UNCHANGED <<sender, up, receiver>>

-----------------------------------------------------------------------------
(* The line *)

LoseDown == /\ down # <<>>
            /\ down' = Tail(down)
            /\ UNCHANGED <<sender, up, receiver>>

Corrupt == /\ down # <<>> /\ Head(down).kind = "block" /\ Head(down).ok
           /\ down' = [down EXCEPT ![1].ok = FALSE]
           /\ UNCHANGED <<sender, up, receiver>>

\* A character from the receiver is lost, or becomes one that means nothing.
LoseUp == /\ up # <<>>
          /\ up' = Tail(up)
          /\ UNCHANGED <<sender, down, receiver>>

Garble == /\ up # <<>> /\ Head(up) # "other"
          /\ up' = <<"other">> \o Tail(up)
          /\ UNCHANGED <<sender, down, receiver>>

Line == LoseDown \/ Corrupt \/ LoseUp \/ Garble

Receiver == Ask \/ BlockArrives \/ EndArrives \/ CancelArrives \/ Ignored

XNext == Tick \/ Receiver \/ Line

XSpec == XInit /\ [][XNext]_xvars

-----------------------------------------------------------------------------
(* Properties *)

XTypeOK ==
   /\ state \in {"START", "SEND", "RESEND", "SENDING", "WAIT_ACK", "EOF",
                 "FINAL_ACK", "SUCCESS", "FAILURE"}
   /\ num \in Nat /\ tries \in 0 .. MaxTries /\ buffer \in Nat \cup {None}
   /\ pos \in 0 .. Len(File) /\ base \in 0 .. pos
   /\ down \in Seq(Packet) /\ up \in Seq(Chars)
   /\ got \in Seq(Nat)
   /\ rstate \in {"waiting", "receiving", "done", "cancelled"}

\* What the receiver has accepted is what the source gave, in order, without a
\* gap or a repetition, whatever the line lost or corrupted.
InOrder == /\ Len(got) <= pos - base
           /\ \A i \in 1 .. Len(got) : got[i] = File[base + i]

\* A transfer that ends in success has delivered all that was read, to the end
\* of the source.
Complete == state = "SUCCESS" /\ rstate = "done" =>
               pos = Len(File) /\ Len(got) = pos - base
=============================================================================
