---------------------------- MODULE XbeeFirmware ----------------------------
(***************************************************************************)
(* xbee_fw_install_ebl_tick of xbee_firmware.c, which loads new firmware   *)
(* into an XBee module: reset it with the line held in a break, so that    *)
(* its bootloader starts; at the bootloader's prompt ask for an upload;    *)
(* send the image with XbeeXmodem; at the prompt after it, run the image.  *)
(* A step that takes too long is repeated from the reset.                  *)
(*                                                                         *)
(* The bootloader is not in this repository: it answers a carriage return  *)
(* with its prompt, 1 with the start of an upload, and 2 by running what   *)
(* it has.                                                                 *)
(***************************************************************************)
EXTENDS XbeeXmodem

VARIABLES fstate,  \* source->state
          ftries,  \* source->tries
          result   \* what the last tick returned
fvars == <<fstate, ftries, result>>
vars == <<xvars, fvars>>

MaxResets == 3

FwInit == /\ XInit
          /\ fstate = "INIT" /\ ftries = 0 /\ result = "0"

Say(c) == down' = Append(down, [kind |-> c, num |-> 0, data |-> None, ok |-> TRUE])

-----------------------------------------------------------------------------
(* xbee_fw_install_ebl_tick, by the state of the update *)

\* XBEE_FW_STATE_INIT and _RESET: close and open the serial port, hold the
\* break and reset the module. The source is not rewound.
FwReset == /\ fstate \in {"INIT", "RESET"}
           /\ ftries' = IF fstate = "INIT" THEN 0 ELSE ftries
           /\ fstate' = "BREAK"
           /\ down' = <<>> /\ up' = <<>> /\ rstate' = "menu" /\ got' = <<>>
           /\ UNCHANGED <<sender, result>>

FwBreak == /\ fstate = "BREAK"
           /\ Say("CR")
           /\ fstate' = "PROMPT"
           /\ UNCHANGED <<sender, up, receiver, ftries, result>>

\* A character other than the expected one is dropped.
FwSkip == /\ \/ fstate \in {"PROMPT", "FINAL_PROMPT"} /\ up # <<>> /\ Head(up) # ">"
             \/ fstate = "XMODEM_WAIT" /\ up # <<>> /\ Head(up) # "C"
          /\ up' = Tail(up)
          /\ UNCHANGED <<sender, down, receiver, fvars>>

FwPrompt == /\ fstate = "PROMPT" /\ up # <<>> /\ Head(up) = ">"
            /\ up' = Tail(up)
            /\ Say("1")
            /\ fstate' = "XMODEM_WAIT"
            /\ UNCHANGED <<sender, receiver, ftries, result>>

\* xbee_xmodem_tx_init
FwStart == /\ fstate = "XMODEM_WAIT" /\ up # <<>> /\ Head(up) = "C"
           /\ up' = Tail(up)
           /\ state' = "START" /\ num' = 0 /\ base' = pos
           /\ fstate' = "XMODEM_SEND"
           /\ UNCHANGED <<tries, buffer, pos, down, receiver, ftries, result>>

\* Mutant: the answer to the end of the transmission is not waited for.
FwSendEarly == /\ fstate = "XMODEM_SEND"
               /\ Tick
               /\ fstate' = CASE state' \in {"FINAL_ACK", "SUCCESS"} -> "XMODEM_DONE"
                              [] state' = "FAILURE" -> "FAILURE"
                              [] OTHER              -> "XMODEM_SEND"
               /\ result' = IF state' = "FAILURE" THEN "-ETIMEDOUT" ELSE result
               /\ UNCHANGED ftries

FwSend == /\ fstate = "XMODEM_SEND"
          /\ Tick
          /\ fstate' = CASE state' = "SUCCESS" -> "XMODEM_DONE"
                         [] state' = "FAILURE" -> "FAILURE"
                         [] OTHER              -> "XMODEM_SEND"
          /\ result' = IF state' = "FAILURE" THEN "-ETIMEDOUT" ELSE result
          /\ UNCHANGED ftries

\* Three seconds after the transfer.
FwDone == /\ fstate = "XMODEM_DONE"
          /\ Say("CR")
          /\ fstate' = "FINAL_PROMPT"
          /\ UNCHANGED <<sender, up, receiver, ftries, result>>

FwRun == /\ fstate = "FINAL_PROMPT" /\ up # <<>> /\ Head(up) = ">"
         /\ up' = Tail(up)
         /\ Say("2")
         /\ fstate' = "SUCCESS" /\ result' = "1"
         /\ UNCHANGED <<sender, receiver, ftries>>

\* XBEE_FW_LOAD_TIMEOUT
FwTimeout == /\ fstate \in {"PROMPT", "XMODEM_WAIT", "FINAL_PROMPT"}
             /\ up = <<>> /\ Quiet
             /\ ftries < MaxResets
             /\ ftries' = ftries + 1
             /\ \/ ftries' < MaxResets /\ fstate' = "RESET" /\ UNCHANGED result
                \/ ftries' = MaxResets /\ result' = "-ETIMEDOUT" /\ UNCHANGED fstate
             /\ UNCHANGED xvars

FwTick == \/ FwReset \/ FwBreak \/ FwSkip \/ FwPrompt \/ FwStart
          \/ FwSend \/ FwDone \/ FwRun \/ FwTimeout

-----------------------------------------------------------------------------
(* The bootloader *)

\* What it receives between uploads is for its menu.
Menu == /\ down # <<>> /\ rstate \in {"menu", "done", "cancelled"}
        /\ \/ Head(down).kind = "CR" /\ up' = Append(up, ">") /\ UNCHANGED receiver
           \/ Head(down).kind = "1" /\ rstate' = "waiting" /\ got' = <<>> /\ UNCHANGED up
           \/ Head(down).kind = "2" /\ rstate' = "running" /\ UNCHANGED <<up, got>>
        /\ down' = Tail(down)
        /\ UNCHANGED <<sender, fvars>>

Upload == (Receiver \/ Line) /\ UNCHANGED fvars

-----------------------------------------------------------------------------

FwNext == FwTick \/ Menu \/ Upload

\* The application calls the tick until it returns something else than 0, and
\* what is under way arrives, or does not, in the end.
Passes == \/ Menu
          \/ /\ BlockArrives \/ EndArrives \/ CancelArrives \/ Ignored \/ LoseDown
             /\ UNCHANGED fvars

FwSpec == FwInit /\ [][FwNext]_vars /\ WF_vars(FwTick) /\ WF_vars(Passes)

-----------------------------------------------------------------------------
(* Properties *)

FwTypeOK ==
   /\ fstate \in {"INIT", "RESET", "BREAK", "PROMPT", "XMODEM_WAIT", "XMODEM_SEND",
                  "XMODEM_DONE", "FINAL_PROMPT", "SUCCESS", "FAILURE"}
   /\ ftries \in 0 .. MaxResets /\ result \in {"0", "1", "-ETIMEDOUT"}
   /\ pos \in 0 .. Len(File) /\ base \in 0 .. pos /\ tries \in 0 .. MaxTries
   /\ Len(down) <= 2 /\ Len(up) <= 2
   /\ rstate \in {"menu", "waiting", "receiving", "done", "cancelled", "running"}

\* From the end of a transfer until the module is told to run it, the module
\* holds all that the source gave since the transfer began.
Loaded == fstate \in {"XMODEM_DONE", "FINAL_PROMPT", "SUCCESS"} =>
             /\ pos = Len(File) /\ Len(got) = pos - base
             /\ rstate \in {"done", "running"}

\* The update is said to have completed only if the module has the image.
ImageComplete == result = "1" => got = File

\* A transfer that has started ends, in success or with an error.
TransferEnds ==
   (fstate = "XMODEM_SEND" /\ state # "START") ~> fstate # "XMODEM_SEND"
=============================================================================
