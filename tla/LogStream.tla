----------------------------- MODULE LogStream -----------------------------
(***************************************************************************)
(* What the logging interface (abstraction/log.h) promises its callers: a  *)
(* first-in first-out stream of bytes to a device.  Bytes that were logged *)
(* wait until the device takes them, in the order they were logged and     *)
(* each once.  Only a device that reports errors makes waiting bytes go.   *)
(***************************************************************************)
EXTENDS Naturals, Sequences

VARIABLES
  device,    \* where the log goes: the screen, the EFI console or a file
  logged,    \* the bytes logged so far
  waiting,   \* the bytes logged that the device has not taken
  out        \* what the device was given, one output per byte

First(s, k) == SubSeq(s, 1, k)
Rest(s, k) == SubSeq(s, k + 1, Len(s))

\* The EFI console is given a carriage return with every newline.
Shown(byte) == IF device = "console" /\ byte = "LF" THEN "CRLF" ELSE byte
ShownAll(bytes) == [i \in DOMAIN bytes |-> Shown(bytes[i])]

Log == /\ Len(logged') >= Len(logged)
       /\ First(logged', Len(logged)) = logged
       /\ waiting' = waiting \o Rest(logged', Len(logged))
       /\ UNCHANGED <<device, out>>

Deliver == \E k \in 1 .. Len(waiting) :
             /\ out' = out \o ShownAll(First(waiting, k))
             /\ waiting' = Rest(waiting, k)
             /\ UNCHANGED <<device, logged>>

Lose == /\ device = "file"
        /\ waiting' = <<>>
        /\ UNCHANGED <<device, logged, out>>

Init == /\ device \in {"screen", "console", "file"}
        /\ logged = <<>> /\ waiting = <<>> /\ out = <<>>

Spec == Init /\ [][Log \/ Deliver \/ Lose]_<<device, logged, waiting, out>>
=============================================================================
