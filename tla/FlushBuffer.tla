---------------------------- MODULE FlushBuffer ----------------------------
(***************************************************************************)
(* The log buffer behind KLOG and PLOG, as it is written three times: for  *)
(* the kernel (freestanding/log.c, to the screen), for the OS loader       *)
(* (efi/log.c, to the firmware's console) and for hosted programs          *)
(* (posix/log.c, to a file descriptor).  The three differ only in how a    *)
(* flush hands the bytes over: the screen takes all of them at once, the   *)
(* console one character at a time, and write() any number of them or      *)
(* none, or it fails.                                                      *)
(***************************************************************************)
EXTENDS Integers, Sequences

CONSTANTS
  FLUSH_BUFFER_SIZE,   \* bytes in the buffer
  Bytes,               \* the bytes strings are made of, "LF" and "NUL" among them
  Strings,             \* the strings that are logged
  Zeros,               \* numbers of zero bytes that are logged
  Devices,             \* the devices to consider
  MaxCalls             \* bound on the calls made

ASSUME BufferAssumption == /\ FLUSH_BUFFER_SIZE \in Nat \ {0}
                           /\ {"LF", "NUL"} \subseteq Bytes /\ "CRLF" \notin Bytes
                           /\ Strings \subseteq Seq(Bytes) /\ Zeros \subseteq Nat
                           /\ Devices \subseteq {"screen", "console", "file"}
                           /\ MaxCalls \in Nat

VARIABLES
  device,   \* the environment the program is built for
  buf,      \* buffer->array: the bytes in the buffer
  out,      \* what the device was given, one output per byte
  pc,       \* where the call in progress is
  data,     \* the bytes of the call that are not in the buffer yet
  flags,    \* the flags of the call that have not been handled yet
  sent,     \* bytesWritten of the flush in progress
  resume,   \* where the call goes on after the flush
  asked,    \* the flags the last call was made with
  result,   \* what the last call returned
  logged,   \* every byte put into the buffer so far
  failed,   \* a write has failed
  calls     \* calls made so far

call == <<pc, data, flags, resume, asked, result>>
history == <<logged, failed, calls>>
vars == <<device, buf, out, sent, call, history>>

\* The bytes in the buffer that the flush in progress has not handed over.
Waiting == SubSeq(buf, sent + 1, Len(buf))

Stream == INSTANCE LogStream WITH waiting <- Waiting

\* The bytes a device may take when it is offered n, if it does not fail.
Takes(n) == CASE device = "screen" -> {n}
              [] device = "console" -> {1}
              [] device = "file" -> 0 .. n

-----------------------------------------------------------------------------

Start(bytes, fs) ==
  /\ pc = "idle"
  /\ calls < MaxCalls /\ calls' = calls + 1
  /\ pc' = "append" /\ data' = bytes /\ flags' = fs /\ asked' = fs
  /\ UNCHANGED <<device, buf, out, sent, resume, result, logged, failed>>

appendToFlushBuffer(string, fs) == Start(string, fs)
appendZeroToFlushBuffer(bytes, fs) == Start([i \in 1 .. bytes |-> "NUL"], fs)
flushStandardBuffer == Start(<<>>, {"FLUSH"})

\* The call goes on with a flush, and after it at `then'.
Flush(then) == pc' = "flush" /\ resume' = then

\* Variant with a defect: a buffer that was full already is not flushed.
AppendCopyStuck ==
  LET space == FLUSH_BUFFER_SIZE - Len(buf)
      n == IF space < Len(data) THEN space ELSE Len(data)
  IN
  /\ pc = "append" /\ data # <<>>
  /\ buf' = buf \o SubSeq(data, 1, n)
  /\ logged' = logged \o SubSeq(data, 1, n)
  /\ data' = SubSeq(data, n + 1, Len(data))
  /\ IF n > 0 /\ Len(buf) + n = FLUSH_BUFFER_SIZE
       THEN Flush("append") ELSE UNCHANGED <<pc, resume>>
  /\ UNCHANGED <<device, out, flags, sent, asked, result, failed, calls>>

\* One turn of the loop: as many bytes as there is space for.
AppendCopy ==
  LET space == FLUSH_BUFFER_SIZE - Len(buf)
      n == IF space < Len(data) THEN space ELSE Len(data)
  IN
  /\ pc = "append" /\ data # <<>>
  /\ buf' = buf \o SubSeq(data, 1, n)
  /\ logged' = logged \o SubSeq(data, 1, n)
  /\ data' = SubSeq(data, n + 1, Len(data))
  /\ IF Len(buf) + n = FLUSH_BUFFER_SIZE THEN Flush("append") ELSE UNCHANGED <<pc, resume>>
  /\ UNCHANGED <<device, out, flags, sent, asked, result, failed, calls>>

AppendDone ==
  /\ pc = "append" /\ data = <<>>
  /\ pc' = "flags"
  /\ UNCHANGED <<device, buf, out, data, flags, sent, resume, asked, result, history>>

\* handleFlags: a newline that finds the buffer full flushes it first.
NewlineFull ==
  /\ pc = "flags" /\ "NEWLINE" \in flags
  /\ Len(buf) >= FLUSH_BUFFER_SIZE
  /\ Flush("flags")
  /\ UNCHANGED <<device, buf, out, data, flags, sent, asked, result, history>>

\* Variant with a defect: the last place is taken for one too many.
NewlineStoreOffByOne ==
  /\ pc = "flags" /\ "NEWLINE" \in flags
  /\ Len(buf) <= FLUSH_BUFFER_SIZE
  /\ buf' = Append(buf, "LF") /\ logged' = Append(logged, "LF")
  /\ flags' = flags \ {"NEWLINE"}
  /\ UNCHANGED <<device, out, pc, data, sent, resume, asked, result, failed, calls>>

NewlineStore ==
  /\ pc = "flags" /\ "NEWLINE" \in flags
  /\ Len(buf) < FLUSH_BUFFER_SIZE
  /\ buf' = Append(buf, "LF") /\ logged' = Append(logged, "LF")
  /\ flags' = flags \ {"NEWLINE"}
  /\ UNCHANGED <<device, out, pc, data, sent, resume, asked, result, failed, calls>>

\* Variant with a defect: the flush may come before the newline.
FlushFlagFirst ==
  /\ pc = "flags" /\ "FLUSH" \in flags
  /\ Flush("flags") /\ flags' = flags \ {"FLUSH"}
  /\ UNCHANGED <<device, buf, out, data, sent, asked, result, history>>

FlushFlag ==
  /\ pc = "flags" /\ "NEWLINE" \notin flags /\ "FLUSH" \in flags
  /\ Flush("flags") /\ flags' = flags \ {"FLUSH"}
  /\ UNCHANGED <<device, buf, out, data, sent, asked, result, history>>

Done ==
  /\ pc = "flags" /\ flags = {}
  /\ pc' = "idle" /\ result' = TRUE
  /\ UNCHANGED <<device, buf, out, data, flags, sent, resume, asked, history>>

\* Variant with a defect: after a short write the flush starts over.
WriteFromStart ==
  /\ pc = "flush" /\ sent < Len(buf)
  /\ \E n \in Takes(Len(buf) - sent) :
       /\ out' = out \o Stream!ShownAll(SubSeq(buf, 1, n))
       /\ sent' = sent + n
  /\ UNCHANGED <<device, buf, call, history>>

\* flushBuffer, flushBufferWithFileDescriptor: hand over the next bytes.
Write ==
  /\ pc = "flush" /\ sent < Len(buf)
  /\ \E n \in Takes(Len(buf) - sent) :
       /\ out' = out \o Stream!ShownAll(SubSeq(buf, sent + 1, sent + n))
       /\ sent' = sent + n
  /\ UNCHANGED <<device, buf, call, history>>

\* write() fails: what is left in the buffer is dropped and the call returns false,
\* or, in a build with assertions, the program ends at ASSERT(false).
WriteFails ==
  /\ pc = "flush" /\ sent < Len(buf) /\ device = "file"
  /\ buf' = <<>> /\ sent' = 0
  /\ pc' \in {"idle", "assertion"} /\ result' = FALSE /\ data' = <<>> /\ flags' = {}
  /\ failed' = TRUE
  /\ UNCHANGED <<device, out, resume, asked, logged, calls>>

\* Variants with a defect: the buffer, or the count of bytes handed over, is not
\* reset after the flush.
FlushDoneKeepsBytes ==
  /\ pc = "flush" /\ sent = Len(buf)
  /\ sent' = 0
  /\ pc' = resume
  /\ UNCHANGED <<device, buf, out, data, flags, resume, asked, result, history>>
FlushDoneKeepsSent ==
  /\ pc = "flush" /\ sent = Len(buf)
  /\ buf' = <<>>
  /\ pc' = resume
  /\ UNCHANGED <<device, out, data, flags, sent, resume, asked, result, history>>

FlushDone ==
  /\ pc = "flush" /\ sent = Len(buf)
  /\ buf' = <<>> /\ sent' = 0
  /\ pc' = resume
  /\ UNCHANGED <<device, out, data, flags, resume, asked, result, history>>

\* The program has made all its calls, or an assertion ended it.
Finished == ((pc = "idle" /\ calls = MaxCalls) \/ pc = "assertion") /\ UNCHANGED vars

-----------------------------------------------------------------------------

Init ==
  /\ device \in Devices
  /\ buf = <<>> /\ out = <<>> /\ sent = 0
  /\ pc = "idle" /\ data = <<>> /\ flags = {} /\ resume = "idle"
  /\ asked = {} /\ result = TRUE
  /\ logged = <<>> /\ failed = FALSE /\ calls = 0

Flags == SUBSET {"NEWLINE", "FLUSH"}

NewCall ==
  \/ \E string \in Strings, fs \in Flags : appendToFlushBuffer(string, fs)
  \/ \E bytes \in Zeros, fs \in Flags : appendZeroToFlushBuffer(bytes, fs)
  \/ flushStandardBuffer

Step == \/ AppendCopy \/ AppendDone \/ NewlineFull \/ NewlineStore \/ FlushFlag \/ Done
        \/ Write \/ WriteFails \/ FlushDone

Next == NewCall \/ Step \/ Finished

Spec == Init /\ [][Next]_vars

\* A call in progress goes on, and a write() of some bytes to a file eventually
\* takes one or fails.
FairSpec == Spec /\ WF_vars(Step)

-----------------------------------------------------------------------------

\* The types of the buffer, the call in progress and the histories.
TypeOK ==
  /\ device \in {"screen", "console", "file"}
  /\ buf \in Seq(Bytes) /\ data \in Seq(Bytes) /\ logged \in Seq(Bytes)
  /\ out \in Seq(Bytes \cup {"CRLF"})
  /\ sent \in 0 .. Len(buf)
  /\ pc \in {"idle", "append", "flags", "flush", "assertion"}
  /\ resume \in {"idle", "append", "flags"}
  /\ flags \in Flags /\ asked \in Flags /\ flags \subseteq asked
  /\ result \in BOOLEAN /\ failed \in BOOLEAN
  /\ calls \in 0 .. MaxCalls

\* No byte is stored behind the buffer: neither by copying a string longer than
\* the buffer nor by the newline that follows a string that just filled it.
WithinBuffer == Len(buf) <= FLUSH_BUFFER_SIZE

\* As long as no write has failed, the device was given every byte logged, in
\* order and once, but for those still in the buffer.
NothingLost ==
  ~failed => out \o Stream!ShownAll(Waiting) = Stream!ShownAll(logged)

\* A call that was asked to flush and returned true leaves nothing behind.
FlushedMeansDelivered ==
  pc = "idle" /\ "FLUSH" \in asked /\ result => buf = <<>>

\* The buffer implements the stream LogStream promises: what is given to the
\* device is what was logged, in order and once, whatever a short write() took;
\* only a failed write to a file drops bytes, and then all that wait.
IsStream == Stream!Spec

\* Every call returns, whatever the device does short of taking nothing forever,
\* unless a failed write ends the program at its assertion.
CallsReturn == pc # "idle" ~> pc \in {"idle", "assertion"}
=============================================================================
