------------------------- MODULE FlushBufferProofs -------------------------
(***************************************************************************)
(* Proofs about the log buffer, for every buffer size, every device and    *)
(* every sequence of calls, and about a block of calls that KFLUSH_AFTER   *)
(* or PFLUSH_AFTER runs on it.                                             *)
(***************************************************************************)
EXTENDS FlushAfter, SequenceTheorems, FiniteSetTheorems, NaturalsInduction,
        WellFoundedInduction, TLAPS

Outputs == Bytes \cup {"CRLF"}

\* Concatenation, for sequences of outputs.
LEMMA OutputsConcat ==
  ASSUME NEW x \in Seq(Outputs), NEW y \in Seq(Outputs)
  PROVE  /\ x \o y \in Seq(Outputs)
         /\ Len(x \o y) = Len(x) + Len(y)
         /\ \A i \in 1 .. Len(x) + Len(y) :
               (x \o y)[i] = IF i <= Len(x) THEN x[i] ELSE y[i - Len(x)]
  BY ConcatProperties

LEMMA OutputsAssociative ==
  ASSUME NEW x \in Seq(Outputs), NEW y \in Seq(Outputs), NEW z \in Seq(Outputs)
  PROVE  (x \o y) \o z = x \o (y \o z)
  BY ConcatAssociative

\* What is shown for a sequence of bytes is a sequence of as many outputs.
LEMMA ShownFacts ==
  ASSUME NEW s \in Seq(Bytes)
  PROVE  /\ Stream!ShownAll(s) \in Seq(Outputs)
         /\ Len(Stream!ShownAll(s)) = Len(s)
         /\ \A i \in 1 .. Len(s) : Stream!ShownAll(s)[i] = Stream!Shown(s[i])
<1>1. DOMAIN s = 1 .. Len(s) /\ Len(s) \in Nat /\ \A i \in 1 .. Len(s) : s[i] \in Bytes
  BY LenProperties, ElementOfSeq
<1>2. \A i \in 1 .. Len(s) : Stream!Shown(s[i]) \in Outputs
  BY <1>1 DEF Stream!Shown, Outputs
<1>3. Stream!ShownAll(s) = [i \in 1 .. Len(s) |-> Stream!Shown(s[i])]
  BY <1>1 DEF Stream!ShownAll
<1> QED
  BY <1>1, <1>2, <1>3

\* Bytes are shown one by one: it does not matter how a string is cut up.
LEMMA ShownConcat ==
  ASSUME NEW s \in Seq(Bytes), NEW t \in Seq(Bytes)
  PROVE  Stream!ShownAll(s \o t) = Stream!ShownAll(s) \o Stream!ShownAll(t)
<1> DEFINE a == Stream!ShownAll(s)
           b == Stream!ShownAll(t)
           c == Stream!ShownAll(s \o t)
<1>1. /\ s \o t \in Seq(Bytes) /\ Len(s \o t) = Len(s) + Len(t)
      /\ \A i \in 1 .. Len(s) + Len(t) :
            (s \o t)[i] = IF i <= Len(s) THEN s[i] ELSE t[i - Len(s)]
      /\ Len(s) \in Nat /\ Len(t) \in Nat
  BY ConcatProperties, LenProperties
<1>2. /\ a \in Seq(Outputs) /\ Len(a) = Len(s)
      /\ \A i \in 1 .. Len(s) : a[i] = Stream!Shown(s[i])
  BY ShownFacts
<1>3. /\ b \in Seq(Outputs) /\ Len(b) = Len(t)
      /\ \A i \in 1 .. Len(t) : b[i] = Stream!Shown(t[i])
  BY ShownFacts
<1>4. /\ c \in Seq(Outputs) /\ Len(c) = Len(s) + Len(t)
      /\ \A i \in 1 .. Len(s) + Len(t) : c[i] = Stream!Shown((s \o t)[i])
  BY <1>1, ShownFacts
<1> HIDE DEF a, b, c
<1>5. /\ a \o b \in Seq(Outputs) /\ Len(a \o b) = Len(s) + Len(t)
      /\ \A i \in 1 .. Len(s) + Len(t) :
            (a \o b)[i] = IF i <= Len(s) THEN a[i] ELSE b[i - Len(s)]
  <2>1. /\ a \o b \in Seq(Outputs) /\ Len(a \o b) = Len(a) + Len(b)
        /\ \A i \in 1 .. Len(a) + Len(b) :
              (a \o b)[i] = IF i <= Len(a) THEN a[i] ELSE b[i - Len(a)]
    BY <1>2, <1>3, OutputsConcat
  <2> QED
    BY <1>2, <1>3, <2>1, Zenon
<1>6. ASSUME NEW i \in 1 .. Len(s) + Len(t) PROVE c[i] = (a \o b)[i]
  <2>1. CASE i <= Len(s)
    <3>1. i \in 1 .. Len(s)
      BY <1>1, <2>1
    <3> QED
      BY <1>1, <1>2, <1>4, <1>5, <2>1, <3>1
  <2>2. CASE ~(i <= Len(s))
    <3>1. i - Len(s) \in 1 .. Len(t)
      BY <1>1, <2>2
    <3> QED
      BY <1>1, <1>3, <1>4, <1>5, <2>2, <3>1
  <2> QED
    BY <2>1, <2>2
<1>7. c = a \o b
  BY <1>4, <1>5, <1>6, SeqEqual
<1> QED
  BY <1>7 DEF a, b, c

\* Nothing is shown for no bytes.
LEMMA ShownNothing == Stream!ShownAll(<<>>) = <<>>
<1>1. Stream!ShownAll(<<>>) \in Seq(Outputs) /\ Len(Stream!ShownAll(<<>>)) = 0
  BY ShownFacts, EmptySeq
<1> QED
  BY <1>1, EmptySeq

-----------------------------------------------------------------------------
(* The inductive invariant.                                                *)

\* Which flags are still to be handled, and when the buffer is empty.
FlagsInv ==
  /\ pc = "append" \/ (pc = "flush" /\ resume = "append") => flags = asked
  /\ pc = "flush" => resume # "idle"
  /\ pc \in {"flags", "flush"} /\ "FLUSH" \in asked \ flags => "NEWLINE" \notin flags
  /\ pc = "flags" /\ "FLUSH" \in asked \ flags => buf = <<>>

SentInv == pc # "flush" => sent = 0

IInv == /\ TypeOK /\ WithinBuffer /\ NothingLost /\ FlushedMeansDelivered
        /\ FlagsInv /\ SentInv

\* A call starts.
LEMMA StartKeeps ==
  ASSUME IInv, NEW bytes \in Seq(Bytes), NEW fs \in Flags, Start(bytes, fs)
  PROVE  IInv'
<1> USE DEF IInv, Start
<1>1. TypeOK'
  <2>1. calls' \in 0 .. MaxCalls
    BY BufferAssumption DEF TypeOK
  <2> QED
    BY <2>1 DEF TypeOK
<1>2. Waiting' = Waiting /\ Stream!ShownAll(Waiting)' = Stream!ShownAll(Waiting)
      /\ Stream!ShownAll(logged)' = Stream!ShownAll(logged)
  BY DEF Waiting, Stream!ShownAll, Stream!Shown
<1>3. NothingLost'
  BY <1>2 DEF NothingLost
<1>4. WithinBuffer' /\ FlushedMeansDelivered' /\ FlagsInv' /\ SentInv'
  BY DEF WithinBuffer, FlushedMeansDelivered, FlagsInv, SentInv
<1> QED
  BY <1>1, <1>3, <1>4

\* Bytes go into the buffer while no flush is in progress.
LEMMA StoreKeepsStream ==
  ASSUME IInv, pc # "flush", NEW chunk \in Seq(Bytes),
         buf' = buf \o chunk, logged' = logged \o chunk,
         UNCHANGED <<device, out, sent, failed>>
  PROVE  /\ NothingLost' /\ buf' \in Seq(Bytes) /\ logged' \in Seq(Bytes)
         /\ Waiting' = Waiting \o chunk
<1>1. /\ buf \in Seq(Bytes) /\ logged \in Seq(Bytes) /\ out \in Seq(Outputs) /\ sent = 0
      /\ sent' = 0
  BY DEF IInv, TypeOK, SentInv, Outputs
<1>2. /\ buf' \in Seq(Bytes) /\ logged' \in Seq(Bytes)
  BY <1>1, ConcatProperties
<1>3. Waiting = buf /\ Waiting' = buf'
  BY <1>1, <1>2, SubSeqFull DEF Waiting
<1>4. /\ Stream!ShownAll(Waiting)' = Stream!ShownAll(buf')
      /\ Stream!ShownAll(logged)' = Stream!ShownAll(logged')
  BY <1>3 DEF Stream!ShownAll, Stream!Shown
<1>5. ASSUME ~failed
      PROVE  out \o Stream!ShownAll(buf \o chunk) = Stream!ShownAll(logged \o chunk)
  <2> DEFINE a == Stream!ShownAll(buf)
             b == Stream!ShownAll(chunk)
  <2>1. a \in Seq(Outputs) /\ b \in Seq(Outputs)
    BY <1>1, ShownFacts
  <2>2. Stream!ShownAll(buf \o chunk) = a \o b
    BY <1>1, ShownConcat
  <2>3. Stream!ShownAll(logged \o chunk) = Stream!ShownAll(logged) \o b
    BY <1>1, ShownConcat
  <2>4. out \o a = Stream!ShownAll(logged)
    BY <1>3, <1>5 DEF IInv, NothingLost
  <2>5. (out \o a) \o b = out \o (a \o b)
    <3> HIDE DEF a, b
    <3> QED
      BY <1>1, <2>1, OutputsAssociative
  <2> QED
    BY <2>2, <2>3, <2>4, <2>5
<1>6. NothingLost'
  BY <1>4, <1>5 DEF NothingLost
<1> QED
  BY <1>2, <1>3, <1>6

\* The loop that copies a string.
LEMMA AppendCopyKeeps == ASSUME IInv, AppendCopy PROVE IInv'
<1> DEFINE space == FLUSH_BUFFER_SIZE - Len(buf)
           n == IF space < Len(data) THEN space ELSE Len(data)
           chunk == SubSeq(data, 1, n)
<1>1. /\ pc = "append" /\ data # <<>> /\ buf' = buf \o chunk
      /\ logged' = logged \o chunk /\ data' = SubSeq(data, n + 1, Len(data))
      /\ \/ pc' = "flush" /\ resume' = "append"
         \/ UNCHANGED <<pc, resume>>
      /\ UNCHANGED <<device, out, flags, sent, asked, result, failed, calls>>
  BY DEF AppendCopy, Flush
<1>2. /\ TypeOK /\ WithinBuffer /\ FlagsInv /\ SentInv /\ sent = 0
  BY <1>1 DEF IInv, SentInv
<1>3. /\ buf \in Seq(Bytes) /\ data \in Seq(Bytes) /\ Len(buf) \in Nat /\ Len(data) \in Nat
      /\ Len(buf) <= FLUSH_BUFFER_SIZE /\ FLUSH_BUFFER_SIZE \in Nat
  BY <1>2, BufferAssumption, LenProperties DEF TypeOK, WithinBuffer
<1>4. n \in Nat /\ n <= Len(data) /\ Len(buf) + n <= FLUSH_BUFFER_SIZE
  BY <1>3
<1> HIDE DEF n
<1>5. /\ chunk \in Seq(Bytes) /\ Len(chunk) = n /\ data' \in Seq(Bytes)
  BY <1>1, <1>3, <1>4
<1> HIDE DEF chunk
<1>6. /\ NothingLost' /\ buf' \in Seq(Bytes) /\ logged' \in Seq(Bytes)
  BY <1>1, <1>5, StoreKeepsStream
<1>7. Len(buf') = Len(buf) + n
  BY <1>1, <1>3, <1>5, ConcatProperties
<1>8. WithinBuffer'
  BY <1>4, <1>7 DEF WithinBuffer
<1>9. TypeOK'
  <2>1. sent' \in 0 .. Len(buf')
    BY <1>1, <1>2, <1>3, <1>4, <1>7
  <2> QED
    BY <1>1, <1>2, <1>5, <1>6, <2>1 DEF TypeOK
<1>10. FlagsInv' /\ SentInv' /\ FlushedMeansDelivered'
  BY <1>1, <1>2 DEF FlagsInv, SentInv, FlushedMeansDelivered, TypeOK
<1> QED
  BY <1>6, <1>8, <1>9, <1>10 DEF IInv

\* The newline.
LEMMA NewlineStoreKeeps == ASSUME IInv, NewlineStore PROVE IInv'
<1>1. /\ pc = "flags" /\ "NEWLINE" \in flags /\ Len(buf) < FLUSH_BUFFER_SIZE
      /\ buf' = Append(buf, "LF") /\ logged' = Append(logged, "LF")
      /\ flags' = flags \ {"NEWLINE"}
      /\ UNCHANGED <<device, out, pc, data, sent, resume, asked, result, failed, calls>>
  BY DEF NewlineStore
<1>2. /\ TypeOK /\ FlagsInv /\ SentInv /\ sent = 0
  BY <1>1 DEF IInv, SentInv
<1>3. /\ buf \in Seq(Bytes) /\ logged \in Seq(Bytes) /\ Len(buf) \in Nat
      /\ "LF" \in Bytes /\ FLUSH_BUFFER_SIZE \in Nat
  BY <1>2, BufferAssumption, LenProperties DEF TypeOK
<1>4. <<"LF">> \in Seq(Bytes) /\ buf' = buf \o <<"LF">> /\ logged' = logged \o <<"LF">>
  <2>1. buf' = buf \o <<"LF">>
    BY <1>1, <1>3, AppendIsConcat
  <2>2. logged' = logged \o <<"LF">>
    BY <1>1, <1>3, AppendIsConcat
  <2> QED
    BY <1>3, <2>1, <2>2
<1>5. /\ NothingLost' /\ buf' \in Seq(Bytes) /\ logged' \in Seq(Bytes)
  BY <1>1, <1>4, StoreKeepsStream
<1>6. Len(buf') = Len(buf) + 1
  BY <1>1, <1>3, AppendProperties
<1>7. WithinBuffer'
  BY <1>1, <1>3, <1>6 DEF WithinBuffer
<1>8. TypeOK'
  <2>1. sent' \in 0 .. Len(buf')
    BY <1>1, <1>2, <1>3, <1>6
  <2>2. flags' \in Flags /\ flags' \subseteq asked
    BY <1>1, <1>2 DEF TypeOK, Flags
  <2> QED
    BY <1>1, <1>2, <1>5, <2>1, <2>2 DEF TypeOK
<1>9. FlagsInv' /\ SentInv' /\ FlushedMeansDelivered'
  BY <1>1, <1>2 DEF FlagsInv, SentInv, FlushedMeansDelivered
<1> QED
  BY <1>5, <1>7, <1>8, <1>9 DEF IInv

\* Steps that leave the buffer and the device alone.
LEMMA ControlKeeps ==
  ASSUME IInv, AppendDone \/ NewlineFull \/ FlushFlag \/ Done \/ UNCHANGED vars
  PROVE  IInv'
<1>1. UNCHANGED <<device, buf, out, sent, data, asked, logged, failed, calls>>
  BY DEF AppendDone, NewlineFull, FlushFlag, Done, vars, call, history, Flush
<1>2. /\ TypeOK /\ WithinBuffer /\ NothingLost /\ FlushedMeansDelivered /\ FlagsInv /\ SentInv
  BY DEF IInv
<1>3. Waiting' = Waiting /\ Stream!ShownAll(Waiting)' = Stream!ShownAll(Waiting)
      /\ Stream!ShownAll(logged)' = Stream!ShownAll(logged)
  BY <1>1 DEF Waiting, Stream!ShownAll, Stream!Shown
<1>4. NothingLost' /\ WithinBuffer'
  BY <1>1, <1>2, <1>3 DEF NothingLost, WithinBuffer
<1>5. TypeOK'
  BY <1>1, <1>2 DEF TypeOK, Flags, AppendDone, NewlineFull, FlushFlag, Done, vars, call, history, Flush
<1>6. FlagsInv'
  BY <1>1, <1>2 DEF TypeOK, FlagsInv, AppendDone, NewlineFull, FlushFlag, Done, vars, call, history, Flush
<1>7. SentInv'
  BY <1>1, <1>2 DEF SentInv, AppendDone, NewlineFull, FlushFlag, Done, vars, call, history, Flush
<1>8. FlushedMeansDelivered'
  BY <1>1, <1>2 DEF TypeOK, FlagsInv, FlushedMeansDelivered, AppendDone, NewlineFull, FlushFlag, Done, vars, call, history, Flush
<1> QED
  BY <1>4, <1>5, <1>6, <1>7, <1>8 DEF IInv

\* The bytes handed over are the first of those that wait; the rest go on waiting.
LEMMA WriteFacts ==
  ASSUME TypeOK, pc = "flush", sent < Len(buf), NEW n \in Takes(Len(buf) - sent),
         sent' = sent + n, buf' = buf
  PROVE  /\ n \in 0 .. Len(buf) - sent
         /\ SubSeq(buf, sent + 1, sent + n) \in Seq(Bytes)
         /\ Len(SubSeq(buf, sent + 1, sent + n)) = n
         /\ Waiting \in Seq(Bytes) /\ Len(Waiting) = Len(buf) - sent
         /\ Waiting' \in Seq(Bytes)
         /\ Waiting = SubSeq(buf, sent + 1, sent + n) \o Waiting'
<1>1. /\ buf \in Seq(Bytes) /\ Len(buf) \in Nat /\ sent \in Nat
      /\ device \in {"screen", "console", "file"}
      /\ \A i \in 1 .. Len(buf) : buf[i] \in Bytes
  BY LenProperties, ElementOfSeq DEF TypeOK
<1>2. n \in 0 .. Len(buf) - sent
  BY <1>1 DEF Takes
<1>3. \A i \in sent + 1 .. sent + n : buf[i] \in Bytes
  BY <1>1, <1>2
<1>4. \A i \in sent + 1 .. Len(buf) : buf[i] \in Bytes
  BY <1>1
<1>5. \A i \in (sent + n) + 1 .. Len(buf) : buf[i] \in Bytes
  BY <1>1, <1>2
<1>6. /\ SubSeq(buf, sent + 1, sent + n) \in Seq(Bytes)
      /\ Len(SubSeq(buf, sent + 1, sent + n)) = n
  BY <1>1, <1>2, <1>3, SubSeqProperties
<1>7. Waiting \in Seq(Bytes) /\ Len(Waiting) = Len(buf) - sent
  BY <1>1, <1>4, SubSeqProperties DEF Waiting
<1>8. Waiting' = SubSeq(buf, (sent + n) + 1, Len(buf)) /\ Waiting' \in Seq(Bytes)
  BY <1>1, <1>2, <1>5, SubSeqProperties DEF Waiting
<1>9. Waiting = SubSeq(buf, sent + 1, sent + n) \o Waiting'
  <2>1. /\ sent + 1 \in 1 .. Len(buf) + 1
        /\ sent + n \in (sent + 1) - 1 .. Len(buf)
        /\ Len(buf) \in sent + n .. Len(buf)
    BY <1>1, <1>2
  <2>2. SubSeq(buf, sent + 1, sent + n) \o SubSeq(buf, (sent + n) + 1, Len(buf))
          = SubSeq(buf, sent + 1, Len(buf))
    BY <1>1, <2>1, ConcatAdjacentSubSeq
  <2> QED
    BY <1>8, <2>2 DEF Waiting
<1> QED
  BY <1>2, <1>6, <1>7, <1>8, <1>9

\* A device takes some of the bytes.
LEMMA WriteKeeps == ASSUME IInv, Write PROVE IInv'
<1>1. PICK n \in Takes(Len(buf) - sent) :
         /\ out' = out \o Stream!ShownAll(SubSeq(buf, sent + 1, sent + n))
         /\ sent' = sent + n
  BY DEF Write
<1> DEFINE chunk == SubSeq(buf, sent + 1, sent + n)
<1>2. /\ pc = "flush" /\ sent < Len(buf)
      /\ UNCHANGED <<device, buf, pc, data, flags, resume, asked, result, logged, failed, calls>>
  BY DEF Write, call, history
<1>3. /\ TypeOK /\ WithinBuffer /\ NothingLost /\ FlushedMeansDelivered /\ FlagsInv
  BY DEF IInv
<1>4. /\ n \in 0 .. Len(buf) - sent /\ chunk \in Seq(Bytes)
      /\ Waiting' \in Seq(Bytes) /\ Waiting = chunk \o Waiting'
  BY <1>1, <1>2, <1>3, WriteFacts
<1>5. out \in Seq(Outputs) /\ buf \in Seq(Bytes) /\ Len(buf) \in Nat /\ sent \in Nat
  BY <1>3, LenProperties DEF TypeOK, Outputs
<1> DEFINE a == Stream!ShownAll(chunk)
           b == Stream!ShownAll(Waiting')
<1>6. a \in Seq(Outputs) /\ b \in Seq(Outputs) /\ Stream!ShownAll(Waiting) = a \o b
  BY <1>4, ShownFacts, ShownConcat
<1>7. Stream!ShownAll(Waiting)' = b /\ Stream!ShownAll(logged)' = Stream!ShownAll(logged)
  BY <1>2 DEF Stream!ShownAll, Stream!Shown
<1>8. out' = out \o a
  BY <1>1
<1> HIDE DEF a, b, chunk
<1>9. NothingLost'
  <2>1. (out \o a) \o b = out \o (a \o b)
    BY <1>5, <1>6, OutputsAssociative
  <2> QED
    BY <1>2, <1>3, <1>6, <1>7, <1>8, <2>1 DEF NothingLost
<1>10. out' \in Seq(Outputs)
  BY <1>5, <1>6, <1>8, OutputsConcat
<1>11. TypeOK'
  <2>1. sent' \in 0 .. Len(buf')
    BY <1>1, <1>2, <1>4, <1>5
  <2> QED
    BY <1>2, <1>3, <1>10, <2>1 DEF TypeOK, Outputs
<1>12. WithinBuffer' /\ FlushedMeansDelivered' /\ FlagsInv' /\ SentInv'
  BY <1>2, <1>3 DEF WithinBuffer, FlushedMeansDelivered, FlagsInv, SentInv
<1> QED
  BY <1>9, <1>11, <1>12 DEF IInv

\* When a flush has handed everything over, nothing waits.
LEMMA NothingWaits ==
  /\ TypeOK /\ sent = Len(buf) => Waiting = <<>>
  /\ buf' = <<>> /\ sent' = 0 => Waiting' = <<>>
<1>1. ASSUME TypeOK, sent = Len(buf) PROVE Waiting = <<>>
  <2>1. Len(buf) \in Nat
    BY <1>1, LenProperties DEF TypeOK
  <2> QED
    BY <1>1, <2>1, SubSeqEmpty DEF Waiting
<1>2. ASSUME buf' = <<>>, sent' = 0 PROVE Waiting' = <<>>
  <2>1. Len(buf') = 0
    BY <1>2, EmptySeq
  <2> QED
    BY <1>2, <2>1, SubSeqEmpty DEF Waiting
<1> QED
  BY <1>1, <1>2

\* The write fails, or the flush ends: the buffer is empty again.
LEMMA EmptiedKeeps == ASSUME IInv, WriteFails \/ FlushDone PROVE IInv'
<1>1. /\ pc = "flush" /\ buf' = <<>> /\ sent' = 0
      /\ UNCHANGED <<device, out, asked, logged, calls, resume>>
  BY DEF WriteFails, FlushDone, history
<1>2. /\ TypeOK /\ WithinBuffer /\ NothingLost /\ FlushedMeansDelivered /\ FlagsInv
  BY DEF IInv
<1>3. Len(buf') = 0 /\ buf' \in Seq(Bytes)
  BY <1>1, EmptySeq
<1>4. NothingLost'
  <2>1. CASE WriteFails
    BY <2>1 DEF WriteFails, NothingLost
  <2>2. CASE FlushDone
    <3>1. Waiting = <<>> /\ Waiting' = <<>> /\ failed' = failed
      BY <1>1, <1>2, <2>2, NothingWaits DEF FlushDone, history
    <3>2. /\ Stream!ShownAll(Waiting)' = Stream!ShownAll(Waiting)
          /\ Stream!ShownAll(logged)' = Stream!ShownAll(logged)
      BY <1>1, <3>1 DEF Stream!ShownAll, Stream!Shown
    <3> QED
      BY <1>1, <1>2, <3>1, <3>2 DEF NothingLost
  <2> QED
    BY <2>1, <2>2
<1>5. WithinBuffer'
  BY <1>3, BufferAssumption DEF WithinBuffer
<1>6. TypeOK'
  <2>1. sent' \in 0 .. Len(buf')
    BY <1>1, <1>3
  <2>2. data' \in Seq(Bytes) /\ flags' \in Flags /\ flags' \subseteq asked
    BY <1>2, EmptySeq DEF TypeOK, Flags, WriteFails, FlushDone
  <2>3. pc' \in {"idle", "append", "flags", "flush", "assertion"} /\ result' \in BOOLEAN /\ failed' \in BOOLEAN
    BY <1>2 DEF TypeOK, WriteFails, FlushDone, history
  <2> QED
    BY <1>1, <1>2, <1>3, <2>1, <2>2, <2>3 DEF TypeOK
<1>7. FlagsInv'
  BY <1>1, <1>2 DEF FlagsInv, WriteFails, FlushDone, TypeOK
<1>8. FlushedMeansDelivered' /\ SentInv'
  BY <1>1 DEF FlushedMeansDelivered, SentInv
<1> QED
  BY <1>4, <1>5, <1>6, <1>7, <1>8 DEF IInv

\* Every new call is a Start with a sequence of bytes.
LEMMA NewCallIsStart ==
  ASSUME NewCall
  PROVE  \E bytes \in Seq(Bytes), fs \in Flags : Start(bytes, fs)
<1>1. CASE \E string \in Strings, fs \in Flags : appendToFlushBuffer(string, fs)
  BY <1>1, BufferAssumption DEF appendToFlushBuffer
<1>2. CASE \E bytes \in Zeros, fs \in Flags : appendZeroToFlushBuffer(bytes, fs)
  <2>1. PICK k \in Zeros, fs \in Flags : Start([i \in 1 .. k |-> "NUL"], fs)
    BY <1>2 DEF appendZeroToFlushBuffer
  <2>2. k \in Nat /\ "NUL" \in Bytes
    BY BufferAssumption
  <2>3. [i \in 1 .. k |-> "NUL"] \in Seq(Bytes)
    BY <2>2
  <2> QED
    BY <2>1, <2>3
<1>3. CASE flushStandardBuffer
  <2>1. <<>> \in Seq(Bytes) /\ {"FLUSH"} \in Flags
    BY EmptySeq DEF Flags
  <2> QED
    BY <1>3, <2>1 DEF flushStandardBuffer
<1> QED
  BY <1>1, <1>2, <1>3 DEF NewCall

LEMMA InitHolds == Init => IInv
<1> SUFFICES ASSUME Init PROVE IInv
  OBVIOUS
<1>1. /\ <<>> \in Seq(Bytes) /\ <<>> \in Seq(Outputs) /\ Len(<<>>) = 0
  BY EmptySeq
<1>2. TypeOK
  <2>1. /\ device \in {"screen", "console", "file"} /\ result \in BOOLEAN
        /\ failed \in BOOLEAN /\ flags \in Flags /\ asked \in Flags /\ flags \subseteq asked
    BY BufferAssumption DEF Init, Flags
  <2>2. calls \in 0 .. MaxCalls /\ sent \in 0 .. Len(buf)
    BY <1>1, BufferAssumption DEF Init
  <2> QED
    BY <1>1, <2>1, <2>2 DEF Init, TypeOK, Outputs
<1>3. WithinBuffer /\ FlushedMeansDelivered /\ FlagsInv /\ SentInv
  BY <1>1, BufferAssumption DEF Init, WithinBuffer, FlushedMeansDelivered, FlagsInv, SentInv
<1>4. NothingLost
  <2>1. Waiting = <<>>
    BY <1>1, <1>2, NothingWaits DEF Init
  <2>2. out \o <<>> = <<>>
    BY <1>1, ConcatEmptySeq DEF Init
  <2> QED
    BY <2>1, <2>2, ShownNothing DEF Init, NothingLost
<1> QED
  BY <1>2, <1>3, <1>4 DEF IInv

LEMMA NextKeeps == IInv /\ [Next]_vars => IInv'
<1> SUFFICES ASSUME IInv, [Next]_vars PROVE IInv'
  OBVIOUS
<1>1. CASE NewCall
  BY <1>1, NewCallIsStart, StartKeeps
<1>2. CASE AppendCopy
  BY <1>2, AppendCopyKeeps
<1>3. CASE NewlineStore
  BY <1>3, NewlineStoreKeeps
<1>4. CASE Write
  BY <1>4, WriteKeeps
<1>5. CASE WriteFails \/ FlushDone
  BY <1>5, EmptiedKeeps
<1>6. CASE AppendDone \/ NewlineFull \/ FlushFlag \/ Done \/ UNCHANGED vars
  BY <1>6, ControlKeeps
<1> QED
  BY <1>1, <1>2, <1>3, <1>4, <1>5, <1>6 DEF Next, Step, Finished

\* The inductive invariant holds of every reachable state of the log buffer.
THEOREM Inductive == Spec => []IInv
  BY InitHolds, NextKeeps, PTL DEF Spec

\* Whatever the size of the buffer and the strings, no byte is stored behind it.
THEOREM BufferNeverOverrun == Spec => []WithinBuffer
<1>1. IInv => WithinBuffer
  BY DEF IInv
<1> QED
  BY <1>1, Inductive, PTL

\* Until a write fails, every byte logged is given to the device once and in
\* order, or is still in the buffer.
THEOREM EveryByteOnce == Spec => []NothingLost
<1>1. IInv => NothingLost
  BY DEF IInv
<1> QED
  BY <1>1, Inductive, PTL

\* A flush that was asked for and reported done leaves an empty buffer.
THEOREM FlushDelivers == Spec => []FlushedMeansDelivered
<1>1. IInv => FlushedMeansDelivered
  BY DEF IInv
<1> QED
  BY <1>1, Inductive, PTL

-----------------------------------------------------------------------------
(* The log buffer implements LogStream: every step of it is a step of the   *)
(* stream, or none.                                                         *)

abstract == <<device, logged, Waiting, out>>

\* Bytes put into the buffer are logged.
LEMMA StoreLogs ==
  ASSUME IInv, pc # "flush", NEW chunk \in Seq(Bytes),
         buf' = buf \o chunk, logged' = logged \o chunk,
         UNCHANGED <<device, out, sent, failed>>
  PROVE  Stream!Log
<1>1. Waiting' = Waiting \o chunk
  BY StoreKeepsStream
<1>2. logged \in Seq(Bytes) /\ Len(logged) \in Nat /\ Len(chunk) \in Nat
  BY LenProperties DEF IInv, TypeOK
<1>3. /\ logged' \in Seq(Bytes) /\ Len(logged') = Len(logged) + Len(chunk)
      /\ \A i \in 1 .. Len(logged) + Len(chunk) :
            logged'[i] = IF i <= Len(logged) THEN logged[i] ELSE chunk[i - Len(logged)]
      /\ \A i \in 1 .. Len(logged) + Len(chunk) : logged'[i] \in Bytes
  BY <1>2, ConcatProperties, ElementOfSeq
<1>4. SubSeq(logged', 1, Len(logged)) = logged
  <2> DEFINE f == SubSeq(logged', 1, Len(logged))
  <2>1. /\ f \in Seq(Bytes) /\ Len(f) = Len(logged)
        /\ \A i \in 1 .. Len(logged) : f[i] = logged'[i]
    BY <1>2, <1>3
  <2>2. \A i \in 1 .. Len(logged) : f[i] = logged[i]
    BY <1>2, <1>3, <2>1
  <2> QED
    BY <1>2, <2>1, <2>2, SeqEqual
<1>5. SubSeq(logged', Len(logged) + 1, Len(logged')) = chunk
  <2> DEFINE r == SubSeq(logged', Len(logged) + 1, Len(logged'))
  <2>1. /\ r \in Seq(Bytes) /\ Len(r) = Len(chunk)
        /\ \A i \in 1 .. Len(chunk) : r[i] = logged'[Len(logged) + i]
    BY <1>2, <1>3
  <2>2. \A i \in 1 .. Len(chunk) : logged'[Len(logged) + i] = chunk[i]
    BY <1>2, <1>3
  <2>3. \A i \in 1 .. Len(chunk) : r[i] = chunk[i]
    BY <2>1, <2>2
  <2> HIDE DEF r
  <2> QED
    BY <1>2, <2>1, <2>3, SeqEqual DEF r
<1>6. Len(logged') >= Len(logged)
  BY <1>2, <1>3
<1> QED
  BY <1>1, <1>4, <1>5, <1>6 DEF Stream!Log, Stream!First, Stream!Rest

\* Bytes the device takes are delivered; if it takes none, nothing happens.
LEMMA WriteDelivers == ASSUME IInv, Write PROVE Stream!Deliver \/ UNCHANGED abstract
<1>1. PICK n \in Takes(Len(buf) - sent) :
         /\ out' = out \o Stream!ShownAll(SubSeq(buf, sent + 1, sent + n))
         /\ sent' = sent + n
  BY DEF Write
<1> DEFINE chunk == SubSeq(buf, sent + 1, sent + n)
<1>2. /\ pc = "flush" /\ sent < Len(buf) /\ UNCHANGED <<device, buf, logged>> /\ TypeOK
  BY DEF Write, history, IInv
<1>3. /\ n \in 0 .. Len(buf) - sent /\ chunk \in Seq(Bytes) /\ Len(chunk) = n
      /\ Waiting \in Seq(Bytes) /\ Len(Waiting) = Len(buf) - sent
      /\ Waiting' \in Seq(Bytes) /\ Waiting = chunk \o Waiting'
  BY <1>1, <1>2, WriteFacts
<1>4. Len(buf) \in Nat /\ sent \in Nat /\ out \in Seq(Outputs)
  BY <1>2, LenProperties DEF TypeOK, Outputs
<1>5. out' = out \o Stream!ShownAll(chunk)
  BY <1>1
<1> HIDE DEF chunk
<1>6. CASE n = 0
  <2>1. chunk = <<>> /\ Waiting' = Waiting
    BY <1>3, <1>6, EmptySeq, ConcatEmptySeq
  <2>2. out' = out
    BY <1>4, <1>5, <2>1, ShownNothing, ConcatEmptySeq
  <2> QED
    BY <1>2, <2>1, <2>2 DEF abstract
<1>7. CASE n # 0
  <2>1. n \in 1 .. Len(Waiting)
    BY <1>3, <1>4, <1>7
  <2> DEFINE w == Waiting'
  <2> HIDE DEF w
  <2>2. w \in Seq(Bytes) /\ Waiting = chunk \o w /\ Len(w) \in Nat
        /\ Len(Waiting) = n + Len(w)
    BY <1>3, LenProperties, ConcatProperties DEF w
  <2>3. \A i \in 1 .. n + Len(w) : Waiting[i] = IF i <= n THEN chunk[i] ELSE w[i - n]
    BY <1>3, <2>2, ConcatProperties
  <2>4. SubSeq(Waiting, 1, n) = chunk
    <3> DEFINE f == SubSeq(Waiting, 1, n)
    <3>1. f \in Seq(Bytes) /\ Len(f) = n /\ \A i \in 1 .. n : f[i] = Waiting[i]
      BY <1>3, <2>1, <2>2
    <3>2. \A i \in 1 .. n : f[i] = chunk[i]
      BY <2>1, <2>2, <2>3, <3>1
    <3> HIDE DEF f
    <3> QED
      BY <1>3, <3>1, <3>2, SeqEqual DEF f
  <2>5. SubSeq(Waiting, n + 1, Len(Waiting)) = w
    <3> DEFINE r == SubSeq(Waiting, n + 1, Len(Waiting))
    <3>1. r \in Seq(Bytes) /\ Len(r) = Len(w) /\ \A i \in 1 .. Len(w) : r[i] = Waiting[n + i]
      <4>1. /\ n + 1 \in Int /\ Len(Waiting) \in Int
            /\ \A i \in n + 1 .. Len(Waiting) : Waiting[i] \in Bytes
        BY <1>3, <2>1, <2>2, ElementOfSeq
      <4>2. /\ r \in Seq(Bytes)
            /\ Len(r) = IF n + 1 <= Len(Waiting) THEN Len(Waiting) - (n + 1) + 1 ELSE 0
            /\ \A i \in 1 .. Len(Waiting) - (n + 1) + 1 : r[i] = Waiting[(n + 1) + i - 1]
        BY <4>1, SubSeqProperties
      <4> HIDE DEF r
      <4>3. n \in Nat
        BY <2>1
      <4>4. Len(r) = Len(w)
        BY <2>2, <4>2, <4>3
      <4>5. \A i \in 1 .. Len(w) : (n + 1) + i - 1 = n + i /\ i \in 1 .. Len(Waiting) - (n + 1) + 1
        BY <2>2, <4>3
      <4> QED
        BY <4>2, <4>4, <4>5
    <3>2. \A i \in 1 .. Len(w) : Waiting[n + i] = w[i]
      BY <2>1, <2>2, <2>3
    <3>3. \A i \in 1 .. Len(w) : r[i] = w[i]
      BY <3>1, <3>2
    <3> HIDE DEF r
    <3> QED
      BY <2>2, <3>1, <3>3, SeqEqual DEF r
  <2> QED
    BY <1>2, <1>5, <2>1, <2>4, <2>5 DEF Stream!Deliver, Stream!First, Stream!Rest, w
<1> QED
  BY <1>6, <1>7

LEMMA StepIsStreamStep ==
  IInv /\ [Next]_vars => Stream!Log \/ Stream!Deliver \/ Stream!Lose \/ UNCHANGED abstract
<1> SUFFICES ASSUME IInv, [Next]_vars
             PROVE  Stream!Log \/ Stream!Deliver \/ Stream!Lose \/ UNCHANGED abstract
  OBVIOUS
<1>1. CASE NewCall
  <2>1. PICK bytes \in Seq(Bytes), fs \in Flags : Start(bytes, fs)
    BY <1>1, NewCallIsStart
  <2> QED
    BY <2>1 DEF Start, abstract, Waiting
<1>2. CASE AppendCopy
  <2> DEFINE space == FLUSH_BUFFER_SIZE - Len(buf)
             n == IF space < Len(data) THEN space ELSE Len(data)
             chunk == SubSeq(data, 1, n)
  <2>1. /\ pc = "append" /\ buf' = buf \o chunk /\ logged' = logged \o chunk
        /\ UNCHANGED <<device, out, sent, failed>>
    BY <1>2 DEF AppendCopy
  <2>2. /\ buf \in Seq(Bytes) /\ data \in Seq(Bytes) /\ Len(buf) \in Nat /\ Len(data) \in Nat
        /\ Len(buf) <= FLUSH_BUFFER_SIZE /\ FLUSH_BUFFER_SIZE \in Nat
    BY BufferAssumption, LenProperties DEF IInv, TypeOK, WithinBuffer
  <2>3. n \in Nat /\ n <= Len(data)
    BY <2>2
  <2> HIDE DEF n
  <2>4. chunk \in Seq(Bytes)
    BY <2>2, <2>3
  <2> HIDE DEF chunk
  <2> QED
    BY <2>1, <2>4, StoreLogs
<1>3. CASE NewlineStore
  <2>1. /\ buf \in Seq(Bytes) /\ logged \in Seq(Bytes) /\ "LF" \in Bytes
    BY BufferAssumption DEF IInv, TypeOK
  <2>2. /\ <<"LF">> \in Seq(Bytes) /\ Append(buf, "LF") = buf \o <<"LF">>
        /\ Append(logged, "LF") = logged \o <<"LF">>
    BY <2>1, AppendIsConcat
  <2>3. /\ pc # "flush" /\ buf' = buf \o <<"LF">> /\ logged' = logged \o <<"LF">>
        /\ UNCHANGED <<device, out, sent, failed>>
    BY <1>3, <2>2 DEF NewlineStore
  <2> QED
    BY <2>2, <2>3, StoreLogs
<1>4. CASE Write
  BY <1>4, WriteDelivers
<1>5. CASE WriteFails
  BY <1>5, NothingWaits DEF WriteFails, Stream!Lose
<1>6. CASE FlushDone
  BY <1>6, NothingWaits DEF FlushDone, IInv, abstract, history
<1>7. CASE AppendDone \/ NewlineFull \/ FlushFlag \/ Done \/ UNCHANGED vars
  BY <1>7 DEF AppendDone, NewlineFull, FlushFlag, Done, vars, call, history, abstract, Waiting
<1> QED
  BY <1>1, <1>2, <1>3, <1>4, <1>5, <1>6, <1>7 DEF Next, Step, Finished

\* The buffer implements the first-in first-out stream the logging interface
\* promises, for every buffer size, every device and every sequence of calls.
THEOREM ImplementsStream == Spec => IsStream
<1>1. Init => Stream!Init
  <2> SUFFICES ASSUME Init PROVE Stream!Init
    OBVIOUS
  <2>1. TypeOK
    BY InitHolds DEF IInv
  <2>2. Waiting = <<>>
    BY <2>1, NothingWaits, EmptySeq DEF Init
  <2> QED
    BY <2>1, <2>2 DEF Init, TypeOK, Stream!Init
<1> QED
  BY <1>1, Inductive, StepIsStreamStep, PTL DEF Spec, IsStream, Stream!Spec, abstract

-----------------------------------------------------------------------------
(* A block of calls.                                                       *)

\* The place in the block, and what was begun and has failed: a pass is begun
\* again only after a flush that reported a failure of its own.
LoopInv ==
  /\ block \in Seq([string : Seq(Bytes), flags : Flags])
  /\ line \in 0 .. Len(block) + 2
  /\ failures \in 0 .. MaxFailures /\ passes \in 1 .. failures + 1
  /\ pc = "idle" /\ Flushed /\ ~result => passes <= failures

BlockInv == IInv /\ LoopInv

\* What a block does to the buffer is the start of a call with some bytes, a
\* step of the call in progress, or nothing.
LEMMA BlockUsesBuffer ==
  ASSUME LoopInv, [BlockNext]_blockVars
  PROVE  \/ \E bytes \in Seq(Bytes), fs \in Flags : Start(bytes, fs)
         \/ Step
         \/ UNCHANGED vars
<1>1. CASE Log
  <2>1. block[line] \in [string : Seq(Bytes), flags : Flags]
    <3>1. block \in Seq([string : Seq(Bytes), flags : Flags]) /\ line \in 1 .. Len(block)
      BY <1>1 DEF Log, InBlock, LoopInv
    <3> QED
      BY <3>1, ElementOfSeq
  <2>2. block[line].string \in Seq(Bytes) /\ block[line].flags \in Flags
    BY <2>1
  <2> QED
    BY <1>1, <2>2 DEF Log, appendToFlushBuffer
<1>2. CASE FlushBlock
  <2>1. <<>> \in Seq(Bytes) /\ {"FLUSH"} \in Flags
    BY EmptySeq DEF Flags
  <2> QED
    BY <1>2, <2>1 DEF FlushBlock, flushStandardBuffer
<1>3. CASE Turn
  BY <1>3 DEF Turn
<1>4. CASE Run
  BY <1>4 DEF Run
<1>5. CASE Outside
  BY <1>5, NewCallIsStart DEF Outside
<1>6. CASE Ended \/ UNCHANGED blockVars
  BY <1>6 DEF Ended, blockVars
<1> QED
  BY <1>1, <1>2, <1>3, <1>4, <1>5, <1>6 DEF BlockNext, BlockStep

\* Calls in progress end with the result of the flush in them.
LEMMA StepEnds ==
  ASSUME IInv, Step, pc' = "idle"
  PROVE  pc # "idle" /\ (result' \/ pc = "flush")
<1>1. CASE Done
  BY <1>1 DEF Done
<1>2. CASE WriteFails \/ Write \/ FlushDone
  BY <1>2 DEF WriteFails, Write, FlushDone
<1>3. CASE AppendCopy \/ AppendDone \/ NewlineFull \/ NewlineStore \/ FlushFlag
  BY <1>3 DEF AppendCopy, AppendDone, NewlineFull, NewlineStore, FlushFlag, Flush
<1> QED
  BY <1>1, <1>2, <1>3 DEF Step

\* Each step of the loop, of a call or of the program keeps both invariants.
LEMMA BlockKeeps == BlockInv /\ [BlockNext]_blockVars => BlockInv'
<1> SUFFICES ASSUME IInv, LoopInv, [BlockNext]_blockVars PROVE BlockInv'
  BY DEF BlockInv
<1>1. IInv'
  <2>1. CASE \E bytes \in Seq(Bytes), fs \in Flags : Start(bytes, fs)
    BY <2>1, StartKeeps
  <2>2. CASE Step \/ UNCHANGED vars
    BY <2>2, NextKeeps DEF Next
  <2> QED
    BY <2>1, <2>2, BlockUsesBuffer
<1>2. /\ line \in Int /\ Len(block) \in Nat /\ failures \in Nat /\ passes \in Nat
      /\ line \in 0 .. Len(block) + 2 /\ passes \in 1 .. failures + 1
      /\ failures \in 0 .. MaxFailures /\ MaxFailures \in Nat
  BY BlockAssumption, LenProperties DEF LoopInv
<1>3. LoopInv'
  <2>1. CASE Log
    <3>1. /\ line \in 1 .. Len(block) /\ line' = line + 1
          /\ UNCHANGED <<macro, block, passes, failures>>
      BY <2>1 DEF Log, InBlock
    <3> QED
      BY <1>2, <3>1 DEF LoopInv, Flushed
  <2>2. CASE FlushBlock
    <3>1. /\ line = Len(block) + 1 /\ line' = line + 1 /\ pc' = "append"
          /\ UNCHANGED <<macro, block, passes, failures>>
      BY <2>2 DEF FlushBlock, flushStandardBuffer, Start
    <3> QED
      BY <1>2, <3>1 DEF LoopInv, Flushed
  <2>3. CASE Turn
    <3>1. /\ pc = "idle" /\ Flushed /\ UNCHANGED <<macro, block, failures, pc, result>>
          /\ \/ ~result /\ line' = 1 /\ passes' = passes + 1
             \/ line' = 0 /\ passes' = passes
      BY <2>3 DEF Turn, Repeats, vars, call
    <3>2. passes' \in 1 .. failures + 1
      BY <1>2, <3>1 DEF LoopInv
    <3> QED
      BY <1>2, <3>1, <3>2 DEF LoopInv, Flushed
  <2>4. CASE Run
    <3>1. /\ Step /\ UNCHANGED <<macro, block, line, passes>> /\ failures' <= MaxFailures
          /\ failures' = failures + (IF pc = "flush" /\ pc' \in {"idle", "assertion"} THEN 1 ELSE 0)
      BY <2>4 DEF Run
    <3>2. failures' \in 0 .. MaxFailures /\ passes' \in 1 .. failures' + 1
      BY <1>2, <3>1
    <3>3. ASSUME pc' = "idle", ~result' PROVE passes' <= failures'
      <4>1. pc = "flush"
        BY <3>1, <3>3, StepEnds
      <4> QED
        BY <1>2, <3>1, <3>3, <4>1
    <3> QED
      BY <3>1, <3>2, <3>3 DEF LoopInv, Flushed
  <2>5. CASE Outside
    <3>1. UNCHANGED <<block, line, passes, failures>> /\ pc' = "append"
      BY <2>5, NewCallIsStart DEF Outside, loop, Start
    <3> QED
      BY <3>1 DEF LoopInv, Flushed
  <2>6. CASE Ended \/ UNCHANGED blockVars
    BY <2>6 DEF Ended, blockVars, vars, call, loop, LoopInv, Flushed
  <2> QED
    BY <2>1, <2>2, <2>3, <2>4, <2>5, <2>6 DEF BlockNext, BlockStep
<1> QED
  BY <1>1, <1>3 DEF BlockInv

\* A block begins with an empty buffer and its first pass.
LEMMA BlockStarts == BlockInit => BlockInv
<1> SUFFICES ASSUME BlockInit PROVE BlockInv
  OBVIOUS
<1>1. IInv
  BY InitHolds DEF BlockInit
<1>2. block \in Seq([string : Seq(Bytes), flags : Flags])
  BY BlockAssumption, EmptySeq DEF BlockInit
<1>3. Len(block) \in Nat /\ line = 1 /\ passes = 1 /\ failures = 0 /\ result = TRUE
  BY <1>2, LenProperties DEF BlockInit, Init
<1> QED
  BY <1>1, <1>2, <1>3, BlockAssumption DEF BlockInv, LoopInv

\* The buffer and the loop agree in every reachable state of a block.
THEOREM BlockInductive == BlockSpec => []BlockInv
BY BlockStarts, BlockKeeps, PTL DEF BlockSpec

\* KFLUSH_AFTER begins its block once, and once more for every write that
\* failed at most, whatever the block and wherever in it the write failed.
THEOREM BlockRepeatsForFailures == BlockSpec => []BlockTypeOK
<1>1. BlockInv => BlockTypeOK
  BY DEF BlockInv, IInv, LoopInv, BlockTypeOK
<1> QED
  BY <1>1, BlockInductive, PTL

\* In a block, too, no byte is stored behind the buffer, every byte reaches the
\* device once until a write fails, and a flush that reports success leaves nothing.
THEOREM BlockKeepsBuffer ==
  BlockSpec => [](WithinBuffer /\ NothingLost /\ FlushedMeansDelivered)
<1>1. BlockInv => WithinBuffer /\ NothingLost /\ FlushedMeansDelivered
  BY DEF BlockInv, IInv
<1> QED
  BY <1>1, BlockInductive, PTL

\* And the buffer under a block implements the stream of LogStream.
THEOREM BlockImplementsStream == BlockSpec => IsStream
<1>1. BlockInit => Stream!Init
  <2> SUFFICES ASSUME BlockInit PROVE Stream!Init
    OBVIOUS
  <2>1. Init /\ TypeOK
    BY InitHolds DEF BlockInit, IInv
  <2>2. Waiting = <<>>
    BY <2>1, NothingWaits, EmptySeq DEF Init
  <2> QED
    BY <2>1, <2>2 DEF Init, TypeOK, Stream!Init
<1>2. BlockInv /\ [BlockNext]_blockVars
        => Stream!Log \/ Stream!Deliver \/ Stream!Lose \/ UNCHANGED abstract
  <2> SUFFICES ASSUME IInv, LoopInv, [BlockNext]_blockVars
               PROVE  Stream!Log \/ Stream!Deliver \/ Stream!Lose \/ UNCHANGED abstract
    BY DEF BlockInv
  <2>1. CASE \E bytes \in Seq(Bytes), fs \in Flags : Start(bytes, fs)
    BY <2>1 DEF Start, abstract, Waiting
  <2>2. CASE Step \/ UNCHANGED vars
    BY <2>2, StepIsStreamStep DEF Next
  <2> QED
    BY <2>1, <2>2, BlockUsesBuffer
<1> QED
  BY <1>1, <1>2, BlockInductive, PTL DEF BlockSpec, IsStream, Stream!Spec, abstract


-----------------------------------------------------------------------------
(* What a block delivers.                                                  *)

\* The text of the first lines of a block, for each number of them.
IsText(t, b, n) ==
  t = [i \in 0 .. n |->
         IF i = 0 THEN << >> ELSE t[i - 1] \o b[i].string \o Newline(b[i].flags)]
Upto(b) == CHOOSE t : IsText(t, b, Len(b))

\* How often a byte is in a sequence, in what was handed over, waits or is still to be
\* stored, and in the lines of the pass that are still to be logged.
Count(s, c) == Cardinality(Occurrences(s, c))
Plain == Bytes \ {"LF", "NUL"}
Owed(c) == Count(out, c) + Count(Waiting, c) + Count(data, c)
ToCome(c) == IF line \in 1 .. Len(block) + 1
               THEN Count(Text, c) - Count(Upto(block)[line - 1], c) ELSE 0

\* Each pass logs a byte once at most, and only KFLUSH_AFTER makes a second.
CountInv ==
  macro # "none" =>
    /\ block \in Blocks /\ macro \in {"KFLUSH_AFTER", "PFLUSH_AFTER"}
    /\ \A c \in Plain : Owed(c) + ToCome(c) <= passes
    /\ macro = "PFLUSH_AFTER" => passes = 1

\* A block that fits is in the buffer as far as it was logged; the flush behind it has
\* handed over the end of what the device was given.
Fits == /\ macro = "KFLUSH_AFTER" /\ Len(Text) < FLUSH_BUFFER_SIZE
        /\ \A i \in DOMAIN block : "FLUSH" \notin block[i].flags
EndsWith(s) == \E x \in Seq(Outputs) : out = x \o s
PassInv(t) ==
  /\ pc # "flush" /\ (buf \o data) \o Newline(flags) = t /\ "FLUSH" \notin flags
  /\ pc # "append" => data = << >>
  /\ pc = "idle" => flags = {}
FlushInv(t) ==
  /\ data = << >>
  /\ pc = "idle" => buf = << >> /\ flags = {} /\ (result => EndsWith(Stream!ShownAll(t)))
  /\ pc = "append" => buf = t /\ flags = {"FLUSH"}
  /\ pc = "flags" => \/ buf = t /\ flags = {"FLUSH"}
                     \/ buf = << >> /\ flags = {} /\ EndsWith(Stream!ShownAll(t))
  /\ pc = "flush" => /\ buf = t /\ flags = {} /\ resume = "flags"
                     /\ EndsWith(Stream!ShownAll(SubSeq(buf, 1, sent)))
WholeInv ==
  Fits => /\ line \in 1 .. Len(block) + 1 => PassInv(Upto(block)[line - 1])
          /\ Flushed => FlushInv(Text)
          /\ Left => pc = "idle" /\ EndsWith(Stream!ShownAll(Text))

DeliveryInv == BlockInv /\ CountInv /\ WholeInv

\* What is shown is made of bytes and of outputs for newlines.
LEMMA BytesAreOutputs == \A s \in Seq(Bytes) : s \in Seq(Outputs)
<1>1. Bytes \subseteq Outputs
  BY DEF Outputs
<1> QED
  BY <1>1, SeqMonotonic

LEMMA CountType ==
  ASSUME NEW s \in Seq(Outputs), NEW c
  PROVE  Count(s, c) \in Nat /\ IsFiniteSet(Occurrences(s, c))
<1>1. Len(s) \in Nat /\ DOMAIN s = 1 .. Len(s)
  BY LenProperties
<1>2. IsFiniteSet(1 .. Len(s))
  BY <1>1, FS_Interval
<1>3. Occurrences(s, c) \in SUBSET (1 .. Len(s))
  BY <1>1 DEF Occurrences
<1>4. IsFiniteSet(Occurrences(s, c))
  BY <1>2, <1>3, FS_Subset, Zenon
<1> QED
  BY <1>4, FS_CardinalityType DEF Count

\* A byte is in two sequences, one after the other, as often as in both.
LEMMA CountConcat ==
  ASSUME NEW s \in Seq(Outputs), NEW t \in Seq(Outputs), NEW c
  PROVE  s \o t \in Seq(Outputs) /\ Count(s \o t, c) = Count(s, c) + Count(t, c)
<1>1. PICK u, m, n : u = s \o t /\ m = Len(s) /\ n = Len(t)
  OBVIOUS
<1>2. /\ u \in Seq(Outputs) /\ Len(u) = m + n /\ m \in Nat /\ n \in Nat
      /\ \A i \in 1 .. m + n : u[i] = IF i <= m THEN s[i] ELSE t[i - m]
  BY <1>1, LenProperties, OutputsConcat
<1>3. DOMAIN s = 1 .. m /\ DOMAIN t = 1 .. n /\ DOMAIN u = 1 .. m + n
  BY <1>1, <1>2, LenProperties
<1>4. PICK A, B, C, D : /\ A = Occurrences(s, c) /\ B = Occurrences(t, c)
                        /\ C = {i + m : i \in B} /\ D = Occurrences(u, c)
  OBVIOUS
<1>5. A \subseteq 1 .. m /\ B \subseteq 1 .. n
  BY <1>3, <1>4 DEF Occurrences
<1>6. IsFiniteSet(A) /\ IsFiniteSet(B)
  BY <1>4, CountType
<1>7. IsFiniteSet(C) /\ Cardinality(C) = Cardinality(B)
  <2> DEFINE g == [i \in B |-> i + m]
  <2>1. g \in [B -> C]
    BY <1>4
  <2>2. \A i, j \in B : g[i] = g[j] => i = j
    BY <1>2, <1>5
  <2>3. \A y \in C : \E i \in B : g[i] = y
    BY <1>4
  <2> HIDE DEF g
  <2>4. g \in Bijection(B, C)
    <3>1. DOMAIN g = B
      BY <2>1
    <3>2. IsInjective(g)
      BY <2>2, <3>1 DEF IsInjective
    <3>3. g \in Injection(B, C)
      BY <2>1, <3>2 DEF Injection
    <3>4. g \in Surjection(B, C)
      BY <2>1, <2>3 DEF Surjection
    <3> QED
      BY <3>3, <3>4 DEF Bijection
  <2>5. ExistsBijection(B, C)
    BY <2>4 DEF ExistsBijection
  <2> QED
    BY <1>6, <2>5, FS_Bijection
<1>8. A \cap C = {}
  BY <1>2, <1>4, <1>5
<1>9. D = A \cup C
  <2>1. ASSUME NEW i \in D PROVE i \in A \cup C
    <3>1. i \in 1 .. m + n /\ u[i] = c
      BY <1>3, <1>4 DEF Occurrences
    <3>2. CASE i <= m
      <4>1. i \in 1 .. m /\ s[i] = c
        BY <1>2, <3>1, <3>2
      <4> QED
        BY <1>3, <1>4, <4>1 DEF Occurrences
    <3>3. CASE ~(i <= m)
      <4>1. i - m \in 1 .. n /\ t[i - m] = c /\ i = (i - m) + m
        BY <1>2, <3>1, <3>3
      <4>2. i - m \in B
        BY <1>3, <1>4, <4>1 DEF Occurrences
      <4> QED
        BY <1>4, <4>1, <4>2
    <3> QED
      BY <3>2, <3>3
  <2>2. ASSUME NEW i \in A PROVE i \in D
    <3>1. i \in 1 .. m /\ s[i] = c
      BY <1>3, <1>4 DEF Occurrences
    <3>2. i \in 1 .. m + n /\ u[i] = c
      BY <1>2, <3>1
    <3> QED
      BY <1>3, <1>4, <3>2 DEF Occurrences
  <2>3. ASSUME NEW j \in B PROVE j + m \in D
    <3>1. j \in 1 .. n /\ t[j] = c
      BY <1>3, <1>4 DEF Occurrences
    <3>2. j + m \in 1 .. m + n /\ ~(j + m <= m) /\ (j + m) - m = j
      BY <1>2, <3>1
    <3>3. u[j + m] = c
      BY <1>2, <3>1, <3>2
    <3> QED
      BY <1>3, <1>4, <3>2, <3>3 DEF Occurrences
  <2> QED
    BY <1>4, <2>1, <2>2, <2>3
<1>10. Cardinality(D) = Cardinality(A) + Cardinality(C)
  <2>1. Cardinality(A \cup C) = Cardinality(A) + Cardinality(C) - Cardinality(A \cap C)
    BY <1>6, <1>7, FS_Union
  <2>2. Cardinality(A \cap C) = 0
    BY <1>8, FS_EmptySet
  <2>3. Cardinality(A) \in Nat /\ Cardinality(C) \in Nat
    BY <1>6, <1>7, FS_CardinalityType
  <2> QED
    BY <1>9, <2>1, <2>2, <2>3
<1> QED
  BY <1>1, <1>2, <1>4, <1>7, <1>10 DEF Count

LEMMA CountBytes ==
  ASSUME NEW s \in Seq(Bytes), NEW t \in Seq(Bytes), NEW c
  PROVE  Count(s, c) \in Nat /\ Count(t, c) \in Nat /\ Count(s \o t, c) = Count(s, c) + Count(t, c)
<1>1. s \in Seq(Outputs) /\ t \in Seq(Outputs)
  BY BytesAreOutputs
<1> QED
  BY <1>1, CountConcat, CountType

LEMMA CountNothing ==
  ASSUME NEW c
  PROVE  Count(<< >>, c) = 0
<1>1. Occurrences(<< >>, c) = {}
  BY DEF Occurrences
<1> QED
  BY <1>1, FS_EmptySet DEF Count

LEMMA NewlineFacts ==
  ASSUME NEW fs
  PROVE  /\ Newline(fs) \in Seq(Bytes) /\ Newline(fs) \in Seq(Outputs)
         /\ \A c \in Plain : Count(Newline(fs), c) = 0
<1>1. "LF" \in Bytes
  BY BufferAssumption
<1>2. << >> \in Seq(Bytes) /\ <<"LF">> \in Seq(Bytes)
  BY <1>1
<1>3. ASSUME NEW c \in Plain PROVE Count(<<"LF">>, c) = 0
  <2>1. c # "LF"
    BY DEF Plain
  <2>2. Occurrences(<<"LF">>, c) = {}
    BY <2>1 DEF Occurrences
  <2> QED
    BY <2>2, FS_EmptySet DEF Count
<1> QED
  BY <1>2, <1>3, CountNothing, BytesAreOutputs DEF Newline

\* What is shown has the plain bytes of what was logged.
LEMMA CountShown ==
  ASSUME NEW s \in Seq(Bytes), NEW c \in Plain
  PROVE  Count(Stream!ShownAll(s), c) = Count(s, c)
<1>1. PICK u : u = Stream!ShownAll(s)
  OBVIOUS
<1>2. /\ u \in Seq(Outputs) /\ Len(u) = Len(s)
      /\ \A i \in 1 .. Len(s) : u[i] = Stream!Shown(s[i])
  BY <1>1, ShownFacts
<1>3. DOMAIN s = 1 .. Len(s) /\ DOMAIN u = 1 .. Len(s)
  BY <1>2, LenProperties
<1>4. \A i \in 1 .. Len(s) : u[i] = c <=> s[i] = c
  <2>1. c # "LF" /\ c # "CRLF"
    BY BufferAssumption DEF Plain
  <2> QED
    BY <1>2, <2>1 DEF Stream!Shown
<1>5. Occurrences(u, c) = Occurrences(s, c)
  BY <1>3, <1>4 DEF Occurrences
<1> QED
  BY <1>1, <1>5 DEF Count

-----------------------------------------------------------------------------
(* The text of a block                                                      *)

\* A set of naturals has a least element.
LEMMA LeastOf ==
  ASSUME NEW S \in SUBSET Nat, S # {}
  PROVE  \E x \in S : \A y \in S : x <= y
<1>1. \E R : IsWellFoundedOn(R, Nat) /\ \A x, y \in Nat : y < x => <<y, x>> \in R
  <2> DEFINE R == OpToRel(<, Nat)
  <2>1. IsWellFoundedOn(R, Nat)
    BY NatLessThanWellFounded
  <2>2. \A x, y \in Nat : y < x => <<y, x>> \in R
    BY DEF OpToRel
  <2> HIDE DEF R
  <2> QED BY <2>1, <2>2
<1>2. PICK R : IsWellFoundedOn(R, Nat) /\ \A x, y \in Nat : y < x => <<y, x>> \in R
  BY <1>1
<1>3. PICK x \in S : \A y \in S : ~(<<y, x>> \in R)
  BY <1>2, WFMin, Zenon
<1>4. ASSUME NEW y \in S PROVE x <= y
  <2>1. ~(y < x)
    BY <1>2, <1>3, <1>4
  <2> QED BY <2>1, <1>4
<1> QED BY <1>4

Calls == [string : Seq(Bytes), flags : Flags]

\* What the first n lines of a block log is defined, for every n.
LEMMA TextExists ==
  ASSUME NEW b, NEW n \in Nat
  PROVE  \E t : IsText(t, b, n)
<1> DEFINE P(k) == \E t : IsText(t, b, k)
           B == {k \in Nat : ~P(k)}
<1>1. B \in SUBSET Nat
  OBVIOUS
<1>2. ASSUME B # {} PROVE FALSE
  <2>1. PICK k \in B : \A y \in B : k <= y
    BY <1>1, <1>2, LeastOf, Zenon
  <2>2. k \in Nat /\ ~P(k)
    OBVIOUS
  <2>3. CASE k = 0
    <3> DEFINE z == [i \in 0 .. 0 |-> << >>]
    <3>1. z = [i \in 0 .. k |-> IF i = 0 THEN << >>
                                ELSE z[i - 1] \o b[i].string \o Newline(b[i].flags)]
      BY <2>3
    <3> HIDE DEF z
    <3>2. IsText(z, b, k)
      BY <3>1 DEF IsText
    <3> QED
      BY <2>2, <3>2
  <2>4. CASE k # 0
    <3>1. k - 1 \in Nat /\ ~(k <= k - 1)
      BY <2>2, <2>4
    <3>2. k - 1 \notin B
      BY <2>1, <3>1
    <3>3. PICK g : IsText(g, b, k - 1)
      BY <3>1, <3>2
    <3>4. PICK last : last = g[k - 1] \o b[k].string \o Newline(b[k].flags)
      OBVIOUS
    <3> DEFINE h == [i \in 0 .. k |-> IF i = k THEN last ELSE g[i]]
    <3>5. \A i \in 0 .. k - 1 : h[i] = g[i]
      BY <2>2
    <3>6. h[k] = last /\ h = [i \in 0 .. k |-> h[i]]
      BY <2>2
    <3>7. ASSUME NEW i \in 0 .. k
          PROVE  h[i] = IF i = 0 THEN << >>
                        ELSE h[i - 1] \o b[i].string \o Newline(b[i].flags)
      <4> HIDE DEF h
      <4>1. CASE i = k
        <5>1. k - 1 \in 0 .. k - 1
          BY <3>1
        <5>2. h[k - 1] = g[k - 1]
          BY <3>5, <5>1, Zenon
        <5>3. h[i] = last /\ h[i - 1] = g[k - 1] /\ i # 0
          BY <2>4, <3>6, <4>1, <5>2, Zenon
        <5>4. h[i - 1] \o b[i].string \o Newline(b[i].flags) = last
          BY <3>4, <4>1, <5>3
        <5> QED
          BY <5>3, <5>4, Zenon
      <4>2. CASE i # k
        <5>1. i \in 0 .. k - 1
          BY <2>2, <4>2
        <5>2. g[i] = IF i = 0 THEN << >>
                     ELSE g[i - 1] \o b[i].string \o Newline(b[i].flags)
          BY <3>3, <5>1 DEF IsText
        <5>3. i # 0 => i - 1 \in 0 .. k - 1
          BY <2>2, <5>1
        <5> QED
          BY <3>5, <5>1, <5>2, <5>3
      <4> QED
        BY <4>1, <4>2
    <3> HIDE DEF h
    <3>8. h = [i \in 0 .. k |-> IF i = 0 THEN << >>
                                ELSE h[i - 1] \o b[i].string \o Newline(b[i].flags)]
      BY <3>6, <3>7
    <3>9. IsText(h, b, k)
      BY <3>8 DEF IsText
    <3> QED
      BY <2>2, <3>9
  <2> QED
    BY <2>3, <2>4
<1>3. P(n)
  BY <1>2
<1> QED
  BY <1>3

\* Values that do not get less are at most the last.
LEMMA Rising ==
  ASSUME NEW n \in Nat, NEW f \in [0 .. n -> Nat], \A i \in 1 .. n : f[i - 1] <= f[i]
  PROVE  \A i \in 0 .. n : f[i] <= f[n]
<1> DEFINE B == {k \in Nat : k <= n /\ ~(f[n - k] <= f[n])}
<1>1. ASSUME B # {} PROVE FALSE
  <2>1. B \in SUBSET Nat
    OBVIOUS
  <2>2. PICK k \in B : \A y \in B : k <= y
    BY <1>1, <2>1, LeastOf, Zenon
  <2>3. k \in Nat /\ k <= n /\ ~(f[n - k] <= f[n])
    OBVIOUS
  <2>4. k # 0
    <3>1. f[n] <= f[n]
      OBVIOUS
    <3>2. n - 0 = n
      OBVIOUS
    <3> QED
      BY <2>3, <3>1, <3>2
  <2>5. k - 1 \in Nat /\ k - 1 <= n /\ ~(k <= k - 1)
    BY <2>3, <2>4
  <2>6. f[n - (k - 1)] <= f[n]
    <3>1. k - 1 \notin B
      BY <2>2, <2>5
    <3> QED
      BY <2>5, <3>1
  <2>7. n - (k - 1) \in 1 .. n /\ (n - (k - 1)) - 1 = n - k /\ n - k \in 0 .. n
    BY <2>3, <2>4
  <2>8. f[n - k] <= f[n - (k - 1)]
    BY <2>7
  <2>9. f[n - k] \in Nat /\ f[n - (k - 1)] \in Nat /\ f[n] \in Nat
    BY <2>7
  <2> QED
    BY <2>3, <2>6, <2>8, <2>9
<1>2. ASSUME NEW i \in 0 .. n PROVE f[i] <= f[n]
  <2>1. n - i \in Nat /\ n - i <= n /\ n - (n - i) = i
    OBVIOUS
  <2>2. n - i \notin B
    BY <1>1
  <2> QED
    BY <2>1, <2>2
<1> QED
  BY <1>2

\* The text t of the n lines of a block b grows line by line.
Grown(b, t, n) ==
  /\ n \in Nat /\ DOMAIN b = 1 .. n /\ TextOf(b) = t[n] /\ t[0] = << >>
  /\ \A i \in 1 .. n : /\ b[i].string \in Seq(Bytes) /\ b[i].flags \in Flags
                       /\ t[i] = (t[i - 1] \o b[i].string) \o Newline(b[i].flags)
  /\ \A i \in 0 .. n : t[i] \in Seq(Bytes) /\ Len(t[i]) <= Len(t[n])
  /\ \A c \in Plain, i \in 0 .. n : Count(t[i], c) \in Nat /\ Count(t[i], c) <= Count(t[n], c)
  /\ \A c \in Plain, i \in 1 .. n : Count(t[i], c) = Count(t[i - 1], c) + Count(b[i].string, c)

LEMMA TextGrows ==
  ASSUME NEW b \in Seq(Calls), NEW t, t = Upto(b), NEW n, n = Len(b)
  PROVE  Grown(b, t, n)
<1>1. n \in Nat /\ DOMAIN b = 1 .. n
  BY LenProperties
<1>2. IsText(t, b, n)
  <2>1. \E x : IsText(x, b, Len(b))
    BY <1>1, TextExists
  <2> QED
    BY <2>1 DEF Upto
<1>3. TextOf(b) = t[n]
  BY DEF TextOf, Upto, IsText
<1>4. t[0] = << >>
  BY <1>1, <1>2 DEF IsText
<1>5. ASSUME NEW i \in 1 .. n
      PROVE  /\ b[i].string \in Seq(Bytes) /\ b[i].flags \in Flags
             /\ t[i] = (t[i - 1] \o b[i].string) \o Newline(b[i].flags)
  <2>1. b[i] \in Calls
    BY ElementOfSeq
  <2>2. b[i].string \in Seq(Bytes) /\ b[i].flags \in Flags
    BY <2>1 DEF Calls
  <2>3. i \in 0 .. n /\ i # 0
    BY <1>1
  <2>4. t[i] = (t[i - 1] \o b[i].string) \o Newline(b[i].flags)
    BY <1>2, <2>3 DEF IsText
  <2> QED
    BY <2>2, <2>4
<1>6. ASSUME NEW i \in 0 .. n PROVE t[i] \in Seq(Bytes)
  <2> DEFINE B == {k \in 0 .. n : t[k] \notin Seq(Bytes)}
  <2>1. ASSUME B # {} PROVE FALSE
    <3>1. B \in SUBSET Nat
      OBVIOUS
    <3>2. PICK k \in B : \A y \in B : k <= y
      BY <2>1, <3>1, LeastOf, Zenon
    <3>3. k \in 0 .. n /\ t[k] \notin Seq(Bytes)
      OBVIOUS
    <3>4. k # 0
      BY <1>4, <3>3, EmptySeq
    <3>5. k \in 1 .. n /\ k - 1 \in 0 .. n /\ ~(k <= k - 1)
      BY <1>1, <3>3, <3>4
    <3>6. t[k - 1] \in Seq(Bytes)
      BY <3>2, <3>5
    <3>7. PICK x, y, z : x = t[k - 1] /\ y = b[k].string /\ z = Newline(b[k].flags)
      OBVIOUS
    <3>8. x \in Seq(Bytes) /\ y \in Seq(Bytes) /\ z \in Seq(Bytes) /\ t[k] = (x \o y) \o z
      BY <1>5, <3>5, <3>6, <3>7, NewlineFacts
    <3>9. (x \o y) \o z \in Seq(Bytes)
      BY <3>8, ConcatProperties
    <3> QED
      BY <3>3, <3>8, <3>9
  <2> QED
    BY <2>1
<1>7. ASSUME NEW i \in 1 .. n
      PROVE  /\ Len(t[i - 1]) <= Len(t[i])
             /\ \A c \in Plain : Count(t[i], c) = Count(t[i - 1], c) + Count(b[i].string, c)
  <2>1. PICK x, y, z : x = t[i - 1] /\ y = b[i].string /\ z = Newline(b[i].flags)
    OBVIOUS
  <2>2. i - 1 \in 0 .. n
    BY <1>1
  <2>3. x \in Seq(Bytes) /\ y \in Seq(Bytes) /\ z \in Seq(Bytes) /\ t[i] = (x \o y) \o z
    BY <1>5, <1>6, <2>1, <2>2, NewlineFacts
  <2>4. x \in Seq(Outputs) /\ y \in Seq(Outputs) /\ z \in Seq(Outputs)
    BY <2>3, BytesAreOutputs
  <2>5. Len(t[i]) = (Len(x) + Len(y)) + Len(z) /\ Len(x) \in Nat /\ Len(y) \in Nat /\ Len(z) \in Nat
    <3>1. x \o y \in Seq(Bytes) /\ Len(x \o y) = Len(x) + Len(y)
      BY <2>3, ConcatProperties
    <3>2. Len((x \o y) \o z) = Len(x \o y) + Len(z)
      BY <2>3, <3>1, ConcatProperties
    <3> QED
      BY <2>3, <3>1, <3>2, LenProperties
  <2>6. ASSUME NEW c \in Plain PROVE Count(t[i], c) = Count(x, c) + Count(y, c)
    <3>1. x \o y \in Seq(Outputs) /\ Count(x \o y, c) = Count(x, c) + Count(y, c)
      BY <2>4, CountConcat
    <3>2. Count((x \o y) \o z, c) = Count(x \o y, c) + Count(z, c)
      BY <2>4, <3>1, CountConcat
    <3>3. Count(z, c) = 0 /\ Count(x, c) \in Nat /\ Count(y, c) \in Nat
      BY <2>1, <2>4, NewlineFacts, CountType
    <3> QED
      BY <2>3, <3>1, <3>2, <3>3
  <2>7. Len(x) <= Len(t[i])
    <3>1. PICK p, q, r, v : p = Len(x) /\ q = Len(y) /\ r = Len(z) /\ v = Len(t[i])
      OBVIOUS
    <3>2. v = (p + q) + r /\ p \in Nat /\ q \in Nat /\ r \in Nat
      BY <2>5, <3>1, Zenon
    <3>3. p <= v
      BY <3>2
    <3> QED
      BY <3>1, <3>3, Zenon
  <2> QED
    BY <2>1, <2>6, <2>7, Zenon
<1>8. \A i \in 0 .. n : Len(t[i]) <= Len(t[n])
  <2> DEFINE f == [i \in 0 .. n |-> Len(t[i])]
  <2>1. f \in [0 .. n -> Nat]
    BY <1>6, LenProperties
  <2>2. \A i \in 0 .. n : f[i] = Len(t[i])
    OBVIOUS
  <2>3. \A i \in 1 .. n : f[i - 1] <= f[i]
    <3> SUFFICES ASSUME NEW i \in 1 .. n PROVE f[i - 1] <= f[i]
      OBVIOUS
    <3>1. i - 1 \in 0 .. n /\ i \in 0 .. n
      BY <1>1
    <3> HIDE DEF f
    <3> QED
      BY <1>7, <2>2, <3>1
  <2> HIDE DEF f
  <2>4. \A i \in 0 .. n : f[i] <= f[n]
    BY <1>1, <2>1, <2>3, Rising
  <2>5. n \in 0 .. n
    BY <1>1
  <2> QED
    BY <2>2, <2>4, <2>5
<1>9. ASSUME NEW c \in Plain
      PROVE  \A i \in 0 .. n : Count(t[i], c) \in Nat /\ Count(t[i], c) <= Count(t[n], c)
  <2> DEFINE f == [i \in 0 .. n |-> Count(t[i], c)]
  <2>1. \A i \in 0 .. n : Count(t[i], c) \in Nat
    BY <1>6, BytesAreOutputs, CountType
  <2>2. f \in [0 .. n -> Nat] /\ \A i \in 0 .. n : f[i] = Count(t[i], c)
    BY <2>1
  <2>3. \A i \in 1 .. n : f[i - 1] <= f[i]
    <3> SUFFICES ASSUME NEW i \in 1 .. n PROVE f[i - 1] <= f[i]
      OBVIOUS
    <3>1. i - 1 \in 0 .. n /\ i \in 0 .. n
      BY <1>1
    <3> HIDE DEF f
    <3>2. PICK p, q, r : p = Count(t[i - 1], c) /\ q = Count(t[i], c) /\ r = Count(b[i].string, c)
      OBVIOUS
    <3>3. p \in Nat /\ q = p + r /\ f[i - 1] = p /\ f[i] = q
      BY <1>7, <2>1, <2>2, <3>1, <3>2
    <3>4. r \in Nat
      BY <1>5, <3>2, BytesAreOutputs, CountType
    <3> QED
      BY <3>3, <3>4
  <2> HIDE DEF f
  <2>4. \A i \in 0 .. n : f[i] <= f[n]
    BY <1>1, <2>2, <2>3, Rising
  <2>5. n \in 0 .. n
    BY <1>1
  <2> QED
    BY <2>1, <2>2, <2>4, <2>5
<1> QED
  BY <1>1, <1>3, <1>4, <1>5, <1>6, <1>7, <1>8, <1>9 DEF Grown

-----------------------------------------------------------------------------
(* No byte is made: a step of a call only moves it on, or drops it.         *)

\* A sequence is its first bytes and the rest.
LEMMA Cut ==
  ASSUME NEW d \in Seq(Bytes), NEW n \in Nat, n <= Len(d)
  PROVE  /\ SubSeq(d, 1, n) \in Seq(Bytes) /\ SubSeq(d, n + 1, Len(d)) \in Seq(Bytes)
         /\ d = SubSeq(d, 1, n) \o SubSeq(d, n + 1, Len(d))
<1>1. Len(d) \in Nat /\ \A i \in 1 .. Len(d) : d[i] \in Bytes
  BY LenProperties, ElementOfSeq
<1>2. SubSeq(d, 1, n) \in Seq(Bytes)
  <2>1. \A i \in 1 .. n : d[i] \in Bytes
    BY <1>1
  <2> QED
    BY <2>1, SubSeqProperties
<1>3. SubSeq(d, n + 1, Len(d)) \in Seq(Bytes)
  <2>1. \A i \in n + 1 .. Len(d) : d[i] \in Bytes
    BY <1>1
  <2> QED
    BY <1>1, <2>1, SubSeqProperties
<1>4. SubSeq(d, 1, n) \o SubSeq(d, n + 1, Len(d)) = SubSeq(d, 1, Len(d))
  <2>1. 1 \in 1 .. Len(d) + 1 /\ n \in 1 - 1 .. Len(d) /\ Len(d) \in n .. Len(d)
    BY <1>1
  <2> QED
    BY <2>1, ConcatAdjacentSubSeq
<1> QED
  BY <1>2, <1>3, <1>4, SubSeqFull

LEMMA OwedParts ==
  ASSUME NEW o \in Seq(Outputs), NEW b \in Seq(Bytes), NEW k \in 0 .. Len(b),
         NEW d \in Seq(Bytes), NEW c
  PROVE  /\ Count(o, c) \in Nat /\ Count(d, c) \in Nat
         /\ SubSeq(b, k + 1, Len(b)) \in Seq(Bytes)
         /\ Count(SubSeq(b, k + 1, Len(b)), c) \in Nat
<1>1. Len(b) \in Nat
  BY LenProperties
<1>2. SubSeq(b, k + 1, Len(b)) \in Seq(Bytes)
  BY <1>1, Cut
<1> QED
  BY <1>2, BytesAreOutputs, CountType

\* What is owed, in the state before a step and in the state after it.
LEMMA OwedTypes ==
  ASSUME NEW c
  PROVE  /\ IInv  => /\ Count(out, c) \in Nat /\ Count(Waiting, c) \in Nat
                     /\ Count(data, c) \in Nat /\ Waiting \in Seq(Bytes)
         /\ IInv' => /\ Count(out', c) \in Nat /\ Count(Waiting', c) \in Nat
                     /\ Count(data', c) \in Nat /\ Waiting' \in Seq(Bytes)
<1>1. ASSUME IInv
      PROVE  /\ Count(out, c) \in Nat /\ Count(Waiting, c) \in Nat
             /\ Count(data, c) \in Nat /\ Waiting \in Seq(Bytes)
  <2>1. out \in Seq(Outputs) /\ buf \in Seq(Bytes) /\ sent \in 0 .. Len(buf) /\ data \in Seq(Bytes)
    BY <1>1 DEF IInv, TypeOK, Outputs
  <2> QED
    BY <2>1, OwedParts DEF Waiting
<1>2. ASSUME IInv'
      PROVE  /\ Count(out', c) \in Nat /\ Count(Waiting', c) \in Nat
             /\ Count(data', c) \in Nat /\ Waiting' \in Seq(Bytes)
  <2>1. /\ out' \in Seq(Outputs) /\ buf' \in Seq(Bytes) /\ sent' \in 0 .. Len(buf')
        /\ data' \in Seq(Bytes)
    BY <1>2 DEF IInv, TypeOK, Outputs
  <2> QED
    BY <2>1, OwedParts DEF Waiting
<1> QED
  BY <1>1, <1>2

LEMMA OwedLess ==
  ASSUME NEW o \in Nat, NEW w \in Nat, NEW d \in Nat, NEW p \in Nat, NEW v \in Nat, NEW e \in Nat,
         NEW k \in Nat,
         \/ p = o /\ v = w + k /\ d = k + e
         \/ p = o + k /\ w = k + v /\ e = d
         \/ p = o /\ v <= w /\ e <= d
  PROVE  p + v + e <= o + w + d
  OBVIOUS

\* A step of a call gives the device, keeps in the buffer and has still to store no byte
\* more often than before.
LEMMA StepOwes ==
  ASSUME IInv, Step, NEW c \in Plain
  PROVE  Owed(c)' <= Owed(c)
<1>1. IInv'
  BY NextKeeps DEF Next
<1>2. PICK o, w, d, p, v, e : /\ o = Count(out, c) /\ w = Count(Waiting, c) /\ d = Count(data, c)
                              /\ p = Count(out', c) /\ v = Count(Waiting', c) /\ e = Count(data', c)
  OBVIOUS
<1>3. /\ o \in Nat /\ w \in Nat /\ d \in Nat /\ p \in Nat /\ v \in Nat /\ e \in Nat
      /\ Waiting \in Seq(Bytes) /\ Waiting' \in Seq(Bytes) /\ data \in Seq(Bytes) /\ data' \in Seq(Bytes)
      /\ out \in Seq(Outputs)
  BY <1>1, <1>2, OwedTypes DEF IInv, TypeOK, Outputs
<1>4. Owed(c) = o + w + d /\ Owed(c)' = p + v + e
  BY <1>2 DEF Owed
<1>5. SUFFICES \E k \in Nat : \/ p = o /\ v = w + k /\ d = k + e
                              \/ p = o + k /\ w = k + v /\ e = d
                              \/ p = o /\ v <= w /\ e <= d
  BY <1>3, <1>4, OwedLess
<1>6. CASE AppendCopy
  <2> DEFINE space == FLUSH_BUFFER_SIZE - Len(buf)
             n == IF space < Len(data) THEN space ELSE Len(data)
             chunk == SubSeq(data, 1, n)
  <2>1. /\ pc = "append" /\ buf' = buf \o chunk /\ logged' = logged \o chunk
        /\ data' = SubSeq(data, n + 1, Len(data)) /\ UNCHANGED <<device, out, sent, failed>>
    BY <1>6 DEF AppendCopy
  <2>2. Len(buf) \in Nat /\ Len(data) \in Nat /\ Len(buf) <= FLUSH_BUFFER_SIZE /\ FLUSH_BUFFER_SIZE \in Nat
    BY BufferAssumption, LenProperties DEF IInv, TypeOK, WithinBuffer
  <2>3. n \in Nat /\ n <= Len(data)
    BY <2>2
  <2> HIDE DEF n
  <2>4. chunk \in Seq(Bytes) /\ data = chunk \o data'
    BY <1>3, <2>1, <2>3, Cut
  <2> HIDE DEF chunk
  <2>5. Waiting' = Waiting \o chunk
    BY <2>1, <2>4, StoreKeepsStream
  <2>6. PICK k : k = Count(chunk, c)
    OBVIOUS
  <2>7. k \in Nat /\ v = w + k /\ d = k + e
    <3>1. PICK x, y, z, q : x = Waiting /\ y = Waiting' /\ z = data /\ q = data'
      OBVIOUS
    <3>2. /\ x \in Seq(Bytes) /\ q \in Seq(Bytes) /\ y = x \o chunk /\ z = chunk \o q
          /\ w = Count(x, c) /\ v = Count(y, c) /\ d = Count(z, c) /\ e = Count(q, c)
      BY <1>2, <1>3, <2>4, <2>5, <3>1, Zenon
    <3>3. Count(chunk, c) \in Nat /\ Count(x \o chunk, c) = Count(x, c) + Count(chunk, c)
      BY <2>4, <3>2, CountBytes
    <3>4. Count(chunk \o q, c) = Count(chunk, c) + Count(q, c)
      BY <2>4, <3>2, CountBytes
    <3> QED
      BY <2>6, <3>2, <3>3, <3>4, Zenon
  <2>8. p = o
    BY <1>2, <2>1
  <2> QED
    BY <2>7, <2>8
<1>7. CASE NewlineStore
  <2>1. <<"LF">> \in Seq(Bytes) /\ Count(<<"LF">>, c) = 0
    BY NewlineFacts DEF Newline
  <2>2. buf \in Seq(Bytes) /\ logged \in Seq(Bytes)
    BY DEF IInv, TypeOK
  <2>3. /\ pc # "flush" /\ buf' = buf \o <<"LF">> /\ logged' = logged \o <<"LF">> /\ data' = data
        /\ UNCHANGED <<device, out, sent, failed>>
    BY <1>7, <2>2, AppendIsConcat DEF NewlineStore
  <2>4. Waiting' = Waiting \o <<"LF">>
    BY <2>1, <2>3, StoreKeepsStream
  <2>5. v = w + 0
    <3>1. PICK x, y, z : x = Waiting /\ y = Waiting' /\ z = <<"LF">>
      OBVIOUS
    <3>2. /\ x \in Seq(Bytes) /\ z \in Seq(Bytes) /\ y = x \o z /\ Count(z, c) = 0
          /\ w = Count(x, c) /\ v = Count(y, c)
      BY <1>2, <1>3, <2>1, <2>4, <3>1, Zenon
    <3>3. Count(x \o z, c) = Count(x, c) + Count(z, c)
      BY <3>2, CountBytes
    <3> QED
      BY <3>2, <3>3, Zenon
  <2>6. p = o /\ e = d
    BY <1>2, <2>3
  <2> QED
    BY <1>3, <2>5, <2>6
<1>8. CASE Write
  <2>1. PICK n \in Takes(Len(buf) - sent) :
           /\ out' = out \o Stream!ShownAll(SubSeq(buf, sent + 1, sent + n))
           /\ sent' = sent + n
    BY <1>8 DEF Write
  <2>2. pc = "flush" /\ sent < Len(buf) /\ buf' = buf /\ data' = data /\ TypeOK
    BY <1>8 DEF Write, call, IInv
  <2>3. PICK chunk : chunk = SubSeq(buf, sent + 1, sent + n)
    OBVIOUS
  <2>4. chunk \in Seq(Bytes) /\ Waiting = chunk \o Waiting'
    BY <2>1, <2>2, <2>3, WriteFacts
  <2>5. PICK k : k = Count(chunk, c)
    OBVIOUS
  <2>6. k \in Nat /\ w = k + v
    <3>1. PICK x, y : x = Waiting /\ y = Waiting'
      OBVIOUS
    <3>2. /\ y \in Seq(Bytes) /\ x = chunk \o y /\ w = Count(x, c) /\ v = Count(y, c)
      BY <1>2, <1>3, <2>4, <3>1, Zenon
    <3>3. Count(chunk, c) \in Nat /\ Count(chunk \o y, c) = Count(chunk, c) + Count(y, c)
      BY <2>4, <3>2, CountBytes
    <3> QED
      BY <2>5, <3>2, <3>3, Zenon
  <2>7. p = o + k
    <3>1. PICK s : s = Stream!ShownAll(chunk)
      OBVIOUS
    <3>2. s \in Seq(Outputs) /\ Count(s, c) = k /\ out' = out \o s
      BY <2>1, <2>3, <2>4, <2>5, <3>1, ShownFacts, CountShown
    <3> QED
      BY <1>2, <1>3, <3>2, CountConcat
  <2>8. e = d
    BY <1>2, <2>2
  <2> QED
    BY <2>6, <2>7, <2>8
<1>9. CASE WriteFails \/ FlushDone
  <2>1. buf' = << >> /\ sent' = 0 /\ out' = out /\ (data' = data \/ data' = << >>)
    BY <1>9 DEF WriteFails, FlushDone
  <2>2. v = 0
    BY <1>2, <2>1, NothingWaits, CountNothing
  <2>3. p = o /\ (e = d \/ e = 0)
    BY <1>2, <2>1, CountNothing
  <2>4. /\ o \in Nat /\ w \in Nat /\ d \in Nat
    BY <1>3
  <2>5. v <= w /\ e <= d
    BY <2>2, <2>3, <2>4
  <2>6. 0 \in Nat
    OBVIOUS
  <2> QED
    BY <2>3, <2>5, <2>6, Zenon
<1>10. CASE AppendDone \/ NewlineFull \/ FlushFlag \/ Done
  <2>1. Waiting' = Waiting /\ out' = out /\ data' = data
    BY <1>10 DEF AppendDone, NewlineFull, FlushFlag, Done, Flush, Waiting
  <2>2. p = o /\ v = w /\ e = d
    BY <1>2, <2>1
  <2> QED
    BY <1>3, <2>2
<1> QED
  BY <1>6, <1>7, <1>8, <1>9, <1>10 DEF Step

\* A call that starts adds the bytes it was given.
LEMMA StartOwes ==
  ASSUME IInv, NEW bytes \in Seq(Bytes), NEW fs \in Flags, Start(bytes, fs), NEW c \in Plain
  PROVE  Owed(c)' <= Owed(c) + Count(bytes, c)
<1>1. PICK o, w, d, e : o = Count(out, c) /\ w = Count(Waiting, c) /\ d = Count(data, c) /\ e = Count(bytes, c)
  OBVIOUS
<1>2. o \in Nat /\ w \in Nat /\ d \in Nat /\ e \in Nat
  BY <1>1, OwedTypes, BytesAreOutputs, CountType
<1>3. out' = out /\ Waiting' = Waiting /\ data' = bytes
  BY DEF Start, Waiting
<1>4. Owed(c) = o + w + d /\ Owed(c)' = o + w + e
  BY <1>1, <1>3 DEF Owed
<1> QED
  BY <1>1, <1>2, <1>4

LEMMA OwedType == ASSUME IInv, NEW c PROVE Owed(c) \in Nat /\ Count(out, c) <= Owed(c)
<1>1. PICK o, w, d : o = Count(out, c) /\ w = Count(Waiting, c) /\ d = Count(data, c)
  OBVIOUS
<1>2. o \in Nat /\ w \in Nat /\ d \in Nat
  BY <1>1, OwedTypes
<1>3. Owed(c) = o + w + d
  BY <1>1 DEF Owed
<1> QED
  BY <1>1, <1>2, <1>3

\* What a pass over a block b with the text t of n lines has still to log of the m times
\* a byte is in it: all of them before the first line, none behind the last.
Remaining(b, t, n, m, c) ==
  /\ n \in Nat
  /\ \A i \in 0 .. n : m - Count(t[i], c) \in Nat
  /\ m - Count(t[0], c) <= 1
  /\ m - Count(t[n], c) = 0
  /\ \A i \in 1 .. n : /\ Count(b[i].string, c) \in Nat
                       /\ m - Count(t[i], c) = (m - Count(t[i - 1], c)) - Count(b[i].string, c)

LEMMA ToComeFacts ==
  ASSUME NEW b \in Blocks, NEW c \in Plain, NEW t, t = Upto(b), NEW n, n = Len(b),
         NEW m, m = Count(TextOf(b), c)
  PROVE  Remaining(b, t, n, m, c)
<1>1. b \in Seq(Calls)
  BY BlockAssumption DEF Calls
<1>2. /\ n \in Nat /\ TextOf(b) = t[n] /\ t[0] = << >>
      /\ \A i \in 1 .. n : b[i].string \in Seq(Bytes)
      /\ \A i \in 0 .. n : Count(t[i], c) \in Nat /\ Count(t[i], c) <= Count(t[n], c)
      /\ \A i \in 1 .. n : Count(t[i], c) = Count(t[i - 1], c) + Count(b[i].string, c)
  <2>1. Grown(b, t, n)
    BY <1>1, TextGrows
  <2> QED
    BY <2>1 DEF Grown
<1>3. m = Count(t[n], c)
  BY <1>2
<1>4. m \in Nat /\ m <= 1 /\ Count(t[0], c) = 0
  <2>1. Count(TextOf(b), c) <= 1
    BY BlockAssumption DEF Count, Plain
  <2>2. n \in 0 .. n
    BY <1>2
  <2> QED
    BY <1>2, <1>3, <2>1, <2>2, CountNothing
<1>5. \A i \in 0 .. n : m - Count(t[i], c) \in Nat
  <2> TAKE i \in 0 .. n
  <2>1. PICK k : k = Count(t[i], c)
    OBVIOUS
  <2>2. k \in Nat /\ k <= m
    BY <1>2, <1>3, <2>1
  <2>3. m - k \in Nat
    BY <1>4, <2>2
  <2> QED
    BY <2>1, <2>3
<1>6. ASSUME NEW i \in 1 .. n
      PROVE  /\ Count(b[i].string, c) \in Nat
             /\ m - Count(t[i], c) = (m - Count(t[i - 1], c)) - Count(b[i].string, c)
  <2>1. PICK k, j, s : k = Count(t[i], c) /\ j = Count(t[i - 1], c) /\ s = Count(b[i].string, c)
    OBVIOUS
  <2>2. i \in 0 .. n /\ i - 1 \in 0 .. n
    BY <1>2
  <2>3. k \in Nat /\ j \in Nat /\ k = j + s
    BY <1>2, <2>1, <2>2
  <2>4. s \in Nat
    BY <1>2, <2>1, BytesAreOutputs, CountType
  <2>5. m - k = (m - j) - s
    BY <1>4, <2>3, <2>4
  <2> QED
    BY <2>1, <2>4, <2>5
<1>7. m - Count(t[0], c) <= 1 /\ m - m = 0
  BY <1>4
<1> QED
  BY <1>2, <1>3, <1>5, <1>6, <1>7, Zenon DEF Remaining

\* Each pass over a block logs a byte at most once.
LEMMA CountKeeps ==
  ASSUME BlockInv, CountInv, [BlockNext]_blockVars
  PROVE  CountInv'
<1>1. IInv /\ LoopInv
  BY DEF BlockInv
<1>2. macro' = macro /\ block' = block
  BY DEF BlockNext, BlockStep, Log, FlushBlock, Turn, Run, Outside, Ended, blockVars, loop
<1>3. SUFFICES ASSUME macro # "none"
               PROVE  /\ \A c \in Plain : Owed(c)' + ToCome(c)' <= passes'
                      /\ macro = "PFLUSH_AFTER" => passes' = 1
  BY <1>2 DEF CountInv
<1>4. /\ block \in Blocks /\ macro \in {"KFLUSH_AFTER", "PFLUSH_AFTER"}
      /\ \A c \in Plain : Owed(c) + ToCome(c) <= passes
      /\ macro = "PFLUSH_AFTER" => passes = 1
  BY <1>3 DEF CountInv
<1>5. passes \in Nat /\ line \in 0 .. Len(block) + 2
  BY <1>1, BlockAssumption DEF LoopInv
<1>6. macro = "PFLUSH_AFTER" => passes' = 1
  BY <1>4 DEF BlockNext, BlockStep, Log, FlushBlock, Turn, Repeats, Run, Outside, Ended, blockVars, loop
<1>7. ASSUME NEW c \in Plain PROVE Owed(c)' + ToCome(c)' <= passes'
  <2>1. PICK b, t, n, m : b = block /\ t = Upto(b) /\ n = Len(b) /\ m = Count(TextOf(b), c)
    OBVIOUS
  <2>2. b \in Blocks /\ n \in Nat /\ Remaining(b, t, n, m, c)
    <3>1. Remaining(b, t, n, m, c)
      BY <1>4, <2>1, ToComeFacts
    <3> QED
      BY <1>4, <2>1, <3>1 DEF Remaining
  <2>3. PICK O, P, T, U, r, q : /\ O = Owed(c) /\ P = Owed(c)' /\ T = ToCome(c) /\ U = ToCome(c)'
                                /\ r = passes /\ q = passes'
    OBVIOUS
  <2>4. O \in Nat /\ P \in Nat /\ O + T <= r /\ r \in Nat
    <3>1. IInv'
      BY BlockKeeps DEF BlockInv
    <3>2. PICK o, w, d : o = Count(out', c) /\ w = Count(Waiting', c) /\ d = Count(data', c)
      OBVIOUS
    <3>3. o \in Nat /\ w \in Nat /\ d \in Nat
      BY <3>1, <3>2, OwedTypes
    <3>4. P = o + w + d
      BY <2>3, <3>2 DEF Owed
    <3>5. P \in Nat
      BY <3>3, <3>4
    <3> QED
      BY <1>1, <1>4, <1>5, <2>3, <3>5, OwedType
  <2>5. /\ T = IF line \in 1 .. n + 1 THEN m - Count(t[line - 1], c) ELSE 0
        /\ U = IF line' \in 1 .. n + 1 THEN m - Count(t[line' - 1], c) ELSE 0
    BY <1>2, <2>1, <2>3 DEF ToCome, Text
  <2>6. SUFFICES P + U <= q
    BY <2>3
  <2>7. CASE Log
    <3>1. PICK l, s : l = line /\ s = b[l].string
      OBVIOUS
    <3>2. l \in 1 .. n /\ line' = l + 1 /\ q = r
      BY <2>1, <2>3, <2>7, <3>1 DEF Log, InBlock
    <3>3. P <= O + Count(s, c)
      <4>1. b[l] \in Calls
        <5>1. b \in Seq(Calls)
          BY <2>2, BlockAssumption DEF Calls
        <5> QED
          BY <2>1, <3>2, <5>1, ElementOfSeq
      <4>2. s \in Seq(Bytes) /\ b[l].flags \in Flags
        BY <3>1, <4>1 DEF Calls
      <4>3. Start(s, b[l].flags)
        BY <2>1, <2>7, <3>1 DEF Log, appendToFlushBuffer
      <4> QED
        BY <1>1, <2>3, <4>2, <4>3, StartOwes
    <3>4. PICK k, j, v : k = m - Count(t[l], c) /\ j = m - Count(t[l - 1], c) /\ v = Count(s, c)
      OBVIOUS
    <3>5. l \in 0 .. n /\ l - 1 \in 0 .. n /\ l \in 1 .. n + 1 /\ l + 1 \in 1 .. n + 1 /\ (l + 1) - 1 = l
      BY <2>2, <3>2
    <3>6. T = j /\ U = k
      BY <2>5, <3>1, <3>2, <3>4, <3>5
    <3>7. k \in Nat /\ j \in Nat /\ v \in Nat /\ k = j - v
      BY <2>2, <3>1, <3>2, <3>4, <3>5, Zenon DEF Remaining
    <3>8. P <= O + v
      BY <3>3, <3>4, Zenon
    <3> QED
      BY <2>4, <3>2, <3>6, <3>7, <3>8
  <2>8. CASE FlushBlock
    <3>1. line = n + 1 /\ line' = n + 2 /\ q = r
      BY <2>1, <2>2, <2>3, <2>8 DEF FlushBlock
    <3>2. line \in 1 .. n + 1 /\ line - 1 = n /\ ~(line' \in 1 .. n + 1)
      BY <2>2, <3>1
    <3>3. T = 0 /\ U = 0
      BY <2>2, <2>5, <3>2 DEF Remaining
    <3>4. P <= O + 0
      <4>1. << >> \in Seq(Bytes) /\ {"FLUSH"} \in Flags
        BY EmptySeq DEF Flags
      <4>2. Start(<< >>, {"FLUSH"})
        BY <2>8 DEF FlushBlock, flushStandardBuffer
      <4>3. P <= O + Count(<< >>, c)
        BY <1>1, <2>3, <4>1, <4>2, StartOwes
      <4> QED
        BY <4>3, CountNothing
    <3> QED
      BY <2>4, <3>1, <3>3, <3>4
  <2>9. CASE Turn
    <3>1. /\ line = n + 2 /\ UNCHANGED <<out, buf, sent, data>>
          /\ (line' = 1 /\ q = r + 1) \/ (line' = 0 /\ q = r)
      BY <2>1, <2>3, <2>9 DEF Turn, Flushed, vars, call
    <3>2. P = O
      BY <2>3, <3>1 DEF Owed, Waiting
    <3>3. T = 0
      <4>1. ~(line \in 1 .. n + 1)
        BY <2>2, <3>1
      <4> QED
        BY <2>5, <4>1
    <3>4. CASE line' = 1 /\ q = r + 1
      <4>1. line' \in 1 .. n + 1 /\ line' - 1 = 0 /\ 0 \in 0 .. n
        BY <2>2, <3>4
      <4>2. PICK j : j = m - Count(t[0], c)
        OBVIOUS
      <4>3. U = j
        BY <2>5, <4>1, <4>2
      <4>4. j \in Nat /\ j <= 1
        BY <2>2, <4>1, <4>2, Zenon DEF Remaining
      <4> QED
        BY <2>4, <3>2, <3>3, <3>4, <4>3, <4>4
    <3>5. CASE line' = 0 /\ q = r
      <4>1. U = 0
        BY <2>2, <2>5, <3>5
      <4> QED
        BY <2>4, <3>2, <3>3, <3>5, <4>1
    <3> QED
      BY <3>1, <3>4, <3>5
  <2>10. CASE Run
    <3>1. Step /\ line' = line /\ q = r
      BY <2>3, <2>10 DEF Run
    <3>2. P <= O
      BY <1>1, <2>3, <3>1, StepOwes
    <3>3. U = T
      BY <2>5, <3>1
    <3>4. T \in Int
      <4>1. CASE line \in 1 .. n + 1
        <5>1. line - 1 \in 0 .. n
          BY <2>2, <4>1
        <5>2. m - Count(t[line - 1], c) \in Nat
          BY <2>2, <5>1 DEF Remaining
        <5> QED
          BY <2>5, <4>1, <5>2
      <4>2. CASE ~(line \in 1 .. n + 1)
        BY <2>5, <4>2
      <4> QED
        BY <4>1, <4>2
    <3> QED
      BY <2>4, <3>1, <3>2, <3>3, <3>4
  <2>11. CASE Ended \/ UNCHANGED blockVars
    <3>1. UNCHANGED <<out, buf, sent, data, line>> /\ q = r
      BY <2>3, <2>11 DEF Ended, blockVars, vars, call, loop
    <3>2. P = O
      BY <2>3, <3>1 DEF Owed, Waiting
    <3>3. U = T
      BY <2>5, <3>1
    <3> QED
      BY <2>4, <3>1, <3>2, <3>3
  <2> QED
    BY <1>3, <2>7, <2>8, <2>9, <2>10, <2>11 DEF BlockNext, BlockStep, Outside
<1> QED
  BY <1>6, <1>7

-----------------------------------------------------------------------------
(* A block that fits is delivered whole.                                    *)

\* Facts on concatenation with nothing, and its length.
LEMMA Joined ==
  ASSUME NEW x \in Seq(Bytes), NEW y \in Seq(Bytes), NEW z \in Seq(Bytes)
  PROVE  /\ (x \o y) \o z \in Seq(Bytes)
         /\ Len((x \o y) \o z) = (Len(x) + Len(y)) + Len(z)
         /\ Len(x) \in Nat /\ Len(y) \in Nat /\ Len(z) \in Nat
<1>1. x \o y \in Seq(Bytes) /\ Len(x \o y) = Len(x) + Len(y)
  BY ConcatProperties
<1> QED
  BY <1>1, ConcatProperties, LenProperties

\* While a pass over a block that fits goes on, a step of a call neither flushes nor
\* loses a byte.
LEMMA PassStep ==
  ASSUME IInv, Step, NEW t \in Seq(Bytes), Len(t) < FLUSH_BUFFER_SIZE, PassInv(t)
  PROVE  PassInv(t)'
<1>1. /\ pc # "flush" /\ (buf \o data) \o Newline(flags) = t /\ "FLUSH" \notin flags
      /\ pc # "append" => data = << >>
      /\ pc = "idle" => flags = {}
  BY DEF PassInv
<1>2. PICK b, d, z : b = buf /\ d = data /\ z = Newline(flags)
  OBVIOUS
<1>3. b \in Seq(Bytes) /\ d \in Seq(Bytes) /\ z \in Seq(Bytes) /\ t = (b \o d) \o z
  BY <1>1, <1>2, NewlineFacts DEF IInv, TypeOK
<1>4. Len(b) \in Nat /\ Len(d) \in Nat /\ Len(b) + Len(d) < FLUSH_BUFFER_SIZE /\ FLUSH_BUFFER_SIZE \in Nat
  <2>1. PICK i, j, k, l : i = Len(b) /\ j = Len(d) /\ k = Len(z) /\ l = Len(t)
    OBVIOUS
  <2>a. /\ Len((b \o d) \o z) = (Len(b) + Len(d)) + Len(z)
        /\ Len(b) \in Nat /\ Len(d) \in Nat /\ Len(z) \in Nat
    BY ONLY <1>3, Joined, Zenon
  <2>2. i \in Nat /\ j \in Nat /\ k \in Nat /\ l = (i + j) + k
    BY ONLY <1>3, <2>1, <2>a, Zenon
  <2>3. l < FLUSH_BUFFER_SIZE /\ FLUSH_BUFFER_SIZE \in Nat
    BY <2>1, BufferAssumption
  <2>4. i + j < FLUSH_BUFFER_SIZE
    BY <2>2, <2>3
  <2> QED
    BY <2>1, <2>2, <2>3, <2>4, Zenon
<1>5. CASE AppendCopy
  <2> DEFINE space == FLUSH_BUFFER_SIZE - Len(b)
             n == IF space < Len(d) THEN space ELSE Len(d)
  <2>1. n = Len(d)
    BY <1>4
  <2> HIDE DEF n
  <2>2. /\ pc = "append" /\ buf' = b \o SubSeq(d, 1, n) /\ data' = SubSeq(d, n + 1, Len(d))
        /\ IF Len(b) + n = FLUSH_BUFFER_SIZE THEN pc' = "flush" ELSE pc' = pc
        /\ flags' = flags
    BY <1>2, <1>5 DEF AppendCopy, Flush, n
  <2>3. pc' = "append"
    BY <1>4, <2>1, <2>2
  <2>4. SubSeq(d, 1, n) = d /\ SubSeq(d, n + 1, Len(d)) = << >>
    BY <1>3, <1>4, <2>1, SubSeqFull, SubSeqEmpty
  <2>5. buf' = b \o d /\ data' = << >>
    BY <2>2, <2>4
  <2>6. (b \o d) \o << >> = b \o d
    BY <1>3, ConcatProperties, ConcatEmptySeq
  <2> QED
    BY <1>1, <1>2, <1>3, <2>2, <2>3, <2>5, <2>6, Zenon DEF PassInv
<1>6. CASE AppendDone
  BY <1>1, <1>6 DEF AppendDone, PassInv
<1>7. CASE NewlineStore
  <2>1. pc = "flags" /\ buf' = Append(b, "LF") /\ UNCHANGED <<pc, data>> /\ flags' = flags \ {"NEWLINE"}
        /\ "NEWLINE" \in flags
    BY <1>2, <1>7 DEF NewlineStore
  <2>2. z = <<"LF">> /\ Newline(flags') = << >> /\ d = << >>
    BY <1>1, <1>2, <2>1 DEF Newline
  <2>3. buf' = b \o z
    BY <1>3, <2>1, <2>2, AppendIsConcat
  <2>4. b \o << >> = b /\ (b \o z) \o << >> = b \o z
    BY <1>3, ConcatProperties, ConcatEmptySeq
  <2>5. (buf' \o data') \o Newline(flags') = t
    <3>1. data' = << >>
      BY <1>2, <2>1, <2>2
    <3>2. (buf' \o data') \o Newline(flags') = ((b \o z) \o << >>) \o << >>
      BY <2>2, <2>3, <3>1, Zenon
    <3>3. t = (b \o << >>) \o z
      BY <1>3, <2>2, Zenon
    <3> QED
      BY <2>4, <3>2, <3>3, Zenon
  <2>6. "FLUSH" \notin flags' /\ pc' = "flags" /\ data' = << >>
    BY <1>1, <1>2, <2>1, <2>2
  <2> QED
    BY <2>5, <2>6, Zenon DEF PassInv
<1>8. CASE Done
  BY <1>1, <1>8 DEF Done, PassInv
<1>9. CASE NewlineFull
  BY <1>2, <1>4, <1>9 DEF NewlineFull
<1>10. CASE FlushFlag \/ Write \/ WriteFails \/ FlushDone
  BY <1>1, <1>10 DEF FlushFlag, Write, WriteFails, FlushDone
<1> QED
  BY <1>5, <1>6, <1>7, <1>8, <1>9, <1>10 DEF Step

\* What is written goes behind what was written of the buffer.
LEMMA WriteEnds ==
  ASSUME NEW b \in Seq(Bytes), NEW k \in Nat, NEW n \in Nat, k + n <= Len(b)
  PROVE  /\ Stream!ShownAll(SubSeq(b, 1, k + n)) =
               Stream!ShownAll(SubSeq(b, 1, k)) \o Stream!ShownAll(SubSeq(b, k + 1, k + n))
         /\ Stream!ShownAll(SubSeq(b, 1, k)) \in Seq(Outputs)
         /\ Stream!ShownAll(SubSeq(b, k + 1, k + n)) \in Seq(Outputs)
<1>1. Len(b) \in Nat /\ \A i \in 1 .. Len(b) : b[i] \in Bytes
  BY LenProperties, ElementOfSeq
<1>2. SubSeq(b, 1, k) \in Seq(Bytes)
  <2>1. \A i \in 1 .. k : b[i] \in Bytes
    BY <1>1
  <2> QED
    BY <2>1, SubSeqProperties
<1>3. SubSeq(b, k + 1, k + n) \in Seq(Bytes)
  <2>1. \A i \in k + 1 .. k + n : b[i] \in Bytes
    BY <1>1
  <2> QED
    BY <2>1, SubSeqProperties
<1>4. SubSeq(b, 1, k) \o SubSeq(b, k + 1, k + n) = SubSeq(b, 1, k + n)
  <2>1. 1 \in 1 .. Len(b) + 1 /\ k \in 1 - 1 .. Len(b) /\ k + n \in k .. Len(b)
    BY <1>1
  <2> QED
    BY <2>1, ConcatAdjacentSubSeq
<1>5. Stream!ShownAll(SubSeq(b, 1, k) \o SubSeq(b, k + 1, k + n)) =
        Stream!ShownAll(SubSeq(b, 1, k)) \o Stream!ShownAll(SubSeq(b, k + 1, k + n))
  BY <1>2, <1>3, ShownConcat
<1> QED
  BY <1>2, <1>3, <1>4, <1>5, ShownFacts

\* What the flush behind a block has done so far.
LEMMA FlushStep ==
  ASSUME IInv, Step, NEW t \in Seq(Bytes), FlushInv(t)
  PROVE  FlushInv(t)'
<1>1. /\ data = << >>
      /\ pc = "append" => buf = t /\ flags = {"FLUSH"}
      /\ pc = "flags" => \/ buf = t /\ flags = {"FLUSH"}
                         \/ buf = << >> /\ flags = {} /\ EndsWith(Stream!ShownAll(t))
      /\ pc = "flush" => /\ buf = t /\ flags = {} /\ resume = "flags"
                         /\ EndsWith(Stream!ShownAll(SubSeq(buf, 1, sent)))
  BY DEF FlushInv
<1>2. device' = device /\ out \in Seq(Outputs) /\ sent \in 0 .. Len(buf) /\ (pc # "flush" => sent = 0)
  BY DEF Step, AppendCopy, AppendDone, NewlineFull, NewlineStore, FlushFlag, Done, Write, WriteFails,
         FlushDone, IInv, TypeOK, Outputs, SentInv
<1>3. \A x : Stream!ShownAll(x)' = Stream!ShownAll(x)
  BY <1>2 DEF Stream!ShownAll, Stream!Shown
<1>4. CASE AppendCopy \/ NewlineFull \/ NewlineStore
  BY <1>1, <1>4 DEF AppendCopy, NewlineFull, NewlineStore
<1>5. CASE AppendDone
  BY <1>1, <1>5 DEF AppendDone, FlushInv
<1>6. CASE FlushFlag
  <2>1. /\ buf' = t /\ flags' = {} /\ pc' = "flush" /\ resume' = "flags" /\ data' = << >>
        /\ sent' = 0 /\ out' = out
    BY <1>1, <1>2, <1>6 DEF FlushFlag, Flush
  <2>2. EndsWith(Stream!ShownAll(SubSeq(buf, 1, sent)))'
    <3>1. SubSeq(buf', 1, sent') = << >>
      BY <2>1, SubSeqEmpty
    <3>2. Stream!ShownAll(SubSeq(buf, 1, sent))' = << >>
      <4>1. Stream!ShownAll(<< >>)' = Stream!ShownAll(<< >>)
        BY <1>3
      <4> QED
        BY <3>1, <4>1, ShownNothing
    <3>3. out' = out \o << >>
      BY <1>2, <2>1, ConcatEmptySeq
    <3> QED
      BY <1>2, <3>2, <3>3 DEF EndsWith
  <2> QED
    BY <2>1, <2>2 DEF FlushInv
<1>7. CASE Done
  <2>1. /\ buf' = << >> /\ flags' = {} /\ pc' = "idle" /\ data' = << >> /\ out' = out
        /\ EndsWith(Stream!ShownAll(t))
    BY <1>1, <1>7 DEF Done
  <2>2. EndsWith(Stream!ShownAll(t))'
    BY <1>3, <2>1 DEF EndsWith
  <2> QED
    BY <2>1, <2>2 DEF FlushInv
<1>8. CASE Write
  <2>1. PICK n \in Takes(Len(buf) - sent) :
           /\ out' = out \o Stream!ShownAll(SubSeq(buf, sent + 1, sent + n))
           /\ sent' = sent + n
    BY <1>8 DEF Write
  <2>2. pc = "flush" /\ sent < Len(buf) /\ UNCHANGED <<buf, data, pc, flags, resume>> /\ TypeOK
    BY <1>8 DEF Write, call, IInv
  <2>3. PICK b, k, l : b = buf /\ k = sent /\ l = sent'
    OBVIOUS
  <2>4. b \in Seq(Bytes) /\ k \in Nat /\ n \in Nat /\ l = k + n /\ k + n <= Len(b)
    <3>1. n \in 0 .. Len(buf) - sent /\ buf \in Seq(Bytes) /\ sent \in Nat /\ Len(buf) \in Nat
      BY <2>1, <2>2, WriteFacts, LenProperties DEF TypeOK
    <3> QED
      BY <2>1, <2>3, <3>1
  <2>5. PICK x \in Seq(Outputs) : out = x \o Stream!ShownAll(SubSeq(b, 1, k))
    BY <1>1, <2>2, <2>3 DEF EndsWith
  <2>6. PICK f, g, h : /\ f = Stream!ShownAll(SubSeq(b, 1, k)) /\ g = Stream!ShownAll(SubSeq(b, k + 1, k + n))
                       /\ h = Stream!ShownAll(SubSeq(b, 1, k + n))
    OBVIOUS
  <2>7. f \in Seq(Outputs) /\ g \in Seq(Outputs) /\ h = f \o g
    BY <2>4, <2>6, WriteEnds
  <2>8. out' = (x \o f) \o g
    BY <2>1, <2>3, <2>5, <2>6
  <2>9. out' = x \o h
    BY <2>7, <2>8, OutputsAssociative
  <2>10. Stream!ShownAll(SubSeq(buf, 1, sent))' = h
    <3>1. buf' = b /\ sent' = k + n
      BY <2>2, <2>3, <2>4
    <3> QED
      BY <1>2, <2>6, <3>1 DEF Stream!ShownAll, Stream!Shown
  <2>11. EndsWith(Stream!ShownAll(SubSeq(buf, 1, sent)))'
    BY <2>9, <2>10 DEF EndsWith
  <2> QED
    BY <1>1, <2>2, <2>11 DEF FlushInv
<1>9. CASE WriteFails
  BY <1>9 DEF WriteFails, FlushInv
<1>10. CASE FlushDone
  <2>1. /\ pc = "flush" /\ sent = Len(buf) /\ buf' = << >> /\ pc' = resume
        /\ UNCHANGED <<out, data, flags>>
    BY <1>10 DEF FlushDone
  <2>2. /\ buf = t /\ flags' = {} /\ pc' = "flags" /\ data' = << >>
        /\ EndsWith(Stream!ShownAll(SubSeq(buf, 1, sent)))
    BY <1>1, <2>1
  <2>3. SubSeq(buf, 1, sent) = t
    BY <2>1, <2>2, SubSeqFull
  <2>4. EndsWith(Stream!ShownAll(t))
    BY <2>2, <2>3
  <2>5. EndsWith(Stream!ShownAll(t))'
    BY <1>3, <2>1, <2>4 DEF EndsWith
  <2> QED
    BY <2>1, <2>2, <2>5 DEF FlushInv
<1> QED
  BY <1>4, <1>5, <1>6, <1>7, <1>8, <1>9, <1>10 DEF Step

\* The text of a block that fits, line by line.
LEMMA FittingText ==
  ASSUME BlockInv, CountInv, Fits, NEW t, t = Upto(block), NEW n, n = Len(block)
  PROVE  /\ Grown(block, t, n) /\ Text = t[n] /\ macro = "KFLUSH_AFTER"
         /\ \A i \in 0 .. n : t[i] \in Seq(Bytes) /\ Len(t[i]) < FLUSH_BUFFER_SIZE
         /\ \A i \in 1 .. n : "FLUSH" \notin block[i].flags
<1>1. block \in Seq(Calls) /\ macro = "KFLUSH_AFTER"
  BY DEF BlockInv, LoopInv, Calls, Fits
<1>2. Grown(block, t, n)
  BY <1>1, TextGrows
<1>3. /\ n \in Nat /\ DOMAIN block = 1 .. n /\ TextOf(block) = t[n]
      /\ \A i \in 0 .. n : t[i] \in Seq(Bytes) /\ Len(t[i]) <= Len(t[n])
  BY <1>2 DEF Grown
<1>4. Text = t[n] /\ Len(t[n]) < FLUSH_BUFFER_SIZE
  BY <1>3 DEF Text, Fits
<1>5. ASSUME NEW i \in 0 .. n PROVE t[i] \in Seq(Bytes) /\ Len(t[i]) < FLUSH_BUFFER_SIZE
  <2>1. PICK p, q, r : p = Len(t[i]) /\ q = Len(t[n]) /\ r = FLUSH_BUFFER_SIZE
    OBVIOUS
  <2>2. n \in 0 .. n
    BY <1>3
  <2>3. p \in Nat /\ q \in Nat /\ p <= q /\ q < r
    BY <1>3, <1>4, <2>1, <2>2, LenProperties
  <2>4. r \in Nat
    BY <2>1, BufferAssumption
  <2>5. p < r
    BY <2>3, <2>4
  <2> QED
    BY <1>3, <2>1, <2>5
<1>6. \A i \in 1 .. n : "FLUSH" \notin block[i].flags
  BY <1>3 DEF Fits
<1> QED
  BY <1>1, <1>2, <1>4, <1>5, <1>6

\* A call of the block is made with what was logged so far in the buffer.
LEMMA PassIdle ==
  ASSUME IInv, NEW t \in Seq(Bytes), PassInv(t), pc = "idle"
  PROVE  buf = t
<1>1. (buf \o data) \o Newline(flags) = t /\ data = << >> /\ flags = {} /\ buf \in Seq(Bytes)
  BY DEF PassInv, IInv, TypeOK
<1>2. (buf \o << >>) \o << >> = t
  BY <1>1 DEF Newline
<1> QED
  BY <1>1, <1>2, ConcatEmptySeq

\* The loop keeps what a pass, the flush behind it and the end of the block rest on.
LEMMA WholeKeeps ==
  ASSUME BlockInv, CountInv, WholeInv, [BlockNext]_blockVars
  PROVE  WholeInv'
<1>1. IInv /\ LoopInv
  BY DEF BlockInv
<1>2. macro' = macro /\ block' = block
  BY DEF BlockNext, BlockStep, Log, FlushBlock, Turn, Run, Outside, Ended, blockVars, loop
<1>3. Text' = Text /\ Fits' = Fits
  BY <1>2 DEF Text, Fits
<1>4. SUFFICES ASSUME Fits
               PROVE  /\ line' \in 1 .. Len(block) + 1 => PassInv(Upto(block)[line - 1])'
                      /\ Flushed' => FlushInv(Text)'
                      /\ Left' => pc' = "idle" /\ EndsWith(Stream!ShownAll(Text))'
  BY <1>2, <1>3 DEF WholeInv
<1>5. PICK t, n, l, k : t = Upto(block) /\ n = Len(block) /\ l = line /\ k = line'
  OBVIOUS
<1>6. /\ Grown(block, t, n) /\ Text = t[n] /\ macro = "KFLUSH_AFTER"
      /\ \A i \in 0 .. n : t[i] \in Seq(Bytes) /\ Len(t[i]) < FLUSH_BUFFER_SIZE
      /\ \A i \in 1 .. n : "FLUSH" \notin block[i].flags
  BY <1>4, <1>5, FittingText
<1>7. /\ n \in Nat /\ t[0] = << >>
      /\ \A i \in 1 .. n : /\ block[i].string \in Seq(Bytes) /\ block[i].flags \in Flags
                           /\ t[i] = (t[i - 1] \o block[i].string) \o Newline(block[i].flags)
  BY <1>6 DEF Grown
<1>8. /\ l \in 1 .. n + 1 => PassInv(t[l - 1])
      /\ l = n + 2 => FlushInv(Text)
      /\ l = 0 => pc = "idle" /\ EndsWith(Stream!ShownAll(Text))
  BY <1>4, <1>5 DEF WholeInv, Flushed, Left
<1>9. SUFFICES /\ k \in 1 .. n + 1 => PassInv(t[k - 1])'
               /\ k = n + 2 => FlushInv(t[n])'
               /\ k = 0 => pc' = "idle" /\ EndsWith(Stream!ShownAll(t[n]))'
  <2>1. Text' = t[n] /\ Upto(block)' = t /\ line' = k /\ Len(block') = n
    BY <1>2, <1>3, <1>5, <1>6
  <2>2. FlushInv(t[n])' => FlushInv(Text)'
    BY <2>1 DEF FlushInv, EndsWith, Stream!ShownAll
  <2>3. EndsWith(Stream!ShownAll(t[n]))' => EndsWith(Stream!ShownAll(Text))'
    BY <2>1 DEF EndsWith, Stream!ShownAll
  <2>4. PassInv(t[k - 1])' => PassInv(Upto(block)[line - 1])'
    BY <2>1 DEF PassInv
  <2> QED
    BY <1>5, <2>1, <2>2, <2>3, <2>4 DEF Flushed, Left
<1>10. n \in 0 .. n /\ t[n] \in Seq(Bytes)
  BY <1>6, <1>7
<1>11. CASE Log
  <2>1. l \in 1 .. n /\ k = l + 1 /\ appendToFlushBuffer(block[l].string, block[l].flags)
    BY <1>5, <1>11 DEF Log, InBlock
  <2>2. PICK s, fs, u : s = block[l].string /\ fs = block[l].flags /\ u = t[l - 1]
    OBVIOUS
  <2>3. pc = "idle" /\ pc' = "append" /\ data' = s /\ flags' = fs /\ buf' = buf
    BY <2>1, <2>2 DEF appendToFlushBuffer, Start
  <2>4. l \in 1 .. n + 1 /\ l - 1 \in 0 .. n /\ k - 1 = l /\ k # n + 2 /\ k # 0
    BY <1>7, <2>1
  <2>5. u \in Seq(Bytes) /\ PassInv(u)
    BY <1>6, <1>8, <2>2, <2>4
  <2>6. buf = u
    BY <1>1, <2>3, <2>5, PassIdle
  <2>7. "FLUSH" \notin fs /\ t[l] = (u \o s) \o Newline(fs)
    BY <1>6, <1>7, <2>1, <2>2
  <2>8. PassInv(t[l])'
    BY <2>3, <2>6, <2>7 DEF PassInv
  <2> QED
    BY <2>4, <2>8
<1>12. CASE FlushBlock
  <2>1. l = n + 1 /\ k = n + 2 /\ pc = "idle" /\ Start(<< >>, {"FLUSH"})
    BY <1>5, <1>7, <1>12 DEF FlushBlock, flushStandardBuffer
  <2>2. pc' = "append" /\ data' = << >> /\ flags' = {"FLUSH"} /\ buf' = buf
    BY <2>1 DEF Start
  <2>3. l \in 1 .. n + 1 /\ l - 1 = n /\ k # 0 /\ ~(k \in 1 .. n + 1)
    BY <1>7, <2>1
  <2>4. buf = t[n]
    BY <1>1, <1>8, <1>10, <2>1, <2>3, PassIdle
  <2>5. FlushInv(t[n])'
    BY <2>2, <2>4 DEF FlushInv
  <2> QED
    BY <2>3, <2>5
<1>13. CASE Turn
  <2>1. /\ l = n + 2 /\ pc = "idle" /\ UNCHANGED vars
        /\ (~result /\ k = 1) \/ (result /\ k = 0)
    <3>1. result \in BOOLEAN
      BY <1>1 DEF IInv, TypeOK
    <3> QED
      BY <1>5, <1>6, <1>13, <3>1 DEF Turn, Flushed, Repeats
  <2>2. UNCHANGED <<device, buf, out, pc, data, flags, result>>
    BY <2>1 DEF vars, call
  <2>3. FlushInv(t[n])
    BY <1>6, <1>8, <2>1
  <2>4. buf = << >> /\ flags = {} /\ data = << >> /\ (result => EndsWith(Stream!ShownAll(t[n])))
    BY <2>1, <2>3 DEF FlushInv
  <2>5. CASE ~result /\ k = 1
    <3>1. << >> \o << >> = << >>
      BY ConcatEmptySeq, EmptySeq
    <3>2. PassInv(<< >>)'
      BY <2>1, <2>2, <2>4, <3>1 DEF PassInv, Newline
    <3>3. k - 1 = 0 /\ k # n + 2 /\ k # 0
      BY <1>7, <2>5
    <3> QED
      BY <1>7, <3>2, <3>3
  <2>6. CASE result /\ k = 0
    <3>1. EndsWith(Stream!ShownAll(t[n]))'
      BY <2>2, <2>4, <2>6 DEF EndsWith, Stream!ShownAll, Stream!Shown
    <3>2. ~(k \in 1 .. n + 1) /\ k # n + 2
      BY <1>7, <2>6
    <3> QED
      BY <2>1, <2>2, <2>6, <3>1, <3>2
  <2> QED
    BY <2>1, <2>5, <2>6
<1>14. CASE Run
  <2>1. Step /\ k = l
    BY <1>5, <1>14 DEF Run
  <2>2. pc # "idle"
    BY <2>1 DEF Step, AppendCopy, AppendDone, NewlineFull, NewlineStore, FlushFlag, Done, Write,
                WriteFails, FlushDone
  <2>3. ASSUME k \in 1 .. n + 1 PROVE PassInv(t[k - 1])'
    <3>1. k - 1 \in 0 .. n
      BY <1>7, <2>3
    <3>2. PICK u : u = t[k - 1]
      OBVIOUS
    <3>3. u \in Seq(Bytes) /\ Len(u) < FLUSH_BUFFER_SIZE /\ PassInv(u)
      BY <1>6, <1>8, <2>1, <2>3, <3>1, <3>2
    <3>4. PassInv(u)'
      BY <1>1, <2>1, <3>3, PassStep
    <3> QED
      BY <3>2, <3>4
  <2>4. ASSUME k = n + 2 PROVE FlushInv(t[n])'
    <3>1. PICK u : u = t[n]
      OBVIOUS
    <3>2. u \in Seq(Bytes) /\ FlushInv(u)
      BY <1>6, <1>8, <1>10, <2>1, <2>4, <3>1
    <3>3. FlushInv(u)'
      BY <1>1, <2>1, <3>2, FlushStep
    <3> QED
      BY <3>1, <3>3
  <2> QED
    BY <1>8, <2>1, <2>2, <2>3, <2>4
<1>15. CASE Ended \/ UNCHANGED blockVars
  <2>1. k = l /\ UNCHANGED <<device, buf, out, pc, data, flags, result, sent, resume>>
    BY <1>5, <1>15 DEF Ended, blockVars, vars, call, loop
  <2>2. \A x : PassInv(x)' <=> PassInv(x)
    BY <2>1 DEF PassInv
  <2>3. \A x : EndsWith(Stream!ShownAll(x))' <=> EndsWith(Stream!ShownAll(x))
    BY <2>1 DEF EndsWith, Stream!ShownAll, Stream!Shown
  <2>4. FlushInv(t[n])' <=> FlushInv(t[n])
    BY <2>1 DEF FlushInv, EndsWith, Stream!ShownAll, Stream!Shown
  <2> QED
    BY <1>6, <1>8, <2>1, <2>2, <2>3, <2>4
<1> QED
  BY <1>6, <1>11, <1>12, <1>13, <1>14, <1>15 DEF BlockNext, BlockStep, Outside

\* Before the first line nothing is owed and nothing was logged.
LEMMA DeliveryStarts == BlockInit => DeliveryInv
<1> SUFFICES ASSUME BlockInit PROVE DeliveryInv
  OBVIOUS
<1>1. BlockInv
  BY BlockStarts
<1>2. /\ out = << >> /\ buf = << >> /\ sent = 0 /\ data = << >> /\ flags = {} /\ pc = "idle"
      /\ line = 1 /\ passes = 1
  BY DEF BlockInit, Init
<1>3. CountInv
  <2>1. SUFFICES ASSUME macro # "none"
                 PROVE  /\ block \in Blocks /\ macro \in {"KFLUSH_AFTER", "PFLUSH_AFTER"}
                        /\ \A c \in Plain : Owed(c) + ToCome(c) <= passes
                        /\ macro = "PFLUSH_AFTER" => passes = 1
    BY DEF CountInv
  <2>2. block \in Blocks /\ macro \in {"KFLUSH_AFTER", "PFLUSH_AFTER"}
    BY <2>1 DEF BlockInit
  <2>3. ASSUME NEW c \in Plain PROVE Owed(c) + ToCome(c) <= passes
    <3>1. Waiting = << >>
      BY <1>1, <1>2, NothingWaits, EmptySeq DEF BlockInv, IInv
    <3>2. Owed(c) = 0
      BY <1>2, <3>1, CountNothing DEF Owed
    <3>3. PICK b, t, n, m : b = block /\ t = Upto(b) /\ n = Len(b) /\ m = Count(TextOf(b), c)
      OBVIOUS
    <3>4. Remaining(b, t, n, m, c)
      BY <2>2, <3>3, ToComeFacts
    <3>5. n \in Nat /\ 0 \in 0 .. n
      BY <3>4 DEF Remaining
    <3>6. PICK j : j = m - Count(t[0], c)
      OBVIOUS
    <3>7. j \in Nat /\ j <= 1
      BY <3>4, <3>5, <3>6 DEF Remaining
    <3>8. ToCome(c) = j
      <4>1. line \in 1 .. Len(block) + 1 /\ line - 1 = 0
        BY <1>2, <3>3, <3>5
      <4> QED
        BY <3>3, <3>6, <4>1 DEF ToCome, Text
    <3> QED
      BY <1>2, <3>2, <3>7, <3>8
  <2> QED
    BY <1>2, <2>2, <2>3
<1>4. WholeInv
  <2> SUFFICES ASSUME Fits PROVE PassInv(Upto(block)[0]) /\ ~Flushed /\ ~Left
    BY <1>2 DEF WholeInv
  <2>1. PICK t, n : t = Upto(block) /\ n = Len(block)
    OBVIOUS
  <2>2. Grown(block, t, n)
    BY <1>1, <1>3, <2>1, FittingText
  <2>3. t[0] = << >> /\ n \in Nat
    BY <2>2 DEF Grown
  <2>4. << >> \o << >> = << >>
    BY ConcatEmptySeq, EmptySeq
  <2>5. PassInv(<< >>)
    BY <1>2, <2>4 DEF PassInv, Newline
  <2> QED
    BY <1>2, <2>1, <2>3, <2>5 DEF Flushed, Left
<1> QED
  BY <1>1, <1>3, <1>4 DEF DeliveryInv

\* What the loop has logged, and what has reached the device of it, in every reachable
\* state of a block.
THEOREM DeliveryInductive == BlockSpec => []DeliveryInv
<1>1. DeliveryInv /\ [BlockNext]_blockVars => DeliveryInv'
  BY BlockKeeps, CountKeeps, WholeKeeps DEF DeliveryInv
<1> QED
  BY <1>1, DeliveryStarts, PTL DEF BlockSpec

\* The end of what the device was given.
LEMMA EndIs ==
  ASSUME NEW x \in Seq(Outputs), NEW s \in Seq(Outputs), NEW o, o = x \o s
  PROVE  Len(o) >= Len(s) /\ SubSeq(o, Len(o) - Len(s) + 1, Len(o)) = s
<1>1. PICK m, n : m = Len(x) /\ n = Len(s)
  OBVIOUS
<1>2. /\ o \in Seq(Outputs) /\ Len(o) = m + n /\ m \in Nat /\ n \in Nat
      /\ \A i \in 1 .. m + n : o[i] = IF i <= m THEN x[i] ELSE s[i - m]
  BY <1>1, LenProperties, OutputsConcat
<1>3. PICK r : r = SubSeq(o, m + 1, m + n)
  OBVIOUS
<1>4. \A i \in m + 1 .. m + n : o[i] \in Outputs
  BY <1>2, ElementOfSeq
<1>5. /\ r \in Seq(Outputs)
      /\ Len(r) = IF m + 1 <= m + n THEN m + n - (m + 1) + 1 ELSE 0
      /\ \A i \in 1 .. m + n - (m + 1) + 1 : r[i] = o[(m + 1) + i - 1]
  BY <1>2, <1>3, <1>4, SubSeqProperties
<1>6. Len(r) = n
  BY <1>2, <1>5
<1>7. ASSUME NEW i \in 1 .. n PROVE r[i] = s[i]
  <2>1. /\ i \in 1 .. m + n - (m + 1) + 1 /\ (m + 1) + i - 1 = m + i
        /\ m + i \in 1 .. m + n /\ ~(m + i <= m) /\ (m + i) - m = i
    BY <1>2
  <2>2. r[i] = o[m + i]
    BY <1>5, <2>1
  <2>3. o[m + i] = s[i]
    BY <1>2, <2>1
  <2> QED
    BY <2>2, <2>3
<1>8. r = s
  BY <1>1, <1>5, <1>6, <1>7, SeqEqual
<1>9. Len(o) >= Len(s) /\ Len(o) - Len(s) + 1 = m + 1
  BY <1>1, <1>2
<1> QED
  BY <1>2, <1>3, <1>8, <1>9

\* Whatever the buffer's size, the block and the writes that fail: a block that fits in the
\* buffer is the end of what the device was given when KFLUSH_AFTER is left, and the device
\* is given no byte of a block more often than once and once more for every failed write,
\* with PFLUSH_AFTER never twice.
THEOREM BlockReachesDevice == BlockSpec => []BlockDelivered
<1>1. ASSUME DeliveryInv PROVE BlockDelivered
  <2>1. BlockInv /\ CountInv /\ WholeInv /\ IInv /\ LoopInv
    BY <1>1 DEF DeliveryInv, BlockInv
  <2>2. DeliveredWhole
    <3>1. SUFFICES ASSUME Left, Fits
                   PROVE  LET shown == Stream!ShownAll(Text)
                          IN /\ Len(out) >= Len(shown)
                             /\ SubSeq(out, Len(out) - Len(shown) + 1, Len(out)) = shown
      BY DEF DeliveredWhole, Fits
    <3>2. PICK s : s = Stream!ShownAll(Text)
      OBVIOUS
    <3>3. PICK x \in Seq(Outputs) : out = x \o s
      BY <2>1, <3>1, <3>2 DEF WholeInv, EndsWith
    <3>4. Text \in Seq(Bytes)
      <4>1. PICK t, n : t = Upto(block) /\ n = Len(block)
        OBVIOUS
      <4>2. Grown(block, t, n) /\ Text = t[n] /\ \A i \in 0 .. n : t[i] \in Seq(Bytes)
        BY <2>1, <3>1, <4>1, FittingText
      <4>3. n \in 0 .. n
        BY <4>2 DEF Grown
      <4> QED
        BY <4>2, <4>3
    <3>5. s \in Seq(Outputs)
      BY <3>2, <3>4, ShownFacts
    <3>6. Len(out) >= Len(s) /\ SubSeq(out, Len(out) - Len(s) + 1, Len(out)) = s
      BY <3>3, <3>5, EndIs
    <3> QED
      BY <3>2, <3>6
  <2>3. RepeatedOnlyAfterFailure
    <3>1. SUFFICES ASSUME macro # "none", NEW c \in Plain
                   PROVE  Count(out, c) <= (IF macro = "PFLUSH_AFTER" THEN 1 ELSE failures + 1)
      BY DEF RepeatedOnlyAfterFailure, Plain, Count
    <3>2. /\ block \in Blocks /\ Owed(c) + ToCome(c) <= passes
          /\ macro = "PFLUSH_AFTER" => passes = 1
      BY <2>1, <3>1 DEF CountInv
    <3>3. ToCome(c) \in Nat
      <4>1. PICK b, t, n, m : b = block /\ t = Upto(b) /\ n = Len(b) /\ m = Count(TextOf(b), c)
        OBVIOUS
      <4>2. Remaining(b, t, n, m, c)
        BY <3>1, <3>2, <4>1, ToComeFacts
      <4>3. CASE line \in 1 .. n + 1
        <5>1. line - 1 \in 0 .. n
          BY <4>2, <4>3 DEF Remaining
        <5>2. m - Count(t[line - 1], c) \in Nat
          BY <4>2, <5>1 DEF Remaining
        <5> QED
          BY <4>1, <4>3, <5>2 DEF ToCome, Text
      <4>4. CASE ~(line \in 1 .. n + 1)
        BY <4>1, <4>4 DEF ToCome
      <4> QED
        BY <4>3, <4>4
    <3>4. PICK o, w, q, p, f : /\ o = Count(out, c) /\ w = Owed(c) /\ q = ToCome(c)
                               /\ p = passes /\ f = failures
      OBVIOUS
    <3>5. w \in Nat /\ o <= w /\ o \in Nat
      BY <2>1, <3>4, OwedType, OwedTypes
    <3>6. f \in Nat /\ p \in Nat /\ p <= f + 1
      BY <2>1, <3>4, BlockAssumption DEF LoopInv
    <3>7. o <= p
      BY <3>2, <3>3, <3>4, <3>5, <3>6
    <3>8. o <= f + 1
      BY <3>5, <3>6, <3>7
    <3> QED
      BY <3>2, <3>4, <3>7, <3>8
  <2> QED
    BY <2>2, <2>3 DEF BlockDelivered
<1> QED
  BY <1>1, DeliveryInductive, PTL
=============================================================================
