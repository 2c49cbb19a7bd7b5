----------------------------- MODULE FlushAfter -----------------------------
(***************************************************************************)
(* A block of log calls inside KFLUSH_AFTER (abstraction/log.h) or         *)
(* PFLUSH_AFTER (posix/log.h), on the log buffer of FlushBuffer.  Both     *)
(* are for loops whose step flushes: KFLUSH_AFTER goes round again when    *)
(* the flush returned false, PFLUSH_AFTER never.  The calls of the block   *)
(* drop what they return.  A program that uses neither makes any calls.    *)
(***************************************************************************)
EXTENDS FlushBuffer, FiniteSets

CONSTANTS
  Blocks,        \* the blocks: sequences of [string, flags], no byte twice in a
                 \* block but the newline
  MaxFailures,   \* bound on the writes that fail
  MaxFreeCalls   \* bound on the calls of a program without a block

\* The bytes a pass over a block logs when nothing fails.
Newline(fs) == IF "NEWLINE" \in fs THEN <<"LF">> ELSE << >>
TextOf(b) ==
  LET t[i \in 0 .. Len(b)] ==
        IF i = 0 THEN << >> ELSE t[i - 1] \o b[i].string \o Newline(b[i].flags)
  IN t[Len(b)]

Occurrences(s, byte) == {i \in DOMAIN s : s[i] = byte}

\* Every pass over the longest block, and the flush behind it, may be made.
ASSUME BlockAssumption ==
  /\ Blocks \subseteq Seq([string : Seq(Bytes), flags : Flags])
  /\ \A b \in Blocks, byte \in Bytes \ {"LF", "NUL"} :
       Cardinality(Occurrences(TextOf(b), byte)) <= 1
  /\ MaxFailures \in Nat /\ MaxFreeCalls \in 0 .. MaxFailures
  /\ \A b \in Blocks : (Len(b) + 1) * (MaxFailures + 1) <= MaxCalls

VARIABLES
  macro,      \* the macro the block is written with, or "none"
  block,
  line,       \* the next call of the block; Len + 1 is the flush, Len + 2 its end
  passes,     \* how often the block was begun
  failures    \* how many writes have failed

loop == <<macro, block, line, passes, failures>>
blockVars == <<vars, loop>>

BlockInit ==
  /\ Init
  /\ \/ macro \in {"KFLUSH_AFTER", "PFLUSH_AFTER"} /\ block \in Blocks
     \/ macro = "none" /\ block = << >>
  /\ macro = "PFLUSH_AFTER" => device = "file"
  /\ line = 1 /\ passes = 1 /\ failures = 0

InBlock == line \in 1 .. Len(block)
Flushed == line = Len(block) + 2
Left == line = 0

\* KLOG, PLOG: the next call of the block.
Log ==
  /\ InBlock
  /\ appendToFlushBuffer(block[line].string, block[line].flags)
  /\ line' = line + 1 /\ UNCHANGED <<macro, block, passes, failures>>

\* The step of the loop.
FlushBlock ==
  /\ macro # "none" /\ pc = "idle" /\ line = Len(block) + 1
  /\ flushStandardBuffer
  /\ line' = line + 1 /\ UNCHANGED <<macro, block, passes, failures>>

\* Variants with a defect: the block is repeated whatever failed in it, it is
\* never repeated, or for as long as the flush succeeds.
RepeatsFailed == macro = "KFLUSH_AFTER" /\ failed
RepeatsNever == FALSE
RepeatsDone == macro = "KFLUSH_AFTER" /\ result

\* The condition of the loop after its step.
Repeats == macro = "KFLUSH_AFTER" /\ ~result

Turn ==
  /\ pc = "idle" /\ Flushed
  /\ IF Repeats THEN line' = 1 /\ passes' = passes + 1 ELSE line' = 0 /\ UNCHANGED passes
  /\ UNCHANGED <<vars, macro, block, failures>>

\* The calls themselves.
Run ==
  /\ Step
  /\ failures' = failures + (IF pc = "flush" /\ pc' \in {"idle", "assertion"} THEN 1 ELSE 0)
  /\ failures' <= MaxFailures
  /\ UNCHANGED <<macro, block, line, passes>>

\* The calls of a program without a block.
Outside ==
  /\ macro = "none" /\ calls < MaxFreeCalls
  /\ NewCall
  /\ UNCHANGED loop

Ended ==
  /\ Left \/ pc = "assertion" \/ (macro = "none" /\ pc = "idle" /\ calls = MaxFreeCalls)
  /\ UNCHANGED blockVars

BlockStep == Log \/ FlushBlock \/ Turn \/ Run

BlockNext == BlockStep \/ Outside \/ Ended

\* A call or a block that was begun goes on; calls outside a block need not come.
BlockSpec == BlockInit /\ [][BlockNext]_blockVars /\ WF_blockVars(BlockStep)

-----------------------------------------------------------------------------

Text == TextOf(block)

\* The types of the loop, with those of the buffer.
BlockTypeOK ==
  /\ TypeOK
  /\ line \in 0 .. Len(block) + 2
  /\ passes \in 1 .. failures + 1 /\ failures \in 0 .. MaxFailures

\* A block without a flush of its own that fits in the buffer reaches the device
\* whole before KFLUSH_AFTER is left, however often the flush failed.
DeliveredWhole ==
  LET shown == Stream!ShownAll(Text)
  IN /\ Left /\ macro = "KFLUSH_AFTER" /\ Len(Text) < FLUSH_BUFFER_SIZE
     /\ \A i \in DOMAIN block : "FLUSH" \notin block[i].flags
     => /\ Len(out) >= Len(shown)
        /\ SubSeq(out, Len(out) - Len(shown) + 1, Len(out)) = shown

\* What is logged again is what a failed write made necessary: the device is given
\* no byte of the block more often than once and once more for every failure, and
\* with PFLUSH_AFTER never twice.
RepeatedOnlyAfterFailure ==
  macro # "none" =>
    \A b \in Bytes \ {"LF", "NUL"} :
      Cardinality(Occurrences(out, b)) <=
        (IF macro = "PFLUSH_AFTER" THEN 1 ELSE failures + 1)

\* A block is delivered: whole, and no more often than failures made necessary.
BlockDelivered == DeliveredWhole /\ RepeatedOnlyAfterFailure

\* A block is left as long as writes do not fail for ever, or an assertion ends it.
BlockEnds == macro # "none" ~> (Left \/ pc = "assertion")
=============================================================================
