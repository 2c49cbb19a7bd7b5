---------------------------- MODULE KernelStart ----------------------------
(***************************************************************************)
(* From the loader's last instructions to the kernel's idle loop:          *)
(* jumpIntoKernel, kernelmain, the interrupt descriptor table, the entry   *)
(* code of every vector and the handler in which all faults end.  The      *)
(* processor is external: it may raise any vector while kernel code runs,  *)
(* and pushes an error code for some of them.  The memory manager is what  *)
(* PhysicalMemory and VirtualMemory say: a call returns or raises one of   *)
(* the two faults of its own.                                              *)
(***************************************************************************)
EXTENDS Integers, Sequences, FiniteSets, SequencesExt

CONSTANTS
  INIT_MEMORY, FLUSH_BUFFER_SIZE, FILE_BUF_LEN,
  PageSize,       \* of the pages the first memory is mapped with
  ScreenSizes,    \* possible sizes of the frame buffer
  Rings,          \* what the three rings of lines take
  Raised          \* the vectors that something outside the kernel may raise

ASSUME Sizes ==
  /\ INIT_MEMORY \in Nat /\ FLUSH_BUFFER_SIZE \in Nat /\ FILE_BUF_LEN \in Nat
  /\ PageSize \in Nat \ {0} /\ ScreenSizes \subseteq Nat /\ Rings \in Nat

ASSUME LoggerFits == FLUSH_BUFFER_SIZE <= INIT_MEMORY

ASSUME RaisedAreVectors == Raised \subseteq 0 .. 255

VARIABLES
  pc,         \* where the loader or kernelmain is
  mode,       \* "run", then "entered", "stub", "handler", "halted", or "lost"
  gdt,        \* the descriptors of the table in use, by index; "firmware" none
  idt,        \* vector -> gate, empty while the firmware's is loaded
  stack,      \* the stack from its top, from the first interrupt on
  raised,     \* the interrupts that were taken: vector, error code, code
  blocked,    \* non-maskable interrupts wait for an iretq
  screenSize, used,   \* frame buffer; bytes taken from the arena
  logger, screen,     \* they are initialised
  freed,      \* what freeMapped gave back: first byte, or -1
  shown       \* the texts that reached the screen

vars == <<pc, mode, gdt, idt, stack, raised, blocked, screenSize, used, logger,
          screen, freed, shown>>
boot == <<screenSize, used, logger, screen, freed, shown>>
interrupt == <<stack, raised, blocked>>

Vectors == 0 .. 255
NMI == 2
NO_MORE_PHYSICAL_MEMORY == 34
TOO_LARGE_ALLOCATION == 35

\* The types of the boot and of the interrupt in progress: at most one further
\* interrupt, a non-maskable one, is taken after the first.
TypeOK ==
  /\ pc \in {"gdt", "mapping", "start", "memory", "alloc", "logger", "screen",
             "free", "hello", "status", "loop", "exhausted", "exhaustedLoop"}
  /\ mode \in {"run", "entered", "stub", "handler", "halted", "lost"}
  /\ DOMAIN idt \in {{}, Vectors}
  /\ Len(raised) <= 2 /\ blocked \in BOOLEAN
  /\ used \in 0 .. INIT_MEMORY /\ freed \in -1 .. INIT_MEMORY
  /\ logger \in BOOLEAN /\ screen \in BOOLEAN

Init ==
  /\ pc = "gdt" /\ mode = "run" /\ gdt = << >> /\ idt = << >>
  /\ stack = << >> /\ raised = << >> /\ blocked = FALSE
  /\ screenSize \in ScreenSizes /\ used = 0
  /\ logger = FALSE /\ screen = FALSE /\ freed = -1 /\ shown = << >>

Runs(label) == mode = "run" /\ pc = label
Goto(label) == pc' = label

-----------------------------------------------------------------------------
(* Interrupts.                                                             *)

\* The processor pushes an error code for these, unless an int raised them; the last
\* two are raised by some processors only.
ErrorCodes == {8, 10, 11, 12, 13, 14, 17, 21, 29, 30}

\* Variant with a defect: the control protection exception comes without one.
isr_wrapper_with_errorBut21 == {8, 10, 11, 12, 13, 14, 17}

\* The vectors whose wrapper in idt.S leaves it to the processor.
isr_wrapper_with_error == {8, 10, 11, 12, 13, 14, 17, 21}

\* prepNewGDT: null, code, data, and a task segment of two places.
GDT == <<"null", "code", "data", "tss", "tss">>
Selected(selector) ==
  IF selector \div 8 + 1 \in DOMAIN gdt THEN gdt[selector \div 8 + 1] ELSE "none"

idt_set_gate(num) == [isr |-> num, selector |-> 8, type |-> "interrupt"]

\* The code that runs: the kernel's, or a step of the interrupt in progress.
Running == IF mode = "run" THEN pc ELSE mode

\* Entering a vector: the five words the processor pushes, and its code.
Enter(v, code) ==
  /\ raised' = Append(raised, [vector |-> v, code |-> code, at |-> Running])
  /\ stack' = (IF code = << >> THEN << >> ELSE <<code>>)
              \o << <<"rip", Running>>, <<"cs">>, <<"eflags">>, <<"rsp">>, <<"ss">> >> \o stack
  /\ mode' = "entered"

\* Without a gate for it, or a code segment for the gate, an interrupt ends
\* in a reset: a third fault while the second is being delivered.
Deliver(v, code) ==
  IF v \in DOMAIN idt /\ Selected(idt[v].selector) = "code"
  THEN Enter(v, code)
  ELSE mode' = "lost" /\ UNCHANGED <<raised, stack>>

\* Something outside: a fault of the code that runs, or a device.
Raise ==
  /\ mode = "run"
  /\ \E v \in Raised :
       /\ Deliver(v, IF v \in ErrorCodes THEN <<"error", v>> ELSE << >>)
       /\ blocked' = (v = NMI)
  /\ UNCHANGED <<pc, gdt, idt, boot>>

\* Variant with a defect: every further non-maskable interrupt is taken.
RaiseNMIAgain ==
  /\ mode = "halted" /\ Len(raised) < 3
  /\ Deliver(NMI, << >>) /\ UNCHANGED <<pc, gdt, idt, blocked, boot>>

\* cli holds no non-maskable interrupt back: it comes between any two steps of the
\* interrupt in progress, and hlt is left for it.
RaiseNMI ==
  /\ mode \in {"entered", "stub", "handler", "halted"} /\ ~blocked
  /\ Deliver(NMI, << >>) /\ blocked' = TRUE
  /\ UNCHANGED <<pc, gdt, idt, boot>>

\* int pushes no error code, whatever the vector.
triggerFault(fault) ==
  /\ Deliver(IF fault \in 0 .. TOO_LARGE_ALLOCATION THEN fault ELSE 255, << >>)
  /\ UNCHANGED <<pc, gdt, idt, blocked, boot>>

isr ==
  /\ mode = "entered" /\ mode' = "stub"
  /\ LET v == idt[Last(raised).vector].isr
     IN  stack' = (IF v \in isr_wrapper_with_error THEN << <<"int", v>> >>
                   ELSE << <<"int", v>>, <<"error", 0>> >>) \o stack
  /\ UNCHANGED <<pc, gdt, idt, raised, blocked, boot>>

\* isr_stub pushes the registers and the segments, here one element.
isr_stub ==
  /\ mode = "stub" /\ mode' = "handler"
  /\ stack' = << <<"registers">> >> \o stack
  /\ UNCHANGED <<pc, gdt, idt, raised, blocked, boot>>

\* Variant with a defect: the handler returns, and with it the code that was interrupted goes on.
fault_handlerReturns ==
  /\ mode = "handler" /\ mode' = "run"
  /\ stack' = << >> /\ blocked' = FALSE /\ raised' = << >>
  /\ UNCHANGED <<pc, gdt, idt, boot>>

\* cli; hlt.  What wakes it ends here again, so it does not return.
fault_handler ==
  /\ mode = "handler" /\ mode' = "halted"
  /\ UNCHANGED <<pc, gdt, idt, interrupt, boot>>

\* What the handler reads through regs.
Frame == [registers |-> stack[1], int_no |-> stack[2], err_code |-> stack[3],
          rip |-> stack[4]]

-----------------------------------------------------------------------------
(* The way to the idle loop.                                               *)

enableNewGDT ==
  /\ Runs("gdt") /\ Goto("mapping") /\ gdt' = GDT
  /\ UNCHANGED <<mode, idt, interrupt, boot>>

toKernel ==
  /\ Runs("mapping") /\ Goto("start")
  /\ UNCHANGED <<mode, gdt, idt, interrupt, boot>>

\* Variant with a defect: the memory comes first, the table when it is there.
initIDTLate ==
  /\ Runs("start") /\ Goto("memory")
  /\ UNCHANGED <<mode, gdt, idt, interrupt, boot>>

initIDT ==
  /\ Runs("start") /\ Goto("memory")
  /\ idt' = [v \in Vectors |-> idt_set_gate(v)]
  /\ UNCHANGED <<mode, gdt, interrupt, boot>>

\* initMemoryManager returns, or there is no memory.
InitMemory ==
  /\ Runs("memory")
  /\ \/ Goto("alloc") /\ UNCHANGED <<mode, gdt, idt, interrupt, boot>>
     \/ triggerFault(NO_MORE_PHYSICAL_MEMORY)

\* allocAndMap(INIT_MEMORY) returns, or raises one of its faults.
AllocInit ==
  /\ Runs("alloc")
  /\ \/ Goto("logger") /\ UNCHANGED <<mode, gdt, idt, interrupt, boot>>
     \/ triggerFault(NO_MORE_PHYSICAL_MEMORY)
     \/ triggerFault(TOO_LARGE_ALLOCATION)

\* A sequence of NEWs, given by what is used before and after each: the first
\* that does not fit jumps to kernelmain's handler.
News(totals, label) ==
  LET fits(i) == i \in DOMAIN totals /\ totals[i] <= INIT_MEMORY
      last == CHOOSE i \in DOMAIN totals : fits(i) /\ ~fits(i + 1)
  IN used' = totals[last] /\ Goto(IF last = Len(totals) THEN label ELSE "exhausted")

initLogger ==
  /\ Runs("logger") /\ News(<<used, used + FLUSH_BUFFER_SIZE>>, "screen")
  /\ logger' = (pc' = "screen")
  /\ UNCHANGED <<mode, gdt, idt, interrupt, screenSize, screen, freed, shown>>

\* The page frames of the screen are mapped again, which may need a page.
initScreen ==
  /\ Runs("screen")
  /\ \/ /\ LET drawn == used + FILE_BUF_LEN + screenSize
           IN News(<<used, used + FILE_BUF_LEN, drawn, drawn + Rings, drawn + 2 * Rings,
                     drawn + 3 * Rings>>, "free")
        /\ screen' = (pc' = "free")
        /\ UNCHANGED <<mode, gdt, idt, interrupt, screenSize, logger, freed, shown>>
     \/ triggerFault(NO_MORE_PHYSICAL_MEMORY)

\* Variant with a defect: freeMapped starts with the page the address is in.
FirstFreePageDown(address) == (address \div PageSize) * PageSize

\* freeMapped rounds its start up to the page size.
FirstFreePage(address) == ((address + PageSize - 1) \div PageSize) * PageSize

\* Variant with a defect: without a whole page to give back, kernelmain stays where it is.
FreeRestWaits ==
  /\ Runs("free") /\ FirstFreePage(used) < INIT_MEMORY /\ Goto("hello")
  /\ freed' = FirstFreePage(used)
  /\ UNCHANGED <<mode, gdt, idt, interrupt, screenSize, used, logger, screen, shown>>

\* The rest of the arena goes back, if it has a whole page.  The end is only
\* looked at when the start had to be rounded: an arena used to its last byte
\* gives back the page behind it.
FreeRest ==
  /\ Runs("free") /\ Goto("hello")
  /\ freed' = IF used % PageSize # 0 /\ FirstFreePage(used) >= INIT_MEMORY
              THEN -1 ELSE FirstFreePage(used)
  /\ UNCHANGED <<mode, gdt, idt, interrupt, screenSize, used, logger, screen, shown>>

\* KFLUSH_AFTER with the logger and the screen.
KLOG(here, text, label) ==
  /\ Runs(here) /\ Goto(label)
  /\ shown' = Append(shown, text)
  /\ UNCHANGED <<mode, gdt, idt, interrupt, screenSize, used, logger, screen, freed>>

Hello == KLOG("hello", "hello", "status")
Status == KLOG("status", "status", "loop")

\* The handler of kernelmain's arena logs a line and flushes it.  It is entered
\* from initScreen (the logger's buffer always fits), when rows and back buffer
\* of the screen are still null: nothing is drawn, or drawing faults.
RanOut ==
  /\ Runs("exhausted")
  /\ \/ Goto("exhaustedLoop") /\ UNCHANGED <<mode, gdt, idt, interrupt>>
     \/ Deliver(14, <<"error", 14>>) /\ UNCHANGED <<pc, gdt, idt, blocked>>
  /\ shown' = IF screen THEN Append(shown, "ran out") ELSE shown
  /\ UNCHANGED <<screenSize, used, logger, screen, freed>>

Kernel ==
  \/ enableNewGDT \/ toKernel \/ initIDT \/ InitMemory \/ AllocInit
  \/ initLogger \/ initScreen \/ FreeRest \/ Hello \/ Status \/ RanOut
  \/ isr \/ isr_stub \/ fault_handler

Next == Kernel \/ Raise \/ RaiseNMI

\* The processor goes on with the next instruction; nothing has to be raised.
Spec == Init /\ [][Next]_vars /\ WF_vars(Kernel)

-----------------------------------------------------------------------------
\* Whatever the vector, the handler finds the vector, the error code or zero,
\* and the address of the interrupted code where regs has them, also when it was an
\* interrupt's own: the wrappers of idt.S and the processor agree on which vectors
\* come with an error code.  They do not for 29 and 30, whose wrappers push a second.
UniformFrame ==
  mode = "handler" /\ Last(raised).vector \notin {29, 30} =>
    LET r == Last(raised)
    IN Frame = [registers |-> <<"registers">>, int_no |-> <<"int", r.vector>>,
                err_code |-> IF r.code = << >> THEN <<"error", 0>> ELSE r.code,
                rip |-> <<"rip", r.at>>]

\* The faults the kernel raises itself are never lost: from the first call that
\* can raise one, the table is loaded and its gates lead into a code segment.
FaultsAreTaken == mode = "lost" => pc \in {"gdt", "mapping", "start"}

\* An interrupt that was taken ends in a processor that stays halted, whatever
\* else is raised meanwhile: fault_handler's hlt is not left for good.
FaultHalts ==
  <>(mode = "entered") => <>[](mode = "halted")

\* The arena is used to its last byte, and ends on a page.
FullArena == used = INIT_MEMORY /\ INIT_MEMORY % PageSize = 0

\* What kernelmain gives back holds nothing that the logger or the screen keep, what
\* stays behind is less than a page, and nothing behind the arena is given back, with
\* one exception: of a full arena freeMapped gives back the page behind it.
KeepsWhatItUses ==
  /\ freed # -1 => used <= freed /\ freed % PageSize = 0
  /\ pc = "loop" => (IF freed = -1 THEN INIT_MEMORY ELSE freed) - used < PageSize
  /\ pc = "loop" => (freed >= INIT_MEMORY <=> FullArena)

\* The kernel idles, halts, or is lost; without an interrupt and with enough
\* memory it idles, and both texts are on the screen.
BootEnds ==
  <>[](mode \in {"halted", "lost"} \/ pc = "exhaustedLoop"
       \/ (pc = "loop" /\ shown = <<"hello", "status">>))

\* Interrupts find the table they need, and their handler the layout it expects.
InterruptsSound == TypeOK /\ UniformFrame /\ FaultsAreTaken

\* Every boot settles, and an interrupt that was taken ends it.
BootSettles == FaultHalts /\ BootEnds
=============================================================================
