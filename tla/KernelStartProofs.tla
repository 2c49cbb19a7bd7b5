------------------------- MODULE KernelStartProofs -------------------------
(***************************************************************************)
(* The way into the kernel, for every size of the arena and of what is     *)
(* taken from it and for every set of vectors that may be raised: the      *)
(* types, the layout of the interrupt frame, that no fault of the          *)
(* kernel's own is lost, and what kernelmain gives back of its arena.      *)
(***************************************************************************)
EXTENDS KernelStart, TLAPS

Labels == {"gdt", "mapping", "start", "memory", "alloc", "logger", "screen",
           "free", "hello", "status", "loop", "exhausted", "exhaustedLoop"}
Modes == {"run", "entered", "stub", "handler", "halted", "lost"}

\* Before initIDT the firmware's table is loaded.
Early == {"gdt", "mapping", "start"}

\* What the processor and the wrappers push.
Words ==
  {<<"rip", p>> : p \in Labels \cup Modes} \cup {<<"int", v>> : v \in Vectors}
  \cup {<<"error", v>> : v \in Vectors}
  \cup {<<"cs">>, <<"eflags">>, <<"rsp">>, <<"ss">>, <<"registers">>}

\* An interrupt that was taken: an error code came with it exactly if the
\* processor has one for its vector.
Taken ==
  [vector : Vectors, code : {<< >>} \cup {<<"error", v>> : v \in Vectors}, at : Labels \cup Modes]
Coded(r) == r.code = IF r.vector \in ErrorCodes THEN <<"error", r.vector>> ELSE << >>

\* Which tables are loaded, by the place in the code.
Tables ==
  /\ pc \in Labels /\ mode \in Modes
  /\ pc # "gdt" => gdt = GDT
  /\ idt = IF pc \in Early THEN << >> ELSE [v \in Vectors |-> idt_set_gate(v)]
  /\ mode = "lost" => pc \in Early
  /\ mode \notin {"run", "lost"} => pc \notin Early

\* How many interrupts were taken: the second one is a non-maskable one, and
\* after it no other.
Depth ==
  /\ raised \in Seq(Taken) /\ blocked \in BOOLEAN
  /\ mode = "run" => raised = << >> /\ ~blocked
  /\ mode = "lost" => raised = << >>
  /\ mode \notin {"run", "lost"} => Len(raised) \in 1 .. 2
  /\ mode \notin {"run", "lost"} /\ ~blocked => Len(raised) = 1
  /\ \A i \in 1 .. Len(raised) : Coded(raised[i])

\* What lies on top of the stack for the last interrupt, with the processor's
\* words only, after the wrapper, and when the handler is called.
Entered(r) ==
  IF r.code = << >> THEN Len(stack) >= 1 /\ stack[1] = <<"rip", r.at>>
  ELSE Len(stack) >= 2 /\ stack[1] = r.code /\ stack[2] = <<"rip", r.at>>
Pushed(r, i) ==
  /\ Len(stack) >= i + 2
  /\ stack[i] = <<"int", r.vector>>
  /\ stack[i + 1] = IF r.code = << >> THEN <<"error", 0>> ELSE r.code
  /\ stack[i + 2] = <<"rip", r.at>>
Expected(r) == r.vector \notin {29, 30}
Layout ==
  /\ stack \in Seq(Words)
  /\ mode = "entered" => Entered(raised[Len(raised)])
  /\ mode = "stub" => (Expected(raised[Len(raised)]) => Pushed(raised[Len(raised)], 1))
  /\ mode = "handler" =>
       /\ stack[1] = <<"registers">>
       /\ Expected(raised[Len(raised)]) => Pushed(raised[Len(raised)], 2)

\* What the logger and the screen take when everything fits.
Total == FLUSH_BUFFER_SIZE + FILE_BUF_LEN + screenSize + 3 * Rings

\* What is taken from the arena and given back of it, by the place in the code.
ArenaUse ==
  /\ screenSize \in ScreenSizes /\ used \in 0 .. INIT_MEMORY
  /\ logger \in BOOLEAN /\ screen \in BOOLEAN
  /\ pc \in Early \cup {"memory", "alloc", "logger"} => used = 0
  /\ pc = "screen" => used = FLUSH_BUFFER_SIZE
  /\ pc \in {"free", "hello", "status", "loop"} => used = Total
  /\ freed = IF pc \notin {"hello", "status", "loop"}
                \/ (used % PageSize # 0 /\ FirstFreePage(used) >= INIT_MEMORY)
             THEN -1 ELSE FirstFreePage(used)

IInv == Tables /\ Depth /\ Layout /\ ArenaUse

-----------------------------------------------------------------------------
(* Rounding and the arena.                                                 *)

\* freeMapped's rounding: the first multiple of the page size that is not
\* below the address, less than a page away.
LEMMA RoundedUp ==
  ASSUME NEW a \in Nat
  PROVE  /\ FirstFreePage(a) \in Nat
         /\ a <= FirstFreePage(a) /\ FirstFreePage(a) < a + PageSize
         /\ FirstFreePage(a) % PageSize = 0
         /\ a % PageSize = 0 => FirstFreePage(a) = a
<1> DEFINE q == (a + PageSize - 1) \div PageSize
           r == (a + PageSize - 1) % PageSize
<1>1. PageSize \in Nat /\ PageSize > 0
  BY Sizes
<1>2. q \in Nat /\ r \in 0 .. PageSize - 1 /\ a + PageSize - 1 = PageSize * q + r
  BY <1>1, SMT
<1>3. FirstFreePage(a) = q * PageSize /\ q * PageSize = PageSize * q /\ q * PageSize \in Nat
  BY <1>1, <1>2, SMT DEF FirstFreePage
<1>4. (q * PageSize) % PageSize = 0
  BY <1>1, <1>2, SMT
<1>5. ASSUME a % PageSize = 0 PROVE FirstFreePage(a) = a
  <2> DEFINE k == a \div PageSize
  <2>1. k \in Nat /\ a = PageSize * k
    BY <1>1, <1>5, SMT
  <2>2. a + PageSize - 1 = PageSize * k + (PageSize - 1)
    BY <1>1, <2>1, SMT
  <2>3. q = k
    BY <1>1, <2>1, <2>2, SMT
  <2> QED BY <1>3, <2>1, <2>3
<1> HIDE DEF q, r
<1> QED BY <1>1, <1>2, <1>3, <1>4, <1>5, SMT

\* The logger's buffer fits: initLogger takes it and goes on.
LEMMA LoggerTakes ==
  ASSUME IInv, initLogger
  PROVE  used' = FLUSH_BUFFER_SIZE /\ pc' = "screen" /\ logger' = TRUE
<1> DEFINE totals == <<used, used + FLUSH_BUFFER_SIZE>>
           fits(i) == i \in DOMAIN totals /\ totals[i] <= INIT_MEMORY
           last == CHOOSE i \in DOMAIN totals : fits(i) /\ ~fits(i + 1)
<1>1. used = 0 /\ pc = "logger"
  BY DEF IInv, ArenaUse, initLogger, Runs
<1>2. DOMAIN totals = {1, 2} /\ Len(totals) = 2
       /\ totals[1] = 0 /\ totals[2] = FLUSH_BUFFER_SIZE
  BY <1>1, Sizes
<1>3. \A i \in {1, 2} : (fits(i) /\ ~fits(i + 1)) <=> i = 2
  BY <1>2, Sizes, LoggerFits
<1>4. last = 2
  BY <1>2, <1>3
<1>5. used' = totals[last] /\ pc' = IF last = Len(totals) THEN "screen" ELSE "exhausted"
  BY DEF initLogger, News, Goto
<1> HIDE DEF last
<1>6. used' = FLUSH_BUFFER_SIZE /\ pc' = "screen"
  BY <1>2, <1>4, <1>5
<1> QED BY <1>6 DEF initLogger

\* initScreen takes all its parts, or as many as fit, and never more than there is.
LEMMA ScreenTakes ==
  ASSUME IInv, pc = "screen",
         LET drawn == used + FILE_BUF_LEN + screenSize
         IN News(<<used, used + FILE_BUF_LEN, drawn, drawn + Rings, drawn + 2 * Rings,
                   drawn + 3 * Rings>>, "free")
  PROVE  /\ used' \in 0 .. INIT_MEMORY
         /\ pc' = "exhausted" \/ (pc' = "free" /\ used' = Total)
<1> DEFINE drawn == used + FILE_BUF_LEN + screenSize
           totals == <<used, used + FILE_BUF_LEN, drawn, drawn + Rings, drawn + 2 * Rings,
                       drawn + 3 * Rings>>
           fits(i) == i \in DOMAIN totals /\ totals[i] <= INIT_MEMORY
           last == CHOOSE i \in DOMAIN totals : fits(i) /\ ~fits(i + 1)
<1>1. used = FLUSH_BUFFER_SIZE /\ used \in Nat /\ used <= INIT_MEMORY /\ screenSize \in Nat
  BY Sizes DEF IInv, ArenaUse
<1>2. DOMAIN totals = 1 .. 6 /\ Len(totals) = 6 /\ \A i \in 1 .. 6 : totals[i] \in Nat
  BY <1>1, Sizes
<1>3. fits(1) /\ ~fits(7)
  BY <1>1, <1>2
<1>4. \E i \in DOMAIN totals : fits(i) /\ ~fits(i + 1)
  <2> HIDE DEF fits
  <2> SUFFICES ASSUME \A i \in 1 .. 6 : fits(i) => fits(i + 1) PROVE FALSE
    BY <1>2
  <2>1. fits(2)
    BY <1>3
  <2>2. fits(3)
    BY <2>1
  <2>3. fits(4)
    BY <2>2
  <2>4. fits(5)
    BY <2>3
  <2>5. fits(6)
    BY <2>4
  <2> QED BY <1>3, <2>5
<1>5. last \in 1 .. 6 /\ fits(last)
  BY <1>2, <1>4
<1>6. used' = totals[last] /\ pc' = IF last = 6 THEN "free" ELSE "exhausted"
  BY <1>2 DEF News, Goto
<1> HIDE DEF last
<1>7. used' \in 0 .. INIT_MEMORY
  BY <1>2, <1>5, <1>6, Sizes
<1>8. totals[6] = Total
  BY <1>1, Sizes DEF Total
<1> HIDE DEF totals
<1> QED BY <1>6, <1>7, <1>8

-----------------------------------------------------------------------------
(* Interrupts.                                                             *)

\* A vector that is delivered while kernel code runs, or a non-maskable one
\* during an interrupt or when the processor is halted, leaves the tables, the count of interrupts
\* and the stack as they have to be: it is taken with the processor's words on
\* top of the stack, or lost before the kernel's table is loaded.
LEMMA Delivered ==
  ASSUME IInv, NEW v \in Vectors,
         Deliver(v, IF v \in ErrorCodes THEN <<"error", v>> ELSE << >>),
         UNCHANGED <<pc, gdt, idt>>, blocked' \in BOOLEAN,
         mode = "run" \/ (mode \notin {"run", "lost"} /\ ~blocked /\ blocked')
  PROVE  Tables' /\ Depth' /\ Layout'
<1> DEFINE code == IF v \in ErrorCodes THEN <<"error", v>> ELSE << >>
<1>0. PICK here : here = Running
  OBVIOUS
<1> DEFINE r == [vector |-> v, code |-> code, at |-> here]
<1>1. pc \in Labels /\ mode \in Modes /\ raised \in Seq(Taken) /\ stack \in Seq(Words)
  BY DEF IInv, Tables, Depth, Layout
<1>2. r \in Taken /\ Coded(r) /\ here \in Labels \cup Modes
  BY <1>0, <1>1 DEF Taken, Coded, Running
<1>3. CASE pc \in Early
  <2>1. mode = "run" /\ idt = << >>
    BY <1>3 DEF IInv, Tables
  <2>2. mode' = "lost" /\ UNCHANGED <<raised, stack>>
    BY <2>1 DEF Deliver
  <2> QED BY <1>3, <2>1, <2>2 DEF IInv, Tables, Depth, Layout, Modes, Entered, Pushed
<1>4. CASE pc \notin Early
  <2>1. idt = [w \in Vectors |-> idt_set_gate(w)] /\ gdt = GDT
    BY <1>4 DEF IInv, Tables, Early
  <2>2. idt[v].selector = 8 /\ DOMAIN idt = Vectors
    BY <2>1 DEF idt_set_gate
  <2>3. Selected(8) = "code"
    BY <2>1 DEF Selected, GDT
  <2>4. Enter(v, code)
    BY <2>2, <2>3 DEF Deliver
  <2> HIDE DEF code
  <2>5. Tables'
    BY <1>4, <2>4 DEF IInv, Tables, Enter, Modes
  <2>6. raised' = Append(raised, r) /\ raised' \in Seq(Taken)
         /\ Len(raised') = Len(raised) + 1 /\ raised'[Len(raised')] = r
         /\ \A i \in 1 .. Len(raised) : raised'[i] = raised[i]
    BY <1>0, <1>1, <1>2, <2>4 DEF Enter
  <2>7. Depth'
    <3>1. mode' = "entered"
      BY <2>4 DEF Enter
    <3>2. Len(raised) = 0 \/ (Len(raised) = 1 /\ blocked')
      BY DEF IInv, Depth
    <3>3. \A i \in 1 .. Len(raised') : Coded(raised'[i])
      BY <1>1, <1>2, <2>6 DEF IInv, Depth
    <3> QED BY <2>6, <3>1, <3>2, <3>3 DEF Depth
  <2>8. Layout'
    <3> DEFINE five == << <<"rip", here>>, <<"cs">>, <<"eflags">>, <<"rsp">>, <<"ss">> >>
    <3>1. stack' = (IF code = << >> THEN << >> ELSE <<code>>) \o five \o stack /\ mode' = "entered"
      BY <1>0, <2>4 DEF Enter
    <3>2. five \in Seq(Words) /\ Len(five) = 5 /\ five[1] = <<"rip", here>>
      BY <1>2 DEF Words
    <3>3. CASE code = << >>
      <4>1. stack' = five \o stack
        BY <1>1, <3>1, <3>2, <3>3
      <4>2. stack' \in Seq(Words) /\ Len(stack') >= 1 /\ stack'[1] = <<"rip", here>>
        BY <1>1, <3>2, <4>1
      <4> QED BY <2>6, <3>1, <3>3, <4>2 DEF Layout, Entered
    <3>4. CASE code # << >>
      <4>1. code \in Words
        BY <3>4 DEF code, Words
      <4>2. stack' = <<code>> \o five \o stack
        BY <3>1, <3>4
      <4>3. stack' \in Seq(Words) /\ Len(stack') >= 2 /\ stack'[1] = code
             /\ stack'[2] = <<"rip", here>>
        BY <1>1, <3>2, <4>1, <4>2
      <4> QED BY <2>6, <3>1, <3>4, <4>3 DEF Layout, Entered
    <3> QED BY <3>3, <3>4
  <2> QED BY <2>5, <2>7, <2>8
<1> QED BY <1>3, <1>4

\* isr: the wrapper of the vector that was entered puts an error code of zero
\* where the processor pushed none.
LEMMA WrapperPushes ==
  ASSUME IInv, isr
  PROVE  Layout'
<1> DEFINE r == raised[Len(raised)]
           v == idt[Last(raised).vector].isr
           pushed == IF v \in isr_wrapper_with_error THEN << <<"int", v>> >>
                     ELSE << <<"int", v>>, <<"error", 0>> >>
<1>1. mode = "entered" /\ mode' = "stub" /\ raised' = raised /\ stack' = pushed \o stack
  BY DEF isr
<1>2. raised \in Seq(Taken) /\ Len(raised) \in 1 .. 2 /\ stack \in Seq(Words) /\ Entered(r)
  BY <1>1 DEF IInv, Depth, Layout
<1>3. r \in Taken /\ Coded(r) /\ Last(raised) = r
  <2>1. Len(raised) \in 1 .. Len(raised) /\ r \in Taken
    <3>1. raised \in Seq(Taken) /\ Len(raised) \in 1 .. 2
      BY <1>2
    <3>2. Len(raised) \in 1 .. Len(raised)
      BY <3>1
    <3> QED BY <3>1, <3>2
  <2>2. \A i \in 1 .. Len(raised) : Coded(raised[i])
    BY DEF IInv, Depth
  <2> QED BY <2>1, <2>2, Zenon DEF Last
<1>4. v = r.vector /\ v \in Vectors
  BY <1>1, <1>3 DEF IInv, Tables, idt_set_gate, Taken
<1>5. Expected(r) => (v \in isr_wrapper_with_error <=> r.code # << >>)
  BY <1>3, <1>4 DEF Coded, isr_wrapper_with_error, ErrorCodes, Expected
<1> HIDE DEF v
<1>8. CASE ~Expected(r)
  <2>1. <<"int", v>> \in Words /\ <<"error", 0>> \in Words
    BY <1>4 DEF Words, Vectors
  <2>2. stack' \in Seq(Words)
    BY <1>1, <1>2, <2>1
  <2> QED BY <1>1, <1>8, <2>2 DEF Layout
<1>6. CASE Expected(r) /\ r.code = << >>
  <2>1. stack' = << <<"int", v>>, <<"error", 0>> >> \o stack
    BY <1>1, <1>5, <1>6
  <2>2. <<"int", v>> \in Words /\ <<"error", 0>> \in Words
    BY <1>4 DEF Words, Vectors
  <2>3. Len(stack) >= 1 /\ stack[1] = <<"rip", r.at>>
    BY <1>2, <1>6 DEF Entered
  <2>4. stack' \in Seq(Words) /\ Len(stack') >= 3 /\ stack'[1] = <<"int", v>>
         /\ stack'[2] = <<"error", 0>> /\ stack'[3] = <<"rip", r.at>>
    BY <1>2, <2>1, <2>2, <2>3
  <2> QED BY <1>1, <1>4, <1>6, <2>4 DEF Layout, Pushed
<1>7. CASE Expected(r) /\ r.code # << >>
  <2>1. stack' = << <<"int", v>> >> \o stack
    BY <1>1, <1>5, <1>7
  <2>2. <<"int", v>> \in Words
    BY <1>4 DEF Words
  <2>3. Len(stack) >= 2 /\ stack[1] = r.code /\ stack[2] = <<"rip", r.at>>
    BY <1>2, <1>7 DEF Entered
  <2>4. stack' \in Seq(Words) /\ Len(stack') >= 3 /\ stack'[1] = <<"int", v>>
         /\ stack'[2] = r.code /\ stack'[3] = <<"rip", r.at>>
    BY <1>2, <2>1, <2>2, <2>3
  <2> QED BY <1>1, <1>4, <1>7, <2>4 DEF Layout, Pushed
<1> QED BY <1>6, <1>7, <1>8

\* isr_stub: the registers go on top of what the wrapper left.
LEMMA StubPushes ==
  ASSUME IInv, isr_stub
  PROVE  Layout'
<1> DEFINE r == raised[Len(raised)]
<1>1. mode = "stub" /\ mode' = "handler" /\ raised' = raised
       /\ stack' = << <<"registers">> >> \o stack
  BY DEF isr_stub
<1>2. stack \in Seq(Words) /\ (Expected(r) => Pushed(r, 1))
  BY <1>1 DEF IInv, Layout
<1>3. stack' \in Seq(Words) /\ Len(stack') = Len(stack) + 1 /\ stack'[1] = <<"registers">>
       /\ \A i \in 1 .. Len(stack) : stack'[i + 1] = stack[i]
  BY <1>1, <1>2 DEF Words
<1>4. Expected(r) => Pushed(r, 2)'
  BY <1>1, <1>2, <1>3 DEF Pushed
<1> QED BY <1>1, <1>3, <1>4 DEF Layout

\* triggerFault: the kernel's own faults come without an error code, and the
\* processor has none for their vectors.
LEMMA FaultTriggered ==
  ASSUME IInv, mode = "run", NEW fault \in {NO_MORE_PHYSICAL_MEMORY, TOO_LARGE_ALLOCATION},
         triggerFault(fault)
  PROVE  IInv'
<1>1. fault \in Vectors /\ fault \notin ErrorCodes /\ fault \in 0 .. TOO_LARGE_ALLOCATION
  BY DEF NO_MORE_PHYSICAL_MEMORY, TOO_LARGE_ALLOCATION, Vectors, ErrorCodes
<1>2. Deliver(fault, IF fault \in ErrorCodes THEN <<"error", fault>> ELSE << >>)
  BY <1>1 DEF triggerFault
<1>3. Tables' /\ Depth' /\ Layout'
  <2>1. UNCHANGED <<pc, gdt, idt>> /\ blocked' \in BOOLEAN
    BY DEF triggerFault, IInv, Depth
  <2> QED BY <1>1, <1>2, <2>1, Delivered
<1>4. ArenaUse'
  BY DEF triggerFault, boot, IInv, ArenaUse, Total, FirstFreePage
<1> QED BY <1>3, <1>4 DEF IInv

-----------------------------------------------------------------------------
(* The invariant.                                                          *)

\* The loader starts with the firmware's tables and nothing taken.
LEMMA Start == Init => IInv
<1> SUFFICES ASSUME Init PROVE IInv
  OBVIOUS
<1>1. Tables
  BY DEF Init, Tables, Labels, Modes, Early
<1>2. Depth
  <2>1. blocked \in BOOLEAN /\ ~blocked
    BY DEF Init
  <2> QED BY <2>1 DEF Init, Depth
<1>3. Layout
  BY DEF Init, Layout
<1>4. ArenaUse
  <2>1. logger \in BOOLEAN /\ screen \in BOOLEAN
    BY DEF Init
  <2> QED BY <2>1, Sizes DEF Init, ArenaUse, Early
<1> QED BY <1>1, <1>2, <1>3, <1>4 DEF IInv

\* A step of the loader or of kernelmain that goes on to another place, with
\* the tables as the place needs them and no interrupt in progress.
LEMMA GoesOn ==
  ASSUME IInv, mode = "run", UNCHANGED <<mode, interrupt>>
  PROVE  Depth' /\ Layout'
BY DEF interrupt, IInv, Depth, Layout, Entered, Pushed

\* Each step of the loader, the kernel and the processor preserves the invariant.
LEMMA KernelStep == IInv /\ Kernel => IInv'
<1> SUFFICES ASSUME IInv, Kernel PROVE IInv'
  OBVIOUS
<1> USE DEF Runs, Goto
<1>1. CASE enableNewGDT
  <2>1. Tables' /\ ArenaUse'
    BY <1>1 DEF enableNewGDT, boot, IInv, Tables, ArenaUse, Total, FirstFreePage, Labels, Early
  <2> QED BY <1>1, <2>1, GoesOn DEF enableNewGDT, IInv
<1>2. CASE toKernel
  <2>1. Tables' /\ ArenaUse'
    BY <1>2 DEF toKernel, boot, IInv, Tables, ArenaUse, Total, FirstFreePage, Labels, Early
  <2> QED BY <1>2, <2>1, GoesOn DEF toKernel, IInv
<1>3. CASE initIDT
  <2>1. Tables' /\ ArenaUse'
    BY <1>3 DEF initIDT, boot, IInv, Tables, ArenaUse, Total, FirstFreePage, Labels, Early
  <2> QED BY <1>3, <2>1, GoesOn DEF initIDT, IInv
<1>4. CASE InitMemory
  <2>1. CASE triggerFault(NO_MORE_PHYSICAL_MEMORY)
    BY <1>4, <2>1, FaultTriggered DEF InitMemory
  <2>2. CASE Goto("alloc") /\ UNCHANGED <<mode, gdt, idt, interrupt, boot>>
    <3>1. Tables' /\ ArenaUse'
      BY <1>4, <2>2 DEF InitMemory, boot, IInv, Tables, ArenaUse, Total, FirstFreePage,
                        Labels, Early
    <3> QED BY <1>4, <2>2, <3>1, GoesOn DEF InitMemory, IInv
  <2> QED BY <1>4, <2>1, <2>2 DEF InitMemory
<1>5. CASE AllocInit
  <2>1. CASE triggerFault(NO_MORE_PHYSICAL_MEMORY) \/ triggerFault(TOO_LARGE_ALLOCATION)
    BY <1>5, <2>1, FaultTriggered DEF AllocInit
  <2>2. CASE Goto("logger") /\ UNCHANGED <<mode, gdt, idt, interrupt, boot>>
    <3>1. Tables' /\ ArenaUse'
      BY <1>5, <2>2 DEF AllocInit, boot, IInv, Tables, ArenaUse, Total, FirstFreePage,
                        Labels, Early
    <3> QED BY <1>5, <2>2, <3>1, GoesOn DEF AllocInit, IInv
  <2> QED BY <1>5, <2>1, <2>2 DEF AllocInit
<1>6. CASE initLogger
  <2>1. used' = FLUSH_BUFFER_SIZE /\ pc' = "screen" /\ logger' = TRUE
    BY <1>6, LoggerTakes
  <2>2. Tables'
    BY <1>6, <2>1 DEF initLogger, IInv, Tables, Labels, Early
  <2>3. ArenaUse'
    BY <1>6, <2>1, Sizes, LoggerFits DEF initLogger, IInv, ArenaUse, Early
  <2> QED BY <1>6, <2>2, <2>3, GoesOn DEF initLogger, IInv
<1>7. CASE initScreen
  <2>1. CASE triggerFault(NO_MORE_PHYSICAL_MEMORY)
    BY <1>7, <2>1, FaultTriggered DEF initScreen
  <2>2. CASE ~triggerFault(NO_MORE_PHYSICAL_MEMORY)
    <3>1. /\ mode = "run" /\ pc = "screen" /\ screen' = (pc' = "free")
          /\ UNCHANGED <<mode, gdt, idt, interrupt, screenSize, logger, freed, shown>>
      BY <1>7, <2>2 DEF initScreen
    <3>2. /\ used' \in 0 .. INIT_MEMORY
          /\ pc' = "exhausted" \/ (pc' = "free" /\ used' = Total)
      BY <1>7, <2>2, <3>1, ScreenTakes DEF initScreen
    <3>3. Tables'
      BY <3>1, <3>2 DEF IInv, Tables, Labels, Early
    <3>4. ArenaUse'
      BY <3>1, <3>2 DEF IInv, ArenaUse, Total, Early
    <3> QED BY <3>1, <3>3, <3>4, GoesOn DEF IInv
  <2> QED BY <2>1, <2>2
<1>8. CASE FreeRest
  <2>1. Tables'
    BY <1>8 DEF FreeRest, IInv, Tables, Labels, Early
  <2>2. ArenaUse'
    BY <1>8 DEF FreeRest, IInv, ArenaUse, Total, FirstFreePage, Early
  <2> QED BY <1>8, <2>1, <2>2, GoesOn DEF FreeRest, IInv
<1>9. CASE Hello
  <2>1. Tables' /\ ArenaUse'
    BY <1>9 DEF Hello, KLOG, IInv, Tables, ArenaUse, Total, FirstFreePage, Labels, Early
  <2> QED BY <1>9, <2>1, GoesOn DEF Hello, KLOG, IInv
<1>10. CASE Status
  <2>1. Tables' /\ ArenaUse'
    BY <1>10 DEF Status, KLOG, IInv, Tables, ArenaUse, Total, FirstFreePage, Labels, Early
  <2> QED BY <1>10, <2>1, GoesOn DEF Status, KLOG, IInv
<1>11. CASE RanOut
  <2>1. mode = "run" /\ pc = "exhausted" /\ UNCHANGED <<screenSize, used, logger, screen, freed>>
    BY <1>11 DEF RanOut
  <2>2. CASE Goto("exhaustedLoop") /\ UNCHANGED <<mode, gdt, idt, interrupt>>
    <3>1. Tables' /\ ArenaUse'
      BY <2>1, <2>2 DEF IInv, Tables, ArenaUse, Total, FirstFreePage, Labels, Early
    <3> QED BY <2>1, <2>2, <3>1, GoesOn DEF IInv
  <2>3. CASE Deliver(14, <<"error", 14>>) /\ UNCHANGED <<pc, gdt, idt, blocked>>
    <3>1. 14 \in Vectors /\ 14 \in ErrorCodes /\ blocked' \in BOOLEAN
      BY <2>3 DEF Vectors, ErrorCodes, IInv, Depth
    <3>2. Tables' /\ Depth' /\ Layout'
      BY <2>1, <2>3, <3>1, Delivered
    <3>3. ArenaUse'
      BY <2>1, <2>3 DEF IInv, ArenaUse, Total, FirstFreePage
    <3> QED BY <3>2, <3>3 DEF IInv
  <2> QED BY <1>11, <2>2, <2>3 DEF RanOut
<1>12. CASE isr
  <2>1. Tables' /\ ArenaUse'
    BY <1>12 DEF isr, boot, IInv, Tables, ArenaUse, Total, FirstFreePage, Modes
  <2>2. Depth'
    BY <1>12 DEF isr, IInv, Depth
  <2> QED BY <1>12, <2>1, <2>2, WrapperPushes DEF IInv
<1>13. CASE isr_stub
  <2>1. Tables' /\ ArenaUse'
    BY <1>13 DEF isr_stub, boot, IInv, Tables, ArenaUse, Total, FirstFreePage, Modes
  <2>2. Depth'
    BY <1>13 DEF isr_stub, IInv, Depth
  <2> QED BY <1>13, <2>1, <2>2, StubPushes DEF IInv
<1>14. CASE fault_handler
  <2>1. Tables' /\ ArenaUse'
    BY <1>14 DEF fault_handler, boot, IInv, Tables, ArenaUse, Total, FirstFreePage, Modes
  <2>2. Depth' /\ Layout'
    BY <1>14 DEF fault_handler, interrupt, IInv, Depth, Layout
  <2> QED BY <2>1, <2>2 DEF IInv
<1> QED
  BY <1>1, <1>2, <1>3, <1>4, <1>5, <1>6, <1>7, <1>8, <1>9, <1>10, <1>11, <1>12, <1>13, <1>14
     DEF Kernel

\* So does whatever is raised from outside, and a step of another variable only.
LEMMA Step == IInv /\ [Next]_vars => IInv'
<1> SUFFICES ASSUME IInv, [Next]_vars PROVE IInv'
  OBVIOUS
<1>1. CASE Kernel
  BY <1>1, KernelStep
<1>2. CASE Raise
  <2>1. PICK v \in Raised :
          /\ Deliver(v, IF v \in ErrorCodes THEN <<"error", v>> ELSE << >>)
          /\ blocked' = (v = NMI)
    BY <1>2 DEF Raise
  <2>2. v \in Vectors /\ blocked' \in BOOLEAN
    BY <2>1, RaisedAreVectors DEF Vectors
  <2>3. Tables' /\ Depth' /\ Layout'
    BY <1>2, <2>1, <2>2, Delivered DEF Raise
  <2>4. ArenaUse'
    BY <1>2 DEF Raise, boot, IInv, ArenaUse, Total, FirstFreePage
  <2> QED BY <2>3, <2>4 DEF IInv
<1>3. CASE RaiseNMI
  <2>1. NMI \in Vectors /\ NMI \notin ErrorCodes
    BY DEF NMI, Vectors, ErrorCodes
  <2>2. Tables' /\ Depth' /\ Layout'
    BY <1>3, <2>1, Delivered DEF RaiseNMI
  <2>3. ArenaUse'
    BY <1>3 DEF RaiseNMI, boot, IInv, ArenaUse, Total, FirstFreePage
  <2> QED BY <2>2, <2>3 DEF IInv
<1>4. CASE UNCHANGED vars
  <2>1. Tables' /\ ArenaUse'
    BY <1>4 DEF vars, IInv, Tables, ArenaUse, Total, FirstFreePage
  <2>2. Depth' /\ Layout'
    BY <1>4 DEF vars, IInv, Depth, Layout, Entered, Pushed
  <2> QED BY <2>1, <2>2 DEF IInv
<1> QED BY <1>1, <1>2, <1>3, <1>4 DEF Next

\* The tables, the interrupts, the stack and the arena agree with the place in
\* the code in every reachable state.
THEOREM Invariant == Spec => []IInv
BY Start, Step, PTL DEF Spec

-----------------------------------------------------------------------------
(* The properties.                                                         *)

\* The invariant gives the types, the frame the handler reads through regs,
\* and that an interrupt is lost only before initIDT.
LEMMA InterruptsFollow == IInv => InterruptsSound
<1> SUFFICES ASSUME IInv PROVE InterruptsSound
  OBVIOUS
<1>1. Len(raised) <= 2
  BY DEF IInv, Tables, Depth, Modes
<1>2. used \in Nat /\ used <= INIT_MEMORY /\ INIT_MEMORY \in Nat
  BY Sizes DEF IInv, ArenaUse
<1>3. freed \in -1 .. INIT_MEMORY
  <2>1. used % PageSize # 0 \/ FirstFreePage(used) = used
    BY <1>2, RoundedUp
  <2>2. FirstFreePage(used) \in Nat
    BY <1>2, RoundedUp
  <2> QED BY <1>2, <2>1, <2>2 DEF IInv, ArenaUse
<1>4. DOMAIN idt \in {{}, Vectors}
  BY DEF IInv, Tables
<1>5. TypeOK
  BY <1>1, <1>3, <1>4 DEF TypeOK, IInv, Tables, Depth, ArenaUse, Labels, Modes
<1>6. UniformFrame
  <2>1. PICK r : r = raised[Len(raised)] /\ Last(raised) = r
    BY DEF Last
  <2>2. ASSUME mode = "handler", Expected(r)
        PROVE  Frame = [registers |-> <<"registers">>, int_no |-> <<"int", r.vector>>,
                        err_code |-> IF r.code = << >> THEN <<"error", 0>> ELSE r.code,
                        rip |-> <<"rip", r.at>>]
    <3>1. stack[1] = <<"registers">> /\ Pushed(r, 2)
      BY <2>1, <2>2 DEF IInv, Layout
    <3>2. PICK code : code = IF r.code = << >> THEN <<"error", 0>> ELSE r.code
      OBVIOUS
    <3>3. /\ stack[2] = <<"int", r.vector>> /\ stack[3] = code /\ stack[4] = <<"rip", r.at>>
      BY <3>1, <3>2 DEF Pushed
    <3> QED BY <3>1, <3>2, <3>3, Zenon DEF Frame
  <2> QED BY <2>1, <2>2, Zenon DEF UniformFrame, Expected
<1>7. FaultsAreTaken
  BY DEF FaultsAreTaken, IInv, Tables, Early
<1> QED BY <1>5, <1>6, <1>7 DEF InterruptsSound

\* Whatever vectors are raised from outside, at whatever step of the boot, and a
\* non-maskable one again at any step of the entry code and the handler or when the
\* processor is halted: but for the vectors 29 and 30 of some processors, the handler finds vector, error code
\* and address where regs has them, and a fault that the kernel raises itself
\* meets a loaded gate.
THEOREM InterruptsAreSound == Spec => []InterruptsSound
BY Invariant, InterruptsFollow, PTL

\* The invariant gives what is kept, from what freeMapped's rounding does.
LEMMA KeepingFollows == IInv => KeepsWhatItUses
<1> SUFFICES ASSUME IInv PROVE KeepsWhatItUses
  OBVIOUS
<1>1. used \in Nat /\ used <= INIT_MEMORY /\ INIT_MEMORY \in Nat /\ PageSize \in Nat
  BY Sizes DEF IInv, ArenaUse
<1>2. /\ FirstFreePage(used) \in Nat
      /\ used <= FirstFreePage(used) /\ FirstFreePage(used) < used + PageSize
      /\ FirstFreePage(used) % PageSize = 0
      /\ used % PageSize = 0 => FirstFreePage(used) = used
  BY <1>1, RoundedUp
<1>3. freed # -1 => freed = FirstFreePage(used)
                    /\ (used % PageSize = 0 \/ FirstFreePage(used) < INIT_MEMORY)
  BY <1>1, <1>2 DEF IInv, ArenaUse
<1>4. pc = "loop" /\ freed = -1 => /\ FirstFreePage(used) >= INIT_MEMORY
                                  /\ used % PageSize # 0
  BY <1>2 DEF IInv, ArenaUse
<1>5. pc = "loop" => (freed >= INIT_MEMORY <=> FullArena)
  BY <1>1, <1>2, <1>3, <1>4 DEF FullArena
<1>6. freed # -1 => used <= freed /\ freed % PageSize = 0
  BY <1>2, <1>3
<1>7. pc = "loop" => (IF freed = -1 THEN INIT_MEMORY ELSE freed) - used < PageSize
  BY <1>1, <1>2, <1>3, <1>4
<1> QED BY <1>5, <1>6, <1>7 DEF KeepsWhatItUses

\* For every arena, page and screen: kernelmain never gives back memory that the
\* logger or the screen use, it gives back all the rest of its arena but for less
\* than a page, and it gives back a page behind the arena exactly when this is full
\* to its last byte: freeMapped, whose start is then not rounded, does not look at
\* the end.
THEOREM KeepsWhatIsInUse == Spec => []KeepsWhatItUses
BY Invariant, KeepingFollows, PTL
=============================================================================
