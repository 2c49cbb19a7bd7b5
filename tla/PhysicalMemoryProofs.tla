------------------------ MODULE PhysicalMemoryProofs ------------------------
(***************************************************************************)
(* Proofs about the physical memory manager, for every page table size,    *)
(* every memory map and every sequence of calls: first the call stack,     *)
(* then what the runs are, where they start and how many pages they have.  *)
(* Whose they are is the subject of PhysicalOwnersProofs.                  *)
(***************************************************************************)
EXTENDS PhysicalMemory, TLAPS, NaturalsInduction, WellFoundedInduction

-----------------------------------------------------------------------------
(* Arithmetic of page sizes and rounding.                                  *)

\* The three page sizes are different, and the next larger one is a page size.
LEMMA PageSizeFacts ==
  /\ ENTRIES \in Nat \ {0} /\ ENTRIES >= 2
  /\ BASE_PAGE = 1 /\ BASE_PAGE < LARGE_PAGE /\ LARGE_PAGE < HUGE_PAGE
  /\ PageSizes \subseteq Nat \ {0}
  /\ BASE_PAGE \in PageSizes /\ LARGE_PAGE \in PageSizes /\ HUGE_PAGE \in PageSizes
  /\ \A ps \in PageSizes : ps < HUGE_PAGE => toLargerPageSize(ps) \in PageSizes
  /\ toSmallerPageSize(LARGE_PAGE) = BASE_PAGE
  /\ toSmallerPageSize(HUGE_PAGE) = LARGE_PAGE
<1>1. ENTRIES \in Nat /\ ENTRIES >= 2
  BY SizesAssumption
<1>2. ENTRIES < ENTRIES * ENTRIES
  BY <1>1, SMT
<1>3. ENTRIES \div ENTRIES = 1 /\ (ENTRIES * ENTRIES) \div ENTRIES = ENTRIES
  BY <1>1, SMT
<1> QED
  BY <1>1, <1>2, <1>3
  DEF BASE_PAGE, LARGE_PAGE, HUGE_PAGE, PageSizes, toLargerPageSize, toSmallerPageSize

\* Division rounds down by less than the divisor.
LEMMA DivFacts ==
  ASSUME NEW n \in Nat, NEW d \in Nat \ {0}
  PROVE  n \div d \in Nat /\ d * (n \div d) <= n /\ n < d * (n \div d) + d
BY SMT

\* Rounding up reaches at least n and overshoots by less than the divisor.
LEMMA CeilingFacts ==
  ASSUME NEW n \in Nat, NEW d \in Nat \ {0}
  PROVE  /\ CeilingDiv(n, d) \in Nat
         /\ n <= d * CeilingDiv(n, d) /\ d * CeilingDiv(n, d) < n + d
<1>1. n + d - 1 \in Nat
  OBVIOUS
<1> QED
  BY <1>1, DivFacts, SMT DEF CeilingDiv

\* The pages left over from larger pages are a natural number of pages.
LEMMA RemainderFacts ==
  ASSUME NEW n \in Nat
  PROVE  toSmallerPages(CeilingDiv(n, ENTRIES)) - n \in Nat
<1>1. CeilingDiv(n, ENTRIES) \in Nat /\ n <= ENTRIES * CeilingDiv(n, ENTRIES)
  BY CeilingFacts, PageSizeFacts
<1> QED
  BY <1>1, PageSizeFacts, SMT DEF toSmallerPages

-----------------------------------------------------------------------------
(* Sequences of runs and of frames.                                        *)

\* Taking pages off a run leaves a list of runs.
LEMMA DecreasePagesType ==
  ASSUME NEW list \in Seq(PagedMemory), NEW ps \in Nat, NEW i \in DOMAIN list,
         NEW by \in Nat, by <= list[i].numberOfPages
  PROVE  decreasePages(list, ps, i, by) \in Seq(PagedMemory)
<1>1. CASE list[i].numberOfPages = by
  BY <1>1 DEF decreasePages
<1>2. CASE list[i].numberOfPages # by
  <2>0. list[i] \in PagedMemory
    OBVIOUS
  <2>1. list[i].pageStart \in Nat /\ list[i].numberOfPages \in Nat
    BY <2>0 DEF PagedMemory
  <2>2. by * ps \in Nat
    OBVIOUS
  <2>3. /\ list[i].pageStart + by * ps \in Nat
        /\ list[i].numberOfPages - by \in Nat
    BY <2>1, <2>2
  <2>4. Run(list[i].pageStart + by * ps, list[i].numberOfPages - by) \in PagedMemory
    BY <2>3 DEF PagedMemory, Run
  <2> QED
    BY <1>2, <2>4 DEF decreasePages
<1> QED
  BY <1>1, <1>2

\* A stack that is not empty has a top and a rest.
LEMMA HeadTail ==
  ASSUME NEW S, NEW s \in Seq(S), s # <<>>
  PROVE  Head(s) = s[1] /\ Head(s) \in S /\ Tail(s) \in Seq(S) /\ Len(s) >= 1
OBVIOUS

\* The stack after the call on top goes on as another frame.
LEMMA ReplaceTop ==
  ASSUME NEW S, NEW s \in Seq(S), s # <<>>, NEW a \in S
  PROVE  /\ <<a>> \o Tail(s) \in Seq(S)
         /\ Len(<<a>> \o Tail(s)) = Len(s)
         /\ (<<a>> \o Tail(s))[1] = a
         /\ \A d \in 2 .. Len(s) : (<<a>> \o Tail(s))[d] = s[d]
OBVIOUS

\* The stack after the call on top makes a call.
LEMMA PushOnTop ==
  ASSUME NEW S, NEW s \in Seq(S), s # <<>>, NEW a \in S, NEW b \in S
  PROVE  /\ <<a, b>> \o Tail(s) \in Seq(S)
         /\ Len(<<a, b>> \o Tail(s)) = Len(s) + 1
         /\ (<<a, b>> \o Tail(s))[1] = a
         /\ (<<a, b>> \o Tail(s))[2] = b
         /\ \A d \in 3 .. Len(s) + 1 : (<<a, b>> \o Tail(s))[d] = s[d - 1]
OBVIOUS

\* The stack after the call on top returns to the one below it.
LEMMA PopTop ==
  ASSUME NEW S, NEW s \in Seq(S), Len(s) >= 2, NEW a \in S
  PROVE  /\ <<a>> \o Tail(Tail(s)) \in Seq(S)
         /\ Len(<<a>> \o Tail(Tail(s))) = Len(s) - 1
         /\ (<<a>> \o Tail(Tail(s)))[1] = a
         /\ \A d \in 2 .. Len(s) - 1 : (<<a>> \o Tail(Tail(s)))[d] = s[d + 1]
<1>1. Tail(s) \in Seq(S) /\ Len(Tail(s)) = Len(s) - 1
  OBVIOUS
<1>2. \A d \in 1 .. Len(s) - 1 : Tail(s)[d] = s[d + 1]
  OBVIOUS
<1>3. Tail(s) # <<>>
  <2>1. Len(Tail(s)) # 0 /\ Len(<<>>) = 0
    BY <1>1
  <2> QED
    BY <2>1, Zenon
<1> DEFINE t == Tail(s)
<1>4. /\ <<a>> \o Tail(t) \in Seq(S)
      /\ Len(<<a>> \o Tail(t)) = Len(t)
      /\ (<<a>> \o Tail(t))[1] = a
      /\ \A d \in 2 .. Len(t) : (<<a>> \o Tail(t))[d] = t[d]
  <2> HIDE DEF t
  <2> t \in Seq(S) /\ t # <<>>
    BY <1>1, <1>3 DEF t
  <2> QED
    BY ReplaceTop
<1>5. Len(t) = Len(s) - 1 /\ \A d \in 2 .. Len(s) - 1 : t[d] = s[d + 1]
  BY <1>1, <1>2
<1> HIDE DEF t
<1> QED
  BY <1>4, <1>5 DEF t

-----------------------------------------------------------------------------
(* The inductive invariant.  StackOK says of any stack that calls nest as  *)
(* the C functions do, with what a frame must carry to go on.              *)

\* The function a frame belongs to.
Kind(frame) == CASE frame.pc \in {"alloc", "split", "return"} -> "alloc"
                 [] frame.pc \in {"free", "grow"} -> "free"
                 [] frame.pc \in {"gather", "gathered"} -> "gather"

\* What a call that is not on top of the stack is waiting for.
WaitsFor(caller, callee) ==
  CASE caller.pc = "split" ->
         Kind(callee) = "alloc" /\ callee.ps = toLargerPageSize(caller.ps)
    [] caller.pc = "grow" -> Kind(callee) = "alloc" /\ callee.ps = BASE_PAGE
    [] caller.pc = "gathered" ->
         Kind(callee) = "gather" /\ callee.ps = toLargerPageSize(caller.ps)
    [] caller.pc \in {"return", "free", "gather"} -> Kind(callee) = "free"
    [] caller.pc = "alloc" -> FALSE

TopAnswered(frame) ==
  /\ frame.pc \in {"split", "grow"} => Len(frame.got) = 1
  /\ frame.pc \in {"alloc", "return", "free", "gather"} => frame.got = <<>>

CarriesPages(frame) ==
  /\ frame.pc = "return" => Len(frame.pages) = 1
  /\ frame.pc = "grow" => frame.pages # <<>>

StackOK(s) ==
  /\ s \in Seq(Frame)
  /\ \A d \in 1 .. Len(s) : CarriesPages(s[d])
  /\ \A d \in 2 .. Len(s) : WaitsFor(s[d], s[d - 1]) /\ s[d].got = <<>>
  /\ s # <<>> => TopAnswered(s[1])

\* Two frames of the same call, at different points of it.
SameCall(f, g) == Kind(f) = Kind(g) /\ f.ps = g.ps

\* What the top level, at `phase', is waiting for from the bottom frame, and
\* what it has when no call is in progress.
BottomOK(frame) ==
  /\ phase \in {"collect", "holder", "initPMM", "buffer", "promote", "waiting"}
  /\ CASE phase = "buffer" -> Kind(frame) = "alloc" /\ frame.ps = BASE_PAGE
       [] phase = "waiting" -> frame.ps = pageSize
       [] OTHER -> Kind(frame) = "free"

TopLevelOK ==
  /\ stack # <<>> => BottomOK(stack[Len(stack)]) /\ result = <<>>
  /\ stack = <<>> /\ phase = "buffer" => Len(result) = 1
  /\ phase \notin {"buffer", "waiting"} => result = <<>>
  /\ phase \in {"initPMM", "buffer", "promote"} => pageSize \in {LARGE_PAGE, HUGE_PAGE}
  /\ index >= 1

IInv == TypeOK /\ StackOK(stack) /\ TopLevelOK

\* What a call waits for depends only on the call, not on how far it has come.
LEMMA SameCallWaits ==
  ASSUME NEW c \in Frame, NEW f \in Frame, NEW g \in Frame,
         SameCall(f, g), WaitsFor(c, f)
  PROVE  WaitsFor(c, g)
<1>1. Kind(f) = Kind(g) /\ f.ps = g.ps
  BY DEF SameCall
<1> QED
  BY <1>1 DEF WaitsFor

\* The call on top goes on.
LEMMA GotoOK ==
  ASSUME NEW s, StackOK(s), s # <<>>, NEW f \in Frame, SameCall(s[1], f),
         CarriesPages(f), TopAnswered(f)
  PROVE  LET t == <<f>> \o Tail(s)
         IN  StackOK(t) /\ t # <<>> /\ SameCall(s[Len(s)], t[Len(t)])
<1> DEFINE t == <<f>> \o Tail(s)
<1>1. s \in Seq(Frame) /\ Len(s) >= 1 /\ s[1] \in Frame
  BY HeadTail DEF StackOK
<1>2. /\ t \in Seq(Frame) /\ Len(t) = Len(s) /\ t[1] = f
      /\ \A d \in 2 .. Len(s) : t[d] = s[d]
  BY <1>1, ReplaceTop
<1> HIDE DEF t
<1>3. \A d \in 1 .. Len(t) : CarriesPages(t[d])
  BY <1>1, <1>2 DEF StackOK
<1>4. ASSUME NEW d \in 2 .. Len(t) PROVE WaitsFor(t[d], t[d - 1]) /\ t[d].got = <<>>
  <2>1. t[d] = s[d] /\ s[d] \in Frame /\ WaitsFor(s[d], s[d - 1]) /\ s[d].got = <<>>
    BY <1>1, <1>2 DEF StackOK
  <2>2. CASE d = 2
    BY <2>1, <2>2, <1>1, <1>2, SameCallWaits
  <2>3. CASE d # 2
    BY <2>1, <2>3, <1>2
  <2> QED BY <2>2, <2>3
<1>5. t # <<>>
  <2>1. Len(t) # 0 /\ Len(<<>>) = 0
    BY <1>1, <1>2
  <2> QED
    BY <2>1, Zenon
<1>6. SameCall(s[Len(s)], t[Len(t)])
  BY <1>1, <1>2 DEF SameCall
<1>7. TopAnswered(t[1])
  BY <1>2
<1>8. StackOK(t)
  BY <1>2, <1>3, <1>4, <1>7 DEF StackOK
<1> QED
  BY <1>5, <1>6, <1>8 DEF t

\* The call on top makes a call and will go on as f.
LEMMA CallOK ==
  ASSUME NEW s, StackOK(s), s # <<>>, NEW f \in Frame, SameCall(s[1], f),
         CarriesPages(f), f.got = <<>>, NEW g \in Frame, CarriesPages(g),
         TopAnswered(g), WaitsFor(f, g)
  PROVE  LET t == <<g, f>> \o Tail(s)
         IN  StackOK(t) /\ t # <<>> /\ SameCall(s[Len(s)], t[Len(t)])
<1> DEFINE t == <<g, f>> \o Tail(s)
<1>1. s \in Seq(Frame) /\ Len(s) >= 1 /\ s[1] \in Frame
  BY HeadTail DEF StackOK
<1>2. /\ t \in Seq(Frame) /\ Len(t) = Len(s) + 1 /\ t[1] = g /\ t[2] = f
      /\ \A d \in 3 .. Len(s) + 1 : t[d] = s[d - 1]
  BY <1>1, PushOnTop
<1> HIDE DEF t
<1>3. ASSUME NEW d \in 1 .. Len(t) PROVE CarriesPages(t[d])
  <2>1. CASE d \in 3 .. Len(s) + 1
    BY <1>1, <1>2, <2>1 DEF StackOK
  <2>2. CASE d \notin 3 .. Len(s) + 1
    BY <1>1, <1>2, <2>2
  <2> QED BY <2>1, <2>2
<1>4. ASSUME NEW d \in 2 .. Len(t) PROVE WaitsFor(t[d], t[d - 1]) /\ t[d].got = <<>>
  <2>1. CASE d = 2
    BY <2>1, <1>2
  <2>2. CASE d = 3
    <3>1. t[3] = s[2] /\ s[2] \in Frame /\ WaitsFor(s[2], s[1]) /\ s[2].got = <<>>
      BY <1>1, <1>2, <2>2 DEF StackOK
    <3> QED
      BY <3>1, <2>2, <1>1, <1>2, SameCallWaits
  <2>3. CASE d > 3
    <3>1. d - 1 \in 2 .. Len(s) /\ t[d] = s[d - 1] /\ t[d - 1] = s[(d - 1) - 1]
      BY <1>1, <1>2, <2>3
    <3> QED
      BY <3>1 DEF StackOK
  <2> QED BY <2>1, <2>2, <2>3
<1>5. t # <<>>
  <2>1. Len(t) # 0 /\ Len(<<>>) = 0
    BY <1>1, <1>2
  <2> QED
    BY <2>1, Zenon
<1>6. SameCall(s[Len(s)], t[Len(t)])
  BY <1>1, <1>2 DEF SameCall
<1>8. StackOK(t)
  BY <1>2, <1>3, <1>4 DEF StackOK
<1> QED
  BY <1>5, <1>6, <1>8 DEF t

\* A call may return v: an alloc returns one run, a free returns nothing.
Returnable(frame, v) ==
  /\ v \in Seq(PagedMemory)
  /\ Kind(frame) = "alloc" => Len(v) = 1
  /\ Kind(frame) = "free" => v = <<>>

\* The call on top returns to the call below it.
LEMMA ReturnOK ==
  ASSUME NEW s, StackOK(s), Len(s) >= 2, NEW v, Returnable(s[1], v)
  PROVE  LET t == <<[s[2] EXCEPT !.got = v]>> \o Tail(Tail(s))
         IN  StackOK(t) /\ t # <<>> /\ SameCall(s[Len(s)], t[Len(t)])
<1> DEFINE f == [s[2] EXCEPT !.got = v]
           t == <<f>> \o Tail(Tail(s))
<1>1. s \in Seq(Frame) /\ s[1] \in Frame /\ s[2] \in Frame
  BY DEF StackOK
<1>2. f \in Frame /\ f.pc = s[2].pc /\ f.ps = s[2].ps /\ f.pages = s[2].pages /\ f.got = v
  BY <1>1 DEF Frame, Returnable
<1> HIDE DEF f
<1>3. /\ t \in Seq(Frame) /\ Len(t) = Len(s) - 1 /\ t[1] = f
      /\ \A d \in 2 .. Len(s) - 1 : t[d] = s[d + 1]
  <2>1. Len(s) >= 2
    OBVIOUS
  <2> QED BY ONLY <1>1, <1>2, <2>1, PopTop
<1>4. SameCall(s[2], f)
  BY <1>2 DEF SameCall, Kind
<1> HIDE DEF t
<1>5. ASSUME NEW d \in 1 .. Len(t) PROVE CarriesPages(t[d])
  <2>1. CASE d = 1
    BY <2>1, <1>1, <1>2, <1>3 DEF StackOK, CarriesPages
  <2>2. CASE d # 1
    <3>1. d + 1 \in 1 .. Len(s) /\ t[d] = s[d + 1]
      BY <2>2, <1>1, <1>3
    <3> QED BY <3>1 DEF StackOK
  <2> QED BY <2>1, <2>2
<1>6. ASSUME NEW d \in 2 .. Len(t) PROVE WaitsFor(t[d], t[d - 1]) /\ t[d].got = <<>>
  <2>1. /\ d + 1 \in 2 .. Len(s) /\ t[d] = s[d + 1] /\ s[d + 1] \in Frame
        /\ WaitsFor(s[d + 1], s[(d + 1) - 1]) /\ s[d + 1].got = <<>>
    BY <1>1, <1>3 DEF StackOK
  <2>2. CASE d = 2
    BY <2>1, <2>2, <1>1, <1>2, <1>3, <1>4, SameCallWaits
  <2>3. CASE d # 2
    BY <2>1, <2>3, <1>3
  <2> QED BY <2>2, <2>3
<1>7. TopAnswered(f)
  <2>1. WaitsFor(s[2], s[1])
    <3>1. 2 \in 2 .. Len(s) /\ 2 - 1 = 1
      BY <1>1
    <3> QED
      BY <3>1 DEF StackOK
  <2>2. CASE f.pc \in {"split", "grow"}
    BY <2>1, <2>2, <1>2 DEF WaitsFor, TopAnswered, Returnable
  <2>3. CASE f.pc \in {"return", "free", "gather"}
    BY <2>1, <2>3, <1>2 DEF WaitsFor, TopAnswered, Returnable
  <2>4. f.pc # "alloc"
    BY <2>1, <1>2 DEF WaitsFor
  <2> QED
    BY <2>2, <2>3, <2>4 DEF TopAnswered
<1>8. t # <<>>
  <2>1. Len(t) # 0 /\ Len(<<>>) = 0
    BY <1>1, <1>3
  <2> QED
    BY <2>1, Zenon
<1>9. SameCall(s[Len(s)], t[Len(t)])
  BY <1>1, <1>3, <1>4 DEF SameCall
<1>10. StackOK(t)
  BY <1>3, <1>5, <1>6, <1>7 DEF StackOK
<1> QED
  BY <1>8, <1>9, <1>10 DEF t, f

-----------------------------------------------------------------------------
(* Steps of the calls leave the top level waiting for the same call.       *)

\* The same call is still at the bottom, so the top level's part is kept.
LEMMA SameBottom ==
  ASSUME IInv, stack # <<>>, stack' # <<>>, UNCHANGED <<topLevel, result>>,
         SameCall(stack[Len(stack)], stack'[Len(stack')])
  PROVE  TopLevelOK'
<1>1. /\ UNCHANGED <<phase, pageSize, index, result>>
      /\ BottomOK(stack[Len(stack)]) /\ result = <<>>
      /\ phase \in {"initPMM", "buffer", "promote"} => pageSize \in {LARGE_PAGE, HUGE_PAGE}
      /\ index >= 1
  BY DEF IInv, TopLevelOK, topLevel, boot
<1>2. BottomOK(stack[Len(stack)])'
  BY <1>1 DEF BottomOK, SameCall
<1> QED
  BY <1>1, <1>2 DEF TopLevelOK

\* A step that replaces the frame on top.
LEMMA GotoStep ==
  ASSUME IInv, stack # <<>>, UNCHANGED <<topLevel, result>>,
         NEW f \in Frame, SameCall(top, f), CarriesPages(f), TopAnswered(f), Goto(f)
  PROVE  StackOK(stack') /\ TopLevelOK'
<1>1. StackOK(stack) /\ top = stack[1]
  BY HeadTail DEF IInv, StackOK, top
<1>2. /\ StackOK(stack') /\ stack' # <<>>
      /\ SameCall(stack[Len(stack)], stack'[Len(stack')])
  BY <1>1, GotoOK DEF Goto
<1> QED
  BY <1>2, SameBottom

\* A step that makes a call.
LEMMA CallStep ==
  ASSUME IInv, stack # <<>>, UNCHANGED <<topLevel, result>>,
         NEW f \in Frame, SameCall(top, f), CarriesPages(f), f.got = <<>>,
         NEW g \in Frame, CarriesPages(g), TopAnswered(g), WaitsFor(f, g), Call(g, f)
  PROVE  StackOK(stack') /\ TopLevelOK'
<1>1. StackOK(stack) /\ top = stack[1]
  BY HeadTail DEF IInv, StackOK, top
<1>2. /\ StackOK(stack') /\ stack' # <<>>
      /\ SameCall(stack[Len(stack)], stack'[Len(stack')])
  BY <1>1, CallOK DEF Call
<1> QED
  BY <1>2, SameBottom

\* A step that returns from a call.
LEMMA ReturnStep ==
  ASSUME IInv, stack # <<>>, UNCHANGED topLevel, NEW v, Returnable(top, v), Return(v)
  PROVE  StackOK(stack') /\ TopLevelOK' /\ result' \in Seq(PagedMemory)
<1>1. StackOK(stack) /\ top = stack[1] /\ Len(stack) >= 1 /\ stack \in Seq(Frame)
  BY HeadTail DEF IInv, StackOK, top
<1>2. CASE Len(stack) = 1
  <2>1. stack' = <<>> /\ result' = v
    BY <1>2 DEF Return
  <2>2. StackOK(stack')
    BY <2>1 DEF StackOK
  <2>3. /\ UNCHANGED <<phase, pageSize, index>> /\ BottomOK(top)
        /\ phase \in {"initPMM", "buffer", "promote"} => pageSize \in {LARGE_PAGE, HUGE_PAGE}
        /\ index >= 1
    BY <1>1, <1>2 DEF IInv, TopLevelOK, topLevel, boot
  <2>4. phase = "buffer" => Len(v) = 1
    BY <2>3 DEF BottomOK, Returnable
  <2>5. phase \notin {"buffer", "waiting"} => v = <<>>
    BY <2>3 DEF BottomOK, Returnable
  <2>6. TopLevelOK'
    BY <2>1, <2>3, <2>4, <2>5 DEF TopLevelOK
  <2> QED
    BY <2>1, <2>2, <2>6 DEF Returnable
<1>3. CASE Len(stack) # 1
  <2>1. stack' = <<[stack[2] EXCEPT !.got = v]>> \o Tail(Tail(stack)) /\ result' = result
    BY <1>3 DEF Return
  <2>2. /\ StackOK(stack') /\ stack' # <<>>
        /\ SameCall(stack[Len(stack)], stack'[Len(stack')])
    <3>1. Len(stack) >= 2 /\ Returnable(stack[1], v)
      BY <1>1, <1>3
    <3> QED
      BY <1>1, <2>1, <3>1, ReturnOK
  <2>3. TopLevelOK'
    BY <2>1, <2>2, SameBottom
  <2> QED
    BY <2>1, <2>2, <2>3 DEF IInv, TypeOK
<1> QED
  BY <1>2, <1>3

-----------------------------------------------------------------------------
(* Every step preserves the invariant.                                     *)

\* The parts of the type invariant that only the top level changes.
TopLevelType ==
  /\ phase \in Phases /\ pageSize \in PageSizes /\ asked \in Nat /\ index \in Nat
  /\ descriptors \in MemoryMaps /\ freeMemory \in Seq(PagedMemory)
  /\ holder \in PagedMemory /\ held \in SUBSET [ps : PageSizes, run : PagedMemory]
  /\ calls \in 0 .. MaxCalls

ManagersType ==
  /\ memory \in [PageSizes -> Seq(PagedMemory)]
  /\ usedBasePages \in [PageSizes -> Nat]
  /\ buf \in [PageSizes -> PagedMemory]

\* The invariant, part by part.
LEMMA Parts ==
  IInv <=> /\ ManagersType /\ TopLevelType /\ result \in Seq(PagedMemory)
           /\ StackOK(stack) /\ TopLevelOK
BY DEF IInv, TypeOK, ManagersType, TopLevelType, StackOK

\* A step of a call that keeps the managers' types keeps the invariant.
LEMMA CallKeeps ==
  ASSUME IInv, UNCHANGED topLevel, ManagersType', StackOK(stack'), TopLevelOK',
         result' \in Seq(PagedMemory)
  PROVE  IInv'
<1>1. TopLevelType'
  BY DEF IInv, TypeOK, TopLevelType, topLevel, boot, kernel
<1> QED
  BY <1>1 DEF IInv, TypeOK, ManagersType, TopLevelType, StackOK

\* What is known of the frame on top.
LEMMA TopFacts ==
  ASSUME IInv, stack # <<>>
  PROVE  /\ top \in Frame /\ top = stack[1]
         /\ top.ps \in PageSizes /\ top.n \in Nat /\ top.room \in Int
         /\ top.pages \in Seq(PagedMemory) /\ top.got \in Seq(PagedMemory)
         /\ CarriesPages(top) /\ TopAnswered(top)
         /\ memory[top.ps] \in Seq(PagedMemory) /\ usedBasePages[top.ps] \in Nat
         /\ buf[top.ps] \in PagedMemory
<1>1. stack \in Seq(Frame) /\ top = stack[1] /\ top \in Frame /\ Len(stack) >= 1
  BY HeadTail DEF IInv, StackOK, top
<1>2. CarriesPages(top) /\ TopAnswered(top)
  BY <1>1 DEF IInv, StackOK
<1>3. /\ top.ps \in PageSizes /\ top.n \in Nat /\ top.room \in Int
      /\ top.pages \in Seq(PagedMemory) /\ top.got \in Seq(PagedMemory)
  BY <1>1 DEF Frame
<1>4. /\ memory[top.ps] \in Seq(PagedMemory) /\ usedBasePages[top.ps] \in Nat
      /\ buf[top.ps] \in PagedMemory
  BY <1>3 DEF IInv, TypeOK
<1> QED
  BY <1>1, <1>2, <1>3, <1>4

\* A list of one run.
LEMMA OneRun ==
  ASSUME NEW a \in Nat, NEW n \in Nat
  PROVE  /\ Run(a, n) \in PagedMemory /\ Run(a, n).pageStart = a
         /\ Run(a, n).numberOfPages = n
         /\ <<Run(a, n)>> \in Seq(PagedMemory) /\ Len(<<Run(a, n)>>) = 1
         /\ <<Run(a, n)>>[1] = Run(a, n)
<1>1. Run(a, n) \in PagedMemory
  BY DEF Run, PagedMemory
<1>2. Run(a, n).pageStart = a /\ Run(a, n).numberOfPages = n
  BY DEF Run
<1> HIDE DEF Run
<1> QED
  BY <1>1, <1>2

\* The frames calls are made with.
LEMMA NewFrames ==
  ASSUME NEW ps \in PageSizes
  PROVE  /\ \A n \in Nat : /\ Alloc(n, ps) \in Frame /\ Kind(Alloc(n, ps)) = "alloc"
                           /\ Alloc(n, ps).ps = ps
                           /\ CarriesPages(Alloc(n, ps)) /\ TopAnswered(Alloc(n, ps))
         /\ \A pages \in Seq(PagedMemory) :
               /\ Free(pages, ps) \in Frame /\ Kind(Free(pages, ps)) = "free"
               /\ Free(pages, ps).ps = ps
               /\ CarriesPages(Free(pages, ps)) /\ TopAnswered(Free(pages, ps))
         /\ \A n \in Nat, room \in Int :
               /\ Gather(n, ps, room) \in Frame /\ Kind(Gather(n, ps, room)) = "gather"
               /\ Gather(n, ps, room).ps = ps
               /\ CarriesPages(Gather(n, ps, room)) /\ TopAnswered(Gather(n, ps, room))
<1>1. <<>> \in Seq(PagedMemory)
  OBVIOUS
<1>2. ASSUME NEW n \in Nat
      PROVE  /\ Alloc(n, ps) \in Frame /\ Kind(Alloc(n, ps)) = "alloc"
             /\ Alloc(n, ps).ps = ps
             /\ CarriesPages(Alloc(n, ps)) /\ TopAnswered(Alloc(n, ps))
  BY <1>1 DEF Alloc, Frame, Labels, Kind, CarriesPages, TopAnswered
<1>3. ASSUME NEW pages \in Seq(PagedMemory)
      PROVE  /\ Free(pages, ps) \in Frame /\ Kind(Free(pages, ps)) = "free"
             /\ Free(pages, ps).ps = ps
             /\ CarriesPages(Free(pages, ps)) /\ TopAnswered(Free(pages, ps))
  BY <1>1 DEF Free, Frame, Labels, Kind, CarriesPages, TopAnswered
<1>4. ASSUME NEW n \in Nat, NEW room \in Int
      PROVE  /\ Gather(n, ps, room) \in Frame /\ Kind(Gather(n, ps, room)) = "gather"
             /\ Gather(n, ps, room).ps = ps
             /\ CarriesPages(Gather(n, ps, room)) /\ TopAnswered(Gather(n, ps, room))
  BY <1>1 DEF Gather, Frame, Labels, Kind, CarriesPages, TopAnswered
<1> QED
  BY <1>2, <1>3, <1>4

\* A frame that goes on at another label, with other runs, its answer consumed.
GoingOn(f, pc, pages) == [f EXCEPT !.pc = pc, !.pages = pages, !.got = <<>>]

\* Such a frame is a frame, and the rest of it is as it was.
LEMMA ChangedFrame ==
  ASSUME NEW f \in Frame, NEW pc \in Labels, NEW pages \in Seq(PagedMemory)
  PROVE  /\ GoingOn(f, pc, pages) \in Frame
         /\ GoingOn(f, pc, pages).pc = pc
         /\ GoingOn(f, pc, pages).ps = f.ps
         /\ GoingOn(f, pc, pages).pages = pages
         /\ GoingOn(f, pc, pages).got = <<>>
<1> DEFINE P == Seq(PagedMemory)
           g == GoingOn(f, pc, pages)
<1>1. f \in [pc : Labels, ps : PageSizes, n : Nat, pages : P, room : Int, got : P]
  BY DEF Frame
<1>2. pages \in P /\ <<>> \in P
  OBVIOUS
<1> HIDE DEF P
<1>3. /\ g \in [pc : Labels, ps : PageSizes, n : Nat, pages : P, room : Int, got : P]
      /\ g.pc = pc /\ g.ps = f.ps /\ g.pages = pages /\ g.got = <<>>
  BY <1>1, <1>2 DEF GoingOn
<1> QED
  BY <1>3 DEF Frame, P

\* allocContiguousPhysicalPagesWithManager
LEMMA AllocStepKeeps == ASSUME IInv, AllocStep PROVE IInv'
<1>1. CASE AllocFit
  <2>1. /\ stack # <<>> /\ top.pc = "alloc"
        /\ UNCHANGED <<usedBasePages, buf, topLevel>>
    BY <1>1 DEF AllocFit, At
  <2>2. PICK i \in FirstFit(top.n, top.ps) :
          /\ memory' = [memory EXCEPT ![top.ps] = decreasePages(@, top.ps, i, top.n)]
          /\ Return(<<Run(memory[top.ps][i].pageStart, top.n)>>)
    BY <1>1 DEF AllocFit
  <2>3. /\ top.ps \in PageSizes /\ top.n \in Nat /\ memory[top.ps] \in Seq(PagedMemory)
        /\ top.ps \in Nat
    BY <2>1, TopFacts, PageSizeFacts
  <2>4. i \in DOMAIN memory[top.ps] /\ top.n <= memory[top.ps][i].numberOfPages
    <3>1. i \in DOMAIN memory[top.ps] /\ memory[top.ps][i].numberOfPages >= top.n
      BY <2>2 DEF FirstFit
    <3>2. memory[top.ps][i] \in PagedMemory
      BY <2>3, <3>1
    <3> QED
      BY <2>3, <3>1, <3>2 DEF PagedMemory
  <2>5. decreasePages(memory[top.ps], top.ps, i, top.n) \in Seq(PagedMemory)
    BY <2>3, <2>4, DecreasePagesType
  <2>6. ManagersType'
    BY <2>1, <2>2, <2>3, <2>5 DEF IInv, TypeOK, ManagersType
  <2>7. memory[top.ps][i] \in PagedMemory /\ memory[top.ps][i].pageStart \in Nat
    <3>1. memory[top.ps][i] \in PagedMemory
      BY <2>3, <2>4
    <3> QED
      BY <3>1 DEF PagedMemory
  <2>8. Returnable(top, <<Run(memory[top.ps][i].pageStart, top.n)>>)
    <3>1. Kind(top) = "alloc"
      BY <2>1 DEF Kind
    <3> QED
      BY <3>1, <2>3, <2>7, OneRun DEF Returnable
  <2> QED
    BY <2>1, <2>2, <2>6, <2>8, ReturnStep, CallKeeps
<1>2. CASE AllocFromLarger
  <2> DEFINE f == [top EXCEPT !.pc = "split"]
             g == Alloc(CeilingDiv(top.n, ENTRIES), toLargerPageSize(top.ps))
  <2>1. /\ stack # <<>> /\ top.pc = "alloc" /\ top.ps < HUGE_PAGE
        /\ UNCHANGED <<managers, result, topLevel>> /\ Call(g, f)
    BY <1>2 DEF AllocFromLarger, At
  <2>2. top \in Frame /\ top.ps \in PageSizes /\ top.n \in Nat /\ top.got = <<>>
    BY <2>1, TopFacts DEF TopAnswered
  <2>3. /\ f \in Frame /\ f.pc = "split" /\ f.ps = top.ps /\ f.got = <<>>
        /\ CarriesPages(f) /\ SameCall(top, f)
    BY <2>1, <2>2 DEF Frame, Labels, CarriesPages, SameCall, Kind
  <2>4. /\ toLargerPageSize(top.ps) \in PageSizes /\ CeilingDiv(top.n, ENTRIES) \in Nat
    BY <2>1, <2>2, PageSizeFacts, CeilingFacts
  <2>5. /\ g \in Frame /\ CarriesPages(g) /\ TopAnswered(g)
        /\ Kind(g) = "alloc" /\ g.ps = toLargerPageSize(top.ps)
    BY <2>4, NewFrames
  <2> HIDE DEF f, g
  <2>6. WaitsFor(f, g)
    BY <2>3, <2>5 DEF WaitsFor
  <2>7. ManagersType' /\ result' \in Seq(PagedMemory)
    BY <2>1 DEF IInv, TypeOK, ManagersType, managers
  <2> QED
    BY <2>1, <2>3, <2>5, <2>6, <2>7, CallStep, CallKeeps
<1>3. CASE AllocSplit
  <2> DEFINE address == top.got[1].pageStart
             rest == Run(address + top.n * top.ps,
                         toSmallerPages(CeilingDiv(top.n, ENTRIES)) - top.n)
             f == [top EXCEPT !.pc = "return", !.pages = <<Run(address, top.n)>>,
                              !.got = <<>>]
             g == Free(<<rest>>, top.ps)
  <2>1. /\ stack # <<>> /\ top.pc = "split" /\ Call(g, f)
        /\ UNCHANGED <<managers, result, topLevel>>
    BY <1>3 DEF AllocSplit, At
  <2>2. /\ top \in Frame /\ top.ps \in PageSizes /\ top.n \in Nat
        /\ top.got \in Seq(PagedMemory) /\ Len(top.got) = 1
    BY <2>1, TopFacts DEF TopAnswered
  <2>3. address \in Nat
    <3>1. top.got[1] \in PagedMemory
      BY <2>2
    <3> QED
      BY <3>1 DEF PagedMemory
  <2>4. address + top.n * top.ps \in Nat
    <3>1. top.ps \in Nat
      BY <2>2, PageSizeFacts
    <3>2. top.n * top.ps \in Nat
      BY <2>2, <3>1
    <3> QED
      BY <2>3, <3>2
  <2>5. <<rest>> \in Seq(PagedMemory)
    BY <2>2, <2>4, OneRun, RemainderFacts
  <2>6. <<Run(address, top.n)>> \in Seq(PagedMemory) /\ Len(<<Run(address, top.n)>>) = 1
    BY <2>2, <2>3, OneRun
  <2>7. /\ f \in Frame /\ f.pc = "return" /\ f.ps = top.ps /\ f.got = <<>>
        /\ CarriesPages(f) /\ SameCall(top, f)
    <3>1. "return" \in Labels
      BY DEF Labels
    <3> DEFINE p == <<Run(address, top.n)>>
    <3>0. f = GoingOn(top, "return", p)
      BY DEF GoingOn
    <3> HIDE DEF f
    <3>2. /\ f \in Frame /\ f.pc = "return" /\ f.ps = top.ps /\ f.got = <<>>
          /\ f.pages = p
      <4>1. p \in Seq(PagedMemory)
        BY <2>6
      <4> HIDE DEF p
      <4> QED
        BY <2>2, <4>1, <3>0, <3>1, ChangedFrame
    <3> QED
      BY <2>1, <2>6, <3>2 DEF CarriesPages, SameCall, Kind
  <2>8. g \in Frame /\ CarriesPages(g) /\ TopAnswered(g) /\ Kind(g) = "free"
    BY <2>2, <2>5, NewFrames
  <2> HIDE DEF f, g
  <2>9. WaitsFor(f, g)
    BY <2>7, <2>8 DEF WaitsFor
  <2>10. ManagersType' /\ result' \in Seq(PagedMemory)
    BY <2>1 DEF IInv, TypeOK, ManagersType, managers
  <2> QED
    BY <2>1, <2>7, <2>8, <2>9, <2>10, CallStep, CallKeeps
<1>4. CASE AllocReturn
  <2>1. /\ stack # <<>> /\ top.pc = "return" /\ Return(top.pages)
        /\ UNCHANGED <<managers, topLevel>>
    BY <1>4 DEF AllocReturn, At
  <2>2. Returnable(top, top.pages)
    BY <2>1, TopFacts DEF Returnable, CarriesPages, Kind
  <2>3. ManagersType'
    BY <2>1 DEF IInv, TypeOK, ManagersType, managers
  <2> QED
    BY <2>1, <2>2, <2>3, ReturnStep, CallKeeps
<1> QED
  BY <1>1, <1>2, <1>3, <1>4 DEF AllocStep

\* freePhysicalPagesWithManager
LEMMA FreeStepKeeps == ASSUME IInv, FreeStep PROVE IInv'
<1>1. CASE FreeStore
  <2> DEFINE f == [top EXCEPT !.pages = Tail(@)]
  <2>1. /\ stack # <<>> /\ top.pc = "free" /\ top.pages # <<>> /\ Goto(f)
        /\ memory' = Stored(top.ps, Head(top.pages))
        /\ UNCHANGED <<usedBasePages, buf, result, topLevel>>
    BY <1>1 DEF FreeStore, At
  <2>2. /\ top \in Frame /\ top.ps \in PageSizes /\ top.got = <<>>
        /\ memory[top.ps] \in Seq(PagedMemory)
        /\ Head(top.pages) \in PagedMemory /\ Tail(top.pages) \in Seq(PagedMemory)
    BY <2>1, TopFacts, HeadTail DEF TopAnswered
  <2>3. /\ f \in Frame /\ f.pc = "free" /\ f.got = <<>> /\ f.ps = top.ps
    BY <2>1, <2>2 DEF Frame
  <2>4. CarriesPages(f) /\ TopAnswered(f) /\ SameCall(top, f)
    BY <2>1, <2>3 DEF CarriesPages, TopAnswered, SameCall, Kind
  <2> HIDE DEF f
  <2>5. Append(memory[top.ps], Head(top.pages)) \in Seq(PagedMemory)
    BY <2>2
  <2>6. ManagersType' /\ result' \in Seq(PagedMemory)
    BY <2>1, <2>2, <2>5 DEF IInv, TypeOK, ManagersType, Stored
  <2> QED
    BY <2>1, <2>3, <2>4, <2>6, GotoStep, CallKeeps
<1>2. CASE FreeFull
  <2> DEFINE f == [top EXCEPT !.pc = "grow"]
             g == Alloc(usedBasePages[top.ps] + 1, BASE_PAGE)
  <2>1. /\ stack # <<>> /\ top.pc = "free" /\ top.pages # <<>> /\ Call(g, f)
        /\ UNCHANGED <<managers, result, topLevel>>
    BY <1>2 DEF FreeFull, At
  <2>2. top \in Frame /\ usedBasePages[top.ps] + 1 \in Nat /\ top.got = <<>>
    BY <2>1, TopFacts DEF TopAnswered
  <2>3. /\ f \in Frame /\ f.pc = "grow" /\ f.got = <<>>
        /\ CarriesPages(f) /\ SameCall(top, f)
    BY <2>1, <2>2 DEF Frame, Labels, CarriesPages, SameCall, Kind
  <2>4. /\ g \in Frame /\ CarriesPages(g) /\ TopAnswered(g) /\ Kind(g) = "alloc"
        /\ g.ps = BASE_PAGE
    BY <2>2, NewFrames, PageSizeFacts
  <2> HIDE DEF f, g
  <2>5. WaitsFor(f, g)
    BY <2>3, <2>4 DEF WaitsFor
  <2>6. ManagersType' /\ result' \in Seq(PagedMemory)
    BY <2>1 DEF IInv, TypeOK, ManagersType, managers
  <2> QED
    BY <2>1, <2>3, <2>4, <2>5, <2>6, CallStep, CallKeeps
<1>3. CASE FreeGrow
  <2> DEFINE f == [top EXCEPT !.pc = "free", !.pages = Tail(@), !.got = <<>>]
             old == Run(buf[top.ps].pageStart, usedBasePages[top.ps])
  <2>1. /\ stack # <<>> /\ top.pc = "grow" /\ Goto(f)
        /\ memory' = [memory EXCEPT ![top.ps] = @ \o <<old, Head(top.pages)>>]
        /\ buf' = [buf EXCEPT ![top.ps] = top.got[1]]
        /\ usedBasePages' = [usedBasePages EXCEPT ![top.ps] = @ + 1]
        /\ UNCHANGED <<result, topLevel>>
    BY <1>3 DEF FreeGrow, At
  <2>2. /\ top \in Frame /\ top.ps \in PageSizes /\ top.pages # <<>>
        /\ top.pages \in Seq(PagedMemory) /\ top.got \in Seq(PagedMemory)
        /\ Len(top.got) = 1 /\ memory[top.ps] \in Seq(PagedMemory)
        /\ usedBasePages[top.ps] \in Nat /\ buf[top.ps] \in PagedMemory
    BY <2>1, TopFacts DEF TopAnswered, CarriesPages
  <2>3. Head(top.pages) \in PagedMemory /\ Tail(top.pages) \in Seq(PagedMemory)
    BY <2>2, HeadTail
  <2>4. f \in Frame /\ f.pc = "free" /\ f.got = <<>> /\ f.ps = top.ps
    <3>1. "free" \in Labels
      BY DEF Labels
    <3> DEFINE p == Tail(top.pages)
    <3>2. f = GoingOn(top, "free", p)
      BY <2>2 DEF Frame, GoingOn
    <3>3. p \in Seq(PagedMemory)
      BY <2>3
    <3> HIDE DEF f, p
    <3> QED
      BY <2>2, <3>1, <3>2, <3>3, ChangedFrame
  <2>5. CarriesPages(f) /\ TopAnswered(f) /\ SameCall(top, f)
    BY <2>1, <2>4 DEF CarriesPages, TopAnswered, SameCall, Kind
  <2> HIDE DEF f
  <2>6. old \in PagedMemory
    <3>1. buf[top.ps].pageStart \in Nat
      BY <2>2 DEF PagedMemory
    <3> QED
      BY <3>1, <2>2, OneRun
  <2>7. memory[top.ps] \o <<old, Head(top.pages)>> \in Seq(PagedMemory)
    <3> HIDE DEF old
    <3> QED
      BY <2>2, <2>3, <2>6
  <2>8. top.got[1] \in PagedMemory
    BY <2>2
  <2>9. ManagersType' /\ result' \in Seq(PagedMemory)
    <3> HIDE DEF old
    <3>1. memory' \in [PageSizes -> Seq(PagedMemory)]
      BY <2>1, <2>7 DEF IInv, TypeOK
    <3>2. buf' \in [PageSizes -> PagedMemory]
      BY <2>1, <2>8 DEF IInv, TypeOK
    <3>3. usedBasePages' \in [PageSizes -> Nat]
      <4>1. usedBasePages \in [PageSizes -> Nat] /\ usedBasePages[top.ps] + 1 \in Nat
        BY <2>2 DEF IInv, TypeOK
      <4> QED BY ONLY <2>1, <4>1
    <3>4. result' \in Seq(PagedMemory)
      BY <2>1 DEF IInv, TypeOK
    <3> QED
      BY ONLY <3>1, <3>2, <3>3, <3>4 DEF ManagersType
  <2> HIDE DEF old
  <2>10. stack # <<>> /\ Goto(f) /\ UNCHANGED topLevel /\ UNCHANGED <<topLevel, result>>
    BY <2>1
  <2>11. StackOK(stack') /\ TopLevelOK'
    BY <2>4, <2>5, <2>10, GotoStep
  <2> QED
    BY <2>9, <2>10, <2>11, CallKeeps
<1>4. CASE FreeReturn
  <2>1. /\ stack # <<>> /\ top.pc = "free" /\ Return(<<>>)
        /\ UNCHANGED <<managers, topLevel>>
    BY <1>4 DEF FreeReturn, At
  <2>2. Returnable(top, <<>>)
    BY <2>1 DEF Returnable, Kind
  <2>3. ManagersType'
    BY <2>1 DEF IInv, TypeOK, ManagersType, managers
  <2> QED
    BY <2>1, <2>2, <2>3, ReturnStep, CallKeeps
<1> QED
  BY <1>1, <1>2, <1>3, <1>4 DEF FreeStep

\* The calls are abandoned: a fault, or a write behind the caller's array.
LEMMA StopKeeps ==
  ASSUME IInv, NEW reason \in {"fault", "overrun"}, Stop(reason), result = <<>>
  PROVE  IInv'
<1>1. /\ UNCHANGED <<memory, usedBasePages, buf, result, pageSize, index, descriptors,
                     freeMemory, holder, asked, held, calls>>
      /\ phase' = reason /\ stack' = <<>>
  BY DEF Stop, managers, boot, kernel
<1>2. StackOK(stack') /\ stack' \in Seq(Frame)
  BY <1>1 DEF StackOK
<1>3. TopLevelOK'
  BY <1>1 DEF IInv, TopLevelOK
<1>4. TypeOK'
  BY <1>1, <1>2 DEF IInv, TypeOK, Phases
<1> QED
  BY <1>2, <1>3, <1>4 DEF IInv

\* interruptNoMorePhysicalMemory
LEMMA NoMorePhysicalMemoryKeeps == ASSUME IInv, NoMorePhysicalMemory PROVE IInv'
<1>1. stack # <<>> /\ Stop("fault")
  BY DEF NoMorePhysicalMemory, At
<1>2. result = <<>>
  BY <1>1 DEF IInv, TopLevelOK
<1> QED
  BY <1>1, <1>2, StopKeeps

\* allocPhysicalPagesWithManager
LEMMA GatherStepKeeps == ASSUME IInv, GatherStep PROVE IInv'
<1>0. ASSUME stack # <<>>, memory[top.ps] # <<>>
      PROVE  /\ LastRun(top.ps) \in PagedMemory /\ LastRun(top.ps).pageStart \in Nat
             /\ LastRun(top.ps).numberOfPages \in Nat
             /\ Len(memory[top.ps]) \in DOMAIN memory[top.ps]
  <2>1. memory[top.ps] \in Seq(PagedMemory)
    BY <1>0, TopFacts
  <2>2. /\ LastRun(top.ps) \in PagedMemory
        /\ Len(memory[top.ps]) \in DOMAIN memory[top.ps]
    BY <1>0, <2>1 DEF LastRun
  <2> QED
    BY <2>2 DEF PagedMemory
<1>1. CASE GatherWhole
  <2> DEFINE f == [top EXCEPT !.pages = Append(@, LastRun(top.ps)),
                              !.n = @ - LastRun(top.ps).numberOfPages]
  <2>1. /\ stack # <<>> /\ top.pc = "gather" /\ memory[top.ps] # <<>> /\ Goto(f)
        /\ LastRun(top.ps).numberOfPages < top.n
        /\ memory' = [memory EXCEPT ![top.ps] = SubSeq(@, 1, Len(@) - 1)]
        /\ UNCHANGED <<usedBasePages, buf, result, topLevel>>
    BY <1>1 DEF GatherWhole, At
  <2>2. /\ top \in Frame /\ top.ps \in PageSizes /\ top.got = <<>> /\ top.n \in Nat
        /\ top.pages \in Seq(PagedMemory) /\ memory[top.ps] \in Seq(PagedMemory)
    BY <2>1, TopFacts DEF TopAnswered
  <2>3. /\ Append(top.pages, LastRun(top.ps)) \in Seq(PagedMemory)
        /\ top.n - LastRun(top.ps).numberOfPages \in Nat
    BY <1>0, <2>1, <2>2
  <2>4. f \in Frame /\ f.pc = "gather" /\ f.got = <<>> /\ f.ps = top.ps
    BY <2>1, <2>2, <2>3 DEF Frame
  <2>5. CarriesPages(f) /\ TopAnswered(f) /\ SameCall(top, f)
    BY <2>1, <2>4 DEF CarriesPages, TopAnswered, SameCall, Kind
  <2> HIDE DEF f
  <2>6. SubSeq(memory[top.ps], 1, Len(memory[top.ps]) - 1) \in Seq(PagedMemory)
    BY <2>2
  <2>7. ManagersType' /\ result' \in Seq(PagedMemory)
    BY <2>1, <2>2, <2>6 DEF IInv, TypeOK, ManagersType
  <2> QED
    BY <2>1, <2>4, <2>5, <2>7, GotoStep, CallKeeps
<1>2. CASE GatherLast
  <2> DEFINE v == Append(top.pages, Run(LastRun(top.ps).pageStart, top.n))
             i == Len(memory[top.ps])
  <2>1. /\ stack # <<>> /\ top.pc = "gather" /\ memory[top.ps] # <<>> /\ Return(v)
        /\ LastRun(top.ps).numberOfPages >= top.n
        /\ memory' = [memory EXCEPT ![top.ps] = decreasePages(@, top.ps, Len(@), top.n)]
        /\ UNCHANGED <<usedBasePages, buf, topLevel>>
    BY <1>2 DEF GatherLast, At
  <2>2. /\ top.ps \in PageSizes /\ top.ps \in Nat /\ top.n \in Nat
        /\ top.pages \in Seq(PagedMemory) /\ memory[top.ps] \in Seq(PagedMemory)
    BY <2>1, TopFacts, PageSizeFacts
  <2>3. i \in DOMAIN memory[top.ps] /\ top.n <= memory[top.ps][i].numberOfPages
    BY <1>0, <2>1, <2>2 DEF LastRun
  <2>4. decreasePages(memory[top.ps], top.ps, i, top.n) \in Seq(PagedMemory)
    BY <2>2, <2>3, DecreasePagesType
  <2>5. ManagersType'
    BY <2>1, <2>2, <2>4 DEF IInv, TypeOK, ManagersType
  <2>6. Returnable(top, v)
    <3>1. Run(LastRun(top.ps).pageStart, top.n) \in PagedMemory
      BY <1>0, <2>1, <2>2, OneRun
    <3>2. v \in Seq(PagedMemory)
      BY <2>2, <3>1
    <3> QED
      BY <2>1, <3>2 DEF Returnable, Kind
  <2> QED
    BY <2>1, <2>5, <2>6, ReturnStep, CallKeeps
<1>3. CASE GatherOverrun
  <2>1. stack # <<>> /\ Stop("overrun")
    BY <1>3 DEF GatherOverrun, At
  <2>2. result = <<>>
    BY <2>1 DEF IInv, TopLevelOK
  <2> QED
    BY <2>1, <2>2, StopKeeps
<1>4. CASE GatherFromLarger
  <2> DEFINE f == [top EXCEPT !.pc = "gathered"]
             room == top.room - Len(top.pages)
             g == Gather(CeilingDiv(top.n, ENTRIES), toLargerPageSize(top.ps), room)
  <2>1. /\ stack # <<>> /\ top.pc = "gather" /\ top.ps < HUGE_PAGE /\ Call(g, f)
        /\ UNCHANGED <<managers, result, topLevel>>
    BY <1>4 DEF GatherFromLarger, At
  <2>2. /\ top \in Frame /\ top.ps \in PageSizes /\ top.n \in Nat /\ top.got = <<>>
        /\ room \in Int
    BY <2>1, TopFacts DEF TopAnswered
  <2>3. /\ f \in Frame /\ f.pc = "gathered" /\ f.ps = top.ps /\ f.got = <<>>
        /\ CarriesPages(f) /\ SameCall(top, f)
    BY <2>1, <2>2 DEF Frame, Labels, CarriesPages, SameCall, Kind
  <2>4. /\ toLargerPageSize(top.ps) \in PageSizes /\ CeilingDiv(top.n, ENTRIES) \in Nat
    BY <2>1, <2>2, PageSizeFacts, CeilingFacts
  <2>5. /\ g \in Frame /\ CarriesPages(g) /\ TopAnswered(g)
        /\ Kind(g) = "gather" /\ g.ps = toLargerPageSize(top.ps)
    BY <2>2, <2>4, NewFrames
  <2> HIDE DEF f, g
  <2>6. WaitsFor(f, g)
    BY <2>3, <2>5 DEF WaitsFor
  <2>7. ManagersType' /\ result' \in Seq(PagedMemory)
    BY <2>1 DEF IInv, TypeOK, ManagersType, managers
  <2> QED
    BY <2>1, <2>3, <2>5, <2>6, <2>7, CallStep, CallKeeps
<1>5. CASE GatherConvert
  <2> DEFINE f == [top EXCEPT !.pc = "gather", !.got = <<>>]
             converted == [i \in DOMAIN top.got |-> ToSmallerRun(top.got[i])]
             g == Free(converted, top.ps)
  <2>1. /\ stack # <<>> /\ top.pc = "gathered" /\ Call(g, f)
        /\ UNCHANGED <<managers, result, topLevel>>
    BY <1>5 DEF GatherConvert, At
  <2>2. /\ top \in Frame /\ top.ps \in PageSizes /\ top.got \in Seq(PagedMemory)
        /\ top.pages \in Seq(PagedMemory)
    BY <2>1, TopFacts
  <2>3. f \in Frame /\ f.pc = "gather" /\ f.ps = top.ps /\ f.got = <<>>
    <3>1. f = GoingOn(top, "gather", top.pages)
      BY <2>2 DEF GoingOn, Frame
    <3>2. "gather" \in Labels
      BY DEF Labels
    <3> HIDE DEF f
    <3> QED
      BY <2>2, <3>1, <3>2, ChangedFrame
  <2>4. CarriesPages(f) /\ SameCall(top, f)
    BY <2>1, <2>3 DEF CarriesPages, SameCall, Kind
  <2>5. converted \in Seq(PagedMemory)
    <3>1. ASSUME NEW i \in DOMAIN top.got PROVE ToSmallerRun(top.got[i]) \in PagedMemory
      <4>1. top.got[i] \in PagedMemory
        BY <2>2
      <4>2. top.got[i].pageStart \in Nat /\ top.got[i].numberOfPages \in Nat
        BY <4>1 DEF PagedMemory
      <4>3. toSmallerPages(top.got[i].numberOfPages) \in Nat
        BY <4>2, PageSizeFacts DEF toSmallerPages
      <4> QED
        BY <4>2, <4>3, OneRun DEF ToSmallerRun
    <3> QED
      BY <2>2, <3>1
  <2>6. g \in Frame /\ CarriesPages(g) /\ TopAnswered(g) /\ Kind(g) = "free"
    <3> HIDE DEF converted
    <3> QED
      BY <2>2, <2>5, NewFrames
  <2> HIDE DEF f, g
  <2>7. WaitsFor(f, g)
    BY <2>3, <2>6 DEF WaitsFor
  <2>8. ManagersType' /\ result' \in Seq(PagedMemory)
    BY <2>1 DEF IInv, TypeOK, ManagersType, managers
  <2> QED
    BY <2>1, <2>3, <2>4, <2>6, <2>7, <2>8, CallStep, CallKeeps
<1> QED
  BY <1>1, <1>2, <1>3, <1>4, <1>5 DEF GatherStep

-----------------------------------------------------------------------------
(* Steps of the top level.                                                 *)

\* A call made by the top level is a stack of one frame.
LEMMA OneFrame ==
  ASSUME NEW f \in Frame, CarriesPages(f), TopAnswered(f)
  PROVE  StackOK(<<f>>) /\ <<f>> # <<>> /\ <<f>>[Len(<<f>>)] = f
<1>1. <<f>> \in Seq(Frame) /\ Len(<<f>>) = 1 /\ <<f>>[1] = f
  OBVIOUS
<1>2. StackOK(<<f>>)
  BY <1>1 DEF StackOK
<1> QED
  BY <1>1, <1>2

\* Two calls the top level makes one after the other.
LEMMA TwoFrames ==
  ASSUME NEW f \in Frame, CarriesPages(f), TopAnswered(f), Kind(f) = "free",
         NEW g \in Frame, CarriesPages(g), g.got = <<>>, g.pc = "free",
         NEW s, s = <<f>> \o <<g>>
  PROVE  StackOK(s) /\ s # <<>> /\ s[Len(s)] = g
<1>1. s \in Seq(Frame) /\ Len(s) = 2 /\ s[1] = f /\ s[2] = g
  OBVIOUS
<1>2. WaitsFor(g, f)
  BY DEF WaitsFor
<1>3. \A d \in 1 .. Len(s) : CarriesPages(s[d])
  BY <1>1
<1>4. \A d \in 2 .. Len(s) : WaitsFor(s[d], s[d - 1]) /\ s[d].got = <<>>
  BY <1>1, <1>2
<1>5. s # <<>>
  <2>1. Len(s) # 0 /\ Len(<<>>) = 0
    BY <1>1
  <2> QED
    BY <2>1, Zenon
<1>6. StackOK(s)
  BY <1>1, <1>3, <1>4 DEF StackOK
<1> QED
  BY <1>1, <1>5, <1>6

\* The run of a usable descriptor.
LEMMA DescriptorFacts ==
  ASSUME IInv, NEW k \in Nat, k >= 1, NEW i \in nextValidDescriptor(k)
  PROVE  /\ i \in Nat /\ i >= 1
         /\ descriptors[i].physicalStart \in Nat
         /\ descriptors[i].numberOfPages \in Nat \ {0}
         /\ DescriptorRun(i) \in PagedMemory /\ RestOfRun(i) \in PagedMemory
<1>1. descriptors \in Seq(MemoryDescriptor)
  BY MapsAssumption DEF IInv, TypeOK
<1>2. i \in k .. Len(descriptors)
  BY DEF nextValidDescriptor
<1>3. i \in Nat /\ i >= 1 /\ i \in 1 .. Len(descriptors)
  BY <1>1, <1>2
<1>4. descriptors[i] \in MemoryDescriptor
  BY <1>1, <1>3
<1>5. descriptors[i].physicalStart \in Nat /\ descriptors[i].numberOfPages \in Nat \ {0}
  BY <1>4 DEF MemoryDescriptor
<1>6. descriptors[i].physicalStart + 1 \in Nat /\ descriptors[i].numberOfPages - 1 \in Nat
  BY <1>5
<1> QED
  BY <1>3, <1>5, <1>6, OneRun DEF DescriptorRun, RestOfRun

\* One turn of initPMM's loop.
LEMMA PromoteKeeps == ASSUME IInv, Promote PROVE IInv'
<1> DEFINE smaller   == toSmallerPageSize(pageSize)
           run       == memory[smaller][index]
           boundary  == AlignUp(run.pageStart, pageSize)
           moved     == (boundary - run.pageStart) \div smaller
           fromAlign == run.numberOfPages - moved
           aligned   == AlignDown(fromAlign, ENTRIES)
           leftover  == fromAlign - aligned
           f == Free(<<Run(boundary, toLargerPages(aligned))>>, pageSize)
           g == Free(<<Run(boundary + aligned * smaller, leftover)>>, smaller)
           promotes == run.numberOfPages >= ENTRIES /\ fromAlign >= ENTRIES
<1>1. /\ stack = <<>> /\ phase = "promote" /\ index <= Len(memory[smaller])
      /\ index' = index + 1
      /\ UNCHANGED <<usedBasePages, buf, result, phase, pageSize, descriptors, freeMemory,
                     holder, asked, held, calls>>
  BY DEF Promote, Idle, kernel
<1>2. /\ promotes => /\ memory' = [memory EXCEPT ![smaller] =
                                      decreasePages(@, smaller, index, fromAlign)]
                     /\ stack' = <<f>> \o IF leftover > 0 THEN <<g>> ELSE <<>>
      /\ ~promotes => UNCHANGED <<memory, stack>>
  BY DEF Promote
<1>3. /\ TypeOK /\ TopLevelOK /\ index \in Nat /\ index >= 1
      /\ pageSize \in {LARGE_PAGE, HUGE_PAGE}
  BY <1>1 DEF IInv, TypeOK, TopLevelOK
<1>4. /\ smaller \in PageSizes /\ smaller \in Nat \ {0} /\ pageSize \in PageSizes
      /\ pageSize \in Nat \ {0}
  BY <1>3, PageSizeFacts
<1>5. /\ memory[smaller] \in Seq(PagedMemory) /\ index \in DOMAIN memory[smaller]
      /\ memory \in [PageSizes -> Seq(PagedMemory)]
  <2>1. memory[smaller] \in Seq(PagedMemory) /\ memory \in [PageSizes -> Seq(PagedMemory)]
    BY <1>3, <1>4 DEF TypeOK
  <2> QED
    BY <1>1, <1>3, <2>1
<1>6. run.pageStart \in Nat /\ run.numberOfPages \in Nat
  <2>1. run \in PagedMemory
    BY <1>5
  <2> QED
    BY <2>1 DEF PagedMemory
<1> HIDE DEF smaller, run
<1>7. boundary \in Nat /\ run.pageStart <= boundary
  <2> DEFINE c == CeilingDiv(run.pageStart, pageSize)
  <2>1. c \in Nat /\ run.pageStart <= pageSize * c
    BY <1>4, <1>6, CeilingFacts
  <2>2. boundary = pageSize * c
    BY DEF AlignUp
  <2> HIDE DEF c, boundary
  <2> QED
    BY <1>4, <2>1, <2>2
<1> HIDE DEF boundary
<1>8. moved \in Nat
  <2>1. boundary - run.pageStart \in Nat
    BY <1>6, <1>7
  <2> QED
    BY <1>4, <2>1, DivFacts
<1> HIDE DEF moved
<1>9. ASSUME promotes
      PROVE  fromAlign \in Nat /\ fromAlign <= run.numberOfPages
  BY <1>6, <1>8, <1>9, PageSizeFacts
<1>10. ASSUME promotes
       PROVE  aligned \in Nat /\ aligned <= fromAlign /\ toLargerPages(aligned) \in Nat
  <2>1. fromAlign \in Nat
    BY <1>9, <1>10
  <2> HIDE DEF fromAlign
  <2>2. aligned \in Nat /\ aligned <= fromAlign
    BY <2>1, DivFacts, PageSizeFacts DEF AlignDown
  <2> HIDE DEF aligned
  <2>3. aligned \div ENTRIES \in Nat
    BY <2>2, DivFacts, PageSizeFacts
  <2> QED
    BY <2>2, <2>3 DEF toLargerPages
<1>11. ASSUME promotes
       PROVE  /\ f \in Frame /\ CarriesPages(f) /\ TopAnswered(f) /\ Kind(f) = "free"
              /\ g \in Frame /\ CarriesPages(g) /\ g.got = <<>> /\ g.pc = "free"
  <2>1. fromAlign \in Nat /\ aligned \in Nat /\ aligned <= fromAlign
    BY <1>9, <1>10, <1>11
  <2>2. aligned * smaller \in Nat
    <3> HIDE DEF aligned
    <3> QED
      BY <2>1, <1>4
  <2>3. boundary + aligned * smaller \in Nat /\ leftover \in Nat
    <3> HIDE DEF aligned, fromAlign
    <3> QED
      BY <1>7, <2>1, <2>2
  <2>4. <<Run(boundary, toLargerPages(aligned))>> \in Seq(PagedMemory)
    BY <1>7, <1>10, <1>11, OneRun
  <2>5. <<Run(boundary + aligned * smaller, leftover)>> \in Seq(PagedMemory)
    BY <2>3, OneRun
  <2>6. f \in Frame /\ CarriesPages(f) /\ TopAnswered(f) /\ Kind(f) = "free"
    BY <1>4, <2>4, NewFrames
  <2>7. g \in Frame /\ CarriesPages(g)
    BY <1>4, <2>5, NewFrames
  <2>8. g.got = <<>> /\ g.pc = "free"
    BY DEF Free
  <2> QED
    BY <2>6, <2>7, <2>8
<1> HIDE DEF f, g
<1>12. CASE promotes
  <2>1. memory' \in [PageSizes -> Seq(PagedMemory)]
    <3>1. fromAlign \in Nat /\ fromAlign <= memory[smaller][index].numberOfPages
      BY <1>9, <1>12 DEF run
    <3> HIDE DEF fromAlign
    <3>2. decreasePages(memory[smaller], smaller, index, fromAlign) \in Seq(PagedMemory)
      BY <1>4, <1>5, <3>1, DecreasePagesType
    <3> QED
      BY <1>2, <1>5, <1>12, <3>2
  <2>2. /\ StackOK(stack') /\ stack' # <<>> /\ Kind(stack'[Len(stack')]) = "free"
    <3>1. CASE leftover > 0
      <4>1. stack' = <<f>> \o <<g>>
        BY <1>2, <1>12, <3>1, Zenon
      <4>2. Kind(g) = "free"
        BY <1>11, <1>12 DEF Kind
      <4> QED
        BY <4>1, <4>2, <1>11, <1>12, TwoFrames
    <3>2. CASE ~(leftover > 0)
      <4>1. stack' = <<f>>
        <5>1. stack' = <<f>> \o <<>>
          BY <1>2, <1>12, <3>2, Zenon
        <5> QED
          BY <5>1
      <4> QED
        BY <4>1, <1>11, <1>12, OneFrame
    <3> QED
      BY <3>1, <3>2
  <2>3. TypeOK'
    <3>1. stack' \in Seq(Frame)
      BY <2>2 DEF StackOK
    <3>2. index' \in Nat
      BY <1>1, <1>3
    <3> QED
      BY <1>1, <1>3, <2>1, <3>1, <3>2 DEF TypeOK
  <2>4. TopLevelOK'
    BY <1>1, <1>3, <2>2 DEF TopLevelOK, BottomOK
  <2> QED
    BY <2>2, <2>3, <2>4 DEF IInv
<1>13. CASE ~promotes
  <2>1. UNCHANGED <<memory, stack>>
    BY <1>2, <1>13
  <2>2. TypeOK'
    BY <1>1, <1>3, <2>1 DEF TypeOK
  <2>3. TopLevelOK'
    BY <1>1, <1>3, <2>1 DEF TopLevelOK
  <2> QED
    BY <2>1, <2>2, <2>3 DEF IInv
<1> QED
  BY <1>12, <1>13

\* initPhysicalMemoryManager and initPMM
LEMMA InitStepKeeps == ASSUME IInv, InitStep PROVE IInv'
<1>0. /\ TypeOK /\ TopLevelOK /\ index \in Nat /\ index >= 1
      /\ result \in Seq(PagedMemory) /\ freeMemory \in Seq(PagedMemory)
      /\ holder \in PagedMemory
  BY DEF IInv, TypeOK, TopLevelOK
<1> USE DEF boot, kernel, managers
<1>a. StackOK(<<>>)
  BY DEF StackOK
<1>1. CASE InitFirst
  <2>1. /\ stack = <<>> /\ phase = "first" /\ phase' = "collect"
        /\ UNCHANGED <<memory, usedBasePages, stack, result, pageSize, descriptors,
                       freeMemory, asked, held, calls>>
    BY <1>1 DEF InitFirst, Idle
  <2>2. PICK first \in nextValidDescriptor(1) :
          /\ buf' = [buf EXCEPT ![BASE_PAGE] = Run(descriptors[first].physicalStart, 1)]
          /\ \/ holder' = RestOfRun(first) /\ index' = first + 1
             \/ \E second \in nextValidDescriptor(first + 1) :
                  holder' = DescriptorRun(second) /\ index' = second + 1
    BY <1>1 DEF InitFirst
  <2>3. /\ first \in Nat /\ first >= 1 /\ descriptors[first].physicalStart \in Nat
        /\ RestOfRun(first) \in PagedMemory
    BY DescriptorFacts
  <2>4. holder' \in PagedMemory /\ index' \in Nat /\ index' >= 1
    <3>1. CASE holder' = RestOfRun(first) /\ index' = first + 1
      BY <2>3, <3>1
    <3>2. CASE \E second \in nextValidDescriptor(first + 1) :
                  holder' = DescriptorRun(second) /\ index' = second + 1
      <4>1. PICK second \in nextValidDescriptor(first + 1) :
                  holder' = DescriptorRun(second) /\ index' = second + 1
        BY <3>2
      <4>2. first + 1 \in Nat /\ first + 1 >= 1
        BY <2>3
      <4>3. second \in Nat /\ second >= 1 /\ DescriptorRun(second) \in PagedMemory
        BY <4>2, DescriptorFacts
      <4> QED
        BY <4>1, <4>3
    <3> QED
      BY <2>2, <3>1, <3>2
  <2>5. buf' \in [PageSizes -> PagedMemory]
    <3>1. Run(descriptors[first].physicalStart, 1) \in PagedMemory
      BY <2>3, OneRun
    <3> QED
      BY <2>2, <3>1, <1>0 DEF TypeOK
  <2>6. TypeOK'
    BY <1>0, <2>1, <2>4, <2>5 DEF TypeOK, Phases
  <2>7. TopLevelOK'
    BY <1>0, <2>1, <2>4 DEF TopLevelOK
  <2> QED
    BY <2>1, <2>6, <2>7, <1>a DEF IInv
<1>2. CASE InitFault
  <2>1. Stop("fault") /\ stack = <<>> /\ phase = "first"
    BY <1>2 DEF InitFault, Idle
  <2>2. result = <<>>
    BY <1>0, <2>1 DEF TopLevelOK
  <2> QED
    BY <2>1, <2>2, StopKeeps
<1>3. CASE InitCollect
  <2> DEFINE full == Len(freeMemory) >= EntriesPerPage * holder.numberOfPages
  <2>1. /\ stack = <<>> /\ phase = "collect"
        /\ UNCHANGED <<memory, usedBasePages, buf, result, phase, pageSize, descriptors,
                       holder, asked, held, calls>>
    BY <1>3 DEF InitCollect, Idle
  <2>2. PICK i \in nextValidDescriptor(index) :
          /\ stack' = IF full THEN <<Free(freeMemory, BASE_PAGE)>> ELSE <<>>
          /\ freeMemory' = Append(IF full THEN <<>> ELSE freeMemory, DescriptorRun(i))
          /\ index' = i + 1
    BY <1>3 DEF InitCollect
  <2> HIDE DEF full
  <2>3. i \in Nat /\ i >= 1 /\ DescriptorRun(i) \in PagedMemory
    BY <1>0, DescriptorFacts
  <2>4. freeMemory' \in Seq(PagedMemory) /\ index' \in Nat /\ index' >= 1
    <3>1. CASE full
      BY <2>2, <2>3, <3>1
    <3>2. CASE ~full
      BY <1>0, <2>2, <2>3, <3>2
    <3> QED BY <3>1, <3>2
  <2> DEFINE f == Free(freeMemory, BASE_PAGE)
  <2>5. f \in Frame /\ CarriesPages(f) /\ TopAnswered(f) /\ Kind(f) = "free"
    BY <1>0, NewFrames, PageSizeFacts
  <2> HIDE DEF f
  <2>6. StackOK(stack') /\ (stack' # <<>> => Kind(stack'[Len(stack')]) = "free")
    <3>1. CASE full
      <4>1. stack' = <<f>>
        BY <2>2, <3>1 DEF f
      <4> QED
        BY <4>1, <2>5, OneFrame
    <3>2. CASE ~full
      BY <2>2, <3>2, <1>a
    <3> QED BY <3>1, <3>2
  <2>7. TypeOK'
    <3>1. stack' \in Seq(Frame)
      BY <2>6 DEF StackOK
    <3> QED
      BY <1>0, <2>1, <2>4, <3>1 DEF TypeOK
  <2>8. TopLevelOK'
    BY <1>0, <2>1, <2>4, <2>6 DEF TopLevelOK, BottomOK
  <2> QED
    BY <2>6, <2>7, <2>8 DEF IInv
<1>4. CASE InitFreeCollected
  <2> DEFINE f == Free(freeMemory, BASE_PAGE)
  <2>1. /\ stack = <<>> /\ phase = "collect" /\ phase' = "holder" /\ stack' = <<f>>
        /\ freeMemory' = <<>> /\ index' = Len(descriptors) + 1
        /\ UNCHANGED <<memory, usedBasePages, buf, result, pageSize, descriptors,
                       holder, asked, held, calls>>
    BY <1>4 DEF InitFreeCollected, Idle
  <2>2. f \in Frame /\ CarriesPages(f) /\ TopAnswered(f) /\ Kind(f) = "free"
    BY <1>0, NewFrames, PageSizeFacts
  <2> HIDE DEF f
  <2>3. StackOK(stack') /\ stack' # <<>> /\ stack'[Len(stack')] = f
    BY <2>1, <2>2, OneFrame
  <2>4. index' \in Nat /\ index' >= 1
    <3>1. descriptors \in Seq(MemoryDescriptor)
      BY <1>0, MapsAssumption DEF TypeOK
    <3> QED
      BY <2>1, <3>1
  <2>5. TypeOK'
    <3>1. stack' \in Seq(Frame) /\ freeMemory' \in Seq(PagedMemory)
      BY <2>1, <2>3 DEF StackOK
    <3> QED
      BY <1>0, <2>1, <2>4, <3>1 DEF TypeOK, Phases
  <2>6. TopLevelOK'
    BY <1>0, <2>1, <2>2, <2>3, <2>4 DEF TopLevelOK, BottomOK
  <2> QED
    BY <2>3, <2>5, <2>6 DEF IInv
<1>5. CASE InitFreeHolder
  <2> DEFINE f == Free(<<holder>>, BASE_PAGE)
  <2>1. /\ stack = <<>> /\ phase = "holder" /\ phase' = "initPMM" /\ stack' = <<f>>
        /\ holder' = Run(0, 0) /\ pageSize' = LARGE_PAGE
        /\ UNCHANGED <<memory, usedBasePages, buf, result, index, descriptors,
                       freeMemory, asked, held, calls>>
    BY <1>5 DEF InitFreeHolder, Idle
  <2>2. f \in Frame /\ CarriesPages(f) /\ TopAnswered(f) /\ Kind(f) = "free"
    <3>1. <<holder>> \in Seq(PagedMemory)
      BY <1>0
    <3> QED
      BY <3>1, NewFrames, PageSizeFacts
  <2> HIDE DEF f
  <2>3. StackOK(stack') /\ stack' # <<>> /\ stack'[Len(stack')] = f
    BY <2>1, <2>2, OneFrame
  <2>4. TypeOK'
    <3>1. stack' \in Seq(Frame) /\ holder' \in PagedMemory /\ pageSize' \in PageSizes
      BY <2>1, <2>3, OneRun, PageSizeFacts DEF StackOK
    <3> QED
      BY <1>0, <2>1, <3>1 DEF TypeOK, Phases
  <2>5. TopLevelOK'
    BY <1>0, <2>1, <2>2, <2>3 DEF TopLevelOK, BottomOK
  <2> QED
    BY <2>3, <2>4, <2>5 DEF IInv
<1>6. CASE InitPMM
  <2> DEFINE f == Alloc(usedBasePages[pageSize], BASE_PAGE)
  <2>1. /\ stack = <<>> /\ phase = "initPMM" /\ phase' = "buffer" /\ stack' = <<f>>
        /\ UNCHANGED <<memory, usedBasePages, buf, result, pageSize, index, descriptors,
                       freeMemory, holder, asked, held, calls>>
    BY <1>6 DEF InitPMM, Idle
  <2>2. /\ f \in Frame /\ CarriesPages(f) /\ TopAnswered(f) /\ Kind(f) = "alloc"
        /\ f.ps = BASE_PAGE
    <3>1. usedBasePages[pageSize] \in Nat
      BY <1>0 DEF TypeOK
    <3> QED
      BY <3>1, NewFrames, PageSizeFacts
  <2> HIDE DEF f
  <2>3. StackOK(stack') /\ stack' # <<>> /\ stack'[Len(stack')] = f
    BY <2>1, <2>2, OneFrame
  <2>4. TypeOK'
    <3>1. stack' \in Seq(Frame)
      BY <2>3 DEF StackOK
    <3> QED
      BY <1>0, <2>1, <3>1 DEF TypeOK, Phases
  <2>5. TopLevelOK'
    BY <1>0, <2>1, <2>2, <2>3 DEF TopLevelOK, BottomOK
  <2> QED
    BY <2>3, <2>4, <2>5 DEF IInv
<1>7. CASE InitBuffer
  <2>1. /\ stack = <<>> /\ phase = "buffer" /\ phase' = "promote" /\ result' = <<>>
        /\ buf' = [buf EXCEPT ![pageSize] = result[1]] /\ index' = 1
        /\ UNCHANGED <<memory, usedBasePages, stack, pageSize, descriptors,
                       freeMemory, holder, asked, held, calls>>
    BY <1>7 DEF InitBuffer, Idle
  <2>2. result[1] \in PagedMemory
    BY <1>0, <2>1 DEF TopLevelOK
  <2>3. buf' \in [PageSizes -> PagedMemory]
    BY <1>0, <2>1, <2>2 DEF TypeOK
  <2>4. TypeOK'
    BY <1>0, <2>1, <2>3 DEF TypeOK, Phases
  <2>5. TopLevelOK'
    BY <1>0, <2>1 DEF TopLevelOK
  <2> QED
    BY <2>1, <2>4, <2>5, <1>a DEF IInv
<1>8. CASE Promote
  BY <1>8, PromoteKeeps
<1>9. CASE InitPMMDone
  <2>1. /\ stack = <<>> /\ phase = "promote" /\ phase' \in {"initPMM", "kernel"}
        /\ pageSize' \in {pageSize, HUGE_PAGE}
        /\ phase' = "initPMM" => pageSize' = HUGE_PAGE
        /\ UNCHANGED <<memory, usedBasePages, buf, stack, result, index, descriptors,
                       freeMemory, holder, asked, held, calls>>
    BY <1>9 DEF InitPMMDone, Idle
  <2>2. TypeOK'
    BY <1>0, <2>1, PageSizeFacts DEF TypeOK, Phases
  <2>3. TopLevelOK'
    BY <1>0, <2>1 DEF TopLevelOK
  <2> QED
    BY <2>1, <2>2, <2>3, <1>a DEF IInv
<1> QED
  BY <1>1, <1>2, <1>3, <1>4, <1>5, <1>6, <1>7, <1>8, <1>9 DEF InitStep

\* The rest of the kernel makes a call.
LEMMA KernelCallKeeps ==
  ASSUME IInv, Idle("kernel"), KernelCall, phase' = "waiting",
         NEW f \in Frame, CarriesPages(f), TopAnswered(f), stack' = <<f>>,
         pageSize' = f.ps, asked' \in Nat,
         held' \in SUBSET [ps : PageSizes, run : PagedMemory],
         UNCHANGED <<managers, result, boot>>
  PROVE  IInv'
<1>1. /\ UNCHANGED <<memory, usedBasePages, buf, result, index, descriptors, freeMemory, holder>>
      /\ phase = "kernel" /\ calls \in 0 .. MaxCalls /\ calls < MaxCalls /\ calls' = calls + 1
      /\ TypeOK /\ TopLevelOK
  BY DEF IInv, TypeOK, Idle, KernelCall, managers, boot
<1>2. calls' \in 0 .. MaxCalls
  BY <1>1, SizesAssumption
<1>3. StackOK(stack') /\ stack' # <<>> /\ stack'[Len(stack')] = f
  BY OneFrame
<1>4. stack' \in Seq(Frame) /\ pageSize' \in PageSizes
  BY <1>3 DEF StackOK, Frame
<1>5. TypeOK'
  BY <1>1, <1>2, <1>4 DEF TypeOK, Phases
<1>6. TopLevelOK'
  BY <1>1, <1>3 DEF TopLevelOK, BottomOK
<1> QED
  BY <1>3, <1>5, <1>6 DEF IInv

\* The calls of the rest of the kernel.
LEMMA KernelStepKeeps == ASSUME IInv, KernelStep PROVE IInv'
<1>0. held \in SUBSET [ps : PageSizes, run : PagedMemory] /\ ENTRIES \in Int
  BY SizesAssumption DEF IInv, TypeOK
<1>1. ASSUME NEW n \in Requests, NEW ps \in PageSizes, KernelAlloc(n, ps) PROVE IInv'
  <2> DEFINE f == Alloc(n, ps)
  <2>1. n \in Nat
    BY RequestsAssumption
  <2>2. f \in Frame /\ f.ps = ps /\ CarriesPages(f) /\ TopAnswered(f)
    BY <2>1, NewFrames
  <2>3. /\ Idle("kernel") /\ KernelCall /\ stack' = <<f>> /\ phase' = "waiting"
        /\ pageSize' = ps /\ asked' = n /\ UNCHANGED <<managers, result, boot, held>>
    BY <1>1 DEF KernelAlloc
  <2> HIDE DEF f
  <2> QED
    BY <1>0, <2>1, <2>2, <2>3, KernelCallKeeps
<1>2. ASSUME NEW n \in Requests, NEW ps \in PageSizes, KernelGather(n, ps) PROVE IInv'
  <2> DEFINE f == Gather(n, ps, ENTRIES)
  <2>1. n \in Nat
    BY RequestsAssumption
  <2>2. f \in Frame /\ f.ps = ps /\ CarriesPages(f) /\ TopAnswered(f)
    BY <1>0, <2>1, NewFrames
  <2>3. /\ Idle("kernel") /\ KernelCall /\ stack' = <<f>> /\ phase' = "waiting"
        /\ pageSize' = ps /\ asked' = n /\ UNCHANGED <<managers, result, boot, held>>
    BY <1>2 DEF KernelGather
  <2> HIDE DEF f
  <2> QED
    BY <1>0, <2>1, <2>2, <2>3, KernelCallKeeps
<1>3. ASSUME NEW h \in held, NEW k \in 0 .. h.run.numberOfPages,
             NEW n \in 1 .. h.run.numberOfPages, KernelFree(h, k, n)
      PROVE  IInv'
  <2> DEFINE start == h.run.pageStart
             given == <<Run(start + k * h.ps, n)>>
             front == Run(start, k)
             back == Run(start + (k + n) * h.ps, h.run.numberOfPages - (k + n))
             f == Free(given, h.ps)
  <2>1. h.ps \in PageSizes /\ h.run \in PagedMemory
    BY <1>0
  <2>2. h.run.pageStart \in Nat /\ h.run.numberOfPages \in Nat /\ h.ps \in Nat
    BY <2>1, PageSizeFacts DEF PagedMemory
  <2>3. /\ Idle("kernel") /\ KernelCall /\ stack' = <<f>> /\ phase' = "waiting"
        /\ pageSize' = h.ps /\ asked' = 0 /\ UNCHANGED <<managers, result, boot>>
        /\ held' = (held \ {h}) \cup {[ps |-> h.ps, run |-> r] :
                                        r \in {x \in {front, back} : x.numberOfPages > 0}}
        /\ k + n <= h.run.numberOfPages
    BY <1>3 DEF KernelFree
  <2>4. k \in Nat /\ n \in Nat /\ k + n \in Nat /\ h.run.numberOfPages - (k + n) \in Nat
    BY <2>2, <2>3
  <2>5. start + k * h.ps \in Nat /\ start + (k + n) * h.ps \in Nat
    <3>1. k * h.ps \in Nat
      BY <2>2, <2>4
    <3>2. ASSUME NEW j \in Nat PROVE j * h.ps \in Nat
      BY <2>2
    <3>3. (k + n) * h.ps \in Nat
      <4> HIDE DEF start
      <4> QED
        BY <2>4, <3>2
    <3>4. start \in Nat
      BY <2>2
    <3> HIDE DEF start
    <3> QED
      BY <3>1, <3>3, <3>4
  <2>6. front \in PagedMemory /\ back \in PagedMemory /\ given \in Seq(PagedMemory)
    BY <2>2, <2>4, <2>5, OneRun
  <2>7. f \in Frame /\ f.ps = h.ps /\ CarriesPages(f) /\ TopAnswered(f)
    BY <2>1, <2>6, NewFrames
  <2> HIDE DEF f, front, back
  <2>8. \A r \in {front, back} : [ps |-> h.ps, run |-> r] \in [ps : PageSizes, run : PagedMemory]
    BY <2>1, <2>6
  <2>9. held' \in SUBSET [ps : PageSizes, run : PagedMemory]
    BY <1>0, <2>3, <2>8
  <2> QED
    BY <2>3, <2>7, <2>9, KernelCallKeeps
<1> QED
  BY <1>1, <1>2, <1>3 DEF KernelStep

\* The rest of the kernel takes what the call returned.
LEMMA KernelReceiveKeeps == ASSUME IInv, KernelReceive PROVE IInv'
<1>1. /\ stack = <<>> /\ result' = <<>> /\ phase' = "kernel"
      /\ held' = held \cup {[ps |-> pageSize, run |-> result[i]] :
                             i \in {j \in DOMAIN result : result[j].numberOfPages > 0}}
      /\ UNCHANGED <<memory, usedBasePages, buf, stack, pageSize, asked, calls, index,
                     descriptors, freeMemory, holder>>
  BY DEF KernelReceive, Idle, managers, boot
<1>2. TypeOK /\ TopLevelOK /\ StackOK(stack)
  BY DEF IInv
<1>3. held' \in SUBSET [ps : PageSizes, run : PagedMemory]
  <2>1. /\ result \in Seq(PagedMemory) /\ pageSize \in PageSizes
        /\ held \in SUBSET [ps : PageSizes, run : PagedMemory]
    BY <1>2 DEF TypeOK
  <2>2. ASSUME NEW i \in DOMAIN result
        PROVE  [ps |-> pageSize, run |-> result[i]] \in [ps : PageSizes, run : PagedMemory]
    <3>1. result[i] \in PagedMemory
      BY <2>1
    <3> QED
      BY <2>1, <3>1
  <2> QED
    BY <1>1, <2>1, <2>2
<1>4. TypeOK'
  BY <1>1, <1>2, <1>3 DEF TypeOK, Phases
<1>5. TopLevelOK'
  BY <1>1, <1>2 DEF TopLevelOK
<1> QED
  BY <1>1, <1>2, <1>4, <1>5 DEF IInv

\* A step that changes nothing.
LEMMA StutterKeeps == ASSUME IInv, UNCHANGED vars PROVE IInv'
BY DEF vars, managers, topLevel, boot, kernel, IInv, TypeOK, TopLevelOK, BottomOK

\* The kernel is entered with empty lists and no calls.
LEMMA InitEstablishes == ASSUME Init PROVE IInv
<1> USE DEF Init
<1>1. Run(0, 0) \in PagedMemory
  BY OneRun
<1>2. stack \in Seq(Frame) /\ result \in Seq(PagedMemory) /\ freeMemory \in Seq(PagedMemory)
  OBVIOUS
<1>3. /\ memory \in [PageSizes -> Seq(PagedMemory)] /\ usedBasePages \in [PageSizes -> Nat]
      /\ buf \in [PageSizes -> PagedMemory]
  BY <1>1
<1>4. TypeOK
  BY <1>1, <1>2, <1>3, PageSizeFacts, SizesAssumption DEF TypeOK, Phases
<1>5. StackOK(stack)
  BY <1>2 DEF StackOK
<1>6. TopLevelOK
  BY DEF TopLevelOK
<1> QED
  BY <1>4, <1>5, <1>6 DEF IInv

\* The invariant is inductive: it holds of every state the kernel reaches.
THEOREM Inductive == Spec => []IInv
<1>1. Init => IInv
  BY InitEstablishes
<1>2. IInv /\ [Next]_vars => IInv'
  <2> SUFFICES ASSUME IInv, [Next]_vars PROVE IInv'
    OBVIOUS
  <2>1. CASE Running
    BY <2>1, AllocStepKeeps, FreeStepKeeps, GatherStepKeeps, NoMorePhysicalMemoryKeeps,
       InitStepKeeps, KernelReceiveKeeps DEF Running
  <2>2. CASE KernelStep
    BY <2>2, KernelStepKeeps
  <2>3. CASE Halted \/ UNCHANGED vars
    BY <2>3, StutterKeeps DEF Halted
  <2> QED
    BY <2>1, <2>2, <2>3 DEF Next
<1> QED
  BY <1>1, <1>2, PTL DEF Spec

\* Whatever the memory map and the calls, every list, array, call frame and
\* result stays well formed: no count of pages of physical.c (an unsigned 64 bit
\* number) ever drops below zero, and no position is read outside its list.
THEOREM TypeCorrect == Spec => []TypeOK
<1>1. IInv => TypeOK
  BY DEF IInv
<1> QED
  BY <1>1, Inductive, PTL

-----------------------------------------------------------------------------
(* Where runs start *)

\* Every run of a list starts on a boundary of its page size.
RunsAligned(runs, ps) == \A i \in DOMAIN runs : runs[i].pageStart % ps = 0
FrameAligned(frame) ==
  RunsAligned(frame.pages, frame.ps) /\ RunsAligned(frame.got, GotSize(frame))

\* So does every run on its way through a call.
ListsAligned == \A ps \in PageSizes : RunsAligned(memory[ps], ps)
StackAligned == \A d \in DOMAIN stack : FrameAligned(stack[d])
ResultAligned == phase # "buffer" => RunsAligned(result, pageSize)
Boundaries ==
  OnlyBaseGrew => ListsAligned /\ StackAligned /\ ResultAligned /\ HeldAligned

\* Every array was given a frame, so one that has moved is known by its count.
ArraysCounted == \A ps \in PageSizes : usedBasePages[ps] >= 1

-----------------------------------------------------------------------------
(* The arrays the lists are stored in *)

\* A list has no more runs than its manager counts room for.
ListsFit == \A ps \in PageSizes : Len(memory[ps]) <= cap(ps)

\* allocPhysicalPagesWithManager is called by the top level and by itself only.
GatherBelow ==
  \A d, e \in DOMAIN stack :
    d < e /\ Kind(stack[d]) = "gather" => Kind(stack[e]) = "gather"

\* initPMM asks for one frame, and gets it.
OneFrameAsked == OnlyBaseGrew /\ phase = "buffer" =>
  /\ stack = <<>> => result[1].numberOfPages = 1
  /\ stack # <<>> => stack[Len(stack)].n = 1

\* A manager is not in use before it has been given an array: its list is empty,
\* nothing is freed to it, and no call gets pages from it.
Unready(ps) ==
  \/ phase = "first"
  \/ phase \in {"collect", "holder"} /\ ps # BASE_PAGE
  \/ phase \in {"initPMM", "buffer"} /\ ps >= pageSize
  \/ phase = "promote" /\ ps > pageSize
UnreadyEmpty ==
  \A ps \in PageSizes : Unready(ps) => memory[ps] = <<>> /\ buf[ps] = Run(0, 0)

\* A call that has pages to return has as many as it was asked for.
FrameGood(frame) ==
  /\ frame.pc = "return" => frame.pages[1].numberOfPages = frame.n
  /\ Unready(frame.ps) => frame.pc \in {"alloc", "split"}
FramesGood == \A d \in DOMAIN stack : FrameGood(stack[d])
TopGood == stack # <<>> /\ stack[1].pc = "split" => ~Unready(toLargerPageSize(stack[1].ps))

\* The array of a manager in use has the frames its manager counts.
Stopped == phase \in {"fault", "overrun"}
ArrayOf(ps) ==
  \/ buf[ps].numberOfPages = usedBasePages[ps]
  \/ memory[ps] = <<>> /\ buf[ps] = Run(0, 0) /\ (Unready(ps) \/ Stopped)

\* basePMM's list is full, and has no run of n pages.
BaseFull == Len(memory[BASE_PAGE]) >= cap(BASE_PAGE)
NoRunOf(n) == \A i \in DOMAIN memory[BASE_PAGE] : memory[BASE_PAGE][i].numberOfPages < n

\* The frames of freePhysicalPagesWithManager that wait to move basePMM's list.
MovesBase(frame) == frame.pc = "grow" /\ frame.ps = BASE_PAGE

\* A larger array for basePMM's list has one frame more.  While it is taken
\* from larger pages the list stays full without a run that would do, so no
\* call inside gets as far as moving it too.
LargerArray == usedBasePages[BASE_PAGE] + 1
GetsLargerArray == stack # <<>> /\ MovesBase(stack[1]) =>
  /\ stack[1].got[1].numberOfPages = LargerArray
  /\ \A d \in 2 .. Len(stack) : ~MovesBase(stack[d])
WaitsForArray(d) == MovesBase(stack[d]) =>
  /\ stack[d - 1].n = LargerArray /\ BaseFull
  /\ stack[d - 1].pc # "alloc" => NoRunOf(LargerArray)
  /\ stack[d - 1].pc = "return" =>
       d # 2 /\ stack[d - 2].ps = BASE_PAGE /\ stack[d - 2].pages # <<>>
Growing == GetsLargerArray /\ \A d \in 2 .. Len(stack) : WaitsForArray(d)

\* The list of largePMM or hugePMM is about to be moved.
OtherMoves == stack # <<>> /\ stack[1].pc = "grow" /\ stack[1].ps # BASE_PAGE

Arrays == OnlyBaseGrew => (\A ps \in PageSizes : ArrayOf(ps)) /\ (OtherMoves \/ Growing)

-----------------------------------------------------------------------------
(* Multiples of a page size *)

LEMMA Multiple ==
  ASSUME NEW a \in Nat, NEW d \in Nat \ {0}
  PROVE  a % d = 0 <=> \E q \in Nat : a = q * d
<1> DEFINE q == a \div d
           r == a % d
<1>1. q \in Nat /\ r \in 0 .. d - 1 /\ a = d * q + r
  BY DivFacts
<1> HIDE DEF q, r
<1>2. ASSUME r = 0 PROVE \E p \in Nat : a = p * d
  <2>1. a = q * d
    BY <1>1, <1>2
  <2> QED BY <1>1, <2>1
<1>3. ASSUME NEW p \in Nat, a = p * d PROVE r = 0
  <2>1. d * (p - q) = r
    BY <1>1, <1>3
  <2>2. p - q \in Int
    BY <1>1
  <2>3. p - q <= 0
    <3>1. SUFFICES ASSUME p - q >= 1 PROVE FALSE
      BY <2>2
    <3>2. d * (p - q) >= d
      BY <3>1, <2>2
    <3> QED BY <3>2, <2>1, <1>1
  <2>4. p - q >= 0
    <3>1. SUFFICES ASSUME p - q <= -1 PROVE FALSE
      BY <2>2
    <3>2. d * (p - q) <= -d
      BY <3>1, <2>2
    <3> QED BY <3>2, <2>1, <1>1
  <2>5. p - q = 0
    BY <2>2, <2>3, <2>4
  <2> QED BY <2>1, <2>5
<1> QED BY <1>2, <1>3 DEF r

\* Whole pages further on is a boundary again.
LEMMA FurtherOn ==
  ASSUME NEW a \in Nat, NEW k \in Nat, NEW d \in Nat \ {0}, a % d = 0
  PROVE  a + k * d \in Nat /\ (a + k * d) % d = 0
<1>1. PICK q \in Nat : a = q * d
  BY Multiple
<1>2. a + k * d = (q + k) * d /\ q + k \in Nat /\ k * d \in Nat
  BY <1>1
<1>3. a + k * d \in Nat
  BY <1>2
<1> HIDE DEF Multiple
<1> DEFINE b == a + k * d
<1>4. b \in Nat /\ \E p \in Nat : b = p * d
  BY <1>2, <1>3
<1> HIDE DEF b
<1>5. b % d = 0
  BY <1>4, Multiple
<1> QED BY <1>3, <1>5 DEF b

\* A boundary of the larger page size is one of the smaller.
LEMMA LargerBoundary ==
  ASSUME NEW a \in Nat, NEW ps \in Nat \ {0}, a % (ps * ENTRIES) = 0
  PROVE  a % ps = 0
<1>1. ps * ENTRIES \in Nat \ {0}
  BY PageSizeFacts
<1> DEFINE d == ps * ENTRIES
<1>2. PICK q \in Nat : a = q * d
  <2> HIDE DEF d
  <2>1. d \in Nat \ {0} /\ a % d = 0
    BY <1>1 DEF d
  <2> QED BY <2>1, Multiple
<1>3. a = (q * ENTRIES) * ps /\ q * ENTRIES \in Nat
  BY <1>2, PageSizeFacts
<1> QED BY <1>3, Multiple

LEMMA ModOne == \A a \in Nat : a % 1 = 0
OBVIOUS

LEMMA OnlyOne ==
  ASSUME NEW S, NEW s \in Seq(S), Len(s) = 1
  PROVE  s[1] \in S /\ 1 \in DOMAIN s
OBVIOUS

LEMMA TwoOrMore == \A n \in Nat : n >= 2 <=> n >= 1 /\ n # 1
OBVIOUS

LEMMA ThreeOrMore == \A n \in Nat : n >= 3 <=> n >= 2 /\ n # 2
OBVIOUS

-----------------------------------------------------------------------------
(* The stack after a step of the call on top *)

LEMMA AfterGoto ==
  ASSUME IInv, stack # <<>>, NEW f \in Frame, Goto(f)
  PROVE  /\ stack' \in Seq(Frame) /\ Len(stack') = Len(stack) /\ stack'[1] = f
         /\ \A d \in 2 .. Len(stack) : stack'[d] = stack[d]
         /\ stack' # <<>> /\ Len(stack) \in Nat /\ Len(stack) >= 1
<1>1. stack \in Seq(Frame)
  BY DEF IInv, StackOK
<1>2. /\ stack' \in Seq(Frame) /\ Len(stack') = Len(stack) /\ stack'[1] = f
      /\ \A d \in 2 .. Len(stack) : stack'[d] = stack[d]
  BY <1>1, ReplaceTop DEF Goto
<1>3. Len(stack) \in Nat /\ Len(stack) >= 1
  BY <1>1, HeadTail
<1>4. stack' # <<>>
  BY <1>2, <1>3
<1> QED BY <1>2, <1>3, <1>4

LEMMA AfterCall ==
  ASSUME IInv, stack # <<>>, NEW f \in Frame, NEW g \in Frame, Call(g, f)
  PROVE  /\ stack' \in Seq(Frame) /\ Len(stack') = Len(stack) + 1
         /\ stack'[1] = g /\ stack'[2] = f
         /\ \A d \in 3 .. Len(stack) + 1 : stack'[d] = stack[d - 1]
         /\ stack' # <<>> /\ Len(stack) \in Nat /\ Len(stack) >= 1
<1>1. stack \in Seq(Frame)
  BY DEF IInv, StackOK
<1>2. /\ stack' \in Seq(Frame) /\ Len(stack') = Len(stack) + 1
      /\ stack'[1] = g /\ stack'[2] = f
      /\ \A d \in 3 .. Len(stack) + 1 : stack'[d] = stack[d - 1]
  BY <1>1, PushOnTop DEF Call
<1>3. Len(stack) \in Nat /\ Len(stack) >= 1
  BY <1>1, HeadTail
<1>4. stack' # <<>>
  BY <1>2, <1>3
<1> QED BY <1>2, <1>3, <1>4

\* To the frame below, which gets v.
LEMMA AfterReturn ==
  ASSUME IInv, Len(stack) >= 2, NEW v \in Seq(PagedMemory), Return(v)
  PROVE  /\ stack' \in Seq(Frame) /\ Len(stack') = Len(stack) - 1
         /\ stack'[1].pc = stack[2].pc /\ stack'[1].ps = stack[2].ps
         /\ stack'[1].n = stack[2].n /\ stack'[1].pages = stack[2].pages
         /\ stack'[1].got = v
         /\ \A d \in 2 .. Len(stack) - 1 : stack'[d] = stack[d + 1]
         /\ stack' # <<>> /\ Len(stack) \in Nat /\ result' = result
<1>0. Len(stack) >= 2
  OBVIOUS
<1>1. stack \in Seq(Frame) /\ Len(stack) \in Nat /\ stack[2] \in Frame
  BY DEF IInv, StackOK
<1>a. Len(stack) # 1
  <2>1. Len(stack) \in Nat
    BY <1>1
  <2> QED BY <1>0, <2>1, TwoOrMore, Zenon
<1> DEFINE f == [stack[2] EXCEPT !.got = v]
<1>2. /\ f \in Frame /\ f.pc = stack[2].pc /\ f.ps = stack[2].ps /\ f.n = stack[2].n
      /\ f.pages = stack[2].pages /\ f.got = v
  <2> DEFINE P == Seq(PagedMemory)
             c == stack[2]
  <2>1. /\ c \in [pc : Labels, ps : PageSizes, n : Nat, pages : P, room : Int, got : P]
        /\ v \in P
    BY <1>1 DEF Frame
  <2>2. f = [c EXCEPT !.got = v]
    OBVIOUS
  <2> HIDE DEF P, c, f
  <2>3. /\ f \in [pc : Labels, ps : PageSizes, n : Nat, pages : P, room : Int, got : P]
        /\ f.pc = c.pc /\ f.ps = c.ps /\ f.n = c.n /\ f.pages = c.pages /\ f.got = v
    BY <2>1, <2>2
  <2> QED BY <2>3 DEF Frame, P, c
<1>3. stack' = <<f>> \o Tail(Tail(stack)) /\ result' = result
  BY <1>a, Zenon DEF Return
<1> HIDE DEF f
<1>4. /\ stack' \in Seq(Frame) /\ Len(stack') = Len(stack) - 1 /\ stack'[1] = f
      /\ \A d \in 2 .. Len(stack) - 1 : stack'[d] = stack[d + 1]
  <2> DEFINE t == <<f>> \o Tail(Tail(stack))
  <2>1. /\ t \in Seq(Frame) /\ Len(t) = Len(stack) - 1 /\ t[1] = f
        /\ \A d \in 2 .. Len(stack) - 1 : t[d] = stack[d + 1]
    BY ONLY <1>0, <1>1, <1>2, PopTop
  <2>2. stack' = t
    BY <1>3
  <2> HIDE DEF t
  <2> QED BY ONLY <2>1, <2>2
<1>5. stack' # <<>>
  BY ONLY <1>0, <1>1, <1>4
<1> QED BY <1>1, <1>2, <1>3, <1>4, <1>5

LEMMA AfterLastReturn ==
  ASSUME IInv, Len(stack) = 1, NEW v, Return(v)
  PROVE  stack' = <<>> /\ result' = v /\ Len(stack') = 0
BY DEF Return

\* A frame is called with the page size its caller takes pages in, or gives
\* nothing back.
LEMMA CalleeSize ==
  ASSUME IInv, Len(stack) >= 2
  PROVE  \/ Kind(stack[1]) = "free"
         \/ GotSize(stack[2]) = stack[1].ps
<1>1. stack \in Seq(Frame) /\ Len(stack) \in Nat
  BY DEF IInv, StackOK
<1>2. stack[2] \in Frame /\ stack[2].pc \in Labels
  <2>1. stack[2] \in Frame
    BY <1>1
  <2> QED BY <2>1 DEF Frame
<1>3. WaitsFor(stack[2], stack[1])
  BY <1>1 DEF IInv, StackOK
<1> QED BY <1>2, <1>3 DEF WaitsFor, GotSize, Labels

-----------------------------------------------------------------------------
(* Lists of runs that start on boundaries *)

LEMMA AlignedLists ==
  ASSUME NEW ps \in Nat \ {0}
  PROVE  /\ RunsAligned(<<>>, ps)
         /\ \A a, n \in Nat : a % ps = 0 => RunsAligned(<<Run(a, n)>>, ps)
         /\ \A list \in Seq(PagedMemory), r \in PagedMemory :
               RunsAligned(list, ps) /\ r.pageStart % ps = 0
                 => RunsAligned(Append(list, r), ps)
         /\ \A list \in Seq(PagedMemory) : RunsAligned(list, ps) /\ list # <<>> =>
               /\ RunsAligned(Tail(list), ps) /\ Head(list).pageStart % ps = 0
               /\ RunsAligned(SubSeq(list, 1, Len(list) - 1), ps)
               /\ list[Len(list)].pageStart % ps = 0
<1>1. RunsAligned(<<>>, ps)
  BY DEF RunsAligned
<1>2. ASSUME NEW a \in Nat, NEW n \in Nat, a % ps = 0 PROVE RunsAligned(<<Run(a, n)>>, ps)
  <2> DEFINE r == Run(a, n)
  <2>1. r.pageStart = a
    BY OneRun
  <2> HIDE DEF r
  <2>2. \A i \in DOMAIN <<r>> : <<r>>[i] = r
    OBVIOUS
  <2>3. RunsAligned(<<r>>, ps)
    BY <1>2, <2>1, <2>2 DEF RunsAligned
  <2> QED BY <2>3 DEF r
<1>3. ASSUME NEW list \in Seq(PagedMemory), NEW r \in PagedMemory,
             RunsAligned(list, ps), r.pageStart % ps = 0
      PROVE  RunsAligned(Append(list, r), ps)
  <2>1. ASSUME NEW i \in DOMAIN Append(list, r)
        PROVE  \/ i \in DOMAIN list /\ Append(list, r)[i] = list[i]
               \/ Append(list, r)[i] = r
    OBVIOUS
  <2> QED BY <1>3, <2>1 DEF RunsAligned
<1>4. ASSUME NEW list \in Seq(PagedMemory), RunsAligned(list, ps), list # <<>>
      PROVE  /\ RunsAligned(Tail(list), ps) /\ Head(list).pageStart % ps = 0
             /\ RunsAligned(SubSeq(list, 1, Len(list) - 1), ps)
             /\ list[Len(list)].pageStart % ps = 0
  <2>1. /\ \A i \in DOMAIN Tail(list) : i + 1 \in DOMAIN list /\ Tail(list)[i] = list[i + 1]
        /\ Head(list) = list[1] /\ 1 \in DOMAIN list /\ Len(list) \in DOMAIN list
    BY <1>4
  <2>2. \A i \in DOMAIN SubSeq(list, 1, Len(list) - 1) :
          i \in DOMAIN list /\ SubSeq(list, 1, Len(list) - 1)[i] = list[i]
    BY <1>4
  <2> QED BY <1>4, <2>1, <2>2 DEF RunsAligned
<1> QED BY <1>1, <1>2, <1>3, <1>4

\* Taking pages off a run leaves it on a boundary.
LEMMA AlignedDecrease ==
  ASSUME NEW ps \in Nat \ {0}, NEW list \in Seq(PagedMemory), RunsAligned(list, ps),
         NEW i \in DOMAIN list, NEW by \in Nat
  PROVE  RunsAligned(decreasePages(list, ps, i, by), ps)
<1> DEFINE new == decreasePages(list, ps, i, by)
<1>1. CASE list[i].numberOfPages = by
  <2>1. new = [j \in 1 .. Len(list) - 1 |-> IF j = i THEN list[Len(list)] ELSE list[j]]
    BY <1>1 DEF decreasePages
  <2>2. ASSUME NEW j \in DOMAIN new PROVE \E k \in DOMAIN list : new[j] = list[k]
    <3>1. j \in DOMAIN list /\ Len(list) \in DOMAIN list
      BY <2>1
    <3>2. new[j] = IF j = i THEN list[Len(list)] ELSE list[j]
      BY <2>1
    <3> QED BY <3>1, <3>2
  <2> QED BY <2>2 DEF RunsAligned
<1>2. CASE list[i].numberOfPages # by
  <2> DEFINE start == list[i].pageStart
             r == Run(start + by * ps, list[i].numberOfPages - by)
  <2>1. start \in Nat /\ start % ps = 0
    <3>1. list[i] \in PagedMemory
      OBVIOUS
    <3> QED BY <3>1 DEF PagedMemory, RunsAligned
  <2> HIDE DEF start
  <2>2. (start + by * ps) % ps = 0
    BY <2>1, FurtherOn
  <2>3. r.pageStart = start + by * ps
    BY DEF Run
  <2>4. new = [list EXCEPT ![i] = r]
    BY <1>2 DEF decreasePages, start
  <2> HIDE DEF r, new
  <2>5. ASSUME NEW j \in DOMAIN new PROVE new[j].pageStart % ps = 0
    <3>1. j \in DOMAIN list /\ (j = i => new[j] = r) /\ (j # i => new[j] = list[j])
      BY <2>4
    <3> QED BY <3>1, <2>2, <2>3 DEF RunsAligned
  <2> QED BY <2>5 DEF RunsAligned, new
<1> QED BY <1>1, <1>2

\* Every run starts on a boundary of the smallest page size.
LEMMA BaseAligned ==
  ASSUME NEW list \in Seq(PagedMemory)
  PROVE  RunsAligned(list, BASE_PAGE)
<1>1. ASSUME NEW i \in DOMAIN list PROVE list[i].pageStart % 1 = 0
  <2>1. list[i] \in PagedMemory
    OBVIOUS
  <2>2. list[i].pageStart \in Nat
    BY <2>1 DEF PagedMemory
  <2> QED BY <2>2, ModOne
<1> QED BY <1>1 DEF RunsAligned, BASE_PAGE

\* A frame that has got nothing is aligned when the runs it carries are.
LEMMA AlignedFrame ==
  ASSUME NEW f \in Frame, f.got = <<>>, RunsAligned(f.pages, f.ps)
  PROVE  FrameAligned(f)
BY DEF FrameAligned, RunsAligned

\* The stack stays aligned when the frames a step puts on it are.
LEMMA AlignedGoto ==
  ASSUME IInv, StackAligned, stack # <<>>, NEW f \in Frame, FrameAligned(f), Goto(f)
  PROVE  StackAligned'
<1>1. /\ stack' \in Seq(Frame) /\ Len(stack') = Len(stack) /\ stack'[1] = f
      /\ \A d \in 2 .. Len(stack) : stack'[d] = stack[d]
      /\ Len(stack) \in Nat /\ stack \in Seq(Frame)
  BY AfterGoto DEF IInv, StackOK
<1>2. ASSUME NEW d \in DOMAIN stack' PROVE FrameAligned(stack'[d])
  <2>1. CASE d = 1
    BY <1>1, <2>1
  <2>2. CASE d # 1
    <3>1. d \in DOMAIN stack /\ stack'[d] = stack[d]
      BY <1>1, <2>2
    <3> QED BY <3>1 DEF StackAligned
  <2> QED BY <2>1, <2>2
<1> QED BY <1>2 DEF StackAligned, FrameAligned, RunsAligned, GotSize, toLargerPageSize

LEMMA AlignedCall ==
  ASSUME IInv, StackAligned, stack # <<>>, NEW f \in Frame, FrameAligned(f),
         NEW g \in Frame, FrameAligned(g), Call(g, f)
  PROVE  StackAligned'
<1>1. /\ stack' \in Seq(Frame) /\ Len(stack') = Len(stack) + 1
      /\ stack'[1] = g /\ stack'[2] = f
      /\ \A d \in 3 .. Len(stack) + 1 : stack'[d] = stack[d - 1]
      /\ Len(stack) \in Nat /\ stack \in Seq(Frame)
  BY AfterCall DEF IInv, StackOK
<1>2. ASSUME NEW d \in DOMAIN stack' PROVE FrameAligned(stack'[d])
  <2>1. CASE d = 1 \/ d = 2
    BY <1>1, <2>1
  <2>2. CASE d # 1 /\ d # 2
    <3>1. d - 1 \in DOMAIN stack /\ stack'[d] = stack[d - 1]
      BY <1>1, <2>2
    <3> QED BY <3>1 DEF StackAligned
  <2> QED BY <2>1, <2>2
<1> QED BY <1>2 DEF StackAligned, FrameAligned, RunsAligned, GotSize, toLargerPageSize

\* So does what a call returns, whoever it returns it to.
LEMMA AlignedReturn ==
  ASSUME IInv, StackAligned, stack # <<>>, UNCHANGED topLevel, NEW v,
         Returnable(top, v), RunsAligned(v, top.ps), Return(v)
  PROVE  StackAligned' /\ ResultAligned'
<1>1. /\ stack \in Seq(Frame) /\ Len(stack) \in Nat /\ Len(stack) >= 1 /\ top = stack[1]
      /\ v \in Seq(PagedMemory) /\ (Kind(top) = "free" => v = <<>>)
      /\ UNCHANGED <<phase, pageSize>>
  BY HeadTail DEF IInv, StackOK, top, Returnable, topLevel
<1>2. CASE Len(stack) = 1
  <2>1. stack' = <<>> /\ result' = v
    BY <1>2, AfterLastReturn
  <2>2. StackAligned'
    BY <2>1 DEF StackAligned
  <2>3. BottomOK(top)
    BY <1>1, <1>2 DEF IInv, TopLevelOK
  <2>4. ASSUME phase # "buffer" PROVE RunsAligned(v, pageSize)
    <3>1. CASE phase = "waiting"
      BY <2>3, <3>1 DEF BottomOK
    <3>2. CASE phase # "waiting"
      <4>1. v = <<>>
        BY <1>1, <2>3, <2>4, <3>2 DEF BottomOK
      <4> QED BY <4>1 DEF RunsAligned
    <3> QED BY <3>1, <3>2
  <2>5. ResultAligned'
    BY <1>1, <2>1, <2>4 DEF ResultAligned, RunsAligned
  <2> QED BY <2>2, <2>5
<1>3. CASE Len(stack) # 1
  <2>0. Len(stack) >= 2
    BY <1>1, <1>3, TwoOrMore, Zenon
  <2>1. /\ stack' \in Seq(Frame) /\ Len(stack') = Len(stack) - 1
        /\ stack'[1].pc = stack[2].pc /\ stack'[1].ps = stack[2].ps
        /\ stack'[1].pages = stack[2].pages
        /\ stack'[1].got = v
        /\ \A d \in 2 .. Len(stack) - 1 : stack'[d] = stack[d + 1]
        /\ result' = result
    BY <1>1, <2>0, AfterReturn
  <2>2. RunsAligned(v, GotSize(stack[2]))
    <3>1. CASE Kind(top) = "free"
      BY <1>1, <3>1 DEF RunsAligned
    <3>2. CASE Kind(top) # "free"
      BY <1>1, <2>0, <3>2, CalleeSize
    <3> QED BY <3>1, <3>2
  <2>3. FrameAligned(stack'[1])
    <3>1. 2 \in DOMAIN stack
      BY <1>1, <2>0
    <3>2. FrameAligned(stack[2])
      BY <3>1 DEF StackAligned
    <3>3. GotSize(stack'[1]) = GotSize(stack[2])
      BY <2>1 DEF GotSize
    <3> QED BY <2>1, <2>2, <3>2, <3>3 DEF FrameAligned
  <2>4. ASSUME NEW d \in DOMAIN stack' PROVE FrameAligned(stack'[d])
    <3>1. CASE d = 1
      BY <2>3, <3>1
    <3>2. CASE d # 1
      <4>1. d + 1 \in DOMAIN stack /\ stack'[d] = stack[d + 1]
        BY <1>1, <2>0, <2>1, <3>2
      <4> QED BY <4>1 DEF StackAligned
    <3> QED BY <3>1, <3>2
  <2>5. StackAligned'
    BY <2>4 DEF StackAligned, FrameAligned, RunsAligned, GotSize, toLargerPageSize
  <2>6. RunsAligned(result, pageSize)
    <3>1. result = <<>>
      BY DEF IInv, TopLevelOK
    <3> QED BY <3>1 DEF RunsAligned
  <2>7. ResultAligned'
    BY <1>1, <2>1, <2>6 DEF ResultAligned, RunsAligned
  <2> QED BY <2>5, <2>7
<1> QED BY <1>2, <1>3

-----------------------------------------------------------------------------
(* Every step keeps runs on boundaries *)

OnBoundaries == ListsAligned /\ StackAligned /\ ResultAligned /\ HeldAligned

\* A step changes one list.
LEMMA OneList ==
  ASSUME IInv, ListsAligned, NEW ps \in PageSizes, NEW list, RunsAligned(list, ps),
         memory' = [memory EXCEPT ![ps] = list]
  PROVE  ListsAligned'
<1>1. memory \in [PageSizes -> Seq(PagedMemory)]
  BY DEF IInv, TypeOK
<1>2. ASSUME NEW q \in PageSizes PROVE RunsAligned(memory'[q], q)
  <2>1. CASE q = ps
    BY <1>1, <2>1
  <2>2. CASE q # ps
    <3>1. memory'[q] = memory[q]
      BY <1>1, <2>2
    <3> QED BY <3>1 DEF ListsAligned
  <2> QED BY <2>1, <2>2
<1> QED BY <1>2 DEF ListsAligned, RunsAligned

LEMMA SameLists ==
  ASSUME ListsAligned, memory' = memory
  PROVE  ListsAligned'
BY DEF ListsAligned, RunsAligned

LEMMA SameTopLevel ==
  ASSUME UNCHANGED topLevel
  PROVE  /\ HeldAligned => HeldAligned'
         /\ ResultAligned /\ result' = result => ResultAligned'
BY DEF HeldAligned, ResultAligned, RunsAligned, topLevel, kernel

LEMMA TopAligned ==
  ASSUME IInv, StackAligned, stack # <<>>
  PROVE  /\ RunsAligned(top.pages, top.ps) /\ RunsAligned(top.got, GotSize(top))
         /\ top.ps \in Nat \ {0} /\ top.ps * ENTRIES \in Nat \ {0}
<1>1. top = stack[1] /\ 1 \in DOMAIN stack /\ top.ps \in PageSizes
  BY TopFacts, HeadTail DEF IInv, StackOK
<1>2. top.ps \in Nat \ {0}
  BY <1>1, PageSizeFacts
<1>3. top.ps * ENTRIES \in Nat \ {0}
  BY <1>2, PageSizeFacts
<1>4. FrameAligned(top)
  BY <1>1 DEF StackAligned
<1> QED BY <1>2, <1>3, <1>4 DEF FrameAligned

\* allocContiguousPhysicalPagesWithManager
LEMMA AllocStepAligned ==
  ASSUME IInv, OnBoundaries, AllocStep
  PROVE  OnBoundaries'
<1>0. ListsAligned /\ StackAligned /\ ResultAligned /\ HeldAligned
  BY DEF OnBoundaries
<1>1. CASE AllocFit
  <2>1. stack # <<>> /\ top.pc = "alloc" /\ UNCHANGED topLevel
    BY <1>1 DEF AllocFit, At
  <2>2. PICK i \in FirstFit(top.n, top.ps) :
          /\ memory' = [memory EXCEPT ![top.ps] = decreasePages(@, top.ps, i, top.n)]
          /\ Return(<<Run(memory[top.ps][i].pageStart, top.n)>>)
    BY <1>1 DEF AllocFit
  <2> DEFINE list == memory[top.ps]
  <2>3. /\ top.ps \in PageSizes /\ top.n \in Nat /\ list \in Seq(PagedMemory)
        /\ top.ps \in Nat \ {0} /\ RunsAligned(list, top.ps) /\ i \in DOMAIN list
    BY <1>0, <2>1, <2>2, TopFacts, TopAligned DEF ListsAligned, FirstFit
  <2>4. list[i].pageStart \in Nat /\ list[i].pageStart % top.ps = 0
    <3>1. list[i] \in PagedMemory
      BY <2>3
    <3> QED BY <3>1, <2>3 DEF PagedMemory, RunsAligned
  <2>5. ListsAligned'
    <3>1. RunsAligned(decreasePages(list, top.ps, i, top.n), top.ps)
      <4> HIDE DEF list
      <4> QED BY <2>3, AlignedDecrease
    <3> QED BY <1>0, <2>2, <2>3, <3>1, OneList
  <2> DEFINE v == <<Run(list[i].pageStart, top.n)>>
  <2>6. RunsAligned(v, top.ps)
    BY <2>3, <2>4, AlignedLists
  <2>7. Returnable(top, v)
    <3>1. Kind(top) = "alloc"
      BY <2>1 DEF Kind
    <3> QED BY <3>1, <2>3, <2>4, OneRun DEF Returnable
  <2>8. StackAligned' /\ ResultAligned'
    <3>1. Return(v)
      BY <2>2
    <3> HIDE DEF v
    <3> QED BY <1>0, <2>1, <2>6, <2>7, <3>1, AlignedReturn
  <2> QED BY <1>0, <2>1, <2>5, <2>8, SameTopLevel DEF OnBoundaries
<1>2. CASE AllocFromLarger
  <2> DEFINE f == [top EXCEPT !.pc = "split"]
             g == Alloc(CeilingDiv(top.n, ENTRIES), toLargerPageSize(top.ps))
  <2>1. /\ stack # <<>> /\ top.pc = "alloc" /\ top.ps < HUGE_PAGE
        /\ UNCHANGED <<managers, result, topLevel>> /\ Call(g, f)
    BY <1>2 DEF AllocFromLarger, At
  <2>2. top \in Frame /\ top.ps \in PageSizes /\ top.n \in Nat /\ top.got = <<>>
    BY <2>1, TopFacts DEF TopAnswered
  <2>3. f \in Frame /\ f.ps = top.ps /\ f.got = <<>> /\ f.pages = top.pages
    BY <2>1, <2>2 DEF Frame, Labels
  <2>4. FrameAligned(f)
    BY <1>0, <2>1, <2>3, TopAligned, AlignedFrame
  <2>5. g \in Frame /\ g.got = <<>> /\ g.pages = <<>> /\ g.ps \in PageSizes
    BY <2>1, <2>2, PageSizeFacts, CeilingFacts, NewFrames DEF Alloc
  <2>6. FrameAligned(g)
    BY <2>5, AlignedFrame DEF RunsAligned
  <2> HIDE DEF f, g
  <2>7. StackAligned'
    BY <1>0, <2>1, <2>3, <2>4, <2>5, <2>6, AlignedCall
  <2> QED BY <1>0, <2>1, <2>7, SameLists, SameTopLevel DEF OnBoundaries, managers
<1>3. CASE AllocSplit
  <2> DEFINE address == top.got[1].pageStart
             rest == Run(address + top.n * top.ps,
                         toSmallerPages(CeilingDiv(top.n, ENTRIES)) - top.n)
             p == <<Run(address, top.n)>>
             f == [top EXCEPT !.pc = "return", !.pages = <<Run(address, top.n)>>,
                              !.got = <<>>]
             g == Free(<<rest>>, top.ps)
  <2>1. /\ stack # <<>> /\ top.pc = "split" /\ Call(g, f)
        /\ UNCHANGED <<managers, result, topLevel>>
    BY <1>3 DEF AllocSplit, At
  <2>2. /\ top \in Frame /\ top.ps \in PageSizes /\ top.n \in Nat /\ top.ps \in Nat \ {0}
        /\ top.got \in Seq(PagedMemory) /\ Len(top.got) = 1
        /\ RunsAligned(top.got, GotSize(top))
    BY <1>0, <2>1, TopFacts, TopAligned DEF TopAnswered
  <2>3. address \in Nat /\ address % (top.ps * ENTRIES) = 0
    <3>1. top.got[1] \in PagedMemory /\ 1 \in DOMAIN top.got
      BY <2>2, OnlyOne
    <3>2. GotSize(top) = top.ps * ENTRIES
      BY <2>1 DEF GotSize, toLargerPageSize
    <3>3. top.got[1].pageStart \in Nat
      BY <3>1 DEF PagedMemory
    <3>4. top.got[1].pageStart % GotSize(top) = 0
      BY <2>2, <3>1, Zenon DEF RunsAligned
    <3> QED BY <3>2, <3>3, <3>4
  <2> HIDE DEF address
  <2>4. address % top.ps = 0
    BY <2>2, <2>3, LargerBoundary
  <2>5. /\ address + top.n * top.ps \in Nat
        /\ (address + top.n * top.ps) % top.ps = 0
    BY <2>2, <2>3, <2>4, FurtherOn
  <2>6. /\ p \in Seq(PagedMemory) /\ RunsAligned(p, top.ps)
    BY <2>2, <2>3, <2>4, OneRun, AlignedLists
  <2>7. /\ <<rest>> \in Seq(PagedMemory) /\ RunsAligned(<<rest>>, top.ps)
    <3>1. toSmallerPages(CeilingDiv(top.n, ENTRIES)) - top.n \in Nat
      BY <2>2, RemainderFacts
    <3> QED BY <2>2, <2>5, <3>1, OneRun, AlignedLists
  <2>8. f \in Frame /\ FrameAligned(f)
    <3>1. "return" \in Labels
      BY DEF Labels
    <3>2. f = GoingOn(top, "return", p)
      BY DEF GoingOn
    <3> HIDE DEF f, p
    <3>3. f \in Frame /\ f.ps = top.ps /\ f.got = <<>> /\ f.pages = p
      BY <2>2, <2>6, <3>1, <3>2, ChangedFrame
    <3> QED BY <2>6, <3>3, AlignedFrame
  <2>9. g \in Frame /\ FrameAligned(g)
    <3> HIDE DEF rest
    <3>1. g \in Frame
      BY <2>2, <2>7, NewFrames
    <3>2. g.ps = top.ps /\ g.got = <<>> /\ g.pages = <<rest>>
      BY DEF Free
    <3> QED BY <2>7, <3>1, <3>2, AlignedFrame
  <2> HIDE DEF f, g
  <2>10. StackAligned'
    BY <1>0, <2>1, <2>8, <2>9, AlignedCall
  <2> QED BY <1>0, <2>1, <2>10, SameLists, SameTopLevel DEF OnBoundaries, managers
<1>4. CASE AllocReturn
  <2>1. /\ stack # <<>> /\ top.pc = "return" /\ Return(top.pages)
        /\ UNCHANGED <<managers, topLevel>>
    BY <1>4 DEF AllocReturn, At
  <2>2. Returnable(top, top.pages)
    BY <2>1, TopFacts DEF Returnable, CarriesPages, Kind
  <2>3. StackAligned' /\ ResultAligned'
    <3>1. RunsAligned(top.pages, top.ps)
      BY <1>0, <2>1, TopAligned
    <3> QED BY <1>0, <2>1, <2>2, <3>1, AlignedReturn
  <2> QED BY <1>0, <2>1, <2>3, SameLists, SameTopLevel DEF OnBoundaries, managers
<1> QED BY <1>1, <1>2, <1>3, <1>4 DEF AllocStep

\* freePhysicalPagesWithManager, as long as it moves basePMM's list only
LEMMA FreeStepAligned ==
  ASSUME IInv, OnBoundaries, FreeStep, At("grow") => top.ps = BASE_PAGE
  PROVE  OnBoundaries'
<1>0. ListsAligned /\ StackAligned /\ ResultAligned /\ HeldAligned
  BY DEF OnBoundaries
<1>1. CASE FreeStore
  <2> DEFINE f == [top EXCEPT !.pages = Tail(@)]
  <2>1. /\ stack # <<>> /\ top.pc = "free" /\ top.pages # <<>> /\ Goto(f)
        /\ memory' = Stored(top.ps, Head(top.pages))
        /\ UNCHANGED <<result, topLevel>>
    BY <1>1 DEF FreeStore, At
  <2>2. /\ top \in Frame /\ top.ps \in PageSizes /\ top.got = <<>> /\ top.ps \in Nat \ {0}
        /\ memory[top.ps] \in Seq(PagedMemory) /\ top.pages \in Seq(PagedMemory)
        /\ Head(top.pages) \in PagedMemory /\ Tail(top.pages) \in Seq(PagedMemory)
        /\ RunsAligned(top.pages, top.ps) /\ RunsAligned(memory[top.ps], top.ps)
    BY <1>0, <2>1, TopFacts, TopAligned, HeadTail DEF TopAnswered, ListsAligned
  <2>3. RunsAligned(Tail(top.pages), top.ps) /\ Head(top.pages).pageStart % top.ps = 0
    BY <2>1, <2>2, AlignedLists
  <2>4. f \in Frame /\ f.got = <<>> /\ f.ps = top.ps /\ f.pages = Tail(top.pages)
    BY <2>1, <2>2 DEF Frame
  <2> HIDE DEF f
  <2>5. StackAligned'
    BY <1>0, <2>1, <2>3, <2>4, AlignedFrame, AlignedGoto
  <2>6. ListsAligned'
    <3>1. RunsAligned(Append(memory[top.ps], Head(top.pages)), top.ps)
      BY <2>2, <2>3, AlignedLists
    <3> QED BY <1>0, <2>1, <2>2, <3>1, OneList DEF Stored
  <2> QED BY <1>0, <2>1, <2>5, <2>6, SameTopLevel DEF OnBoundaries
<1>2. CASE FreeFull
  <2> DEFINE f == [top EXCEPT !.pc = "grow"]
             g == Alloc(usedBasePages[top.ps] + 1, BASE_PAGE)
  <2>1. /\ stack # <<>> /\ top.pc = "free" /\ Call(g, f)
        /\ UNCHANGED <<managers, result, topLevel>>
    BY <1>2 DEF FreeFull, At
  <2>2. /\ top \in Frame /\ usedBasePages[top.ps] + 1 \in Nat /\ top.got = <<>>
        /\ RunsAligned(top.pages, top.ps)
    BY <1>0, <2>1, TopFacts, TopAligned DEF TopAnswered
  <2>3. f \in Frame /\ f.got = <<>> /\ f.ps = top.ps /\ f.pages = top.pages
    BY <2>1, <2>2 DEF Frame, Labels
  <2>4. g \in Frame /\ g.got = <<>> /\ g.pages = <<>>
    BY <2>2, NewFrames, PageSizeFacts DEF Alloc
  <2> HIDE DEF f, g
  <2>5. FrameAligned(f) /\ FrameAligned(g)
    <3>1. RunsAligned(f.pages, f.ps)
      BY <2>2, <2>3
    <3>2. RunsAligned(g.pages, g.ps)
      BY <2>4 DEF RunsAligned
    <3> QED BY <2>3, <2>4, <3>1, <3>2, AlignedFrame
  <2>6. StackAligned'
    BY <1>0, <2>1, <2>3, <2>4, <2>5, AlignedCall
  <2> QED BY <1>0, <2>1, <2>6, SameLists, SameTopLevel DEF OnBoundaries, managers
<1>3. CASE FreeGrow
  <2> DEFINE f == [top EXCEPT !.pc = "free", !.pages = Tail(@), !.got = <<>>]
             old == Run(buf[top.ps].pageStart, usedBasePages[top.ps])
             list == memory[top.ps] \o <<old, Head(top.pages)>>
  <2>1. /\ stack # <<>> /\ top.pc = "grow" /\ Goto(f) /\ top.ps = BASE_PAGE
        /\ memory' = [memory EXCEPT ![top.ps] = list]
        /\ UNCHANGED <<result, topLevel>>
    BY <1>3 DEF FreeGrow, At
  <2>2. /\ top \in Frame /\ top.ps \in PageSizes /\ top.pages # <<>>
        /\ top.pages \in Seq(PagedMemory) /\ memory[top.ps] \in Seq(PagedMemory)
        /\ usedBasePages[top.ps] \in Nat /\ buf[top.ps] \in PagedMemory
        /\ RunsAligned(top.pages, top.ps) /\ top.ps \in Nat \ {0}
    BY <1>0, <2>1, TopFacts, TopAligned DEF CarriesPages
  <2>3. /\ Head(top.pages) \in PagedMemory /\ Tail(top.pages) \in Seq(PagedMemory)
        /\ RunsAligned(Tail(top.pages), top.ps)
    BY <2>2, HeadTail, AlignedLists
  <2>4. f \in Frame /\ FrameAligned(f)
    <3>1. "free" \in Labels
      BY DEF Labels
    <3> DEFINE p == Tail(top.pages)
    <3>2. f = GoingOn(top, "free", p)
      BY <2>2 DEF Frame, GoingOn
    <3>3. p \in Seq(PagedMemory) /\ RunsAligned(p, top.ps)
      BY <2>3
    <3> HIDE DEF f, p
    <3>4. f \in Frame /\ f.ps = top.ps /\ f.got = <<>> /\ f.pages = p
      BY <2>2, <3>1, <3>2, <3>3, ChangedFrame
    <3> QED BY <3>3, <3>4, AlignedFrame
  <2> HIDE DEF f
  <2>5. StackAligned'
    BY <1>0, <2>1, <2>4, AlignedGoto
  <2>6. RunsAligned(list, top.ps)
    <3>1. old \in PagedMemory
      <4>1. buf[top.ps].pageStart \in Nat
        BY <2>2 DEF PagedMemory
      <4> QED BY <2>2, <4>1, OneRun
    <3> HIDE DEF old
    <3>2. list \in Seq(PagedMemory)
      BY <2>2, <2>3, <3>1
    <3> HIDE DEF list
    <3> QED BY <2>1, <3>2, BaseAligned
  <2>7. ListsAligned'
    <3> HIDE DEF list
    <3> QED BY <1>0, <2>1, <2>2, <2>6, OneList
  <2> QED BY <1>0, <2>1, <2>5, <2>7, SameTopLevel DEF OnBoundaries
<1>4. CASE FreeReturn
  <2>1. /\ stack # <<>> /\ top.pc = "free" /\ Return(<<>>)
        /\ UNCHANGED <<managers, topLevel>>
    BY <1>4 DEF FreeReturn, At
  <2>2. Returnable(top, <<>>) /\ RunsAligned(<<>>, top.ps)
    BY <2>1 DEF Returnable, Kind, RunsAligned
  <2>3. StackAligned' /\ ResultAligned'
    BY <1>0, <2>1, <2>2, AlignedReturn
  <2> QED BY <1>0, <2>1, <2>3, SameLists, SameTopLevel DEF OnBoundaries, managers
<1> QED BY <1>1, <1>2, <1>3, <1>4 DEF FreeStep

\* A fault, or a write behind the caller's array.
LEMMA StopAligned ==
  ASSUME IInv, OnBoundaries, NEW reason, Stop(reason), result = <<>>
  PROVE  OnBoundaries'
<1>1. /\ UNCHANGED <<memory, held>> /\ stack' = <<>> /\ result' = <<>>
  BY DEF Stop, managers, kernel
<1>2. ListsAligned' /\ HeldAligned'
  BY <1>1, SameLists DEF OnBoundaries, HeldAligned
<1>3. StackAligned' /\ ResultAligned'
  BY <1>1 DEF StackAligned, ResultAligned, RunsAligned
<1> QED BY <1>2, <1>3 DEF OnBoundaries

\* allocPhysicalPagesWithManager
LEMMA GatherStepAligned ==
  ASSUME IInv, OnBoundaries, GatherStep
  PROVE  OnBoundaries'
<1>0. ListsAligned /\ StackAligned /\ ResultAligned /\ HeldAligned
  BY DEF OnBoundaries
<1>a. ASSUME stack # <<>>, memory[top.ps] # <<>>
      PROVE  /\ LastRun(top.ps) \in PagedMemory /\ LastRun(top.ps).pageStart \in Nat
             /\ LastRun(top.ps).numberOfPages \in Nat
             /\ LastRun(top.ps).pageStart % top.ps = 0
             /\ Len(memory[top.ps]) \in DOMAIN memory[top.ps]
             /\ memory[top.ps] \in Seq(PagedMemory) /\ RunsAligned(memory[top.ps], top.ps)
  <2>1. /\ memory[top.ps] \in Seq(PagedMemory) /\ top.ps \in PageSizes
        /\ top.ps \in Nat \ {0}
    BY <1>0, <1>a, TopFacts, TopAligned
  <2>2. RunsAligned(memory[top.ps], top.ps)
    BY <1>0, <2>1 DEF ListsAligned
  <2>3. /\ LastRun(top.ps) \in PagedMemory
        /\ Len(memory[top.ps]) \in DOMAIN memory[top.ps]
    BY <1>a, <2>1 DEF LastRun
  <2>4. LastRun(top.ps).pageStart % top.ps = 0
    BY <1>a, <2>1, <2>2, AlignedLists DEF LastRun
  <2> QED BY <2>1, <2>2, <2>3, <2>4 DEF PagedMemory
<1>1. CASE GatherWhole
  <2> DEFINE f == [top EXCEPT !.pages = Append(@, LastRun(top.ps)),
                              !.n = @ - LastRun(top.ps).numberOfPages]
  <2>1. /\ stack # <<>> /\ top.pc = "gather" /\ memory[top.ps] # <<>> /\ Goto(f)
        /\ LastRun(top.ps).numberOfPages < top.n
        /\ memory' = [memory EXCEPT ![top.ps] = SubSeq(@, 1, Len(@) - 1)]
        /\ UNCHANGED <<result, topLevel>>
    BY <1>1 DEF GatherWhole, At
  <2>2. /\ top \in Frame /\ top.ps \in PageSizes /\ top.got = <<>> /\ top.n \in Nat
        /\ top.pages \in Seq(PagedMemory) /\ RunsAligned(top.pages, top.ps)
        /\ top.ps \in Nat \ {0}
    BY <1>0, <2>1, TopFacts, TopAligned DEF TopAnswered
  <2>3. /\ Append(top.pages, LastRun(top.ps)) \in Seq(PagedMemory)
        /\ top.n - LastRun(top.ps).numberOfPages \in Nat
    BY <1>a, <2>1, <2>2
  <2>4. RunsAligned(Append(top.pages, LastRun(top.ps)), top.ps)
    BY <1>a, <2>1, <2>2, AlignedLists
  <2>5. /\ f \in Frame /\ f.got = <<>> /\ f.ps = top.ps
        /\ f.pages = Append(top.pages, LastRun(top.ps))
    BY <2>1, <2>2, <2>3 DEF Frame
  <2> HIDE DEF f
  <2>6. StackAligned'
    BY <1>0, <2>1, <2>4, <2>5, AlignedFrame, AlignedGoto
  <2>7. ListsAligned'
    <3>1. RunsAligned(SubSeq(memory[top.ps], 1, Len(memory[top.ps]) - 1), top.ps)
      BY <1>a, <2>1, <2>2, AlignedLists
    <3> QED BY <1>0, <2>1, <2>2, <3>1, OneList
  <2> QED BY <1>0, <2>1, <2>6, <2>7, SameTopLevel DEF OnBoundaries
<1>2. CASE GatherLast
  <2> DEFINE v == Append(top.pages, Run(LastRun(top.ps).pageStart, top.n))
             i == Len(memory[top.ps])
  <2>1. /\ stack # <<>> /\ top.pc = "gather" /\ memory[top.ps] # <<>> /\ Return(v)
        /\ memory' = [memory EXCEPT ![top.ps] = decreasePages(@, top.ps, Len(@), top.n)]
        /\ UNCHANGED topLevel
    BY <1>2 DEF GatherLast, At
  <2>2. /\ top.ps \in PageSizes /\ top.ps \in Nat \ {0} /\ top.n \in Nat
        /\ top.pages \in Seq(PagedMemory) /\ RunsAligned(top.pages, top.ps)
    BY <1>0, <2>1, TopFacts, TopAligned
  <2>3. ListsAligned'
    <3>1. RunsAligned(decreasePages(memory[top.ps], top.ps, i, top.n), top.ps)
      BY <1>a, <2>1, <2>2, AlignedDecrease
    <3> QED BY <1>0, <2>1, <2>2, <3>1, OneList
  <2>4. Returnable(top, v) /\ RunsAligned(v, top.ps)
    <3> DEFINE r == Run(LastRun(top.ps).pageStart, top.n)
    <3>1. r \in PagedMemory /\ r.pageStart % top.ps = 0
      BY <1>a, <2>1, <2>2, OneRun
    <3> HIDE DEF r
    <3>2. v \in Seq(PagedMemory) /\ RunsAligned(v, top.ps)
      <4>1. v = Append(top.pages, r)
        BY DEF r
      <4> HIDE DEF v
      <4> QED BY <2>2, <3>1, <4>1, AlignedLists
    <3> HIDE DEF v
    <3> QED BY <2>1, <3>2 DEF Returnable, Kind
  <2> HIDE DEF v
  <2>5. StackAligned' /\ ResultAligned'
    BY <1>0, <2>1, <2>4, AlignedReturn
  <2> QED BY <1>0, <2>1, <2>3, <2>5, SameTopLevel DEF OnBoundaries
<1>3. CASE GatherOverrun
  <2>1. stack # <<>> /\ Stop("overrun")
    BY <1>3 DEF GatherOverrun, At
  <2>2. result = <<>>
    BY <2>1 DEF IInv, TopLevelOK
  <2> QED BY <2>1, <2>2, StopAligned
<1>4. CASE GatherFromLarger
  <2> DEFINE f == [top EXCEPT !.pc = "gathered"]
             room == top.room - Len(top.pages)
             g == Gather(CeilingDiv(top.n, ENTRIES), toLargerPageSize(top.ps), room)
  <2>1. /\ stack # <<>> /\ top.pc = "gather" /\ top.ps < HUGE_PAGE /\ Call(g, f)
        /\ UNCHANGED <<managers, result, topLevel>>
    BY <1>4 DEF GatherFromLarger, At
  <2>2. /\ top \in Frame /\ top.ps \in PageSizes /\ top.n \in Nat /\ top.got = <<>>
        /\ room \in Int /\ RunsAligned(top.pages, top.ps)
    BY <1>0, <2>1, TopFacts, TopAligned DEF TopAnswered
  <2>3. f \in Frame /\ f.ps = top.ps /\ f.got = <<>> /\ f.pages = top.pages
    BY <2>1, <2>2 DEF Frame, Labels
  <2>4. toLargerPageSize(top.ps) \in PageSizes /\ CeilingDiv(top.n, ENTRIES) \in Nat
    BY <2>1, <2>2, PageSizeFacts, CeilingFacts
  <2>5. g \in Frame /\ g.got = <<>> /\ g.pages = <<>>
    BY <2>2, <2>4, NewFrames DEF Gather
  <2> HIDE DEF f, g
  <2>6. FrameAligned(f) /\ FrameAligned(g)
    <3>1. RunsAligned(f.pages, f.ps)
      BY <2>2, <2>3
    <3>2. RunsAligned(g.pages, g.ps)
      BY <2>5 DEF RunsAligned
    <3> QED BY <2>3, <2>5, <3>1, <3>2, AlignedFrame
  <2>7. StackAligned'
    BY <1>0, <2>1, <2>3, <2>5, <2>6, AlignedCall
  <2> QED BY <1>0, <2>1, <2>7, SameLists, SameTopLevel DEF OnBoundaries, managers
<1>5. CASE GatherConvert
  <2> DEFINE f == [top EXCEPT !.pc = "gather", !.got = <<>>]
             converted == [i \in DOMAIN top.got |-> ToSmallerRun(top.got[i])]
             g == Free(converted, top.ps)
  <2>1. /\ stack # <<>> /\ top.pc = "gathered" /\ Call(g, f)
        /\ UNCHANGED <<managers, result, topLevel>>
    BY <1>5 DEF GatherConvert, At
  <2>2. /\ top \in Frame /\ top.ps \in PageSizes /\ top.got \in Seq(PagedMemory)
        /\ top.pages \in Seq(PagedMemory) /\ RunsAligned(top.pages, top.ps)
        /\ RunsAligned(top.got, GotSize(top)) /\ top.ps \in Nat \ {0}
    BY <1>0, <2>1, TopFacts, TopAligned
  <2>3. f \in Frame /\ f.ps = top.ps /\ f.got = <<>> /\ f.pages = top.pages
    <3>1. f = GoingOn(top, "gather", top.pages)
      BY <2>2 DEF GoingOn, Frame
    <3>2. "gather" \in Labels
      BY DEF Labels
    <3> HIDE DEF f
    <3> QED BY <2>2, <3>1, <3>2, ChangedFrame
  <2>4. converted \in Seq(PagedMemory) /\ RunsAligned(converted, top.ps)
    <3>1. ASSUME NEW i \in DOMAIN top.got
          PROVE  /\ ToSmallerRun(top.got[i]) \in PagedMemory
                 /\ ToSmallerRun(top.got[i]).pageStart % top.ps = 0
      <4>1. top.got[i] \in PagedMemory
        BY <2>2
      <4>2. top.got[i].pageStart \in Nat /\ top.got[i].numberOfPages \in Nat
        BY <4>1 DEF PagedMemory
      <4>3. toSmallerPages(top.got[i].numberOfPages) \in Nat
        BY <4>2, PageSizeFacts DEF toSmallerPages
      <4>4. top.got[i].pageStart % GotSize(top) = 0
        BY <2>2, Zenon DEF RunsAligned
      <4>5. GotSize(top) = top.ps * ENTRIES
        BY <2>1 DEF GotSize, toLargerPageSize
      <4>6. top.got[i].pageStart % top.ps = 0
        BY <2>2, <4>2, <4>4, <4>5, LargerBoundary
      <4> QED BY <4>2, <4>3, <4>6, OneRun DEF ToSmallerRun
    <3>2. converted \in Seq(PagedMemory)
      BY <2>2, <3>1
    <3> QED BY <3>1, <3>2 DEF RunsAligned
  <2>5. g \in Frame /\ FrameAligned(g)
    <3> HIDE DEF converted
    <3>1. g \in Frame /\ g.ps = top.ps
      BY <2>2, <2>4, NewFrames
    <3>2. g.got = <<>> /\ g.pages = converted
      BY DEF Free
    <3> HIDE DEF g
    <3> QED BY <2>4, <3>1, <3>2, AlignedFrame
  <2>6. FrameAligned(f)
    <3> HIDE DEF f
    <3> QED BY <2>2, <2>3, AlignedFrame
  <2> HIDE DEF f, g
  <2>7. StackAligned'
    BY <1>0, <2>1, <2>3, <2>5, <2>6, AlignedCall
  <2> QED BY <1>0, <2>1, <2>7, SameLists, SameTopLevel DEF OnBoundaries, managers
<1> QED BY <1>1, <1>2, <1>3, <1>4, <1>5 DEF GatherStep

\* What the top level's steps that make no call and change no list keep.
LEMMA QuietAligned ==
  ASSUME OnBoundaries, UNCHANGED <<memory, held>>, stack' = <<>>, result' = <<>>
  PROVE  OnBoundaries'
<1>1. ListsAligned' /\ HeldAligned'
  BY SameLists DEF OnBoundaries, HeldAligned
<1>2. StackAligned' /\ ResultAligned'
  BY DEF StackAligned, ResultAligned, RunsAligned
<1> QED BY <1>1, <1>2 DEF OnBoundaries

\* The top level calls one function.
LEMMA FirstCallAligned ==
  ASSUME OnBoundaries, memory' = memory, HeldAligned', result' = <<>>,
         NEW f \in Frame, FrameAligned(f), stack' = <<f>>
  PROVE  OnBoundaries'
<1>1. ListsAligned'
  BY SameLists DEF OnBoundaries
<1>2. StackAligned' /\ ResultAligned'
  <2>1. \A d \in DOMAIN stack' : FrameAligned(stack'[d])
    OBVIOUS
  <2> QED BY <2>1 DEF StackAligned, ResultAligned, RunsAligned, FrameAligned, GotSize,
                      toLargerPageSize
<1> QED BY <1>1, <1>2 DEF OnBoundaries

LEMMA NewAligned ==
  ASSUME NEW ps \in PageSizes
  PROVE  /\ \A n \in Nat : FrameAligned(Alloc(n, ps))
         /\ \A n \in Nat, room \in Int : FrameAligned(Gather(n, ps, room))
         /\ \A pages \in Seq(PagedMemory) :
              RunsAligned(pages, ps) => FrameAligned(Free(pages, ps))
<1>1. ASSUME NEW n \in Nat PROVE FrameAligned(Alloc(n, ps))
  BY DEF FrameAligned, RunsAligned, Alloc
<1>2. ASSUME NEW n \in Nat, NEW room \in Int PROVE FrameAligned(Gather(n, ps, room))
  BY DEF FrameAligned, RunsAligned, Gather
<1>3. ASSUME NEW pages \in Seq(PagedMemory), RunsAligned(pages, ps)
      PROVE  FrameAligned(Free(pages, ps))
  <2>1. Free(pages, ps).pages = pages /\ Free(pages, ps).ps = ps /\ Free(pages, ps).got = <<>>
    BY DEF Free
  <2> QED BY <1>3, <2>1, NewFrames, AlignedFrame
<1> QED BY <1>1, <1>2, <1>3

\* The page size initPMM fills is the next larger one.
LEMMA PromotedSize ==
  ASSUME NEW ps \in {LARGE_PAGE, HUGE_PAGE}
  PROVE  /\ toSmallerPageSize(ps) \in PageSizes /\ toSmallerPageSize(ps) \in Nat \ {0}
         /\ ps \in PageSizes /\ ps \in Nat \ {0} /\ ps = toSmallerPageSize(ps) * ENTRIES
<1>1. LARGE_PAGE = BASE_PAGE * ENTRIES /\ HUGE_PAGE = LARGE_PAGE * ENTRIES
  BY PageSizeFacts DEF LARGE_PAGE, HUGE_PAGE, BASE_PAGE
<1> QED BY <1>1, PageSizeFacts

\* One turn of initPMM's loop.
LEMMA PromoteAligned ==
  ASSUME IInv, OnBoundaries, Promote
  PROVE  OnBoundaries'
<1> DEFINE smaller   == toSmallerPageSize(pageSize)
           run       == memory[smaller][index]
           boundary  == AlignUp(run.pageStart, pageSize)
           moved     == (boundary - run.pageStart) \div smaller
           fromAlign == run.numberOfPages - moved
           aligned   == AlignDown(fromAlign, ENTRIES)
           leftover  == fromAlign - aligned
           whole == <<Run(boundary, toLargerPages(aligned))>>
           rest == <<Run(boundary + aligned * smaller, leftover)>>
           f == Free(whole, pageSize)
           g == Free(rest, smaller)
           promotes == run.numberOfPages >= ENTRIES /\ fromAlign >= ENTRIES
<1>0. ListsAligned /\ StackAligned /\ ResultAligned /\ HeldAligned
  BY DEF OnBoundaries
<1>1. /\ stack = <<>> /\ phase = "promote" /\ index <= Len(memory[smaller])
      /\ UNCHANGED <<result, held>>
  BY DEF Promote, Idle, kernel
<1>2. /\ promotes => /\ memory' = [memory EXCEPT ![smaller] =
                                      decreasePages(@, smaller, index, fromAlign)]
                     /\ stack' = <<f>> \o IF leftover > 0 THEN <<g>> ELSE <<>>
      /\ ~promotes => UNCHANGED <<memory, stack>>
  BY DEF Promote
<1>3. /\ index \in Nat /\ index >= 1 /\ pageSize \in {LARGE_PAGE, HUGE_PAGE}
      /\ result = <<>>
  BY <1>1 DEF IInv, TypeOK, TopLevelOK
<1>4. /\ smaller \in PageSizes /\ smaller \in Nat \ {0} /\ pageSize \in PageSizes
      /\ pageSize \in Nat \ {0} /\ pageSize = smaller * ENTRIES
  BY <1>3, PromotedSize
<1>5. /\ memory[smaller] \in Seq(PagedMemory) /\ index \in DOMAIN memory[smaller]
      /\ RunsAligned(memory[smaller], smaller)
  <2>1. memory[smaller] \in Seq(PagedMemory) /\ RunsAligned(memory[smaller], smaller)
    BY <1>0, <1>4 DEF IInv, TypeOK, ListsAligned
  <2> QED BY <1>1, <1>3, <2>1
<1>6. run.pageStart \in Nat /\ run.numberOfPages \in Nat
  <2>1. run \in PagedMemory
    BY <1>5
  <2> QED BY <2>1 DEF PagedMemory
<1> HIDE DEF smaller, run
<1>7. boundary \in Nat /\ run.pageStart <= boundary /\ boundary % pageSize = 0
  <2> DEFINE c == CeilingDiv(run.pageStart, pageSize)
  <2>1. c \in Nat /\ run.pageStart <= pageSize * c
    BY <1>4, <1>6, CeilingFacts
  <2>2. boundary = pageSize * c
    BY DEF AlignUp
  <2> HIDE DEF c, boundary
  <2>3. boundary \in Nat /\ run.pageStart <= boundary /\ boundary = c * pageSize
    BY <1>4, <2>1, <2>2
  <2> QED BY <1>4, <2>1, <2>3, Multiple
<1> HIDE DEF boundary
<1>8. boundary % smaller = 0
  BY <1>4, <1>7, LargerBoundary
<1>9. moved \in Nat
  <2>1. boundary - run.pageStart \in Nat
    BY <1>6, <1>7
  <2> QED BY <1>4, <2>1, DivFacts
<1> HIDE DEF moved
<1>10. ASSUME promotes PROVE fromAlign \in Nat
  BY <1>6, <1>9, <1>10, PageSizeFacts
<1> HIDE DEF fromAlign
<1>11. ASSUME promotes
       PROVE  aligned \in Nat /\ aligned <= fromAlign /\ toLargerPages(aligned) \in Nat
  <2>1. fromAlign \in Nat
    BY <1>10, <1>11
  <2>2. aligned \in Nat /\ aligned <= fromAlign
    BY <2>1, DivFacts, PageSizeFacts DEF AlignDown
  <2> HIDE DEF aligned
  <2>3. aligned \div ENTRIES \in Nat
    BY <2>2, DivFacts, PageSizeFacts
  <2> QED BY <2>2, <2>3 DEF toLargerPages
<1> HIDE DEF aligned
<1>12. CASE promotes
  <2>1. fromAlign \in Nat /\ aligned \in Nat /\ aligned <= fromAlign /\ leftover \in Nat
        /\ toLargerPages(aligned) \in Nat
    BY <1>10, <1>11, <1>12
  <2>2. /\ boundary + aligned * smaller \in Nat
        /\ (boundary + aligned * smaller) % smaller = 0
    BY <1>4, <1>7, <1>8, <2>1, FurtherOn
  <2>3. ListsAligned'
    <3>1. RunsAligned(decreasePages(memory[smaller], smaller, index, fromAlign), smaller)
      BY <1>4, <1>5, <2>1, AlignedDecrease
    <3> QED BY <1>0, <1>2, <1>4, <1>12, <3>1, OneList
  <2>4. whole \in Seq(PagedMemory) /\ RunsAligned(whole, pageSize)
    BY <1>4, <1>7, <2>1, OneRun, AlignedLists
  <2>5. rest \in Seq(PagedMemory) /\ RunsAligned(rest, smaller)
    BY <1>4, <2>1, <2>2, OneRun, AlignedLists
  <2> HIDE DEF whole, rest, leftover
  <2>6. f \in Frame /\ FrameAligned(f) /\ g \in Frame /\ FrameAligned(g)
    BY <1>4, <2>4, <2>5, NewFrames, NewAligned
  <2> HIDE DEF f, g
  <2>7. stack' = <<f>> \o <<g>> \/ stack' = <<f>> \o <<>>
    BY <1>2, <1>12, Zenon
  <2>8. \A d \in DOMAIN stack' : FrameAligned(stack'[d])
    <3>1. CASE stack' = <<f>> \o <<g>>
      <4>1. Len(stack') = 2 /\ stack' \in Seq(Frame) /\ stack'[1] = f /\ stack'[2] = g
        BY <2>6, <3>1
      <4> QED BY <2>6, <4>1
    <3>2. CASE stack' = <<f>> \o <<>>
      <4>1. Len(stack') = 1 /\ stack' \in Seq(Frame) /\ stack'[1] = f
        BY <2>6, <3>2
      <4> QED BY <2>6, <4>1
    <3> QED BY <2>7, <3>1, <3>2
  <2>9. StackAligned' /\ ResultAligned'
    BY <1>1, <1>3, <2>8 DEF StackAligned, ResultAligned, RunsAligned, FrameAligned, GotSize,
                            toLargerPageSize
  <2>10. HeldAligned'
    BY <1>0, <1>1 DEF HeldAligned
  <2> QED BY <2>3, <2>9, <2>10 DEF OnBoundaries
<1>13. CASE ~promotes
  <2>1. UNCHANGED <<memory, stack>>
    BY <1>2, <1>13
  <2> QED BY <1>1, <1>3, <2>1, QuietAligned
<1> QED BY <1>12, <1>13

\* initPhysicalMemoryManager and initPMM
LEMMA InitStepAligned ==
  ASSUME IInv, OnBoundaries, InitStep
  PROVE  OnBoundaries'
<1>0. /\ freeMemory \in Seq(PagedMemory) /\ holder \in PagedMemory /\ HeldAligned
      /\ pageSize \in PageSizes
      /\ phase \notin {"buffer", "waiting"} => result = <<>>
  BY DEF IInv, TypeOK, TopLevelOK, OnBoundaries
<1> USE DEF boot, kernel, managers
<1>1. CASE InitFirst \/ InitFault \/ InitBuffer \/ InitPMMDone
  <2>1. UNCHANGED <<memory, held>> /\ stack' = <<>>
    BY <1>1 DEF InitFirst, InitFault, InitBuffer, InitPMMDone, Idle, Stop
  <2>2. result' = <<>>
    BY <1>0, <1>1 DEF InitFirst, InitFault, InitBuffer, InitPMMDone, Idle, Stop
  <2> QED BY <2>1, <2>2, QuietAligned
<1>2. CASE InitCollect \/ InitFreeCollected
  <2> DEFINE f == Free(freeMemory, BASE_PAGE)
  <2>1. UNCHANGED <<memory, held, result>> /\ (stack' = <<f>> \/ stack' = <<>>) /\ result = <<>>
    BY <1>0, <1>2 DEF InitCollect, InitFreeCollected, Idle
  <2>2. f \in Frame /\ FrameAligned(f)
    BY <1>0, PageSizeFacts, BaseAligned, NewFrames, NewAligned
  <2> HIDE DEF f
  <2>3. HeldAligned'
    BY <1>0, <2>1 DEF HeldAligned
  <2>4. CASE stack' = <<f>>
    BY <2>1, <2>2, <2>3, <2>4, FirstCallAligned
  <2>5. CASE stack' = <<>>
    BY <2>1, <2>5, QuietAligned
  <2> QED BY <2>1, <2>4, <2>5
<1>3. CASE InitFreeHolder
  <2> DEFINE f == Free(<<holder>>, BASE_PAGE)
  <2>1. UNCHANGED <<memory, held, result>> /\ stack' = <<f>> /\ result = <<>>
    BY <1>0, <1>3 DEF InitFreeHolder, Idle
  <2>2. f \in Frame /\ FrameAligned(f)
    <3>1. <<holder>> \in Seq(PagedMemory)
      BY <1>0
    <3> QED BY <3>1, PageSizeFacts, BaseAligned, NewFrames, NewAligned
  <2> HIDE DEF f
  <2>3. HeldAligned'
    BY <1>0, <2>1 DEF HeldAligned
  <2> QED BY <2>1, <2>2, <2>3, FirstCallAligned
<1>4. CASE InitPMM
  <2> DEFINE f == Alloc(usedBasePages[pageSize], BASE_PAGE)
  <2>1. UNCHANGED <<memory, held, result>> /\ stack' = <<f>> /\ result = <<>>
    BY <1>0, <1>4 DEF InitPMM, Idle
  <2>2. f \in Frame /\ FrameAligned(f)
    <3>1. usedBasePages[pageSize] \in Nat
      BY <1>0 DEF IInv, TypeOK
    <3> QED BY <3>1, PageSizeFacts, NewFrames, NewAligned
  <2> HIDE DEF f
  <2>3. HeldAligned'
    BY <1>0, <2>1 DEF HeldAligned
  <2> QED BY <2>1, <2>2, <2>3, FirstCallAligned
<1>5. CASE Promote
  BY <1>5, PromoteAligned
<1> QED BY <1>1, <1>2, <1>3, <1>4, <1>5 DEF InitStep

\* The rest of the kernel asks for pages and gives pages back.
LEMMA KernelStepAligned ==
  ASSUME IInv, OnBoundaries, KernelStep
  PROVE  OnBoundaries'
<1>0. /\ HeldAligned /\ held \in SUBSET [ps : PageSizes, run : PagedMemory]
      /\ ENTRIES \in Int /\ (phase = "kernel" => result = <<>>)
  BY SizesAssumption DEF IInv, TypeOK, TopLevelOK, OnBoundaries
<1>1. ASSUME NEW n \in Requests, NEW ps \in PageSizes, KernelAlloc(n, ps) \/ KernelGather(n, ps)
      PROVE  OnBoundaries'
  <2> DEFINE f == Alloc(n, ps)
             g == Gather(n, ps, ENTRIES)
  <2>1. /\ f \in Frame /\ FrameAligned(f) /\ g \in Frame /\ FrameAligned(g)
    BY <1>0, RequestsAssumption, NewFrames, NewAligned
  <2>2. /\ (stack' = <<f>> \/ stack' = <<g>>) /\ UNCHANGED <<memory, held>> /\ result' = <<>>
    BY <1>0, <1>1 DEF KernelAlloc, KernelGather, Idle, managers
  <2> HIDE DEF f, g
  <2>3. HeldAligned'
    BY <1>0, <2>2 DEF HeldAligned
  <2>4. CASE stack' = <<f>>
    BY <2>1, <2>2, <2>3, <2>4, FirstCallAligned
  <2>5. CASE stack' = <<g>>
    BY <2>1, <2>2, <2>3, <2>5, FirstCallAligned
  <2> QED BY <2>2, <2>4, <2>5
<1>2. ASSUME NEW h \in held, NEW k \in 0 .. h.run.numberOfPages,
             NEW n \in 1 .. h.run.numberOfPages, KernelFree(h, k, n)
      PROVE  OnBoundaries'
  <2> DEFINE start == h.run.pageStart
             given == <<Run(start + k * h.ps, n)>>
             front == Run(start, k)
             back == Run(start + (k + n) * h.ps, h.run.numberOfPages - (k + n))
             f == Free(given, h.ps)
  <2>1. h.ps \in PageSizes /\ h.run \in PagedMemory
    BY <1>0
  <2>2. /\ h.run.pageStart \in Nat /\ h.run.numberOfPages \in Nat /\ h.ps \in Nat \ {0}
    BY <2>1, PageSizeFacts DEF PagedMemory
  <2>3. start \in Nat /\ start % h.ps = 0
    BY <1>0, <2>2 DEF HeldAligned
  <2>4. /\ phase = "kernel" /\ stack' = <<f>> /\ UNCHANGED <<memory, result>>
        /\ held' = (held \ {h}) \cup {[ps |-> h.ps, run |-> r] :
                                        r \in {x \in {front, back} : x.numberOfPages > 0}}
        /\ k + n <= h.run.numberOfPages
    BY <1>2 DEF KernelFree, Idle, managers
  <2>5. k \in Nat /\ n \in Nat /\ k + n \in Nat /\ h.run.numberOfPages - (k + n) \in Nat
    BY <2>2, <2>4
  <2> HIDE DEF start
  <2>6. /\ start + k * h.ps \in Nat /\ (start + k * h.ps) % h.ps = 0
    BY <2>2, <2>3, <2>5, FurtherOn
  <2>7. /\ start + (k + n) * h.ps \in Nat /\ (start + (k + n) * h.ps) % h.ps = 0
    <3> DEFINE j == k + n
    <3>1. j \in Nat
      BY <2>5
    <3> HIDE DEF j
    <3>2. start + j * h.ps \in Nat /\ (start + j * h.ps) % h.ps = 0
      BY <2>2, <2>3, <3>1, FurtherOn
    <3> QED BY <3>2 DEF j
  <2>8. given \in Seq(PagedMemory) /\ RunsAligned(given, h.ps)
    BY <2>2, <2>5, <2>6, OneRun, AlignedLists
  <2>9. front.pageStart % h.ps = 0 /\ back.pageStart % h.ps = 0
    BY <2>3, <2>7 DEF Run
  <2> HIDE DEF given, front, back
  <2>10. f \in Frame /\ FrameAligned(f)
    BY <2>1, <2>8, NewFrames, NewAligned
  <2> HIDE DEF f
  <2>11. HeldAligned'
    <3>1. ASSUME NEW x \in held' PROVE x.run.pageStart % x.ps = 0
      <4>1. CASE x \in held
        BY <1>0, <4>1 DEF HeldAligned
      <4>2. CASE x \notin held
        <5>1. PICK r \in {front, back} : x = [ps |-> h.ps, run |-> r]
          BY <2>4, <4>2
        <5>2. x.ps = h.ps /\ x.run = r
          BY <5>1
        <5> QED BY <2>9, <5>2
      <4> QED BY <4>1, <4>2
    <3> QED BY <3>1 DEF HeldAligned
  <2> QED BY <1>0, <2>4, <2>10, <2>11, FirstCallAligned
<1> QED BY <1>1, <1>2 DEF KernelStep

\* The rest of the kernel takes the runs the call returned.
LEMMA KernelReceiveAligned ==
  ASSUME IInv, OnBoundaries, KernelReceive
  PROVE  OnBoundaries'
<1>1. /\ stack = <<>> /\ result' = <<>> /\ phase = "waiting"
      /\ held' = held \cup {[ps |-> pageSize, run |-> result[i]] :
                             i \in {j \in DOMAIN result : result[j].numberOfPages > 0}}
      /\ UNCHANGED <<memory, stack>>
  BY DEF KernelReceive, Idle, managers
<1>2. RunsAligned(result, pageSize) /\ HeldAligned
  BY <1>1 DEF OnBoundaries, ResultAligned
<1>3. ASSUME NEW x \in held' PROVE x.run.pageStart % x.ps = 0
  <2>1. CASE x \in held
    BY <1>2, <2>1 DEF HeldAligned
  <2>2. CASE x \notin held
    <3>1. PICK i \in DOMAIN result : x = [ps |-> pageSize, run |-> result[i]]
      BY <1>1, <2>2
    <3>2. x.ps = pageSize /\ x.run = result[i]
      BY <3>1
    <3> QED BY <1>2, <3>2 DEF RunsAligned
  <2> QED BY <2>1, <2>2
<1>4. HeldAligned'
  BY <1>3 DEF HeldAligned
<1>5. ListsAligned'
  BY <1>1, SameLists DEF OnBoundaries
<1>6. StackAligned' /\ ResultAligned'
  BY <1>1 DEF StackAligned, ResultAligned, RunsAligned
<1> QED BY <1>4, <1>5, <1>6 DEF OnBoundaries

-----------------------------------------------------------------------------
(* Runs start on boundaries *)

\* Only freePhysicalPagesWithManager moves a list.
LEMMA WhoMovesLists ==
  ASSUME Next, ~FreeGrow
  PROVE  UNCHANGED usedBasePages
BY DEF Next, Running, AllocStep, AllocFit, AllocFromLarger, AllocSplit, AllocReturn, FreeStep,
       FreeStore, FreeFull, FreeReturn, GatherStep, GatherWhole, GatherLast, GatherOverrun,
       GatherFromLarger, GatherConvert, NoMorePhysicalMemory, Stop, InitStep, InitFirst,
       InitFault, InitCollect, InitFreeCollected, InitFreeHolder, InitPMM, InitBuffer, Promote,
       InitPMMDone, KernelReceive, KernelStep, KernelAlloc, KernelGather, KernelFree, Halted,
       managers, vars

LEMMA CountsGrow ==
  ASSUME IInv, ArraysCounted, Next
  PROVE  /\ ArraysCounted' /\ (OnlyBaseGrew' => OnlyBaseGrew)
         /\ At("grow") /\ FreeGrow /\ OnlyBaseGrew' => top.ps = BASE_PAGE
<1>0. usedBasePages \in [PageSizes -> Nat]
  BY DEF IInv, TypeOK
<1>1. CASE FreeGrow
  <2>1. stack # <<>> /\ usedBasePages' = [usedBasePages EXCEPT ![top.ps] = @ + 1]
    BY <1>1 DEF FreeGrow, At
  <2>2. top.ps \in PageSizes
    BY <2>1, TopFacts
  <2>3. /\ usedBasePages'[top.ps] = usedBasePages[top.ps] + 1
        /\ \A ps \in PageSizes : ps # top.ps => usedBasePages'[ps] = usedBasePages[ps]
    BY <1>0, <2>1, <2>2
  <2>4. \A ps \in PageSizes : usedBasePages[ps] \in Nat /\ usedBasePages[ps] >= 1
    BY <1>0 DEF ArraysCounted
  <2>5. ArraysCounted'
    <3>1. ASSUME NEW ps \in PageSizes PROVE usedBasePages'[ps] >= 1
      BY <2>3, <2>4, <2>2
    <3> QED BY <3>1 DEF ArraysCounted
  <2>6. ASSUME OnlyBaseGrew' PROVE top.ps = BASE_PAGE
    <3>1. usedBasePages'[LARGE_PAGE] = 1 /\ usedBasePages'[HUGE_PAGE] = 1
      BY <2>6 DEF OnlyBaseGrew
    <3>2. usedBasePages[top.ps] + 1 # 1
      BY <2>2, <2>4
    <3>3. top.ps # LARGE_PAGE /\ top.ps # HUGE_PAGE
      BY <2>3, <3>1, <3>2
    <3> QED BY <2>2, <3>3 DEF PageSizes
  <2>7. OnlyBaseGrew' => OnlyBaseGrew
    BY <2>3, <2>6, PageSizeFacts DEF OnlyBaseGrew
  <2> QED BY <2>5, <2>6, <2>7
<1>2. CASE ~FreeGrow
  BY <1>2, WhoMovesLists DEF ArraysCounted, OnlyBaseGrew
<1> QED BY <1>1, <1>2

LEMMA NextAligned ==
  ASSUME IInv, ArraysCounted, Boundaries, Next
  PROVE  Boundaries'
<1> SUFFICES ASSUME OnlyBaseGrew' PROVE OnBoundaries'
  BY DEF Boundaries, OnBoundaries
<1>1. OnBoundaries
  BY CountsGrow DEF Boundaries, OnBoundaries
<1>2. CASE AllocStep
  BY <1>1, <1>2, AllocStepAligned
<1>3. CASE FreeStep
  <2>1. At("grow") => FreeGrow
    BY <1>3 DEF FreeStep, FreeStore, FreeFull, FreeReturn, At
  <2>2. At("grow") => top.ps = BASE_PAGE
    BY <2>1, CountsGrow
  <2> QED BY <1>1, <1>3, <2>2, FreeStepAligned
<1>4. CASE GatherStep
  BY <1>1, <1>4, GatherStepAligned
<1>5. CASE NoMorePhysicalMemory
  <2>1. stack # <<>> /\ Stop("fault")
    BY <1>5 DEF NoMorePhysicalMemory, At
  <2>2. result = <<>>
    BY <2>1 DEF IInv, TopLevelOK
  <2> QED BY <1>1, <2>1, <2>2, StopAligned
<1>6. CASE InitStep
  BY <1>1, <1>6, InitStepAligned
<1>7. CASE KernelReceive
  BY <1>1, <1>7, KernelReceiveAligned
<1>8. CASE KernelStep
  BY <1>1, <1>8, KernelStepAligned
<1>9. CASE Halted
  <2>1. UNCHANGED <<memory, stack, result, phase, pageSize, held>>
    BY <1>9 DEF Halted, vars, managers, topLevel, kernel
  <2> QED BY <1>1, <2>1 DEF OnBoundaries, ListsAligned, StackAligned, ResultAligned, HeldAligned,
                            RunsAligned, FrameAligned, GotSize, toLargerPageSize
<1> QED BY <1>2, <1>3, <1>4, <1>5, <1>6, <1>7, <1>8, <1>9 DEF Next, Running

\* Every run of every list, every run the rest of the kernel holds and every run
\* on its way through allocContiguousPhysicalPagesWithManager,
\* allocPhysicalPagesWithManager and freePhysicalPagesWithManager starts on a
\* boundary of its page size, as long as only basePMM's list has been moved.
THEOREM RunsOnBoundaries == Spec => [](ArraysCounted /\ Boundaries)
<1>1. Init => ArraysCounted /\ Boundaries
  <2> SUFFICES ASSUME Init PROVE ArraysCounted /\ Boundaries
    OBVIOUS
  <2>1. ArraysCounted
    BY DEF Init, ArraysCounted
  <2>2. ListsAligned
    BY DEF Init, ListsAligned, RunsAligned
  <2>3. StackAligned /\ ResultAligned /\ HeldAligned
    BY DEF Init, StackAligned, ResultAligned, HeldAligned, RunsAligned
  <2> QED BY <2>1, <2>2, <2>3 DEF Boundaries
<1>2. IInv /\ ArraysCounted /\ Boundaries /\ [Next]_vars => (ArraysCounted /\ Boundaries)'
  <2> SUFFICES ASSUME IInv, ArraysCounted, Boundaries, [Next]_vars
               PROVE  ArraysCounted' /\ Boundaries'
    OBVIOUS
  <2>1. CASE Next
    BY <2>1, CountsGrow, NextAligned
  <2>2. CASE UNCHANGED vars
    <3>1. UNCHANGED <<memory, usedBasePages, stack, result, phase, pageSize, held>>
      BY <2>2 DEF vars, managers, topLevel, kernel
    <3> QED BY <3>1 DEF ArraysCounted, Boundaries, OnlyBaseGrew, ListsAligned, StackAligned,
                        ResultAligned, HeldAligned, RunsAligned, FrameAligned, GotSize,
                        toLargerPageSize
  <2> QED BY <2>1, <2>2
<1> QED BY <1>1, <1>2, Inductive, PTL DEF Spec

\* mapVirtualRegionWithFlags may rely on the boundary it asserts: whatever the
\* memory map, the splitting and the promoting, the kernel is only given runs that
\* start on a boundary of their page size.
THEOREM AlignedAlways == Spec => []Aligned
<1>1. Boundaries => Aligned
  BY DEF Boundaries, Aligned, ListsAligned, RunsAligned
<1> QED BY <1>1, RunsOnBoundaries, PTL

-----------------------------------------------------------------------------
(* What the steps of the calls do, frame by frame *)

SameFrame(f, g) == f.ps = g.ps /\ f.n = g.n /\ f.pages = g.pages

LEMMA AllocFitDoes ==
  ASSUME IInv, AllocFit
  PROVE  /\ stack # <<>> /\ top.pc = "alloc" /\ UNCHANGED <<usedBasePages, buf, topLevel>>
         /\ \E i \in DOMAIN memory[top.ps] :
              /\ memory[top.ps][i].numberOfPages >= top.n
              /\ memory' = [memory EXCEPT ![top.ps] = decreasePages(@, top.ps, i, top.n)]
         /\ \E v \in Seq(PagedMemory) :
              Return(v) /\ Len(v) = 1 /\ v[1].numberOfPages = top.n
<1>1. stack # <<>> /\ top.pc = "alloc" /\ UNCHANGED <<usedBasePages, buf, topLevel>>
  BY DEF AllocFit, At
<1>2. PICK i \in FirstFit(top.n, top.ps) :
        /\ memory' = [memory EXCEPT ![top.ps] = decreasePages(@, top.ps, i, top.n)]
        /\ Return(<<Run(memory[top.ps][i].pageStart, top.n)>>)
  BY DEF AllocFit
<1>3. i \in DOMAIN memory[top.ps] /\ memory[top.ps][i].numberOfPages >= top.n
  BY DEF FirstFit
<1>4. top.n \in Nat /\ memory[top.ps][i].pageStart \in Nat
  <2>1. top.n \in Nat /\ memory[top.ps] \in Seq(PagedMemory)
    BY <1>1, TopFacts
  <2>2. memory[top.ps][i] \in PagedMemory
    BY <1>3, <2>1
  <2> QED BY <2>1, <2>2 DEF PagedMemory
<1> DEFINE v == <<Run(memory[top.ps][i].pageStart, top.n)>>
<1>5. v \in Seq(PagedMemory) /\ Len(v) = 1 /\ v[1].numberOfPages = top.n
  BY <1>4, OneRun
<1>6. Return(v)
  BY <1>2
<1> HIDE DEF v
<1> QED BY <1>1, <1>2, <1>3, <1>5, <1>6

LEMMA AllocFromLargerDoes ==
  ASSUME IInv, AllocFromLarger
  PROVE  /\ stack # <<>> /\ top.pc = "alloc" /\ UNCHANGED <<managers, result, topLevel>>
         /\ FirstFit(top.n, top.ps) = {} /\ top.ps < HUGE_PAGE
         /\ \E f, g \in Frame :
              /\ Call(g, f) /\ f.pc = "split" /\ SameFrame(f, top)
              /\ g.pc = "alloc" /\ g.ps = toLargerPageSize(top.ps)
<1> DEFINE f == [top EXCEPT !.pc = "split"]
           g == Alloc(CeilingDiv(top.n, ENTRIES), toLargerPageSize(top.ps))
<1>1. /\ stack # <<>> /\ top.pc = "alloc" /\ top.ps < HUGE_PAGE
      /\ UNCHANGED <<managers, result, topLevel>> /\ Call(g, f)
      /\ FirstFit(top.n, top.ps) = {}
  BY DEF AllocFromLarger, At
<1>2. top \in Frame /\ top.ps \in PageSizes /\ top.n \in Nat
  BY <1>1, TopFacts
<1>3. f \in Frame /\ f.pc = "split" /\ SameFrame(f, top)
  BY <1>2 DEF Frame, Labels, SameFrame
<1>4. g \in Frame /\ g.ps = toLargerPageSize(top.ps)
  BY <1>1, <1>2, PageSizeFacts, CeilingFacts, NewFrames
<1>5. g.pc = "alloc"
  BY DEF Alloc
<1> HIDE DEF f, g
<1> QED BY <1>1, <1>3, <1>4, <1>5

LEMMA AllocSplitDoes ==
  ASSUME IInv, AllocSplit
  PROVE  /\ stack # <<>> /\ top.pc = "split" /\ UNCHANGED <<managers, result, topLevel>>
         /\ \E f, g \in Frame :
              /\ Call(g, f) /\ f.pc = "return" /\ f.ps = top.ps /\ f.n = top.n
              /\ Len(f.pages) = 1 /\ f.pages[1].numberOfPages = f.n
              /\ g.pc = "free" /\ g.ps = top.ps /\ g.pages # <<>>
<1> DEFINE address == top.got[1].pageStart
           rest == Run(address + top.n * top.ps,
                       toSmallerPages(CeilingDiv(top.n, ENTRIES)) - top.n)
           p == <<Run(address, top.n)>>
           f == [top EXCEPT !.pc = "return", !.pages = <<Run(address, top.n)>>, !.got = <<>>]
           g == Free(<<rest>>, top.ps)
<1>1. /\ stack # <<>> /\ top.pc = "split" /\ Call(g, f)
      /\ UNCHANGED <<managers, result, topLevel>>
  BY DEF AllocSplit, At
<1>2. /\ top \in Frame /\ top.ps \in PageSizes /\ top.n \in Nat
      /\ top.got \in Seq(PagedMemory) /\ Len(top.got) = 1
  BY <1>1, TopFacts DEF TopAnswered
<1>3. address \in Nat
  <2>1. top.got[1] \in PagedMemory
    BY <1>2, OnlyOne
  <2> QED BY <2>1 DEF PagedMemory
<1> HIDE DEF address
<1>4. address + top.n * top.ps \in Nat
  <2>1. top.ps \in Nat
    BY <1>2, PageSizeFacts
  <2>2. top.n * top.ps \in Nat
    BY <1>2, <2>1
  <2> QED BY <1>3, <2>2
<1>5. <<rest>> \in Seq(PagedMemory) /\ <<rest>> # <<>>
  BY <1>2, <1>4, OneRun, RemainderFacts
<1>6. p \in Seq(PagedMemory) /\ Len(p) = 1 /\ p[1].numberOfPages = top.n
  BY <1>2, <1>3, OneRun
<1>7. f \in Frame /\ f.pc = "return" /\ f.ps = top.ps /\ f.pages = p /\ f.n = top.n
  <2>1. "return" \in Labels
    BY DEF Labels
  <2>2. f = GoingOn(top, "return", p)
    BY DEF GoingOn
  <2>3. f.n = top.n
    BY <1>2 DEF Frame
  <2> HIDE DEF f, p
  <2> QED BY <1>2, <1>6, <2>1, <2>2, <2>3, ChangedFrame
<1> HIDE DEF rest
<1>8. g \in Frame /\ g.pc = "free" /\ g.ps = top.ps /\ g.pages = <<rest>>
  BY <1>2, <1>5, NewFrames DEF Free
<1> HIDE DEF f, g, p
<1>9. /\ f.pc = "return" /\ f.ps = top.ps /\ f.n = top.n
      /\ Len(f.pages) = 1 /\ f.pages[1].numberOfPages = f.n
      /\ g.pc = "free" /\ g.ps = top.ps /\ g.pages # <<>>
  BY <1>5, <1>6, <1>7, <1>8
<1> QED BY <1>1, <1>7, <1>8, <1>9

LEMMA AllocReturnDoes ==
  ASSUME IInv, AllocReturn
  PROVE  /\ stack # <<>> /\ top.pc = "return" /\ Return(top.pages)
         /\ top.pages \in Seq(PagedMemory) /\ Len(top.pages) = 1
         /\ UNCHANGED <<managers, topLevel>>
<1>1. /\ stack # <<>> /\ top.pc = "return" /\ Return(top.pages)
      /\ UNCHANGED <<managers, topLevel>>
  BY DEF AllocReturn, At
<1> QED BY <1>1, TopFacts DEF CarriesPages

LEMMA FreeStoreDoes ==
  ASSUME IInv, FreeStore
  PROVE  /\ stack # <<>> /\ top.pc = "free" /\ top.pages # <<>>
         /\ Len(memory[top.ps]) < cap(top.ps)
         /\ Head(top.pages) \in PagedMemory
         /\ memory' = [memory EXCEPT ![top.ps] = Append(@, Head(top.pages))]
         /\ UNCHANGED <<usedBasePages, buf, result, topLevel>>
         /\ \E f \in Frame : Goto(f) /\ f.pc = "free" /\ f.ps = top.ps /\ f.n = top.n
<1> DEFINE f == [top EXCEPT !.pages = Tail(@)]
<1>1. /\ stack # <<>> /\ top.pc = "free" /\ top.pages # <<>> /\ Goto(f)
      /\ Len(memory[top.ps]) < cap(top.ps)
      /\ memory' = [memory EXCEPT ![top.ps] = Append(@, Head(top.pages))]
      /\ UNCHANGED <<usedBasePages, buf, result, topLevel>>
  BY DEF FreeStore, At, Stored
<1>2. top \in Frame /\ Head(top.pages) \in PagedMemory /\ Tail(top.pages) \in Seq(PagedMemory)
  BY <1>1, TopFacts, HeadTail
<1>3. f \in Frame /\ f.pc = "free" /\ f.ps = top.ps /\ f.n = top.n
  BY <1>1, <1>2 DEF Frame
<1> HIDE DEF f
<1> QED BY <1>1, <1>2, <1>3

LEMMA FreeFullDoes ==
  ASSUME IInv, FreeFull
  PROVE  /\ stack # <<>> /\ top.pc = "free" /\ UNCHANGED <<managers, result, topLevel>>
         /\ Len(memory[top.ps]) >= cap(top.ps)
         /\ \E f, g \in Frame :
              /\ Call(g, f) /\ f.pc = "grow" /\ SameFrame(f, top)
              /\ g.pc = "alloc" /\ g.ps = BASE_PAGE /\ g.n = usedBasePages[top.ps] + 1
<1> DEFINE f == [top EXCEPT !.pc = "grow"]
           g == Alloc(usedBasePages[top.ps] + 1, BASE_PAGE)
<1>1. /\ stack # <<>> /\ top.pc = "free" /\ Call(g, f) /\ Len(memory[top.ps]) >= cap(top.ps)
      /\ UNCHANGED <<managers, result, topLevel>>
  BY DEF FreeFull, At
<1>2. top \in Frame /\ usedBasePages[top.ps] + 1 \in Nat
  BY <1>1, TopFacts
<1>3. f \in Frame /\ f.pc = "grow" /\ SameFrame(f, top)
  BY <1>2 DEF Frame, Labels, SameFrame
<1>4. g \in Frame
  BY <1>2, NewFrames, PageSizeFacts
<1>5. g.pc = "alloc" /\ g.ps = BASE_PAGE /\ g.n = usedBasePages[top.ps] + 1
  BY DEF Alloc
<1> HIDE DEF f, g
<1> QED BY <1>1, <1>3, <1>4, <1>5

LEMMA FreeGrowDoes ==
  ASSUME IInv, FreeGrow
  PROVE  /\ stack # <<>> /\ top.pc = "grow" /\ UNCHANGED <<result, topLevel>>
         /\ top.got[1] \in PagedMemory
         /\ \E old, new \in PagedMemory :
              memory' = [memory EXCEPT ![top.ps] = @ \o <<old, new>>]
         /\ buf' = [buf EXCEPT ![top.ps] = top.got[1]]
         /\ usedBasePages' = [usedBasePages EXCEPT ![top.ps] = @ + 1]
         /\ \E f \in Frame : Goto(f) /\ f.pc = "free" /\ f.ps = top.ps /\ f.n = top.n
<1> DEFINE f == [top EXCEPT !.pc = "free", !.pages = Tail(@), !.got = <<>>]
           old == Run(buf[top.ps].pageStart, usedBasePages[top.ps])
<1>1. /\ stack # <<>> /\ top.pc = "grow" /\ Goto(f) /\ UNCHANGED <<result, topLevel>>
      /\ memory' = [memory EXCEPT ![top.ps] = @ \o <<old, Head(top.pages)>>]
      /\ buf' = [buf EXCEPT ![top.ps] = top.got[1]]
      /\ usedBasePages' = [usedBasePages EXCEPT ![top.ps] = @ + 1]
  BY DEF FreeGrow, At
<1>2. /\ top \in Frame /\ top.pages # <<>> /\ top.pages \in Seq(PagedMemory)
      /\ top.got \in Seq(PagedMemory) /\ Len(top.got) = 1
      /\ usedBasePages[top.ps] \in Nat /\ buf[top.ps] \in PagedMemory
  BY <1>1, TopFacts DEF TopAnswered, CarriesPages
<1>3. /\ Head(top.pages) \in PagedMemory /\ Tail(top.pages) \in Seq(PagedMemory)
      /\ top.got[1] \in PagedMemory
  BY <1>2, HeadTail, OnlyOne
<1>4. old \in PagedMemory
  <2>1. buf[top.ps].pageStart \in Nat
    BY <1>2 DEF PagedMemory
  <2> QED BY <1>2, <2>1, OneRun
<1>5. f \in Frame /\ f.pc = "free" /\ f.ps = top.ps /\ f.n = top.n
  <2>1. "free" \in Labels
    BY DEF Labels
  <2> DEFINE p == Tail(top.pages)
  <2>2. f = GoingOn(top, "free", p)
    BY <1>2 DEF Frame, GoingOn
  <2>3. f.n = top.n
    BY <1>2 DEF Frame
  <2>4. p \in Seq(PagedMemory)
    BY <1>3
  <2> HIDE DEF f, p
  <2> QED BY <1>2, <2>1, <2>2, <2>3, <2>4, ChangedFrame
<1> HIDE DEF f, old
<1> QED BY <1>1, <1>3, <1>4, <1>5

LEMMA FreeReturnDoes ==
  ASSUME IInv, FreeReturn
  PROVE  /\ stack # <<>> /\ top.pc = "free" /\ top.pages = <<>>
         /\ Return(<<>>) /\ UNCHANGED <<managers, topLevel>>
BY DEF FreeReturn, At

\* A list gets no longer when pages are taken off a run.
LEMMA DecreaseLen ==
  ASSUME NEW list \in Seq(PagedMemory), NEW ps \in Nat, NEW i \in DOMAIN list,
         NEW by \in Nat, by <= list[i].numberOfPages
  PROVE  /\ decreasePages(list, ps, i, by) \in Seq(PagedMemory)
         /\ Len(decreasePages(list, ps, i, by)) <= Len(list)
<1>1. CASE list[i].numberOfPages = by
  <2>1. Len(list) - 1 \in Nat
    OBVIOUS
  <2> DEFINE n == Len(list) - 1
             e == [j \in 1 .. n |-> IF j = i THEN list[Len(list)] ELSE list[j]]
  <2>2. e \in Seq(PagedMemory) /\ Len(e) = n
    <3>1. \A j \in 1 .. n : (IF j = i THEN list[Len(list)] ELSE list[j]) \in PagedMemory
      OBVIOUS
    <3> QED BY <2>1, <3>1
  <2> QED BY <1>1, <2>2 DEF decreasePages
<1>2. CASE list[i].numberOfPages # by
  <2> DEFINE r == Run(list[i].pageStart + by * ps, list[i].numberOfPages - by)
  <2>1. decreasePages(list, ps, i, by) = [list EXCEPT ![i] = r]
    BY <1>2 DEF decreasePages
  <2>2. decreasePages(list, ps, i, by) \in Seq(PagedMemory)
    BY DecreasePagesType
  <2> HIDE DEF r
  <2>3. DOMAIN [list EXCEPT ![i] = r] = DOMAIN list
    OBVIOUS
  <2> QED BY <2>1, <2>2, <2>3
<1> QED BY <1>1, <1>2

\* What the steps of allocPhysicalPagesWithManager do.
LEMMA GatherDoes ==
  ASSUME IInv, GatherStep, ~GatherOverrun
  PROVE  /\ stack # <<>> /\ Kind(top) = "gather"
         /\ UNCHANGED <<usedBasePages, buf, topLevel>>
         /\ \E list \in Seq(PagedMemory) : /\ memory' = [memory EXCEPT ![top.ps] = list]
                                           /\ Len(list) <= Len(memory[top.ps])
         /\ \/ \E f \in Frame : Goto(f) /\ Kind(f) = "gather" /\ UNCHANGED result
            \/ \E v \in Seq(PagedMemory) : Return(v)
            \/ \E f, g \in Frame : /\ Call(g, f) /\ Kind(f) = "gather"
                                   /\ g.pc \in {"gather", "free"} /\ UNCHANGED result
<1>a. ASSUME stack # <<>>, memory[top.ps] # <<>>
      PROVE  /\ LastRun(top.ps) \in PagedMemory /\ LastRun(top.ps).pageStart \in Nat
             /\ LastRun(top.ps).numberOfPages \in Nat
             /\ Len(memory[top.ps]) \in DOMAIN memory[top.ps]
  <2>1. memory[top.ps] \in Seq(PagedMemory)
    BY <1>a, TopFacts
  <2>2. /\ LastRun(top.ps) \in PagedMemory
        /\ Len(memory[top.ps]) \in DOMAIN memory[top.ps]
    BY <1>a, <2>1 DEF LastRun
  <2> QED BY <2>2 DEF PagedMemory
<1>b. ASSUME stack # <<>>, memory' = memory
      PROVE  \E list \in Seq(PagedMemory) : /\ memory' = [memory EXCEPT ![top.ps] = list]
                                            /\ Len(list) <= Len(memory[top.ps])
  <2>1. /\ memory[top.ps] \in Seq(PagedMemory) /\ Len(memory[top.ps]) <= Len(memory[top.ps])
        /\ memory = [memory EXCEPT ![top.ps] = memory[top.ps]]
    BY <1>b, TopFacts DEF IInv, TypeOK
  <2> QED BY <1>b, <2>1
<1>1. CASE GatherWhole
  <2> DEFINE f == [top EXCEPT !.pages = Append(@, LastRun(top.ps)),
                              !.n = @ - LastRun(top.ps).numberOfPages]
             list == SubSeq(memory[top.ps], 1, Len(memory[top.ps]) - 1)
  <2>1. /\ stack # <<>> /\ top.pc = "gather" /\ memory[top.ps] # <<>> /\ Goto(f)
        /\ LastRun(top.ps).numberOfPages < top.n
        /\ memory' = [memory EXCEPT ![top.ps] = list]
        /\ UNCHANGED <<usedBasePages, buf, result, topLevel>>
    BY <1>1 DEF GatherWhole, At
  <2>2. /\ top \in Frame /\ top.n \in Nat
        /\ top.pages \in Seq(PagedMemory) /\ memory[top.ps] \in Seq(PagedMemory)
    BY <2>1, TopFacts
  <2>3. /\ Append(top.pages, LastRun(top.ps)) \in Seq(PagedMemory)
        /\ top.n - LastRun(top.ps).numberOfPages \in Nat
    BY <1>a, <2>1, <2>2
  <2>4. f \in Frame /\ f.pc = "gather"
    BY <2>1, <2>2, <2>3 DEF Frame
  <2> HIDE DEF f
  <2>5. Kind(f) = "gather" /\ Kind(top) = "gather"
    BY <2>1, <2>4 DEF Kind
  <2>6. list \in Seq(PagedMemory) /\ Len(list) <= Len(memory[top.ps])
    BY <2>1, <2>2
  <2> HIDE DEF list
  <2> QED BY <2>1, <2>4, <2>5, <2>6
<1>2. CASE GatherLast
  <2> DEFINE v == Append(top.pages, Run(LastRun(top.ps).pageStart, top.n))
             i == Len(memory[top.ps])
             list == decreasePages(memory[top.ps], top.ps, i, top.n)
  <2>1. /\ stack # <<>> /\ top.pc = "gather" /\ memory[top.ps] # <<>> /\ Return(v)
        /\ LastRun(top.ps).numberOfPages >= top.n
        /\ memory' = [memory EXCEPT ![top.ps] = list]
        /\ UNCHANGED <<usedBasePages, buf, topLevel>>
    BY <1>2 DEF GatherLast, At
  <2>2. /\ top.ps \in PageSizes /\ top.ps \in Nat /\ top.n \in Nat
        /\ top.pages \in Seq(PagedMemory) /\ memory[top.ps] \in Seq(PagedMemory)
    BY <2>1, TopFacts, PageSizeFacts
  <2>3. i \in DOMAIN memory[top.ps] /\ top.n <= memory[top.ps][i].numberOfPages
    BY <1>a, <2>1, <2>2 DEF LastRun
  <2>4. list \in Seq(PagedMemory) /\ Len(list) <= Len(memory[top.ps])
    <3> HIDE DEF i
    <3> QED BY <2>2, <2>3, DecreaseLen
  <2>5. v \in Seq(PagedMemory)
    <3>1. Run(LastRun(top.ps).pageStart, top.n) \in PagedMemory
      BY <1>a, <2>1, <2>2, OneRun
    <3> QED BY <2>2, <3>1
  <2>6. Kind(top) = "gather"
    BY <2>1 DEF Kind
  <2> HIDE DEF v, list
  <2> QED BY <2>1, <2>4, <2>5, <2>6
<1>3. CASE GatherFromLarger
  <2> DEFINE f == [top EXCEPT !.pc = "gathered"]
             room == top.room - Len(top.pages)
             g == Gather(CeilingDiv(top.n, ENTRIES), toLargerPageSize(top.ps), room)
  <2>1. /\ stack # <<>> /\ top.pc = "gather" /\ top.ps < HUGE_PAGE /\ Call(g, f)
        /\ UNCHANGED <<memory, usedBasePages, buf, result, topLevel>>
    BY <1>3 DEF GatherFromLarger, At, managers
  <2>2. top \in Frame /\ top.ps \in PageSizes /\ top.n \in Nat /\ room \in Int
    BY <2>1, TopFacts
  <2>3. f \in Frame /\ Kind(f) = "gather" /\ Kind(top) = "gather"
    BY <2>1, <2>2 DEF Frame, Labels, Kind
  <2>4. toLargerPageSize(top.ps) \in PageSizes /\ CeilingDiv(top.n, ENTRIES) \in Nat
    BY <2>1, <2>2, PageSizeFacts, CeilingFacts
  <2>5. g \in Frame /\ g.pc = "gather"
    BY <2>2, <2>4, NewFrames DEF Gather
  <2> HIDE DEF f, g
  <2>6. \E list \in Seq(PagedMemory) : /\ memory' = [memory EXCEPT ![top.ps] = list]
                                       /\ Len(list) <= Len(memory[top.ps])
    BY <1>b, <2>1
  <2> QED BY <2>1, <2>3, <2>5, <2>6
<1>4. CASE GatherConvert
  <2> DEFINE f == [top EXCEPT !.pc = "gather", !.got = <<>>]
             converted == [i \in DOMAIN top.got |-> ToSmallerRun(top.got[i])]
             g == Free(converted, top.ps)
  <2>1. /\ stack # <<>> /\ top.pc = "gathered" /\ Call(g, f)
        /\ UNCHANGED <<memory, usedBasePages, buf, result, topLevel>>
    BY <1>4 DEF GatherConvert, At, managers
  <2>2. /\ top \in Frame /\ top.ps \in PageSizes /\ top.got \in Seq(PagedMemory)
        /\ top.pages \in Seq(PagedMemory)
    BY <2>1, TopFacts
  <2>3. f \in Frame /\ f.pc = "gather"
    <3>1. f = GoingOn(top, "gather", top.pages)
      BY <2>2 DEF GoingOn, Frame
    <3>2. "gather" \in Labels
      BY DEF Labels
    <3> HIDE DEF f
    <3> QED BY <2>2, <3>1, <3>2, ChangedFrame
  <2>4. converted \in Seq(PagedMemory)
    <3>1. ASSUME NEW i \in DOMAIN top.got PROVE ToSmallerRun(top.got[i]) \in PagedMemory
      <4>1. top.got[i] \in PagedMemory
        BY <2>2
      <4>2. top.got[i].pageStart \in Nat /\ top.got[i].numberOfPages \in Nat
        BY <4>1 DEF PagedMemory
      <4>3. toSmallerPages(top.got[i].numberOfPages) \in Nat
        BY <4>2, PageSizeFacts DEF toSmallerPages
      <4> QED BY <4>2, <4>3, OneRun DEF ToSmallerRun
    <3> QED BY <2>2, <3>1
  <2>5. g \in Frame /\ g.pc = "free"
    <3> HIDE DEF converted
    <3> QED BY <2>2, <2>4, NewFrames DEF Free
  <2> HIDE DEF f, g
  <2>6. Kind(f) = "gather" /\ Kind(top) = "gather"
    BY <2>1, <2>3 DEF Kind
  <2>7. \E list \in Seq(PagedMemory) : /\ memory' = [memory EXCEPT ![top.ps] = list]
                                       /\ Len(list) <= Len(memory[top.ps])
    BY <1>b, <2>1
  <2> QED BY <2>1, <2>3, <2>5, <2>6, <2>7
<1> QED BY <1>1, <1>2, <1>3, <1>4 DEF GatherStep

-----------------------------------------------------------------------------
(* Who calls whom, and what the frames promise *)

\* Every larger page size of a manager that is not ready is not ready either.
LEMMA UnreadyUp ==
  ASSUME IInv, NEW ps \in PageSizes, Unready(ps)
  PROVE  Unready(toLargerPageSize(ps))
<1>1. ps \in Nat \ {0} /\ pageSize \in Nat /\ ENTRIES \in Nat /\ ENTRIES >= 2
  BY PageSizeFacts DEF IInv, TypeOK
<1>2. toLargerPageSize(ps) \in Nat /\ toLargerPageSize(ps) > ps
  BY <1>1 DEF toLargerPageSize
<1> HIDE DEF toLargerPageSize
<1>3. toLargerPageSize(ps) # BASE_PAGE
  BY <1>1, <1>2 DEF BASE_PAGE
<1> QED BY <1>1, <1>2, <1>3 DEF Unready

LEMMA UnreadySame ==
  ASSUME UNCHANGED <<phase, pageSize>>
  PROVE  \A ps : Unready(ps)' <=> Unready(ps)
BY DEF Unready

LEMMA FrameGoodSame ==
  ASSUME UNCHANGED <<phase, pageSize>>
  PROVE  \A f \in Frame : FrameGood(f)' <=> FrameGood(f)
BY DEF FrameGood, Unready

\* allocPhysicalPagesWithManager runs for the kernel only, when all are ready.
LEMMA GatherReady ==
  ASSUME IInv, GatherBelow, stack # <<>>, Kind(top) = "gather"
  PROVE  phase = "waiting" /\ \A d \in DOMAIN stack : Kind(stack[d]) = "gather"
<1>1. /\ stack \in Seq(Frame) /\ Len(stack) \in Nat /\ Len(stack) >= 1 /\ top = stack[1]
      /\ BottomOK(stack[Len(stack)])
  BY HeadTail DEF IInv, StackOK, top, TopLevelOK
<1>2. \A d \in DOMAIN stack : Kind(stack[d]) = "gather"
  <2>1. ASSUME NEW d \in DOMAIN stack PROVE Kind(stack[d]) = "gather"
    <3>1. d = 1 \/ (1 < d /\ 1 \in DOMAIN stack)
      BY <1>1
    <3> QED BY <1>1, <3>1 DEF GatherBelow
  <2> QED BY <2>1
<1>3. Kind(stack[Len(stack)]) = "gather"
  <2>1. Len(stack) \in DOMAIN stack
    BY <1>1
  <2> QED BY <1>2, <2>1
<1>4. phase = "waiting"
  BY <1>1, <1>3 DEF BottomOK
<1> QED BY <1>2, <1>4

StackGood == GatherBelow /\ FramesGood /\ TopGood

LEMMA GoodGoto ==
  ASSUME IInv, StackGood, stack # <<>>, UNCHANGED <<phase, pageSize>>,
         NEW f \in Frame, Goto(f), Kind(f) = Kind(top), FrameGood(f), f.pc # "split"
  PROVE  StackGood'
<1>1. /\ stack' \in Seq(Frame) /\ Len(stack') = Len(stack) /\ stack'[1] = f
      /\ \A d \in 2 .. Len(stack) : stack'[d] = stack[d]
      /\ Len(stack) \in Nat /\ Len(stack) >= 1 /\ stack \in Seq(Frame) /\ top = stack[1]
  BY AfterGoto, TopFacts DEF IInv, StackOK
<1>2. ASSUME NEW d \in DOMAIN stack'
      PROVE  d \in DOMAIN stack /\ Kind(stack'[d]) = Kind(stack[d]) /\ FrameGood(stack'[d])
  <2>1. CASE d = 1
    BY <1>1, <2>1
  <2>2. CASE d # 1
    <3>1. d \in DOMAIN stack /\ stack'[d] = stack[d]
      BY <1>1, <2>2
    <3> QED BY <3>1 DEF StackGood, FramesGood
  <2> QED BY <2>1, <2>2
<1>3. GatherBelow'
  <2>1. ASSUME NEW d \in DOMAIN stack', NEW e \in DOMAIN stack', d < e,
               Kind(stack'[d]) = "gather"
        PROVE  Kind(stack'[e]) = "gather"
    <3>1. /\ d \in DOMAIN stack /\ e \in DOMAIN stack
          /\ Kind(stack'[d]) = Kind(stack[d]) /\ Kind(stack'[e]) = Kind(stack[e])
      BY <1>2
    <3> QED BY <2>1, <3>1 DEF StackGood, GatherBelow
  <2> QED BY <2>1 DEF GatherBelow, Kind
<1>4. FramesGood'
  <2>1. ASSUME NEW d \in DOMAIN stack' PROVE FrameGood(stack[d])'
    BY <1>2 DEF FrameGood, Unready
  <2> QED BY <2>1 DEF FramesGood
<1>5. TopGood'
  BY <1>1 DEF TopGood
<1> QED BY <1>3, <1>4, <1>5 DEF StackGood

LEMMA GoodCall ==
  ASSUME IInv, StackGood, stack # <<>>, UNCHANGED <<phase, pageSize>>,
         NEW f \in Frame, NEW g \in Frame, Call(g, f), Kind(f) = Kind(top),
         FrameGood(f), FrameGood(g), g.pc # "split",
         Kind(g) = "gather" => Kind(top) = "gather"
  PROVE  StackGood'
<1>1. /\ stack' \in Seq(Frame) /\ Len(stack') = Len(stack) + 1
      /\ stack'[1] = g /\ stack'[2] = f
      /\ \A d \in 3 .. Len(stack) + 1 : stack'[d] = stack[d - 1]
      /\ Len(stack) \in Nat /\ Len(stack) >= 1 /\ stack \in Seq(Frame) /\ top = stack[1]
  BY AfterCall, TopFacts DEF IInv, StackOK
<1>2. ASSUME NEW d \in DOMAIN stack', d # 1
      PROVE  /\ d - 1 \in DOMAIN stack /\ d >= 2
             /\ Kind(stack'[d]) = Kind(stack[d - 1]) /\ FrameGood(stack'[d])
  <2>1. CASE d = 2
    BY <1>1, <2>1
  <2>2. CASE d # 2
    <3>1. d - 1 \in DOMAIN stack /\ stack'[d] = stack[d - 1] /\ d >= 2
      BY <1>1, <1>2, <2>2
    <3> QED BY <3>1 DEF StackGood, FramesGood
  <2> QED BY <2>1, <2>2
<1>3. GatherBelow'
  <2>1. ASSUME NEW d \in DOMAIN stack', NEW e \in DOMAIN stack', d < e,
               Kind(stack'[d]) = "gather"
        PROVE  Kind(stack'[e]) = "gather"
    <3>0. d \in Nat /\ e \in Nat /\ d >= 1
      BY <1>1
    <3>1. e - 1 \in DOMAIN stack /\ Kind(stack'[e]) = Kind(stack[e - 1])
      BY <1>2, <2>1, <3>0
    <3>2. CASE d = 1
      <4>1. Kind(stack[1]) = "gather"
        BY <1>1, <2>1, <3>2
      <4> QED BY <1>1, <3>1, <4>1, GatherReady DEF StackGood
    <3>3. CASE d # 1
      <4>1. d - 1 \in DOMAIN stack /\ Kind(stack'[d]) = Kind(stack[d - 1])
        BY <1>2, <3>3
      <4>2. d - 1 < e - 1
        BY <2>1, <3>0
      <4> QED BY <2>1, <3>1, <4>1, <4>2 DEF StackGood, GatherBelow
    <3> QED BY <3>2, <3>3
  <2> QED BY <2>1 DEF GatherBelow, Kind
<1>4. FramesGood'
  <2>1. ASSUME NEW d \in DOMAIN stack' PROVE FrameGood(stack[d])'
    <3>1. FrameGood(stack'[d])
      BY <1>1, <1>2
    <3> QED BY <3>1 DEF FrameGood, Unready
  <2> QED BY <2>1 DEF FramesGood
<1>5. TopGood'
  BY <1>1 DEF TopGood
<1> QED BY <1>3, <1>4, <1>5 DEF StackGood

LEMMA GoodReturn ==
  ASSUME IInv, StackGood, stack # <<>>, UNCHANGED <<phase, pageSize>>,
         NEW v \in Seq(PagedMemory), Return(v), Kind(top) = "alloc" => ~Unready(top.ps)
  PROVE  StackGood'
<1>1. /\ stack \in Seq(Frame) /\ Len(stack) \in Nat /\ Len(stack) >= 1 /\ top = stack[1]
  BY TopFacts, HeadTail DEF IInv, StackOK
<1>2. CASE Len(stack) = 1
  <2>1. stack' = <<>>
    BY <1>2, AfterLastReturn
  <2> QED BY <2>1 DEF StackGood, GatherBelow, FramesGood, TopGood
<1>3. CASE Len(stack) # 1
  <2>0. Len(stack) >= 2
    BY <1>1, <1>3, TwoOrMore, Zenon
  <2>1. /\ stack' \in Seq(Frame) /\ Len(stack') = Len(stack) - 1
        /\ stack'[1].pc = stack[2].pc /\ stack'[1].ps = stack[2].ps
        /\ stack'[1].n = stack[2].n /\ stack'[1].pages = stack[2].pages
        /\ \A d \in 2 .. Len(stack) - 1 : stack'[d] = stack[d + 1]
    BY <2>0, AfterReturn
  <2>2. ASSUME NEW d \in DOMAIN stack'
        PROVE  /\ d + 1 \in DOMAIN stack
               /\ Kind(stack'[d]) = Kind(stack[d + 1]) /\ FrameGood(stack'[d])
    <3>1. CASE d = 1
      <4>1. 2 \in DOMAIN stack
        BY <1>1, <2>0
      <4>2. FrameGood(stack[2])
        BY <4>1 DEF StackGood, FramesGood
      <4>3. Kind(stack'[1]) = Kind(stack[2]) /\ FrameGood(stack'[1])
        BY <2>1, <4>2 DEF Kind, FrameGood
      <4> QED BY <3>1, <4>1, <4>3
    <3>2. CASE d # 1
      <4>1. d + 1 \in DOMAIN stack /\ stack'[d] = stack[d + 1]
        BY <1>1, <2>0, <2>1, <3>2
      <4> QED BY <4>1 DEF StackGood, FramesGood
    <3> QED BY <3>1, <3>2
  <2>3. GatherBelow'
    <3>1. ASSUME NEW d \in DOMAIN stack', NEW e \in DOMAIN stack', d < e,
                 Kind(stack'[d]) = "gather"
          PROVE  Kind(stack'[e]) = "gather"
      <4>1. /\ d + 1 \in DOMAIN stack /\ e + 1 \in DOMAIN stack
            /\ Kind(stack'[d]) = Kind(stack[d + 1]) /\ Kind(stack'[e]) = Kind(stack[e + 1])
        BY <2>2
      <4>2. d + 1 < e + 1
        BY <2>1, <3>1
      <4> QED BY <3>1, <4>1, <4>2 DEF StackGood, GatherBelow
    <3> QED BY <3>1 DEF GatherBelow, Kind
  <2>4. FramesGood'
    <3>1. ASSUME NEW d \in DOMAIN stack' PROVE FrameGood(stack[d])'
      BY <2>2 DEF FrameGood, Unready
    <3> QED BY <3>1 DEF FramesGood
  <2>5. TopGood'
    <3>1. ASSUME stack[2].pc = "split" PROVE ~Unready(toLargerPageSize(stack[2].ps))
      <4>1. WaitsFor(stack[2], stack[1])
        BY <1>1, <2>0 DEF IInv, StackOK
      <4>2. Kind(top) = "alloc" /\ top.ps = toLargerPageSize(stack[2].ps)
        BY <1>1, <3>1, <4>1 DEF WaitsFor
      <4> QED BY <4>2
    <3> QED BY <2>1, <3>1 DEF TopGood, Unready, toLargerPageSize
  <2> QED BY <2>3, <2>4, <2>5 DEF StackGood
<1> QED BY <1>2, <1>3

\* A manager that is freed to, or whose call has pages, is ready.
LEMMA TopReady ==
  ASSUME IInv, StackGood, UnreadyEmpty, stack # <<>>
  PROVE  /\ top.pc \in {"free", "grow", "return"} => ~Unready(top.ps)
         /\ top.pc = "split" => ~Unready(top.ps)
         /\ memory[top.ps] # <<>> => ~Unready(top.ps)
         /\ top.pc = "return" => top.pages[1].numberOfPages = top.n
<1>1. top = stack[1] /\ 1 \in DOMAIN stack /\ top.ps \in PageSizes
  BY TopFacts, HeadTail DEF IInv, StackOK
<1>2. FrameGood(top)
  BY <1>1 DEF StackGood, FramesGood
<1>3. top.pc = "split" => ~Unready(top.ps)
  BY <1>1, UnreadyUp DEF StackGood, TopGood
<1>4. memory[top.ps] # <<>> => ~Unready(top.ps)
  BY <1>1 DEF UnreadyEmpty
<1> QED BY <1>2, <1>3, <1>4 DEF FrameGood

\* One list changes, of a manager that is ready.
LEMMA ReadyListChanges ==
  ASSUME IInv, UnreadyEmpty, ListsFit, UNCHANGED <<phase, pageSize, usedBasePages>>,
         NEW ps \in PageSizes, ~Unready(ps), NEW list \in Seq(PagedMemory),
         Len(list) <= cap(ps), memory' = [memory EXCEPT ![ps] = list],
         \A q \in PageSizes : q # ps => buf'[q] = buf[q]
  PROVE  UnreadyEmpty' /\ ListsFit'
<1>1. memory \in [PageSizes -> Seq(PagedMemory)]
  BY DEF IInv, TypeOK
<1>2. memory'[ps] = list /\ \A q \in PageSizes : q # ps => memory'[q] = memory[q]
  BY <1>1
<1>3. UnreadyEmpty'
  <2>1. ASSUME NEW q \in PageSizes, Unready(q)' PROVE memory'[q] = <<>> /\ buf'[q] = Run(0, 0)
    <3>1. Unready(q)
      BY <2>1 DEF Unready
    <3>2. q # ps
      BY <3>1
    <3> QED BY <1>2, <3>1, <3>2 DEF UnreadyEmpty
  <2> QED BY <2>1 DEF UnreadyEmpty, Run
<1>4. ListsFit'
  <2>1. ASSUME NEW q \in PageSizes PROVE Len(memory'[q]) <= EntriesPerPage * usedBasePages'[q]
    <3>1. CASE q = ps
      BY <1>2, <3>1 DEF cap
    <3>2. CASE q # ps
      BY <1>2, <3>2 DEF ListsFit, cap
    <3> QED BY <3>1, <3>2
  <2> QED BY <2>1 DEF ListsFit, cap
<1> QED BY <1>3, <1>4

LEMMA SameManagers ==
  ASSUME UnreadyEmpty, ListsFit, UNCHANGED <<phase, pageSize>>, UNCHANGED managers
  PROVE  UnreadyEmpty' /\ ListsFit'
BY DEF UnreadyEmpty, ListsFit, Unready, cap, managers, Run

LEMMA RoomIsCount ==
  ASSUME IInv, NEW ps \in PageSizes
  PROVE  /\ cap(ps) \in Nat /\ Len(memory[ps]) \in Nat /\ memory[ps] \in Seq(PagedMemory)
         /\ EntriesPerPage * (usedBasePages[ps] + 1) >= cap(ps) + 2
<1>1. /\ usedBasePages[ps] \in Nat /\ memory[ps] \in Seq(PagedMemory)
      /\ EntriesPerPage \in Nat /\ EntriesPerPage >= 2
  BY SizesAssumption DEF IInv, TypeOK
<1>2. \A u \in Nat : /\ EntriesPerPage * u \in Nat
                     /\ EntriesPerPage * (u + 1) = EntriesPerPage * u + EntriesPerPage
  BY <1>1
<1> QED BY <1>1, <1>2 DEF cap

\* The call on top goes on, calls or returns.
LEMMA CallsGood ==
  ASSUME IInv, StackGood, UnreadyEmpty, ListsFit, AllocStep \/ FreeStep
  PROVE  StackGood' /\ UnreadyEmpty' /\ ListsFit'
<1>0. stack # <<>> => top \in Frame /\ top.ps \in PageSizes /\ top.n \in Nat /\ top.ps \in Nat
  BY TopFacts, PageSizeFacts
<1>t. topLevel' = topLevel => UNCHANGED <<phase, pageSize>>
  BY DEF topLevel
<1>1. CASE AllocFit
  <2>1. /\ stack # <<>> /\ top.pc = "alloc" /\ UNCHANGED <<usedBasePages, buf, topLevel>>
    BY <1>1, AllocFitDoes
  <2>2. PICK i \in DOMAIN memory[top.ps] :
              /\ memory[top.ps][i].numberOfPages >= top.n
              /\ memory' = [memory EXCEPT ![top.ps] = decreasePages(@, top.ps, i, top.n)]
    BY <1>1, AllocFitDoes
  <2>3. PICK v \in Seq(PagedMemory) : Return(v)
    BY <1>1, AllocFitDoes
  <2> DEFINE list == decreasePages(memory[top.ps], top.ps, i, top.n)
  <2>4. list \in Seq(PagedMemory) /\ Len(list) <= Len(memory[top.ps])
    <3>1. memory[top.ps] \in Seq(PagedMemory)
      BY <1>0, <2>1, RoomIsCount
    <3>2. memory[top.ps][i] \in PagedMemory
      BY <3>1
    <3>3. top.n <= memory[top.ps][i].numberOfPages
      BY <1>0, <2>1, <2>2, <3>2 DEF PagedMemory
    <3> QED BY <1>0, <2>1, <3>1, <3>3, DecreaseLen
  <2>5. ~Unready(top.ps)
    <3>1. memory[top.ps] # <<>>
      OBVIOUS
    <3> QED BY <2>1, <3>1, TopReady
  <2>6. StackGood'
    BY <1>t, <2>1, <2>3, <2>5, GoodReturn
  <2>7. Len(list) <= cap(top.ps)
    <3> HIDE DEF list
    <3>1. Len(memory[top.ps]) <= cap(top.ps) /\ cap(top.ps) \in Nat /\ Len(memory[top.ps]) \in Nat
      BY <1>0, <2>1, RoomIsCount DEF ListsFit
    <3> QED BY <2>4, <3>1
  <2>8. memory' = [memory EXCEPT ![top.ps] = list]
    BY <2>2
  <2> HIDE DEF list
  <2>9. UnreadyEmpty' /\ ListsFit'
    BY <1>0, <1>t, <2>1, <2>4, <2>5, <2>7, <2>8, ReadyListChanges
  <2> QED BY <2>6, <2>9
<1>2. CASE AllocFromLarger
  <2>1. /\ stack # <<>> /\ top.pc = "alloc" /\ UNCHANGED <<managers, result, topLevel>>
    BY <1>2, AllocFromLargerDoes
  <2>2. PICK f, g \in Frame : Call(g, f) /\ f.pc = "split" /\ SameFrame(f, top) /\ g.pc = "alloc"
    BY <1>2, AllocFromLargerDoes
  <2>3. FrameGood(f) /\ FrameGood(g) /\ Kind(f) = Kind(top) /\ Kind(g) = "alloc"
    BY <2>1, <2>2 DEF FrameGood, Kind
  <2> QED BY <1>t, <2>1, <2>2, <2>3, GoodCall, SameManagers
<1>3. CASE AllocSplit
  <2>1. /\ stack # <<>> /\ top.pc = "split" /\ UNCHANGED <<managers, result, topLevel>>
    BY <1>3, AllocSplitDoes
  <2>2. PICK f, g \in Frame :
              /\ Call(g, f) /\ f.pc = "return" /\ f.ps = top.ps /\ f.pages[1].numberOfPages = f.n
              /\ g.pc = "free" /\ g.ps = top.ps
    BY <1>3, AllocSplitDoes
  <2>3. ~Unready(top.ps)
    BY <2>1, TopReady
  <2>4. FrameGood(f) /\ FrameGood(g) /\ Kind(f) = Kind(top) /\ Kind(g) = "free"
    BY <2>1, <2>2, <2>3 DEF FrameGood, Kind
  <2> QED BY <1>t, <2>1, <2>2, <2>4, GoodCall, SameManagers
<1>4. CASE AllocReturn
  <2>1. /\ stack # <<>> /\ top.pc = "return" /\ Return(top.pages)
        /\ top.pages \in Seq(PagedMemory) /\ UNCHANGED <<managers, topLevel>>
    BY <1>4, AllocReturnDoes
  <2>2. ~Unready(top.ps)
    BY <2>1, TopReady
  <2> QED BY <1>t, <2>1, <2>2, GoodReturn, SameManagers
<1>5. CASE FreeStore
  <2>1. /\ stack # <<>> /\ top.pc = "free" /\ Len(memory[top.ps]) < cap(top.ps)
        /\ Head(top.pages) \in PagedMemory
        /\ memory' = [memory EXCEPT ![top.ps] = Append(@, Head(top.pages))]
        /\ UNCHANGED <<usedBasePages, buf, result, topLevel>>
    BY <1>5, FreeStoreDoes
  <2>2. PICK f \in Frame : Goto(f) /\ f.pc = "free" /\ f.ps = top.ps
    BY <1>5, FreeStoreDoes
  <2>3. ~Unready(top.ps)
    BY <2>1, TopReady
  <2>4. FrameGood(f) /\ Kind(f) = Kind(top)
    BY <2>1, <2>2, <2>3 DEF FrameGood, Kind
  <2> DEFINE list == Append(memory[top.ps], Head(top.pages))
  <2>5. list \in Seq(PagedMemory) /\ Len(list) <= cap(top.ps)
    <3>1. memory[top.ps] \in Seq(PagedMemory) /\ cap(top.ps) \in Nat
      BY <1>0, <2>1, RoomIsCount
    <3>2. Len(list) = Len(memory[top.ps]) + 1 /\ list \in Seq(PagedMemory)
      BY <2>1, <3>1
    <3> QED BY <2>1, <3>1, <3>2
  <2>6. memory' = [memory EXCEPT ![top.ps] = list]
    BY <2>1
  <2> HIDE DEF list
  <2>7. UnreadyEmpty' /\ ListsFit'
    BY <1>0, <1>t, <2>1, <2>3, <2>5, <2>6, ReadyListChanges
  <2> QED BY <1>t, <2>1, <2>2, <2>4, <2>7, GoodGoto
<1>6. CASE FreeFull
  <2>1. /\ stack # <<>> /\ top.pc = "free" /\ UNCHANGED <<managers, result, topLevel>>
    BY <1>6, FreeFullDoes
  <2>2. PICK f, g \in Frame : Call(g, f) /\ f.pc = "grow" /\ SameFrame(f, top) /\ g.pc = "alloc"
    BY <1>6, FreeFullDoes
  <2>3. ~Unready(top.ps)
    BY <2>1, TopReady
  <2>4. FrameGood(f) /\ FrameGood(g) /\ Kind(f) = Kind(top) /\ Kind(g) = "alloc"
    BY <2>1, <2>2, <2>3 DEF FrameGood, Kind, SameFrame
  <2> QED BY <1>t, <2>1, <2>2, <2>4, GoodCall, SameManagers
<1>7. CASE FreeGrow
  <2>1. /\ stack # <<>> /\ top.pc = "grow" /\ UNCHANGED <<result, topLevel>>
        /\ buf' = [buf EXCEPT ![top.ps] = top.got[1]]
        /\ usedBasePages' = [usedBasePages EXCEPT ![top.ps] = @ + 1]
    BY <1>7, FreeGrowDoes
  <2>2. PICK f \in Frame : Goto(f) /\ f.pc = "free" /\ f.ps = top.ps
    BY <1>7, FreeGrowDoes
  <2>3. PICK old, new \in PagedMemory : memory' = [memory EXCEPT ![top.ps] = @ \o <<old, new>>]
    BY <1>7, FreeGrowDoes
  <2>4. ~Unready(top.ps)
    BY <2>1, TopReady
  <2>5. FrameGood(f) /\ Kind(f) = Kind(top)
    BY <2>1, <2>2, <2>4 DEF FrameGood, Kind
  <2> DEFINE q == top.ps
  <2>6. /\ q \in PageSizes /\ cap(q) \in Nat /\ memory[q] \in Seq(PagedMemory)
        /\ Len(memory[q]) <= cap(q) /\ EntriesPerPage * (usedBasePages[q] + 1) >= cap(q) + 2
    BY <1>0, <2>1, RoomIsCount DEF ListsFit
  <2>7. memory'[q] = memory[q] \o <<old, new>> /\ usedBasePages'[q] = usedBasePages[q] + 1
    BY <2>1, <2>3, <2>6 DEF IInv, TypeOK
  <2>8. \A p \in PageSizes : p # q =>
          memory'[p] = memory[p] /\ buf'[p] = buf[p] /\ usedBasePages'[p] = usedBasePages[p]
    BY <2>1, <2>3 DEF IInv, TypeOK
  <2> HIDE DEF q
  <2>9. ListsFit'
    <3>1. ASSUME NEW p \in PageSizes PROVE Len(memory'[p]) <= EntriesPerPage * usedBasePages'[p]
      <4>1. CASE p = q
        <5>1. Len(memory'[q]) = Len(memory[q]) + 2 /\ Len(memory[q]) \in Nat
          BY <2>6, <2>7
        <5>2. EntriesPerPage * usedBasePages'[q] >= cap(q) + 2
          BY <2>6, <2>7
        <5>3. EntriesPerPage * usedBasePages'[q] \in Int
          BY <2>6, <2>7, SizesAssumption DEF IInv, TypeOK
        <5> HIDE DEF cap
        <5> QED BY <2>6, <4>1, <5>1, <5>2, <5>3
      <4>2. CASE p # q
        BY <2>8, <4>2 DEF ListsFit, cap
      <4> QED BY <4>1, <4>2
    <3> QED BY <3>1 DEF ListsFit, cap
  <2>10. UnreadyEmpty'
    <3>1. ASSUME NEW p \in PageSizes, Unready(p)' PROVE memory'[p] = <<>> /\ buf'[p] = Run(0, 0)
      <4>1. Unready(p)
        BY <1>t, <2>1, <3>1 DEF Unready
      <4>2. p # q
        BY <2>4, <4>1 DEF q
      <4> QED BY <2>8, <4>1, <4>2 DEF UnreadyEmpty
    <3> QED BY <3>1 DEF UnreadyEmpty, Run
  <2> QED BY <1>t, <2>1, <2>2, <2>5, <2>9, <2>10, GoodGoto
<1>8. CASE FreeReturn
  <2>1. /\ stack # <<>> /\ top.pc = "free" /\ Return(<<>>) /\ UNCHANGED <<managers, topLevel>>
    BY <1>8, FreeReturnDoes
  <2>2. Kind(top) = "free" /\ <<>> \in Seq(PagedMemory)
    BY <2>1 DEF Kind
  <2> QED BY <1>t, <2>1, <2>2, GoodReturn, SameManagers
<1> QED BY <1>1, <1>2, <1>3, <1>4, <1>5, <1>6, <1>7, <1>8 DEF AllocStep, FreeStep

LEMMA GatherGood ==
  ASSUME IInv, StackGood, UnreadyEmpty, ListsFit, GatherStep, ~GatherOverrun
  PROVE  StackGood' /\ UnreadyEmpty' /\ ListsFit'
<1>1. /\ stack # <<>> /\ Kind(top) = "gather" /\ UNCHANGED <<usedBasePages, buf, topLevel>>
      /\ UNCHANGED <<phase, pageSize>>
  BY GatherDoes DEF topLevel
<1>2. phase = "waiting" /\ \A ps : ~Unready(ps)
  BY <1>1, GatherReady DEF StackGood, Unready
<1>3. top.ps \in PageSizes
  BY <1>1, TopFacts
<1>4. UnreadyEmpty' /\ ListsFit'
  <2>1. PICK list \in Seq(PagedMemory) : /\ memory' = [memory EXCEPT ![top.ps] = list]
                                         /\ Len(list) <= Len(memory[top.ps])
    BY GatherDoes
  <2>2. Len(list) <= cap(top.ps)
    <3>1. Len(memory[top.ps]) <= cap(top.ps) /\ cap(top.ps) \in Nat /\ Len(memory[top.ps]) \in Nat
      BY <1>3, RoomIsCount DEF ListsFit
    <3>2. Len(list) \in Nat
      OBVIOUS
    <3> QED BY <2>1, <3>1, <3>2
  <2> QED BY <1>1, <1>2, <1>3, <2>1, <2>2, ReadyListChanges
<1>5. CASE \E f \in Frame : Goto(f) /\ Kind(f) = "gather" /\ UNCHANGED result
  <2>1. PICK f \in Frame : Goto(f) /\ Kind(f) = "gather"
    BY <1>5
  <2>2. f.pc # "split" /\ f.pc # "return"
    BY <2>1 DEF Kind
  <2>3. FrameGood(f)
    BY <1>2, <2>2 DEF FrameGood
  <2> QED BY <1>1, <1>4, <2>1, <2>2, <2>3, GoodGoto
<1>6. CASE \E v \in Seq(PagedMemory) : Return(v)
  BY <1>1, <1>4, <1>6, GoodReturn
<1>7. CASE \E f, g \in Frame : /\ Call(g, f) /\ Kind(f) = "gather"
                               /\ g.pc \in {"gather", "free"} /\ UNCHANGED result
  <2>1. PICK f, g \in Frame : Call(g, f) /\ Kind(f) = "gather" /\ g.pc \in {"gather", "free"}
    BY <1>7
  <2>2. f.pc # "return"
    BY <2>1 DEF Kind
  <2>3. FrameGood(f) /\ FrameGood(g) /\ g.pc # "split"
    BY <1>2, <2>1, <2>2 DEF FrameGood
  <2> QED BY <1>1, <1>4, <2>1, <2>3, GoodCall
<1> QED BY <1>5, <1>6, <1>7, GatherDoes

-----------------------------------------------------------------------------
(* The frame initPMM asks for *)

LEMMA BottomGoto ==
  ASSUME IInv, stack # <<>>, NEW f \in Frame, Goto(f), f.n = top.n
  PROVE  stack' # <<>> /\ stack'[Len(stack')].n = stack[Len(stack)].n
<1>1. /\ Len(stack') = Len(stack) /\ stack'[1] = f /\ stack' # <<>>
      /\ \A d \in 2 .. Len(stack) : stack'[d] = stack[d]
      /\ Len(stack) \in Nat /\ Len(stack) >= 1 /\ top = stack[1]
  BY AfterGoto, TopFacts
<1>2. CASE Len(stack) = 1
  BY <1>1, <1>2
<1>3. CASE Len(stack) # 1
  <2>1. Len(stack) \in 2 .. Len(stack)
    BY <1>1, <1>3
  <2> QED BY <1>1, <2>1
<1> QED BY <1>2, <1>3

LEMMA BottomCall ==
  ASSUME IInv, stack # <<>>, NEW f \in Frame, NEW g \in Frame, Call(g, f), f.n = top.n
  PROVE  stack' # <<>> /\ stack'[Len(stack')].n = stack[Len(stack)].n
<1>1. /\ Len(stack') = Len(stack) + 1 /\ stack'[2] = f /\ stack' # <<>>
      /\ \A d \in 3 .. Len(stack) + 1 : stack'[d] = stack[d - 1]
      /\ Len(stack) \in Nat /\ Len(stack) >= 1 /\ top = stack[1]
  BY AfterCall, TopFacts
<1>2. CASE Len(stack) = 1
  BY <1>1, <1>2
<1>3. CASE Len(stack) # 1
  <2>0. Len(stack) >= 2
    BY <1>1, <1>3, TwoOrMore, Zenon
  <2>1. Len(stack) + 1 \in 3 .. Len(stack) + 1 /\ (Len(stack) + 1) - 1 = Len(stack)
    BY <1>1, <2>0
  <2>2. stack'[Len(stack) + 1] = stack[Len(stack)]
    BY <1>1, <2>1
  <2> QED BY <1>1, <2>2
<1> QED BY <1>2, <1>3

LEMMA BottomReturn ==
  ASSUME IInv, stack # <<>>, NEW v \in Seq(PagedMemory), Return(v)
  PROVE  \/ stack' = <<>> /\ result' = v /\ stack[Len(stack)] = top
         \/ stack' # <<>> /\ stack'[Len(stack')].n = stack[Len(stack)].n
<1>1. Len(stack) \in Nat /\ Len(stack) >= 1 /\ top = stack[1]
  BY TopFacts, HeadTail DEF IInv, StackOK
<1>2. CASE Len(stack) = 1
  BY <1>1, <1>2, AfterLastReturn
<1>3. CASE Len(stack) # 1
  <2>0. Len(stack) >= 2
    BY <1>1, <1>3, TwoOrMore, Zenon
  <2>1. /\ Len(stack') = Len(stack) - 1 /\ stack'[1].n = stack[2].n /\ stack' # <<>>
        /\ \A d \in 2 .. Len(stack) - 1 : stack'[d] = stack[d + 1]
    BY <2>0, AfterReturn
  <2>2. CASE Len(stack) = 2
    BY <2>1, <2>2
  <2>3. CASE Len(stack) # 2
    <3>0. Len(stack) >= 3
      BY <1>1, <2>0, <2>3, ThreeOrMore, Zenon
    <3>1. Len(stack) - 1 \in 2 .. Len(stack) - 1 /\ (Len(stack) - 1) + 1 = Len(stack)
      BY <1>1, <3>0
    <3>2. stack'[Len(stack) - 1] = stack[Len(stack)]
      BY <2>1, <3>1
    <3> QED BY <2>1, <3>2
  <2> QED BY <2>2, <2>3
<1> QED BY <1>2, <1>3

LEMMA CallsAsk ==
  ASSUME IInv, StackGood, ArraysCounted, Next, OneFrameAsked, UnreadyEmpty,
         AllocStep \/ FreeStep \/ GatherStep
  PROVE  OneFrameAsked'
<1> SUFFICES ASSUME OnlyBaseGrew', phase' = "buffer"
             PROVE  /\ stack' = <<>> => result'[1].numberOfPages = 1
                    /\ stack' # <<>> => stack'[Len(stack')].n = 1
  BY DEF OneFrameAsked
<1>1. OnlyBaseGrew
  BY CountsGrow
<1>2. ~GatherOverrun
  BY DEF GatherOverrun, Stop
<1>3. UNCHANGED topLevel /\ stack # <<>>
  BY <1>2, AllocFitDoes, AllocFromLargerDoes, AllocSplitDoes, AllocReturnDoes, FreeStoreDoes,
     FreeFullDoes, FreeGrowDoes, FreeReturnDoes, GatherDoes DEF AllocStep, FreeStep
<1>4. phase = "buffer" /\ stack[Len(stack)].n = 1
  BY <1>1, <1>3 DEF OneFrameAsked, topLevel
<1>5. Kind(stack[Len(stack)]) = "alloc"
  BY <1>3, <1>4 DEF IInv, TopLevelOK, BottomOK
<1>6. ASSUME GatherStep PROVE FALSE
  BY <1>2, <1>4, <1>6, GatherDoes, GatherReady DEF StackGood
<1>7. CASE AllocFit
  <2>1. PICK v \in Seq(PagedMemory) : Return(v) /\ v[1].numberOfPages = top.n
    BY <1>7, AllocFitDoes
  <2> QED BY <1>3, <1>4, <2>1, BottomReturn
<1>8. CASE AllocFromLarger
  <2>1. PICK f, g \in Frame : Call(g, f) /\ f.n = top.n
    BY <1>8, AllocFromLargerDoes DEF SameFrame
  <2> QED BY <1>3, <1>4, <2>1, BottomCall
<1>9. CASE AllocSplit
  <2>1. PICK f, g \in Frame : Call(g, f) /\ f.n = top.n
    BY <1>9, AllocSplitDoes
  <2> QED BY <1>3, <1>4, <2>1, BottomCall
<1>10. CASE AllocReturn
  <2>1. /\ top.pages \in Seq(PagedMemory) /\ Return(top.pages)
        /\ top.pages[1].numberOfPages = top.n
    BY <1>3, <1>10, AllocReturnDoes, TopReady
  <2> QED BY <1>3, <1>4, <2>1, BottomReturn
<1>11. CASE FreeStore
  <2>1. PICK f \in Frame : Goto(f) /\ f.n = top.n
    BY <1>11, FreeStoreDoes
  <2> QED BY <1>3, <1>4, <2>1, BottomGoto
<1>12. CASE FreeFull
  <2>1. PICK f, g \in Frame : Call(g, f) /\ f.n = top.n
    BY <1>12, FreeFullDoes DEF SameFrame
  <2> QED BY <1>3, <1>4, <2>1, BottomCall
<1>13. CASE FreeGrow
  <2>1. PICK f \in Frame : Goto(f) /\ f.n = top.n
    BY <1>13, FreeGrowDoes
  <2> QED BY <1>3, <1>4, <2>1, BottomGoto
<1>14. CASE FreeReturn
  <2>1. Return(<<>>) /\ top.pc = "free" /\ <<>> \in Seq(PagedMemory)
    BY <1>14, FreeReturnDoes
  <2>2. stack[Len(stack)] # top
    BY <1>5, <2>1 DEF Kind
  <2> QED BY <1>3, <1>4, <2>1, <2>2, BottomReturn
<1> QED BY <1>6, <1>7, <1>8, <1>9, <1>10, <1>11, <1>12, <1>13, <1>14 DEF AllocStep, FreeStep

-----------------------------------------------------------------------------
(* Moving basePMM's list *)

BaseKept == UNCHANGED <<memory[BASE_PAGE], usedBasePages>>

LEMMA KeptFacts ==
  ASSUME BaseKept
  PROVE  /\ LargerArray' = LargerArray /\ (BaseFull' <=> BaseFull)
         /\ (NoRunOf(LargerArray)' <=> NoRunOf(LargerArray))
BY DEF BaseKept, LargerArray, BaseFull, NoRunOf, cap

\* No frame moves basePMM's list.
LEMMA NoneMoves ==
  ASSUME stack' \in Seq(Frame), \A d \in DOMAIN stack' : ~MovesBase(stack'[d])
  PROVE  Growing'
<1>1. Len(stack') \in Nat /\ DOMAIN stack' = 1 .. Len(stack')
  OBVIOUS
<1>2. stack' # <<>> => 1 \in DOMAIN stack'
  BY <1>1
<1>3. \A d \in 2 .. Len(stack') : d \in DOMAIN stack'
  BY <1>1
<1> QED BY <1>2, <1>3 DEF Growing, GetsLargerArray, WaitsForArray, MovesBase

\* The call on top makes a call.
LEMMA GrowingCall ==
  ASSUME IInv, Growing, stack # <<>>, BaseKept,
         NEW f \in Frame, NEW g \in Frame, Call(g, f), ~MovesBase(g),
         f.n = top.n, f.ps = top.ps, f.pages = top.pages \/ f.pages # <<>>,
         f.pc = "return" => g.ps = top.ps /\ g.pages # <<>>,
         MovesBase(f) => g.n = LargerArray /\ BaseFull /\ g.pc = "alloc",
         top.pc = "alloc" /\ top.ps = BASE_PAGE => NoRunOf(top.n)
  PROVE  Growing'
<1>1. /\ stack' \in Seq(Frame) /\ Len(stack') = Len(stack) + 1
      /\ stack'[1] = g /\ stack'[2] = f
      /\ \A d \in 3 .. Len(stack) + 1 : stack'[d] = stack[d - 1]
      /\ Len(stack) \in Nat /\ Len(stack) >= 1 /\ stack \in Seq(Frame) /\ top = stack[1]
  BY AfterCall, TopFacts DEF IInv, StackOK
<1>2. GetsLargerArray'
  BY <1>1 DEF GetsLargerArray, MovesBase
<1>3. ASSUME NEW d \in 2 .. Len(stack') PROVE WaitsForArray(d)'
  <2> SUFFICES ASSUME MovesBase(stack'[d])
               PROVE  /\ stack'[d - 1].n = LargerArray' /\ BaseFull'
                      /\ stack'[d - 1].pc # "alloc" => NoRunOf(LargerArray)'
                      /\ stack'[d - 1].pc = "return" =>
                           d # 2 /\ stack'[d - 2].ps = BASE_PAGE /\ stack'[d - 2].pages # <<>>
    BY DEF WaitsForArray, MovesBase
  <2>0. d \in Nat /\ d >= 2 /\ d <= Len(stack) + 1
    BY <1>1
  <2>1. CASE d = 2
    BY <1>1, <2>1, KeptFacts
  <2>2. CASE d = 3
    <3>1. /\ 2 \in 2 .. Len(stack) /\ stack'[3] = stack[2] /\ Len(stack) >= 2
      BY <1>1, <2>0, <2>2
    <3>2. WaitsForArray(2) /\ MovesBase(stack[2])
      BY <2>2, <3>1 DEF Growing
    <3>3. /\ stack[1].n = LargerArray /\ BaseFull
          /\ (stack[1].pc # "alloc" => NoRunOf(LargerArray))
      BY <3>2 DEF WaitsForArray
    <3>4. WaitsFor(stack[2], stack[1])
      BY <3>1 DEF IInv, StackOK
    <3>5. top.ps = BASE_PAGE
      BY <1>1, <3>2, <3>4 DEF WaitsFor, MovesBase
    <3>6. NoRunOf(LargerArray)
      BY <1>1, <3>3, <3>5
    <3>7. stack'[2].n = LargerArray' /\ BaseFull' /\ NoRunOf(LargerArray)'
      BY <1>1, <3>3, <3>6, KeptFacts
    <3>8. stack'[2].pc = "return" => stack'[1].ps = BASE_PAGE /\ stack'[1].pages # <<>>
      BY <1>1, <3>5
    <3> QED BY <2>2, <3>7, <3>8
  <2>3. CASE d >= 4
    <3>1. /\ d - 1 \in 2 .. Len(stack) /\ stack'[d] = stack[d - 1]
          /\ stack'[d - 1] = stack[(d - 1) - 1]
      BY <1>1, <2>0, <2>3
    <3>2. WaitsForArray(d - 1) /\ MovesBase(stack[d - 1])
      BY <3>1 DEF Growing
    <3>3. /\ stack[(d - 1) - 1].n = LargerArray /\ BaseFull
          /\ (stack[(d - 1) - 1].pc # "alloc" => NoRunOf(LargerArray))
          /\ (stack[(d - 1) - 1].pc = "return" =>
                /\ stack[(d - 1) - 2].ps = BASE_PAGE /\ stack[(d - 1) - 2].pages # <<>>)
      BY <3>2 DEF WaitsForArray
    <3>4. \/ stack'[d - 2] = stack[(d - 1) - 2]
          \/ /\ stack'[d - 2].ps = stack[(d - 1) - 2].ps
             /\ (stack'[d - 2].pages = stack[(d - 1) - 2].pages \/ stack'[d - 2].pages # <<>>)
      <4>1. CASE d = 4
        <5>1. d - 2 = 2 /\ (d - 1) - 2 = 1
          BY <4>1
        <5> QED BY <1>1, <5>1
      <4>2. CASE d # 4
        <5>1. d - 2 \in 3 .. Len(stack) + 1 /\ (d - 2) - 1 = (d - 1) - 2
          BY <2>0, <2>3, <4>2
        <5> QED BY <1>1, <5>1
      <4> QED BY <4>1, <4>2
    <3> QED BY <2>3, <3>1, <3>3, <3>4, KeptFacts
  <2> QED BY <2>0, <2>1, <2>2, <2>3
<1> QED BY <1>2, <1>3 DEF Growing

\* The call on top returns to one that does not wait for a larger array.
LEMMA GrowingReturn ==
  ASSUME IInv, Growing, stack # <<>>, BaseKept, NEW v \in Seq(PagedMemory), Return(v),
         Len(stack) >= 2 => ~MovesBase(stack[2]),
         Len(stack) >= 2 /\ stack[2].pc = "return" => top.pages = <<>>
  PROVE  Growing'
<1>1. Len(stack) \in Nat /\ Len(stack) >= 1 /\ top = stack[1]
  BY TopFacts, HeadTail DEF IInv, StackOK
<1>2. CASE Len(stack) = 1
  <2>1. stack' = <<>>
    BY <1>2, AfterLastReturn
  <2> QED BY <2>1 DEF Growing, GetsLargerArray
<1>3. CASE Len(stack) # 1
  <2>0. Len(stack) >= 2
    BY <1>1, <1>3, TwoOrMore, Zenon
  <2>1. /\ stack' \in Seq(Frame) /\ Len(stack') = Len(stack) - 1
        /\ stack'[1].pc = stack[2].pc /\ stack'[1].ps = stack[2].ps
        /\ stack'[1].n = stack[2].n /\ stack'[1].pages = stack[2].pages
        /\ \A d \in 2 .. Len(stack) - 1 : stack'[d] = stack[d + 1]
    BY <2>0, AfterReturn
  <2>2. GetsLargerArray'
    BY <2>0, <2>1 DEF GetsLargerArray, MovesBase
  <2>3. ASSUME NEW d \in 2 .. Len(stack') PROVE WaitsForArray(d)'
    <3> SUFFICES ASSUME MovesBase(stack'[d])
                 PROVE  /\ stack'[d - 1].n = LargerArray' /\ BaseFull'
                        /\ stack'[d - 1].pc # "alloc" => NoRunOf(LargerArray)'
                        /\ stack'[d - 1].pc = "return" =>
                             d # 2 /\ stack'[d - 2].ps = BASE_PAGE /\ stack'[d - 2].pages # <<>>
      BY DEF WaitsForArray, MovesBase
    <3>0. d \in Nat /\ d >= 2 /\ d <= Len(stack) - 1
      BY <1>1, <2>1
    <3>1. d + 1 \in 2 .. Len(stack) /\ stack'[d] = stack[d + 1]
      BY <1>1, <2>1, <3>0
    <3>2. WaitsForArray(d + 1) /\ MovesBase(stack[d + 1])
      BY <3>1 DEF Growing
    <3>3. /\ stack[(d + 1) - 1].n = LargerArray /\ BaseFull
          /\ (stack[(d + 1) - 1].pc # "alloc" => NoRunOf(LargerArray))
          /\ (stack[(d + 1) - 1].pc = "return" =>
                /\ stack[(d + 1) - 2].ps = BASE_PAGE /\ stack[(d + 1) - 2].pages # <<>>)
      BY <3>2 DEF WaitsForArray
    <3>4. CASE d = 2
      <4>1. (d + 1) - 1 = 2 /\ (d + 1) - 2 = 1 /\ d - 1 = 1
        BY <3>4
      <4>2. stack[2].pc # "return"
        BY <1>1, <2>0, <3>3, <4>1
      <4> QED BY <2>1, <3>3, <4>1, <4>2, KeptFacts
    <3>5. CASE d >= 3
      <4>1. d - 1 \in 2 .. Len(stack) - 1 /\ (d - 1) + 1 = (d + 1) - 1
        BY <1>1, <3>0, <3>5
      <4>2. stack'[d - 1] = stack[(d + 1) - 1]
        BY <2>1, <4>1
      <4>3. /\ stack'[d - 2].ps = stack[(d + 1) - 2].ps
            /\ stack'[d - 2].pages = stack[(d + 1) - 2].pages
        <5>1. CASE d = 3
          <6>1. d - 2 = 1 /\ (d + 1) - 2 = 2
            BY <5>1
          <6> QED BY <2>1, <6>1
        <5>2. CASE d # 3
          <6>1. d - 2 \in 2 .. Len(stack) - 1 /\ (d - 2) + 1 = (d + 1) - 2
            BY <1>1, <3>0, <3>5, <5>2
          <6> QED BY <2>1, <6>1
        <5> QED BY <5>1, <5>2
      <4> QED BY <3>3, <3>5, <4>2, <4>3, KeptFacts
    <3> QED BY <3>0, <3>4, <3>5
  <2> QED BY <2>2, <2>3 DEF Growing
<1> QED BY <1>2, <1>3

-----------------------------------------------------------------------------
(* The larger array of basePMM, step by step *)

\* A set of naturals that is not empty has a least element.
LEMMA Least ==
  ASSUME NEW S \in SUBSET Nat, S # {}
  PROVE  \E x \in S : \A y \in S : x <= y
<1>1. \E R : IsWellFoundedOn(R, Nat) /\ \A x, y \in Nat : y < x => <<y, x>> \in R
  <2> DEFINE R == OpToRel(<, Nat)
  <2>1. IsWellFoundedOn(R, Nat)
    BY NatLessThanWellFounded
  <2>2. \A x, y \in Nat : y < x => <<y, x>> \in R
    BY DEF OpToRel
  <2> HIDE DEF R
  <2> QED BY <2>1, <2>2
<1>2. PICK R : IsWellFoundedOn(R, Nat) /\ \A x, y \in Nat : y < x => <<y, x>> \in R
  BY <1>1
<1>3. PICK x \in S : \A y \in S : ~(<<y, x>> \in R)
  BY <1>2, WFMin, Zenon
<1>4. ASSUME NEW y \in S PROVE x <= y
  <2>1. ~(y < x)
    BY <1>2, <1>3, <1>4
  <2> QED BY <2>1, <1>4
<1> QED BY <1>4
\* The first run with enough pages is found when there is one.
LEMMA NoFit ==
  ASSUME IInv, NEW n \in Nat, FirstFit(n, BASE_PAGE) = {}
  PROVE  NoRunOf(n)
<1> DEFINE m == memory[BASE_PAGE]
           S == {i \in DOMAIN m : m[i].numberOfPages >= n}
<1>1. m \in Seq(PagedMemory) /\ DOMAIN m = 1 .. Len(m) /\ Len(m) \in Nat
  BY PageSizeFacts DEF IInv, TypeOK
<1>2. \A i \in DOMAIN m : m[i].numberOfPages \in Nat
  <2> HIDE DEF m
  <2>1. \A i \in DOMAIN m : m[i] \in PagedMemory
    BY <1>1
  <2> QED BY <2>1 DEF PagedMemory
<1>3. ASSUME S # {} PROVE FALSE
  <2>1. S \in SUBSET Nat
    BY <1>1
  <2>2. PICK x \in S : \A y \in S : x <= y
    BY <1>3, <2>1, Least, Zenon
  <2>3. x \in DOMAIN m /\ m[x].numberOfPages >= n /\ x \in Nat
    BY <1>1
  <2>4. ASSUME NEW j \in 1 .. x - 1 PROVE m[j].numberOfPages < n
    <3>1. j \in DOMAIN m /\ j < x /\ j \in Nat
      BY <1>1, <2>3
    <3>2. j \notin S
      BY <2>2, <2>3, <3>1
    <3> QED BY <1>2, <3>1, <3>2
  <2>5. x \in FirstFit(n, BASE_PAGE)
    BY <2>3, <2>4 DEF FirstFit
  <2> QED BY <2>5
<1>4. ASSUME NEW i \in DOMAIN m PROVE m[i].numberOfPages < n
  <2>1. i \notin S
    BY <1>3
  <2> QED BY <1>2, <2>1
<1> QED BY <1>4 DEF NoRunOf

\* The call on top goes on with a run less, or after having moved its list.
LEMMA GrowingGoto ==
  ASSUME IInv, stack # <<>>, NEW f \in Frame, Goto(f), ~MovesBase(f),
         \A d \in 2 .. Len(stack) : ~MovesBase(stack[d])
  PROVE  Growing'
<1>1. /\ stack' \in Seq(Frame) /\ Len(stack') = Len(stack) /\ stack'[1] = f
      /\ \A d \in 2 .. Len(stack) : stack'[d] = stack[d]
      /\ Len(stack) \in Nat /\ Len(stack) >= 1
  BY AfterGoto
<1>2. ASSUME NEW d \in DOMAIN stack' PROVE ~MovesBase(stack'[d])
  <2>1. CASE d = 1
    BY <1>1, <2>1
  <2>2. CASE d # 1
    <3>1. d \in 2 .. Len(stack)
      BY <1>1, <2>2
    <3> QED BY <1>1, <3>1
  <2> QED BY <2>1, <2>2
<1> QED BY <1>1, <1>2, NoneMoves

LEMMA GrowingElsewhere ==
  ASSUME IInv, Growing, stack # <<>>, BaseKept, NEW f \in Frame, Goto(f),
         f.pc = "free", top.pc = "free", top.ps # BASE_PAGE, f.ps = top.ps, f.n = top.n
  PROVE  Growing'
<1>1. /\ stack' \in Seq(Frame) /\ Len(stack') = Len(stack) /\ stack'[1] = f
      /\ \A d \in 2 .. Len(stack) : stack'[d] = stack[d]
      /\ Len(stack) \in Nat /\ Len(stack) >= 1 /\ top = stack[1]
  BY AfterGoto, TopFacts
<1>2. GetsLargerArray'
  BY <1>1 DEF GetsLargerArray, MovesBase
<1>3. ASSUME NEW d \in 2 .. Len(stack') PROVE WaitsForArray(d)'
  <2> SUFFICES ASSUME MovesBase(stack'[d])
               PROVE  /\ stack'[d - 1].n = LargerArray' /\ BaseFull'
                      /\ stack'[d - 1].pc # "alloc" => NoRunOf(LargerArray)'
                      /\ stack'[d - 1].pc = "return" =>
                           d # 2 /\ stack'[d - 2].ps = BASE_PAGE /\ stack'[d - 2].pages # <<>>
    BY DEF WaitsForArray, MovesBase
  <2>1. stack'[d] = stack[d] /\ d \in 2 .. Len(stack) /\ d \in Nat /\ d >= 2
    BY <1>1
  <2>2. /\ stack[d - 1].n = LargerArray /\ BaseFull
        /\ (stack[d - 1].pc # "alloc" => NoRunOf(LargerArray))
        /\ (stack[d - 1].pc = "return" =>
              d # 2 /\ stack[d - 2].ps = BASE_PAGE /\ stack[d - 2].pages # <<>>)
    BY <2>1 DEF Growing, WaitsForArray
  <2>3. CASE d = 2
    <3>1. WaitsFor(stack[2], stack[1]) /\ MovesBase(stack[2])
      BY <2>1, <2>3 DEF IInv, StackOK
    <3>2. Kind(top) = "alloc"
      BY <1>1, <3>1 DEF WaitsFor, MovesBase
    <3> QED BY <3>2 DEF Kind
  <2>4. CASE d = 3
    <3>1. stack'[2] = stack[2] /\ d - 1 = 2 /\ d - 2 = 1
      BY <1>1, <2>1, <2>4
    <3>2. stack[2].pc # "return"
      BY <1>1, <2>2, <3>1
    <3> QED BY <2>2, <3>1, <3>2, KeptFacts
  <2>5. CASE d >= 4
    <3>1. stack'[d - 1] = stack[d - 1] /\ stack'[d - 2] = stack[d - 2]
      BY <1>1, <2>1, <2>5
    <3> QED BY <2>2, <3>1, KeptFacts
  <2> QED BY <2>1, <2>3, <2>4, <2>5
<1> QED BY <1>2, <1>3 DEF Growing
\* While a call goes on: basePMM's list is not moved twice at a time.
LEMMA CallsGrowing ==
  ASSUME IInv, StackGood, UnreadyEmpty, ArraysCounted, Arrays, Next, OnlyBaseGrew',
         AllocStep \/ FreeStep \/ GatherStep
  PROVE  OtherMoves' \/ Growing'
<1>a. OnlyBaseGrew /\ (OtherMoves \/ Growing)
  BY CountsGrow DEF Arrays
<1>b. ASSUME stack # <<>> PROVE top = stack[1] /\ stack \in Seq(Frame) /\ Len(stack) \in Nat
  BY <1>b, TopFacts DEF IInv, StackOK
<1>c. Growing
  <2>1. ASSUME OtherMoves PROVE FALSE
    <3>1. stack # <<>> /\ top.pc = "grow" /\ top.ps # BASE_PAGE
      BY <2>1, <1>b DEF OtherMoves
    <3>2. FreeGrow /\ At("grow")
      BY <3>1, AllocFitDoes, AllocFromLargerDoes, AllocSplitDoes, AllocReturnDoes, FreeStoreDoes,
         FreeFullDoes, FreeReturnDoes DEF AllocStep, FreeStep, GatherStep, GatherWhole, GatherLast,
         GatherOverrun, GatherFromLarger, GatherConvert, At
    <3> QED BY <3>1, <3>2, CountsGrow
  <2> QED BY <1>a, <2>1
<1>d. ASSUME UNCHANGED managers PROVE BaseKept
  BY <1>d DEF managers, BaseKept
<1>e. ASSUME stack # <<>>, Len(stack) >= 2, MovesBase(stack[2])
      PROVE  /\ Kind(top) = "alloc" /\ top.ps = BASE_PAGE /\ top.n = LargerArray /\ BaseFull
             /\ top.pc # "return" /\ WaitsFor(stack[2], stack[1])
  <2>1. 2 \in 2 .. Len(stack)
    BY <1>b, <1>e
  <2>2. WaitsFor(stack[2], stack[1])
    BY <2>1 DEF IInv, StackOK
  <2>3. Kind(top) = "alloc" /\ top.ps = BASE_PAGE
    BY <1>b, <1>e, <2>2 DEF WaitsFor, MovesBase
  <2>4. WaitsForArray(2)
    BY <1>c, <2>1 DEF Growing
  <2> QED BY <1>b, <1>e, <2>2, <2>3, <2>4 DEF WaitsForArray
<1>f. ASSUME stack # <<>>, Len(stack) >= 2
      PROVE  WaitsFor(stack[2], stack[1]) /\ stack[2] \in Frame
  <2>1. 2 \in 2 .. Len(stack)
    BY <1>b, <1>f
  <2> QED BY <1>b, <2>1 DEF IInv, StackOK
<1>1. CASE AllocFit
  <2>1. stack # <<>> /\ top.pc = "alloc" /\ UNCHANGED <<usedBasePages, buf, topLevel>>
    BY <1>1, AllocFitDoes
  <2>2. PICK i \in DOMAIN memory[top.ps] :
              /\ memory[top.ps][i].numberOfPages >= top.n
              /\ memory' = [memory EXCEPT ![top.ps] = decreasePages(@, top.ps, i, top.n)]
    BY <1>1, AllocFitDoes
  <2>3. PICK v \in Seq(PagedMemory) : Return(v) /\ Len(v) = 1 /\ v[1].numberOfPages = top.n
    BY <1>1, AllocFitDoes
  <2>4. CASE Len(stack) = 1
    <3>1. stack' = <<>>
      BY <2>3, <2>4, AfterLastReturn
    <3> QED BY <3>1 DEF Growing, GetsLargerArray
  <2>5. CASE Len(stack) # 1
    <3>0. Len(stack) >= 2
      <4>1. Len(stack) \in Nat /\ Len(stack) >= 1
        BY <2>1, <1>b, HeadTail
      <4> QED BY <2>5, <4>1, TwoOrMore, Zenon
    <3>1. /\ stack' \in Seq(Frame) /\ Len(stack') = Len(stack) - 1 /\ stack' # <<>>
          /\ stack'[1].pc = stack[2].pc /\ stack'[1].ps = stack[2].ps
          /\ stack'[1].got = v
          /\ \A d \in 2 .. Len(stack) - 1 : stack'[d] = stack[d + 1]
      BY <2>3, <3>0, AfterReturn
    <3>2. CASE MovesBase(stack[2])
      <4>1. top.ps = BASE_PAGE /\ top.n = LargerArray
        BY <2>1, <3>0, <3>2, <1>e
      <4>2. LargerArray' = LargerArray /\ LargerArray \in Nat
        <5>1. usedBasePages[BASE_PAGE] \in Nat
          BY PageSizeFacts DEF IInv, TypeOK
        <5>2. usedBasePages' = usedBasePages
          BY <2>1
        <5> QED BY <5>1, <5>2 DEF LargerArray
      <4>3. ~NoRunOf(LargerArray)
        <5>1. i \in DOMAIN memory[BASE_PAGE] /\ memory[BASE_PAGE][i].numberOfPages >= LargerArray
          BY <2>2, <4>1
        <5>2. memory[BASE_PAGE] \in Seq(PagedMemory)
          BY PageSizeFacts DEF IInv, TypeOK
        <5>3. memory[BASE_PAGE][i] \in PagedMemory
          BY <5>1, <5>2
        <5>4. memory[BASE_PAGE][i].numberOfPages \in Nat
          BY <5>3 DEF PagedMemory
        <5>5. ~(memory[BASE_PAGE][i].numberOfPages < LargerArray)
          BY <5>1, <5>4, <4>2
        <5> QED BY <5>1, <5>5 DEF NoRunOf
      <4>4. ASSUME NEW d \in 3 .. Len(stack), MovesBase(stack[d]) PROVE FALSE
        <5>1. d \in 2 .. Len(stack) /\ d \in Nat /\ d >= 3 /\ d - 1 \in 2 .. Len(stack)
          BY <1>b, <2>1
        <5>2. WaitsForArray(d)
          BY <1>c, <5>1 DEF Growing
        <5>3. stack[d - 1].pc = "alloc"
          BY <4>3, <4>4, <5>2 DEF WaitsForArray
        <5>4. WaitsFor(stack[d - 1], stack[d - 1 - 1])
          BY <5>1 DEF IInv, StackOK
        <5> QED BY <5>3, <5>4 DEF WaitsFor
      <4>5. ASSUME NEW d \in 2 .. Len(stack') PROVE ~MovesBase(stack'[d])
        <5>1. d + 1 \in 3 .. Len(stack) /\ stack'[d] = stack[d + 1]
          BY <1>b, <2>1, <3>1
        <5> QED BY <4>4, <5>1
      <4>6. GetsLargerArray'
        <5>1. stack'[1].got[1].numberOfPages = LargerArray'
          BY <2>3, <3>1, <4>1, <4>2
        <5> QED BY <4>5, <5>1 DEF GetsLargerArray, MovesBase
      <4>7. \A d \in 2 .. Len(stack') : WaitsForArray(d)'
        BY <4>5 DEF WaitsForArray, MovesBase
      <4> QED BY <4>6, <4>7 DEF Growing
    <3>3. CASE ~MovesBase(stack[2]) /\ top.ps = BASE_PAGE
      <4>1. WaitsFor(stack[2], stack[1]) /\ stack[2] \in Frame
        BY <2>1, <3>0, <1>f
      <4>2. Kind(stack[1]) = "alloc" /\ stack[1].ps = BASE_PAGE
        BY <1>b, <2>1, <3>3 DEF Kind
      <4>3. stack[2].ps \in PageSizes /\ toLargerPageSize(stack[2].ps) # BASE_PAGE
        <5>1. stack[2].ps \in PageSizes /\ stack[2].ps \in Nat \ {0}
          BY <4>1, PageSizeFacts DEF Frame
        <5>2. ENTRIES \in Nat /\ ENTRIES >= 2
          BY SizesAssumption
        <5>3. \A p \in Nat \ {0} : p * ENTRIES # 1
          BY <5>2
        <5> QED BY <5>1, <5>3 DEF toLargerPageSize, BASE_PAGE
      <4>4. stack[2].pc = "grow"
        <5>1. stack[2].pc \in Labels
          BY <4>1 DEF Frame
        <5> QED BY <4>1, <4>2, <4>3, <5>1 DEF WaitsFor, Labels
      <4>5. OtherMoves'
        BY <3>1, <3>3, <4>4 DEF OtherMoves, MovesBase
      <4> QED BY <4>5
    <3>4. CASE ~MovesBase(stack[2]) /\ top.ps # BASE_PAGE
      <4>1. BaseKept
        <5>1. memory \in [PageSizes -> Seq(PagedMemory)] /\ BASE_PAGE \in PageSizes
          BY PageSizeFacts DEF IInv, TypeOK
        <5>2. memory'[BASE_PAGE] = memory[BASE_PAGE]
          BY <2>2, <3>4, <5>1
        <5> QED BY <2>1, <5>2 DEF BaseKept
      <4>2. stack[2].pc # "return"
        <5>1. WaitsFor(stack[2], stack[1])
          BY <2>1, <3>0, <1>f
        <5>2. Kind(stack[1]) = "alloc"
          BY <1>b, <2>1 DEF Kind
        <5> QED BY <5>1, <5>2 DEF WaitsFor
      <4> QED BY <1>c, <2>1, <2>3, <3>4, <4>1, <4>2, GrowingReturn
    <3> QED BY <3>2, <3>3, <3>4
  <2> QED BY <2>4, <2>5
<1>2. CASE AllocFromLarger
  <2>1. /\ stack # <<>> /\ top.pc = "alloc" /\ UNCHANGED <<managers, result, topLevel>>
        /\ FirstFit(top.n, top.ps) = {}
    BY <1>2, AllocFromLargerDoes
  <2>2. PICK f, g \in Frame : Call(g, f) /\ f.pc = "split" /\ SameFrame(f, top) /\ g.pc = "alloc"
    BY <1>2, AllocFromLargerDoes
  <2>3. top.ps = BASE_PAGE => NoRunOf(top.n)
    BY <2>1, TopFacts, NoFit
  <2>4. ~MovesBase(f) /\ ~MovesBase(g) /\ f.pc # "return"
    BY <2>2 DEF MovesBase
  <2> QED BY <1>c, <1>d, <2>1, <2>2, <2>3, <2>4, GrowingCall DEF SameFrame
<1>3. CASE AllocSplit
  <2>1. /\ stack # <<>> /\ top.pc = "split" /\ UNCHANGED <<managers, result, topLevel>>
    BY <1>3, AllocSplitDoes
  <2>2. PICK f, g \in Frame :
              /\ Call(g, f) /\ f.pc = "return" /\ f.ps = top.ps /\ f.n = top.n
              /\ Len(f.pages) = 1 /\ g.pc = "free" /\ g.ps = top.ps /\ g.pages # <<>>
    BY <1>3, AllocSplitDoes
  <2>3. ~MovesBase(f) /\ ~MovesBase(g) /\ f.pages # <<>>
    <3>1. f.pages \in Seq(PagedMemory)
      BY DEF Frame
    <3>2. f.pages # <<>>
      BY <2>2, <3>1
    <3> QED BY <2>2, <3>2 DEF MovesBase
  <2> QED BY <1>c, <1>d, <2>1, <2>2, <2>3, GrowingCall
<1>4. CASE AllocReturn
  <2>1. /\ stack # <<>> /\ top.pc = "return" /\ Return(top.pages)
        /\ top.pages \in Seq(PagedMemory) /\ UNCHANGED <<managers, topLevel>>
    BY <1>4, AllocReturnDoes
  <2>2. Len(stack) >= 2 => ~MovesBase(stack[2])
    BY <1>e, <2>1
  <2>3. Len(stack) >= 2 => stack[2].pc # "return"
    <3>1. Kind(stack[1]) = "alloc"
      BY <1>b, <2>1 DEF Kind
    <3> QED BY <1>f, <2>1, <3>1 DEF WaitsFor
  <2> QED BY <1>c, <1>d, <2>1, <2>2, <2>3, GrowingReturn
<1>5. CASE FreeStore
  <2>1. /\ stack # <<>> /\ top.pc = "free" /\ Len(memory[top.ps]) < cap(top.ps)
        /\ memory' = [memory EXCEPT ![top.ps] = Append(@, Head(top.pages))]
        /\ UNCHANGED <<usedBasePages, buf, result, topLevel>>
    BY <1>5, FreeStoreDoes
  <2>2. PICK f \in Frame : Goto(f) /\ f.pc = "free" /\ f.ps = top.ps /\ f.n = top.n
    BY <1>5, FreeStoreDoes
  <2>3. CASE top.ps = BASE_PAGE
    <3>1. ~BaseFull
      <4>1. Len(memory[BASE_PAGE]) \in Nat /\ cap(BASE_PAGE) \in Nat
        BY RoomIsCount, PageSizeFacts
      <4>2. Len(memory[BASE_PAGE]) < cap(BASE_PAGE)
        BY <2>1, <2>3
      <4> HIDE DEF cap
      <4>3. ~(Len(memory[BASE_PAGE]) >= cap(BASE_PAGE))
        BY ONLY <4>1, <4>2
      <4> QED BY <4>3 DEF BaseFull
    <3>2. \A d \in 2 .. Len(stack) : ~MovesBase(stack[d])
      BY <1>c, <3>1 DEF Growing, WaitsForArray
    <3>3. ~MovesBase(f)
      BY <2>2 DEF MovesBase
    <3> QED BY <2>1, <2>2, <3>2, <3>3, GrowingGoto
  <2>4. CASE top.ps # BASE_PAGE
    <3>1. memory \in [PageSizes -> Seq(PagedMemory)] /\ BASE_PAGE \in PageSizes
      BY PageSizeFacts DEF IInv, TypeOK
    <3>2. memory'[BASE_PAGE] = memory[BASE_PAGE]
      BY <2>1, <2>4, <3>1
    <3>3. BaseKept
      BY <2>1, <3>2 DEF BaseKept
    <3> QED BY <1>c, <2>1, <2>2, <2>4, <3>3, GrowingElsewhere
  <2> QED BY <2>3, <2>4
<1>6. CASE FreeFull
  <2>1. /\ stack # <<>> /\ top.pc = "free" /\ UNCHANGED <<managers, result, topLevel>>
        /\ Len(memory[top.ps]) >= cap(top.ps)
    BY <1>6, FreeFullDoes
  <2>2. PICK f, g \in Frame :
              /\ Call(g, f) /\ f.pc = "grow" /\ SameFrame(f, top)
              /\ g.pc = "alloc" /\ g.ps = BASE_PAGE /\ g.n = usedBasePages[top.ps] + 1
    BY <1>6, FreeFullDoes
  <2>3. MovesBase(f) => g.n = LargerArray /\ BaseFull
    BY <2>1, <2>2 DEF MovesBase, SameFrame, LargerArray, BaseFull
  <2>4. ~MovesBase(g) /\ f.pc # "return"
    BY <2>2 DEF MovesBase
  <2> QED BY <1>c, <1>d, <2>1, <2>2, <2>3, <2>4, GrowingCall DEF SameFrame
<1>7. CASE FreeGrow
  <2>1. stack # <<>> /\ top.pc = "grow"
    BY <1>7, FreeGrowDoes
  <2>2. PICK f \in Frame : Goto(f) /\ f.pc = "free"
    BY <1>7, FreeGrowDoes
  <2>3. top.ps = BASE_PAGE
    BY <1>7, <2>1, CountsGrow DEF At
  <2>4. \A d \in 2 .. Len(stack) : ~MovesBase(stack[d])
    BY <1>b, <1>c, <2>1, <2>3 DEF Growing, GetsLargerArray, MovesBase
  <2>5. ~MovesBase(f)
    BY <2>2 DEF MovesBase
  <2> QED BY <2>1, <2>2, <2>4, <2>5, GrowingGoto
<1>8. CASE FreeReturn
  <2>1. /\ stack # <<>> /\ top.pc = "free" /\ top.pages = <<>>
        /\ Return(<<>>) /\ UNCHANGED <<managers, topLevel>> /\ <<>> \in Seq(PagedMemory)
    BY <1>8, FreeReturnDoes
  <2>2. Len(stack) >= 2 => ~MovesBase(stack[2])
    <3>1. Kind(top) # "alloc"
      BY <2>1 DEF Kind
    <3> QED BY <1>e, <2>1, <3>1
  <2> QED BY <1>c, <1>d, <2>1, <2>2, GrowingReturn
<1>9. CASE GatherOverrun
  <2>1. stack' = <<>>
    BY <1>9 DEF GatherOverrun, Stop
  <2> QED BY <2>1 DEF Growing, GetsLargerArray
<1>10. CASE GatherStep /\ ~GatherOverrun
  <2>1. stack # <<>> /\ Kind(top) = "gather"
    BY <1>10, GatherDoes
  <2>2. \A d \in DOMAIN stack : Kind(stack[d]) = "gather"
    BY <2>1, GatherReady DEF StackGood
  <2>3. \A d \in DOMAIN stack : stack[d].pc # "grow"
    BY <2>2 DEF Kind
  <2>4. /\ Len(stack) \in Nat /\ Len(stack) >= 1 /\ DOMAIN stack = 1 .. Len(stack)
    BY <1>b, <2>1, HeadTail
  <2>5. CASE \E f \in Frame : Goto(f) /\ Kind(f) = "gather" /\ UNCHANGED result
    <3>1. PICK f \in Frame : Goto(f) /\ Kind(f) = "gather"
      BY <2>5
    <3>2. ~MovesBase(f)
      BY <3>1 DEF Kind, MovesBase
    <3>3. \A d \in 2 .. Len(stack) : ~MovesBase(stack[d])
      BY <2>3, <2>4 DEF MovesBase
    <3> QED BY <2>1, <3>1, <3>2, <3>3, GrowingGoto
  <2>6. CASE \E v \in Seq(PagedMemory) : Return(v)
    <3>1. PICK v \in Seq(PagedMemory) : Return(v)
      BY <2>6
    <3>2. CASE Len(stack) = 1
      <4>1. stack' = <<>>
        BY <3>1, <3>2, AfterLastReturn
      <4> QED BY <4>1 DEF Growing, GetsLargerArray
    <3>3. CASE Len(stack) # 1
      <4>0. Len(stack) >= 2
        BY <2>4, <3>3, TwoOrMore, Zenon
      <4>1. /\ stack' \in Seq(Frame) /\ Len(stack') = Len(stack) - 1
            /\ stack'[1].pc = stack[2].pc
            /\ \A d \in 2 .. Len(stack) - 1 : stack'[d] = stack[d + 1]
        BY <3>1, <4>0, AfterReturn
      <4>2. ASSUME NEW d \in DOMAIN stack' PROVE stack'[d].pc # "grow"
        <5>1. d + 1 \in DOMAIN stack /\ stack'[d].pc = stack[d + 1].pc
          <6>1. CASE d = 1
            BY <2>4, <4>0, <4>1, <6>1
          <6>2. CASE d # 1
            <7>1. d \in 2 .. Len(stack) - 1 /\ d + 1 \in DOMAIN stack
              BY <2>4, <4>1, <6>2
            <7> QED BY <4>1, <7>1
          <6> QED BY <6>1, <6>2
        <5> QED BY <2>3, <5>1
      <4> QED BY <4>1, <4>2, NoneMoves DEF MovesBase
    <3> QED BY <3>2, <3>3
  <2>7. CASE \E f, g \in Frame : /\ Call(g, f) /\ Kind(f) = "gather"
                                 /\ g.pc \in {"gather", "free"} /\ UNCHANGED result
    <3>1. PICK f, g \in Frame : Call(g, f) /\ Kind(f) = "gather" /\ g.pc \in {"gather", "free"}
      BY <2>7
    <3>2. /\ stack' \in Seq(Frame) /\ Len(stack') = Len(stack) + 1
          /\ stack'[1] = g /\ stack'[2] = f
          /\ \A d \in 3 .. Len(stack) + 1 : stack'[d] = stack[d - 1]
      BY <2>1, <3>1, AfterCall
    <3>3. f.pc # "grow" /\ g.pc # "grow"
      BY <3>1 DEF Kind
    <3>4. ASSUME NEW d \in DOMAIN stack' PROVE stack'[d].pc # "grow"
      <4>1. CASE d \in {1, 2}
        BY <3>2, <3>3, <4>1
      <4>2. CASE d \notin {1, 2}
        <5>1. d \in 3 .. Len(stack) + 1 /\ d - 1 \in DOMAIN stack
          BY <2>4, <3>2, <4>2
        <5>2. stack'[d] = stack[d - 1]
          BY <3>2, <5>1
        <5> QED BY <2>3, <5>1, <5>2
      <4> QED BY <4>1, <4>2
    <3> QED BY <3>2, <3>4, NoneMoves DEF MovesBase
  <2> QED BY <1>10, <2>5, <2>6, <2>7, GatherDoes
<1> QED BY <1>1, <1>2, <1>3, <1>4, <1>5, <1>6, <1>7, <1>8, <1>9, <1>10
        DEF AllocStep, FreeStep
\* The list of a manager that is ready is stored in an array of the right size,
\* which stays so while only the list changes.
LEMMA ArraysSame ==
  ASSUME IInv, UNCHANGED <<usedBasePages, buf, phase, pageSize>>, ~Stopped,
         \A ps \in PageSizes : ArrayOf(ps),
         \A ps \in PageSizes : Unready(ps) => memory'[ps] = memory[ps]
  PROVE  \A ps \in PageSizes : ArrayOf(ps)'
<1>1. ASSUME NEW ps \in PageSizes PROVE ArrayOf(ps)'
  <2>1. CASE buf[ps].numberOfPages = usedBasePages[ps]
    BY <2>1 DEF ArrayOf
  <2>2. CASE buf[ps].numberOfPages # usedBasePages[ps]
    <3>1. memory[ps] = <<>> /\ buf[ps] = Run(0, 0) /\ Unready(ps)
      BY <2>2 DEF ArrayOf
    <3> QED BY <3>1 DEF ArrayOf, Unready, Run
  <2> QED BY <2>1, <2>2
<1> QED BY <1>1

LEMMA CallsArrays ==
  ASSUME IInv, StackGood, UnreadyEmpty, ArraysCounted, Arrays, Next,
         AllocStep \/ FreeStep \/ GatherStep
  PROVE  Arrays'
<1> SUFFICES ASSUME OnlyBaseGrew' PROVE \A ps \in PageSizes : ArrayOf(ps)'
  BY CallsGrowing DEF Arrays
<1>1. OnlyBaseGrew /\ (\A ps \in PageSizes : ArrayOf(ps)) /\ (OtherMoves \/ Growing)
  BY CountsGrow DEF Arrays
<1>2. stack # <<>>
  BY AllocFitDoes, AllocFromLargerDoes, AllocSplitDoes, AllocReturnDoes, FreeStoreDoes,
     FreeFullDoes, FreeGrowDoes, FreeReturnDoes
     DEF AllocStep, FreeStep, GatherStep, GatherWhole, GatherLast,
         GatherOverrun, GatherFromLarger, GatherConvert, At
<1>3. ~Stopped
  BY <1>2 DEF IInv, TopLevelOK, BottomOK, Stopped
<1>4. top.ps \in PageSizes /\ memory \in [PageSizes -> Seq(PagedMemory)] /\ top = stack[1]
  BY <1>2, TopFacts DEF IInv, TypeOK
<1>t. topLevel' = topLevel => UNCHANGED <<phase, pageSize>>
  BY DEF topLevel
<1>5. CASE AllocFit
  <2>1. UNCHANGED <<usedBasePages, buf, topLevel>>
    BY <1>5, AllocFitDoes
  <2>2. PICK i \in DOMAIN memory[top.ps] :
              memory' = [memory EXCEPT ![top.ps] = decreasePages(@, top.ps, i, top.n)]
    BY <1>5, AllocFitDoes
  <2>3. ~Unready(top.ps)
    <3>1. memory[top.ps] # <<>>
      OBVIOUS
    <3> QED BY <1>2, <3>1, TopReady
  <2>4. \A ps \in PageSizes : ps # top.ps => memory'[ps] = memory[ps]
    BY <1>4, <2>2
  <2> QED BY <1>1, <1>3, <1>t, <2>1, <2>3, <2>4, ArraysSame
<1>6. CASE AllocFromLarger \/ AllocSplit \/ AllocReturn \/ FreeFull \/ FreeReturn
  <2>1. UNCHANGED <<managers, topLevel>>
    BY <1>6, AllocFromLargerDoes, AllocSplitDoes, AllocReturnDoes, FreeFullDoes, FreeReturnDoes
  <2> QED BY <1>1, <1>3, <1>t, <2>1, ArraysSame DEF managers
<1>7. CASE FreeStore
  <2>1. /\ top.pc = "free" /\ UNCHANGED <<usedBasePages, buf, topLevel>>
        /\ memory' = [memory EXCEPT ![top.ps] = Append(@, Head(top.pages))]
    BY <1>7, FreeStoreDoes
  <2>2. ~Unready(top.ps)
    BY <1>2, <2>1, TopReady
  <2>3. \A ps \in PageSizes : ps # top.ps => memory'[ps] = memory[ps]
    BY <1>4, <2>1
  <2> QED BY <1>1, <1>3, <1>t, <2>1, <2>2, <2>3, ArraysSame
<1>8. CASE FreeGrow
  <2>1. /\ top.pc = "grow" /\ UNCHANGED topLevel
        /\ buf' = [buf EXCEPT ![top.ps] = top.got[1]]
        /\ usedBasePages' = [usedBasePages EXCEPT ![top.ps] = @ + 1]
        /\ \E old, new \in PagedMemory : memory' = [memory EXCEPT ![top.ps] = @ \o <<old, new>>]
    BY <1>8, FreeGrowDoes
  <2>2. top.ps = BASE_PAGE
    BY <1>2, <1>8, <2>1, CountsGrow DEF At
  <2>3. top.got[1].numberOfPages = usedBasePages[BASE_PAGE] + 1
    BY <1>1, <1>2, <1>4, <2>1, <2>2 DEF OtherMoves, Growing, GetsLargerArray, MovesBase, LargerArray
  <2>4. buf \in [PageSizes -> PagedMemory] /\ usedBasePages \in [PageSizes -> Nat]
    BY DEF IInv, TypeOK
  <2>5. buf'[BASE_PAGE].numberOfPages = usedBasePages'[BASE_PAGE]
    BY <1>4, <2>1, <2>2, <2>3, <2>4
  <2>6. \A ps \in PageSizes : ps # BASE_PAGE =>
          memory'[ps] = memory[ps] /\ buf'[ps] = buf[ps] /\ usedBasePages'[ps] = usedBasePages[ps]
    BY <1>4, <2>1, <2>2, <2>4
  <2>7. ASSUME NEW ps \in PageSizes PROVE ArrayOf(ps)'
    <3>1. CASE ps = BASE_PAGE
      BY <2>5, <3>1 DEF ArrayOf
    <3>2. CASE ps # BASE_PAGE
      BY <1>1, <1>t, <2>1, <2>6, <3>2 DEF ArrayOf, Unready, Stopped, Run
    <3> QED BY <3>1, <3>2
  <2> QED BY <2>7
<1>9. CASE GatherOverrun
  <2>1. UNCHANGED managers /\ phase' = "overrun"
    BY <1>9 DEF GatherOverrun, Stop
  <2> QED BY <1>1, <2>1 DEF ArrayOf, Stopped, managers, Run
<1>10. CASE GatherStep /\ ~GatherOverrun
  <2>1. Kind(top) = "gather" /\ UNCHANGED <<usedBasePages, buf, topLevel>>
    BY <1>10, GatherDoes
  <2>2. phase = "waiting"
    BY <1>2, <2>1, GatherReady DEF StackGood
  <2>3. \A ps : ~Unready(ps)
    BY <2>2 DEF Unready
  <2> QED BY <1>1, <1>3, <1>t, <2>1, <2>3, ArraysSame
<1> QED BY <1>5, <1>6, <1>7, <1>8, <1>9, <1>10 DEF AllocStep, FreeStep
-----------------------------------------------------------------------------
(* The steps of the top level *)

FirstArray == phase = "first" => usedBasePages = [ps \in PageSizes |-> 1]

\* The list, the array and the readiness of every manager.
Fitting == /\ UnreadyEmpty /\ ListsFit
           /\ OnlyBaseGrew => \A ps \in PageSizes : ArrayOf(ps)

\* Calls the top level has just made.
LEMMA FreshStack ==
  ASSUME stack' \in Seq(Frame),
         \A d \in DOMAIN stack' :
           \/ stack'[d].pc = "alloc"
           \/ /\ stack'[d].pc = "free" \/ (stack'[d].pc = "gather" /\ Len(stack') = 1)
              /\ ~Unready(stack[d].ps)'
  PROVE  StackGood' /\ Growing'
<1>1. Len(stack') \in Nat /\ DOMAIN stack' = 1 .. Len(stack')
  OBVIOUS
<1>2. stack' # <<>> => 1 \in DOMAIN stack'
  BY <1>1
<1>3. GatherBelow'
  <2>1. ASSUME NEW d \in DOMAIN stack', NEW e \in DOMAIN stack', d < e,
               Kind(stack'[d]) = "gather"
        PROVE  Kind(stack'[e]) = "gather"
    <3>1. stack'[d].pc # "alloc" /\ stack'[d].pc # "free"
      BY <2>1 DEF Kind
    <3>2. Len(stack') = 1
      BY <3>1
    <3> QED BY <1>1, <2>1, <3>2
  <2> QED BY <2>1 DEF GatherBelow, Kind
<1>4. FramesGood'
  <2>1. ASSUME NEW d \in DOMAIN stack' PROVE FrameGood(stack[d])'
    <3>1. stack'[d].pc # "return" /\ (Unready(stack[d].ps)' => stack'[d].pc = "alloc")
      OBVIOUS
    <3> QED BY <3>1 DEF FrameGood
  <2> QED BY <2>1 DEF FramesGood
<1>5. TopGood'
  BY <1>2 DEF TopGood
<1>6. Growing'
  <2>1. \A d \in DOMAIN stack' : ~MovesBase(stack'[d])
    BY DEF MovesBase
  <2> QED BY <2>1, NoneMoves
<1> QED BY <1>3, <1>4, <1>5, <1>6 DEF StackGood

LEMMA NoCalls ==
  ASSUME stack' = <<>>
  PROVE  StackGood' /\ Growing'
<1>1. stack' \in Seq(Frame) /\ DOMAIN stack' = {}
  OBVIOUS
<1> QED BY <1>1, FreshStack

LEMMA OneCall ==
  ASSUME NEW f \in Frame, stack' = <<f>>,
         \/ f.pc = "alloc"
         \/ f.pc \in {"free", "gather"} /\ ~Unready(stack[1].ps)'
  PROVE  StackGood' /\ Growing'
<1>1. stack' \in Seq(Frame) /\ Len(stack') = 1 /\ stack'[1] = f /\ DOMAIN stack' = {1}
  OBVIOUS
<1> QED BY <1>1, FreshStack

\* The managers are left as they are and no manager becomes ready.
LEMMA FittingSame ==
  ASSUME Fitting, UNCHANGED managers, ~Stopped,
         \A ps \in PageSizes : Unready(ps)' <=> Unready(ps)
  PROVE  Fitting'
<1>1. UNCHANGED <<memory, usedBasePages, buf>> /\ (OnlyBaseGrew' <=> OnlyBaseGrew)
  BY DEF managers, OnlyBaseGrew
<1>2. UnreadyEmpty' /\ ListsFit'
  BY <1>1 DEF Fitting, UnreadyEmpty, ListsFit, cap, Run
<1>3. ASSUME OnlyBaseGrew, NEW ps \in PageSizes PROVE ArrayOf(ps)'
  BY <1>1, <1>3 DEF Fitting, ArrayOf, Run
<1> QED BY <1>1, <1>2, <1>3 DEF Fitting

LEMMA StopFitting ==
  ASSUME Fitting, NEW reason \in {"fault", "overrun"}, Stop(reason)
  PROVE  Fitting' /\ StackGood' /\ Growing' /\ OneFrameAsked' /\ FirstArray'
<1>1. /\ UNCHANGED <<memory, usedBasePages, buf>> /\ (OnlyBaseGrew' <=> OnlyBaseGrew)
      /\ stack' = <<>> /\ phase' = reason
  BY DEF Stop, managers, OnlyBaseGrew
<1>2. (\A ps : ~Unready(ps)') /\ Stopped'
  BY <1>1 DEF Unready, Stopped
<1>3. UnreadyEmpty' /\ ListsFit'
  BY <1>1, <1>2 DEF Fitting, UnreadyEmpty, ListsFit, cap
<1>4. ASSUME OnlyBaseGrew, NEW ps \in PageSizes PROVE ArrayOf(ps)'
  BY <1>1, <1>2, <1>4 DEF Fitting, ArrayOf, Run
<1>5. OneFrameAsked' /\ FirstArray'
  BY <1>1 DEF OneFrameAsked, FirstArray
<1> QED BY <1>1, <1>3, <1>4, <1>5, NoCalls DEF Fitting

\* One turn of initPMM's loop.
LEMMA PromoteDoes ==
  ASSUME IInv, Promote
  PROVE  /\ stack = <<>> /\ phase = "promote" /\ pageSize \in {LARGE_PAGE, HUGE_PAGE}
         /\ UNCHANGED <<usedBasePages, buf, phase, pageSize>> /\ stack' \in Seq(Frame)
         /\ \E list \in Seq(PagedMemory) :
              /\ memory' = [memory EXCEPT ![toSmallerPageSize(pageSize)] = list]
              /\ Len(list) <= Len(memory[toSmallerPageSize(pageSize)])
         /\ \A d \in DOMAIN stack' :
              /\ stack'[d].pc = "free"
              /\ stack'[d].ps = pageSize \/ stack'[d].ps = toSmallerPageSize(pageSize)
<1> DEFINE smaller   == toSmallerPageSize(pageSize)
           run       == memory[smaller][index]
           boundary  == AlignUp(run.pageStart, pageSize)
           moved     == (boundary - run.pageStart) \div smaller
           fromAlign == run.numberOfPages - moved
           aligned   == AlignDown(fromAlign, ENTRIES)
           leftover  == fromAlign - aligned
           whole == <<Run(boundary, toLargerPages(aligned))>>
           rest == <<Run(boundary + aligned * smaller, leftover)>>
           f == Free(whole, pageSize)
           g == Free(rest, smaller)
           promotes == run.numberOfPages >= ENTRIES /\ fromAlign >= ENTRIES
<1>1. /\ stack = <<>> /\ phase = "promote" /\ index <= Len(memory[smaller])
      /\ UNCHANGED <<usedBasePages, buf, phase, pageSize>>
  BY DEF Promote, Idle
<1>2. /\ promotes => /\ memory' = [memory EXCEPT ![smaller] =
                                      decreasePages(@, smaller, index, fromAlign)]
                     /\ stack' = <<f>> \o IF leftover > 0 THEN <<g>> ELSE <<>>
      /\ ~promotes => UNCHANGED <<memory, stack>>
  BY DEF Promote
<1>3. index \in Nat /\ index >= 1 /\ pageSize \in {LARGE_PAGE, HUGE_PAGE}
  BY <1>1 DEF IInv, TypeOK, TopLevelOK
<1>4. /\ smaller \in PageSizes /\ smaller \in Nat \ {0} /\ pageSize \in PageSizes
      /\ pageSize \in Nat \ {0}
  BY <1>3, PromotedSize
<1>5. /\ memory[smaller] \in Seq(PagedMemory) /\ index \in DOMAIN memory[smaller]
      /\ memory \in [PageSizes -> Seq(PagedMemory)]
  <2>1. memory[smaller] \in Seq(PagedMemory) /\ memory \in [PageSizes -> Seq(PagedMemory)]
    BY <1>4 DEF IInv, TypeOK
  <2> QED BY <1>1, <1>3, <2>1
<1>6. run.pageStart \in Nat /\ run.numberOfPages \in Nat
  <2>1. run \in PagedMemory
    BY <1>5
  <2> QED BY <2>1 DEF PagedMemory
<1>7. stack' \in Seq(Frame)
  BY PromoteKeeps DEF IInv, StackOK
<1>8. run = memory[smaller][index]
  OBVIOUS
<1> HIDE DEF smaller, run
<1>9. moved \in Nat
  <2> DEFINE c == CeilingDiv(run.pageStart, pageSize)
  <2>1. c \in Nat /\ run.pageStart <= pageSize * c
    BY <1>4, <1>6, CeilingFacts
  <2>2. boundary = pageSize * c
    BY DEF AlignUp
  <2> HIDE DEF c, boundary
  <2>3. boundary - run.pageStart \in Nat
    BY <1>4, <1>6, <2>1, <2>2
  <2> QED BY <1>4, <2>3, DivFacts
<1> HIDE DEF moved
<1>10. CASE promotes
  <2>1. fromAlign \in Nat /\ fromAlign <= run.numberOfPages
    BY <1>6, <1>9, <1>10, PageSizeFacts
  <2> HIDE DEF fromAlign
  <2> DEFINE list == decreasePages(memory[smaller], smaller, index, fromAlign)
  <2>2. list \in Seq(PagedMemory) /\ Len(list) <= Len(memory[smaller])
    BY <1>4, <1>5, <1>8, <2>1, DecreaseLen
  <2>3. memory' = [memory EXCEPT ![smaller] = list]
    BY <1>2, <1>10
  <2> HIDE DEF list
  <2>4. /\ f.pc = "free" /\ f.ps = pageSize /\ g.pc = "free" /\ g.ps = smaller
    BY DEF Free
  <2> HIDE DEF f, g, leftover
  <2>5. stack' = <<f>> \o <<g>> \/ stack' = <<f>> \o <<>>
    BY <1>2, <1>10, Zenon
  <2>6. \A d \in DOMAIN stack' : stack'[d] = f \/ stack'[d] = g
    <3>1. CASE stack' = <<f>> \o <<g>>
      BY <3>1
    <3>2. CASE stack' = <<f>> \o <<>>
      BY <3>2
    <3> QED BY <2>5, <3>1, <3>2
  <2>7. \A d \in DOMAIN stack' :
          stack'[d].pc = "free" /\ (stack'[d].ps = pageSize \/ stack'[d].ps = smaller)
    BY <2>4, <2>6
  <2> QED BY <1>1, <1>3, <1>7, <2>2, <2>3, <2>7 DEF smaller
<1>11. CASE ~promotes
  <2>1. UNCHANGED <<memory, stack>>
    BY <1>2, <1>11
  <2>2. DOMAIN stack' = {}
    BY <1>1, <2>1
  <2>3. memory' = [memory EXCEPT ![smaller] = memory[smaller]]
    BY <1>4, <1>5, <2>1
  <2>4. Len(memory[smaller]) <= Len(memory[smaller])
    BY <1>5
  <2> QED BY <1>1, <1>3, <1>5, <1>7, <2>2, <2>3, <2>4 DEF smaller
<1> QED BY <1>10, <1>11
\* The page sizes whose managers are not ready, phase by phase.
LEMMA UnreadyWhen ==
  ASSUME NEW p \in PageSizes, NEW ps \in PageSizes
  PROVE  /\ p # BASE_PAGE <=> p >= LARGE_PAGE
         /\ p >= HUGE_PAGE <=> p > LARGE_PAGE
         /\ ~(p > HUGE_PAGE)
         /\ p >= ps <=> p > ps \/ p = ps
         /\ ~(BASE_PAGE >= LARGE_PAGE) /\ ~(BASE_PAGE >= HUGE_PAGE)
<1>1. /\ BASE_PAGE \in Nat /\ LARGE_PAGE \in Nat /\ HUGE_PAGE \in Nat
      /\ BASE_PAGE < LARGE_PAGE /\ LARGE_PAGE < HUGE_PAGE
  BY PageSizeFacts
<1>2. p \in {BASE_PAGE, LARGE_PAGE, HUGE_PAGE} /\ p \in Nat /\ ps \in Nat
  BY PageSizeFacts DEF PageSizes
<1> QED BY <1>1, <1>2

\* initPhysicalMemoryManager and initPMM.
LEMMA InitFits ==
  ASSUME IInv, Fitting, FirstArray, OneFrameAsked, InitStep
  PROVE  Fitting' /\ StackGood' /\ Growing' /\ OneFrameAsked' /\ FirstArray'
<1>a. /\ BASE_PAGE \in PageSizes /\ pageSize \in PageSizes /\ freeMemory \in Seq(PagedMemory)
      /\ memory \in [PageSizes -> Seq(PagedMemory)] /\ buf \in [PageSizes -> PagedMemory]
      /\ usedBasePages \in [PageSizes -> Nat] /\ holder \in PagedMemory
  BY PageSizeFacts DEF IInv, TypeOK
<1>b. ASSUME NEW pages \in Seq(PagedMemory)
      PROVE  /\ Free(pages, BASE_PAGE) \in Frame /\ Free(pages, BASE_PAGE).pc = "free"
             /\ Free(pages, BASE_PAGE).ps = BASE_PAGE
  BY <1>a, NewFrames DEF Free
<1>1. CASE InitFirst
  <2>1. PICK a : buf' = [buf EXCEPT ![BASE_PAGE] = Run(a, 1)]
    BY <1>1 DEF InitFirst
  <2>2. /\ phase = "first" /\ phase' = "collect" /\ stack' = <<>>
        /\ UNCHANGED <<memory, usedBasePages>>
    BY <1>1 DEF InitFirst, Idle
  <2>3. \A ps \in PageSizes : Unready(ps)' <=> ps # BASE_PAGE
    BY <2>2 DEF Unready
  <2>4. /\ buf'[BASE_PAGE].numberOfPages = 1
        /\ \A ps \in PageSizes : ps # BASE_PAGE => buf'[ps] = buf[ps]
    BY <1>a, <2>1 DEF Run
  <2>5. \A ps \in PageSizes : memory[ps] = <<>> /\ buf[ps] = Run(0, 0)
    BY <2>2 DEF Fitting, UnreadyEmpty, Unready
  <2>6. UnreadyEmpty'
    BY <2>2, <2>3, <2>4, <2>5 DEF UnreadyEmpty, Run
  <2>7. ListsFit'
    BY <2>2 DEF Fitting, ListsFit, cap
  <2>8. usedBasePages'[BASE_PAGE] = 1
    BY <1>a, <2>2 DEF FirstArray
  <2>9. ASSUME NEW ps \in PageSizes PROVE ArrayOf(ps)'
    <3>1. CASE ps = BASE_PAGE
      BY <2>4, <2>8, <3>1 DEF ArrayOf
    <3>2. CASE ps # BASE_PAGE
      <4>1. memory'[ps] = <<>> /\ buf'[ps] = Run(0, 0) /\ Unready(ps)'
        BY <2>2, <2>3, <2>4, <2>5, <3>2
      <4> QED BY <4>1 DEF ArrayOf, Run
    <3> QED BY <3>1, <3>2
  <2> QED BY <2>2, <2>6, <2>7, <2>9, NoCalls DEF Fitting, OneFrameAsked, FirstArray
<1>2. CASE InitFault
  BY <1>2, StopFitting DEF InitFault
<1>3. CASE InitCollect
  <2>1. /\ phase = "collect" /\ UNCHANGED <<managers, phase>>
        /\ stack' = <<>> \/ stack' = <<Free(freeMemory, BASE_PAGE)>>
    BY <1>3 DEF InitCollect, Idle
  <2>2. (\A ps \in PageSizes : Unready(ps)' <=> Unready(ps)) /\ ~Stopped
    BY <2>1 DEF Unready, Stopped
  <2>3. StackGood' /\ Growing'
    <3> DEFINE f == Free(freeMemory, BASE_PAGE)
    <3>1. f \in Frame /\ f.pc = "free" /\ f.ps = BASE_PAGE
      BY <1>a, <1>b
    <3> HIDE DEF f
    <3>2. CASE stack' = <<f>>
      <4>1. ~Unready(stack[1].ps)'
        BY <2>1, <3>1, <3>2 DEF Unready
      <4> QED BY <3>1, <3>2, <4>1, OneCall
    <3>3. CASE stack' = <<>>
      BY <3>3, NoCalls
    <3> QED BY <2>1, <3>2, <3>3 DEF f
  <2> QED BY <2>1, <2>2, <2>3, FittingSame DEF OneFrameAsked, FirstArray
<1>4. CASE InitFreeCollected
  <2>1. /\ phase = "collect" /\ phase' = "holder" /\ UNCHANGED managers
        /\ stack' = <<Free(freeMemory, BASE_PAGE)>>
    BY <1>4 DEF InitFreeCollected, Idle
  <2>2. (\A ps \in PageSizes : Unready(ps)' <=> Unready(ps)) /\ ~Stopped
    BY <2>1 DEF Unready, Stopped
  <2>3. StackGood' /\ Growing'
    <3> DEFINE f == Free(freeMemory, BASE_PAGE)
    <3>1. f \in Frame /\ f.pc = "free" /\ f.ps = BASE_PAGE /\ stack' = <<f>>
      BY <1>a, <1>b, <2>1
    <3> HIDE DEF f
    <3>2. ~Unready(stack[1].ps)'
      BY <2>1, <3>1 DEF Unready
    <3> QED BY <3>1, <3>2, OneCall
  <2> QED BY <2>1, <2>2, <2>3, FittingSame DEF OneFrameAsked, FirstArray
<1>5. CASE InitFreeHolder
  <2>1. /\ phase = "holder" /\ phase' = "initPMM" /\ UNCHANGED managers
        /\ pageSize' = LARGE_PAGE /\ stack' = <<Free(<<holder>>, BASE_PAGE)>>
    BY <1>5 DEF InitFreeHolder, Idle
  <2>2. (\A ps \in PageSizes : Unready(ps)' <=> Unready(ps)) /\ ~Stopped
    BY <2>1, UnreadyWhen DEF Unready, Stopped
  <2>3. StackGood' /\ Growing'
    <3> DEFINE f == Free(<<holder>>, BASE_PAGE)
    <3>1. <<holder>> \in Seq(PagedMemory)
      BY <1>a
    <3>2. f \in Frame /\ f.pc = "free" /\ f.ps = BASE_PAGE /\ stack' = <<f>>
      BY <3>1, <1>b, <2>1
    <3> HIDE DEF f
    <3>3. ~Unready(BASE_PAGE)'
      BY <1>a, <2>1, UnreadyWhen DEF Unready
    <3>4. stack'[1].ps = BASE_PAGE
      BY <3>2
    <3>5. ~Unready(stack[1].ps)'
      BY <3>3, <3>4 DEF Unready
    <3> QED BY <3>2, <3>5, OneCall
  <2> QED BY <2>1, <2>2, <2>3, FittingSame DEF OneFrameAsked, FirstArray
<1>6. CASE InitPMM
  <2>1. /\ phase = "initPMM" /\ phase' = "buffer" /\ UNCHANGED <<managers, pageSize>>
        /\ stack' = <<Alloc(usedBasePages[pageSize], BASE_PAGE)>>
    BY <1>6 DEF InitPMM, Idle
  <2>2. (\A ps \in PageSizes : Unready(ps)' <=> Unready(ps)) /\ ~Stopped
    BY <2>1 DEF Unready, Stopped
  <2> DEFINE f == Alloc(usedBasePages[pageSize], BASE_PAGE)
  <2>3. f \in Frame /\ f.pc = "alloc" /\ f.n = usedBasePages[pageSize] /\ stack' = <<f>>
    BY <1>a, <2>1, NewFrames DEF Alloc
  <2> HIDE DEF f
  <2>4. StackGood' /\ Growing'
    BY <2>3, OneCall
  <2>5. ASSUME OnlyBaseGrew' PROVE stack'[Len(stack')].n = 1 /\ stack' # <<>>
    <3>1. OnlyBaseGrew /\ pageSize \in {LARGE_PAGE, HUGE_PAGE}
      BY <2>1, <2>5 DEF OnlyBaseGrew, managers, IInv, TopLevelOK
    <3>2. usedBasePages[pageSize] = 1
      BY <3>1 DEF OnlyBaseGrew
    <3> QED BY <2>3, <3>2
  <2>6. OneFrameAsked'
    BY <2>5 DEF OneFrameAsked
  <2> QED BY <2>1, <2>2, <2>4, <2>6, FittingSame DEF FirstArray
<1>7. CASE InitBuffer
  <2>1. /\ stack = <<>> /\ phase = "buffer" /\ phase' = "promote" /\ stack' = <<>>
        /\ UNCHANGED <<memory, usedBasePages, pageSize>>
        /\ buf' = [buf EXCEPT ![pageSize] = result[1]]
    BY <1>7 DEF InitBuffer, Idle
  <2>2. ASSUME NEW ps \in PageSizes PROVE Unready(ps) <=> Unready(ps)' \/ ps = pageSize
    BY <1>a, <2>1, UnreadyWhen DEF Unready
  <2>3. ASSUME NEW ps \in PageSizes, Unready(ps)' PROVE ps # pageSize
    BY <1>a, <2>1, <2>3, PageSizeFacts DEF Unready
  <2>4. /\ buf'[pageSize] = result[1]
        /\ \A ps \in PageSizes : ps # pageSize => buf'[ps] = buf[ps]
    BY <1>a, <2>1
  <2>5. UnreadyEmpty'
    BY <2>1, <2>2, <2>3, <2>4 DEF Fitting, UnreadyEmpty, Run
  <2>6. ListsFit'
    BY <2>1 DEF Fitting, ListsFit, cap
  <2>7. ASSUME OnlyBaseGrew', NEW ps \in PageSizes PROVE ArrayOf(ps)'
    <3>1. OnlyBaseGrew /\ pageSize \in {LARGE_PAGE, HUGE_PAGE}
      BY <2>1, <2>7 DEF OnlyBaseGrew, IInv, TopLevelOK
    <3>2. CASE ps = pageSize
      <4>1. usedBasePages'[ps] = 1
        BY <2>1, <3>1, <3>2 DEF OnlyBaseGrew
      <4>2. result[1].numberOfPages = 1
        BY <2>1, <3>1 DEF OneFrameAsked
      <4> QED BY <2>4, <3>2, <4>1, <4>2 DEF ArrayOf
    <3>3. CASE ps # pageSize
      <4>1. ArrayOf(ps) /\ ~Stopped
        BY <2>1, <3>1 DEF Fitting, Stopped
      <4>2. Unready(ps)' <=> Unready(ps)
        BY <2>2, <3>3
      <4>3. buf'[ps] = buf[ps]
        BY <2>4, <3>3
      <4> QED BY <2>1, <4>1, <4>2, <4>3 DEF ArrayOf, Run
    <3> QED BY <3>2, <3>3
  <2> QED BY <2>1, <2>5, <2>6, <2>7, NoCalls DEF Fitting, OneFrameAsked, FirstArray
<1>8. CASE Promote
  <2>1. /\ stack = <<>> /\ phase = "promote" /\ pageSize \in {LARGE_PAGE, HUGE_PAGE}
        /\ UNCHANGED <<usedBasePages, buf, phase, pageSize>> /\ stack' \in Seq(Frame)
        /\ \A d \in DOMAIN stack' :
              /\ stack'[d].pc = "free"
              /\ stack'[d].ps = pageSize \/ stack'[d].ps = toSmallerPageSize(pageSize)
    BY <1>8, PromoteDoes
  <2> DEFINE smaller == toSmallerPageSize(pageSize)
  <2>2. PICK list \in Seq(PagedMemory) : /\ memory' = [memory EXCEPT ![smaller] = list]
                                         /\ Len(list) <= Len(memory[smaller])
    BY <1>8, PromoteDoes
  <2>3. smaller \in PageSizes /\ smaller \in Nat /\ pageSize \in Nat /\ smaller < pageSize
    BY <2>1, PageSizeFacts
  <2>s. \A d \in DOMAIN stack' : stack'[d].ps = pageSize \/ stack'[d].ps = smaller
    BY <2>1
  <2> HIDE DEF smaller
  <2>4. ~Unready(smaller) /\ ~Unready(pageSize) /\ ~Stopped
    BY <2>1, <2>3 DEF Unready, Stopped
  <2>5. UnreadyEmpty' /\ ListsFit'
    <3>1. Len(list) <= cap(smaller)
      <4>1. /\ Len(memory[smaller]) <= cap(smaller) /\ cap(smaller) \in Nat
            /\ Len(memory[smaller]) \in Nat /\ Len(list) \in Nat
        BY <2>3, RoomIsCount DEF Fitting, ListsFit
      <4> HIDE DEF cap
      <4> QED BY <2>2, <4>1
    <3> QED BY <2>1, <2>2, <2>3, <2>4, <3>1, ReadyListChanges DEF Fitting
  <2>6. ASSUME OnlyBaseGrew' PROVE \A ps \in PageSizes : ArrayOf(ps)'
    <3>1. \A ps \in PageSizes : ArrayOf(ps)
      BY <2>1, <2>6 DEF Fitting, OnlyBaseGrew
    <3>2. \A ps \in PageSizes : Unready(ps) => memory'[ps] = memory[ps]
      BY <1>a, <2>2, <2>3, <2>4
    <3> QED BY <2>1, <2>4, <3>1, <3>2, ArraysSame
  <2>7. StackGood' /\ Growing'
    <3>1. ASSUME NEW d \in DOMAIN stack' PROVE ~Unready(stack[d].ps)'
      <4>1. stack'[d].ps = pageSize \/ stack'[d].ps = smaller
        BY <2>s
      <4>2. ~(stack'[d].ps > pageSize)
        BY <2>3, <4>1
      <4> QED BY <2>1, <4>2 DEF Unready
    <3> QED BY <2>1, <3>1, FreshStack
  <2> QED BY <2>1, <2>5, <2>6, <2>7 DEF Fitting, OneFrameAsked, FirstArray
<1>9. CASE InitPMMDone
  <2>1. /\ phase = "promote" /\ stack = <<>> /\ stack' = <<>> /\ UNCHANGED managers
        /\ \/ pageSize = LARGE_PAGE /\ phase' = "initPMM" /\ pageSize' = HUGE_PAGE
           \/ pageSize # LARGE_PAGE /\ phase' = "kernel" /\ pageSize' = pageSize
    BY <1>9 DEF InitPMMDone, Idle
  <2>2. pageSize \in {LARGE_PAGE, HUGE_PAGE}
    BY <2>1 DEF IInv, TopLevelOK
  <2>3. ASSUME NEW ps \in PageSizes PROVE Unready(ps)' <=> Unready(ps)
    BY <2>1, <2>2, UnreadyWhen DEF Unready
  <2>4. ~Stopped
    BY <2>1 DEF Stopped
  <2> QED BY <2>1, <2>3, <2>4, FittingSame, NoCalls DEF OneFrameAsked, FirstArray
<1> QED BY <1>1, <1>2, <1>3, <1>4, <1>5, <1>6, <1>7, <1>8, <1>9 DEF InitStep
LEMMA ArraysStutter ==
  ASSUME UNCHANGED vars, StackGood, Fitting, Arrays, OneFrameAsked, FirstArray
  PROVE  StackGood' /\ Fitting' /\ Arrays' /\ OneFrameAsked' /\ FirstArray'
<1>1. UNCHANGED <<memory, usedBasePages, buf, stack, result, phase, pageSize>>
  BY DEF vars, managers, topLevel
<1>2. StackGood'
  <2>1. GatherBelow'
    BY <1>1 DEF StackGood, GatherBelow, Kind
  <2>2. FramesGood'
    <3>1. \A frame : FrameGood(frame)' <=> FrameGood(frame)
      BY <1>1 DEF FrameGood, Unready
    <3> QED BY <1>1, <3>1 DEF StackGood, FramesGood
  <2>3. TopGood'
    BY <1>1 DEF StackGood, TopGood, Unready, toLargerPageSize
  <2> QED BY <2>1, <2>2, <2>3 DEF StackGood
<1>a. OneFrameAsked' /\ FirstArray'
  BY <1>1 DEF OneFrameAsked, OnlyBaseGrew, FirstArray
<1>3. Fitting'
  BY <1>1 DEF Fitting, UnreadyEmpty, ListsFit, cap, ArrayOf, Unready, Stopped, OnlyBaseGrew, Run
<1>4. OtherMoves \/ Growing => OtherMoves' \/ Growing'
  BY <1>1 DEF OtherMoves, Growing, GetsLargerArray, WaitsForArray, MovesBase, LargerArray,
              BaseFull, NoRunOf, cap
<1>5. OnlyBaseGrew' => OnlyBaseGrew
  BY <1>1 DEF OnlyBaseGrew
<1> QED BY <1>2, <1>a, <1>3, <1>4, <1>5 DEF Arrays, Fitting

\* The rest of the kernel asks for pages when every manager is ready.
LEMMA KernelFits ==
  ASSUME IInv, Fitting, KernelStep \/ KernelReceive
  PROVE  Fitting' /\ StackGood' /\ Growing' /\ OneFrameAsked' /\ FirstArray'
<1>1. /\ phase \in {"kernel", "waiting"} /\ phase' \in {"kernel", "waiting"}
      /\ UNCHANGED managers
  BY DEF KernelStep, KernelAlloc, KernelGather, KernelFree, KernelReceive, Idle, managers
<1>2. ~Stopped /\ (\A ps : ~Unready(ps)) /\ (\A ps : ~Unready(ps)')
  BY <1>1 DEF Stopped, Unready
<1>3. Fitting' /\ OneFrameAsked' /\ FirstArray'
  BY <1>1, <1>2, FittingSame DEF OneFrameAsked, FirstArray
<1>4. ASSUME NEW f \in Frame, stack' = <<f>>, f.pc \in {"alloc", "free", "gather"}
      PROVE  StackGood' /\ Growing'
  BY <1>2, <1>4, OneCall
<1>5. CASE KernelReceive
  <2>1. stack' = <<>>
    BY <1>5 DEF KernelReceive, Idle
  <2> QED BY <1>3, <2>1, NoCalls
<1>6. ASSUME NEW n \in Requests, NEW ps \in PageSizes, KernelAlloc(n, ps)
      PROVE  StackGood' /\ Growing'
  <2> DEFINE f == Alloc(n, ps)
  <2>1. f \in Frame /\ f.pc = "alloc" /\ stack' = <<f>>
    BY <1>6, NewFrames, RequestsAssumption DEF KernelAlloc, Alloc
  <2> HIDE DEF f
  <2> QED BY <1>4, <2>1
<1>7. ASSUME NEW n \in Requests, NEW ps \in PageSizes, KernelGather(n, ps)
      PROVE  StackGood' /\ Growing'
  <2> DEFINE f == Gather(n, ps, ENTRIES)
  <2>1. f \in Frame /\ f.pc = "gather" /\ stack' = <<f>>
    BY <1>7, NewFrames, RequestsAssumption, PageSizeFacts DEF KernelGather, Gather
  <2> HIDE DEF f
  <2> QED BY <1>4, <2>1
<1>8. ASSUME NEW h \in held, NEW k \in 0 .. h.run.numberOfPages,
             NEW n \in 1 .. h.run.numberOfPages, KernelFree(h, k, n)
      PROVE  StackGood' /\ Growing'
  <2>1. h \in [ps : PageSizes, run : PagedMemory]
    BY DEF IInv, TypeOK
  <2>2. h.ps \in PageSizes /\ h.run.pageStart \in Nat /\ h.run.numberOfPages \in Nat
    BY <2>1 DEF PagedMemory
  <2>3. h.ps \in Nat /\ k \in Nat /\ n \in Nat
    <3>1. h.ps \in Nat
      BY <2>2, PageSizeFacts
    <3>2. k \in Nat /\ n \in Nat
      BY <2>2
    <3> QED BY <3>1, <3>2
  <2>4. h.run.pageStart + k * h.ps \in Nat
    <3>1. k * h.ps \in Nat
      BY <2>3
    <3> QED BY <2>2, <3>1
  <2> DEFINE pages == <<Run(h.run.pageStart + k * h.ps, n)>>
             f == Free(pages, h.ps)
  <2>5. pages \in Seq(PagedMemory)
    BY <2>3, <2>4, OneRun
  <2>6. stack' = <<f>>
    BY <1>8 DEF KernelFree
  <2>7. f \in Frame /\ f.pc = "free"
    <3> HIDE DEF pages
    <3> QED BY <2>2, <2>5, NewFrames DEF Free
  <2> HIDE DEF f
  <2> QED BY <1>4, <2>6, <2>7
<1>9. CASE KernelStep
  BY <1>3, <1>6, <1>7, <1>8, <1>9 DEF KernelStep
<1> QED BY <1>5, <1>3, <1>9

\* The inductive invariant about the arrays.
ArraysInv == /\ IInv /\ ArraysCounted /\ StackGood /\ Fitting /\ Arrays
             /\ OneFrameAsked /\ FirstArray

LEMMA NextFits == ASSUME ArraysInv, Next PROVE ArraysInv'
<1>0. /\ IInv /\ ArraysCounted /\ StackGood /\ Fitting /\ Arrays /\ OneFrameAsked /\ FirstArray
      /\ UnreadyEmpty /\ ListsFit
  BY DEF ArraysInv, Fitting
<1>1. IInv'
  BY <1>0, AllocStepKeeps, FreeStepKeeps, NoMorePhysicalMemoryKeeps, GatherStepKeeps,
     InitStepKeeps, KernelStepKeeps, KernelReceiveKeeps, StutterKeeps DEF Next, Running, Halted
<1>2. ArraysCounted'
  BY <1>0, CountsGrow
<1>3. ASSUME Fitting', Growing' PROVE Arrays'
  BY <1>3 DEF Fitting, Arrays
<1>4. CASE GatherOverrun \/ NoMorePhysicalMemory
  <2>1. Stop("overrun") \/ Stop("fault")
    BY <1>4 DEF GatherOverrun, NoMorePhysicalMemory
  <2>2. Fitting' /\ StackGood' /\ Growing' /\ OneFrameAsked' /\ FirstArray'
    BY <1>0, <2>1, StopFitting
  <2> QED BY <1>1, <1>2, <1>3, <2>2 DEF ArraysInv
<1>5. CASE (AllocStep \/ FreeStep \/ GatherStep) /\ ~GatherOverrun
  <2>1. StackGood' /\ UnreadyEmpty' /\ ListsFit'
    BY <1>0, <1>5, CallsGood, GatherGood
  <2>2. OneFrameAsked' /\ Arrays'
    BY <1>0, <1>5, CallsAsk, CallsArrays
  <2>3. Fitting'
    BY <2>1, <2>2 DEF Fitting, Arrays
  <2>4. stack # <<>> /\ UNCHANGED topLevel
    BY <1>0, <1>5, AllocFitDoes, AllocFromLargerDoes, AllocSplitDoes, AllocReturnDoes,
       FreeStoreDoes, FreeFullDoes, FreeGrowDoes, FreeReturnDoes, GatherDoes
       DEF AllocStep, FreeStep
  <2>5. phase' # "first"
    BY <1>0, <2>4 DEF IInv, TopLevelOK, BottomOK, topLevel
  <2> QED BY <1>1, <1>2, <2>1, <2>2, <2>3, <2>5 DEF ArraysInv, FirstArray
<1>6. CASE InitStep
  <2>1. Fitting' /\ StackGood' /\ Growing' /\ OneFrameAsked' /\ FirstArray'
    BY <1>0, <1>6, InitFits
  <2> QED BY <1>1, <1>2, <1>3, <2>1 DEF ArraysInv
<1>7. CASE KernelStep \/ KernelReceive
  <2>1. Fitting' /\ StackGood' /\ Growing' /\ OneFrameAsked' /\ FirstArray'
    BY <1>0, <1>7, KernelFits
  <2> QED BY <1>1, <1>2, <1>3, <2>1 DEF ArraysInv
<1>8. CASE Halted
  <2>1. UNCHANGED vars
    BY <1>8 DEF Halted
  <2> QED BY <1>0, <1>1, <1>2, <2>1, ArraysStutter DEF ArraysInv
<1> QED BY <1>4, <1>5, <1>6, <1>7, <1>8 DEF Next, Running

LEMMA InitFitting == ASSUME Init PROVE ArraysInv
<1>1. IInv
  BY InitEstablishes
<1>2. ArraysCounted /\ FirstArray /\ OneFrameAsked
  BY DEF Init, ArraysCounted, FirstArray, OneFrameAsked
<1>3. StackGood /\ Growing
  BY DEF Init, StackGood, GatherBelow, FramesGood, TopGood, Growing, GetsLargerArray
<1>4. UnreadyEmpty
  BY DEF Init, UnreadyEmpty
<1>5. ASSUME NEW ps \in PageSizes
      PROVE  Len(memory[ps]) <= cap(ps) /\ ArrayOf(ps)
  <2>1. memory[ps] = <<>> /\ buf[ps] = Run(0, 0) /\ Unready(ps) /\ usedBasePages[ps] = 1
    BY DEF Init, Unready
  <2>2. Len(<<>>) = 0 /\ EntriesPerPage \in Nat
    BY SizesAssumption
  <2>3. Len(memory[ps]) <= cap(ps)
    BY <2>1, <2>2 DEF cap
  <2> QED BY <2>1, <2>3 DEF ArrayOf
<1> QED BY <1>1, <1>2, <1>3, <1>4, <1>5 DEF ArraysInv, Fitting, ListsFit, Arrays

LEMMA ArraysAlways == Spec => []ArraysInv
<1>1. Init => ArraysInv
  BY InitFitting
<1>2. ArraysInv /\ [Next]_vars => ArraysInv'
  <2> SUFFICES ASSUME ArraysInv, [Next]_vars PROVE ArraysInv'
    OBVIOUS
  <2>1. CASE UNCHANGED vars
    <3>1. IInv' /\ ArraysCounted'
      BY <2>1, StutterKeeps DEF ArraysInv, ArraysCounted, vars, managers
    <3> QED BY <2>1, <3>1, ArraysStutter DEF ArraysInv
  <2> QED BY <2>1, NextFits
<1> QED BY <1>1, <1>2, PTL DEF Spec

\* The list of a manager fits the array it is stored in, for every memory map and
\* every sequence of calls: freePhysicalPagesWithManager asks for a larger array
\* while the list is full, and no call inside that allocation stores a run in the
\* full list or moves it a second time.
THEOREM ListFits == Spec => []ListFitsArray
<1>1. ArraysInv => ListFitsArray
  <2> SUFFICES ASSUME ArraysInv, OnlyBaseGrew, NEW ps \in PageSizes
               PROVE  Len(memory[ps]) <= EntriesPerPage * buf[ps].numberOfPages
    BY DEF ListFitsArray
  <2>1. IInv /\ ArrayOf(ps) /\ Len(memory[ps]) <= cap(ps)
    BY DEF ArraysInv, Arrays, Fitting, ListsFit
  <2>2. CASE buf[ps].numberOfPages = usedBasePages[ps]
    BY <2>1, <2>2 DEF cap
  <2>3. CASE memory[ps] = <<>> /\ buf[ps] = Run(0, 0)
    <3>1. buf[ps].numberOfPages = 0 /\ Len(memory[ps]) = 0
      BY <2>3 DEF Run
    <3>2. EntriesPerPage * 0 = 0
      BY SizesAssumption
    <3> QED BY <3>1, <3>2
  <2> QED BY <2>1, <2>2, <2>3 DEF ArrayOf
<1> QED BY <1>1, ArraysAlways, PTL

-----------------------------------------------------------------------------
(* The pages of a list of runs.  What SumPages computes is an induction    *)
(* over the list; it is done here with the least position, and the least   *)
(* length, that would not do.                                              *)

IsSum(f, runs) ==
  f = [i \in 0 .. Len(runs) |-> IF i = 0 THEN 0 ELSE f[i - 1] + runs[i].numberOfPages]

\* The sums of two lists agree as far as the lists do.
LEMMA SumsAgree ==
  ASSUME NEW s \in Seq(PagedMemory), NEW t \in Seq(PagedMemory), NEW f, NEW g,
         IsSum(f, s), IsSum(g, t), NEW n \in Nat, n <= Len(s), n <= Len(t),
         \A i \in 1 .. n : s[i] = t[i]
  PROVE  f[n] = g[n]
<1> DEFINE S == {i \in 0 .. n : f[i] # g[i]}
<1>1. S \in SUBSET Nat
  OBVIOUS
<1>2. CASE S # {}
  <2>1. PICK x \in S : \A y \in S : x <= y
    BY <1>1, <1>2, Least, Zenon
  <2>2. x \in 0 .. n /\ f[x] # g[x]
    OBVIOUS
  <2>3. Len(s) \in Nat /\ Len(t) \in Nat
    OBVIOUS
  <2>4. /\ f[x] = IF x = 0 THEN 0 ELSE f[x - 1] + s[x].numberOfPages
        /\ g[x] = IF x = 0 THEN 0 ELSE g[x - 1] + t[x].numberOfPages
    <3>1. x \in 0 .. Len(s) /\ x \in 0 .. Len(t)
      BY <2>2, <2>3
    <3> HIDE DEF S
    <3>2. f[x] = IF x = 0 THEN 0 ELSE f[x - 1] + s[x].numberOfPages
      BY <3>1 DEF IsSum
    <3>3. g[x] = IF x = 0 THEN 0 ELSE g[x - 1] + t[x].numberOfPages
      BY <3>1 DEF IsSum
    <3> QED BY <3>2, <3>3
  <2>5. x # 0
    BY <2>2, <2>4
  <2>6. x - 1 \in 0 .. n /\ ~(x <= x - 1) /\ s[x] = t[x]
    BY <2>2, <2>5
  <2>7. f[x - 1] = g[x - 1]
    BY <2>1, <2>6
  <2> HIDE DEF S
  <2> QED BY <2>2, <2>4, <2>5, <2>6, <2>7
<1>3. CASE S = {}
  BY <1>3
<1> QED BY <1>2, <1>3

\* Every list has its sum.
LEMMA SumExists ==
  ASSUME NEW s \in Seq(PagedMemory)
  PROVE  \E f : IsSum(f, s)
<1> DEFINE P(k) == \A r \in Seq(PagedMemory) : Len(r) = k => \E f : IsSum(f, r)
           S == {k \in Nat : ~P(k)}
<1>1. S \in SUBSET Nat
  OBVIOUS
<1>2. ASSUME S # {} PROVE FALSE
  <2>1. PICK k \in S : \A y \in S : k <= y
    BY <1>1, <1>2, Least, Zenon
  <2>2. k \in Nat /\ ~P(k)
    OBVIOUS
  <2>3. PICK r \in Seq(PagedMemory) : Len(r) = k /\ ~\E f : IsSum(f, r)
    BY <2>2
  <2>4. CASE k = 0
    <3> DEFINE z == [i \in 0 .. 0 |-> 0]
    <3>1. z = [i \in 0 .. Len(r) |-> IF i = 0 THEN 0 ELSE z[i - 1] + r[i].numberOfPages]
      BY <2>3, <2>4
    <3>2. IsSum(z, r)
      BY <3>1 DEF IsSum
    <3> QED BY <2>3, <3>2
  <2>5. CASE k # 0
    <3> DEFINE q == SubSeq(r, 1, k - 1)
    <3>1. /\ k - 1 \in Nat /\ q \in Seq(PagedMemory) /\ Len(q) = k - 1
          /\ \A i \in 1 .. k - 1 : q[i] = r[i]
      BY <2>2, <2>3, <2>5
    <3> HIDE DEF q
    <3>2. P(k - 1)
      <4>1. k - 1 \notin S
        <5>1. ~(k <= k - 1)
          BY <2>2
        <5> QED BY <2>1, <5>1
      <4> QED BY <3>1, <4>1
    <3>3. PICK g : IsSum(g, q)
      BY <3>1, <3>2
    <3> DEFINE h == [i \in 0 .. k |-> IF i = k THEN g[k - 1] + r[k].numberOfPages ELSE g[i]]
    <3>4. ASSUME NEW i \in 0 .. k
          PROVE  h[i] = IF i = 0 THEN 0 ELSE h[i - 1] + r[i].numberOfPages
      <4>1. CASE i = k
        <5>1. h[i] = g[k - 1] + r[k].numberOfPages /\ h[k - 1] = g[k - 1]
          BY <2>2, <2>5, <3>1, <4>1
        <5> QED BY <2>5, <4>1, <5>1
      <4>2. CASE i # k
        <5>1. i \in 0 .. k - 1
          BY <2>2, <4>2
        <5>2. h[i] = g[i]
          BY <4>2
        <5>3. g[i] = IF i = 0 THEN 0 ELSE g[i - 1] + q[i].numberOfPages
          BY <3>1, <3>3, <5>1 DEF IsSum
        <5>4. CASE i = 0
          BY <5>2, <5>3, <5>4
        <5>5. CASE i # 0
          <6>1. i \in 1 .. k - 1 /\ i - 1 \in 0 .. k /\ i - 1 # k
            BY <2>2, <5>1, <5>5
          <6>2. h[i - 1] = g[i - 1] /\ q[i] = r[i]
            BY <3>1, <6>1
          <6> QED BY <5>2, <5>3, <5>5, <6>2
        <5> QED BY <5>4, <5>5
      <4> QED BY <4>1, <4>2
    <3>5. h = [i \in 0 .. k |-> h[i]]
      OBVIOUS
    <3> HIDE DEF h
    <3>6. h = [i \in 0 .. k |-> IF i = 0 THEN 0 ELSE h[i - 1] + r[i].numberOfPages]
      BY <3>4, <3>5
    <3>7. IsSum(h, r)
      BY <2>3, <3>6 DEF IsSum
    <3> QED BY <2>3, <3>7
  <2> QED BY <2>4, <2>5
<1>3. Len(s) \in Nat /\ Len(s) \notin S
  BY <1>2
<1> QED BY <1>3

LEMMA SumIs ==
  ASSUME NEW s \in Seq(PagedMemory)
  PROVE  \E f : IsSum(f, s) /\ SumPages(s) = f[Len(s)]
BY SumExists DEF SumPages, IsSum

\* An empty list has no pages, and one run more adds its pages.
LEMMA SumEmpty == SumPages(<<>>) = 0
<1>1. <<>> \in Seq(PagedMemory) /\ Len(<<>>) = 0
  OBVIOUS
<1>2. PICK f : IsSum(f, <<>>) /\ SumPages(<<>>) = f[Len(<<>>)]
  BY <1>1, SumIs
<1>3. f[0] = 0
  BY <1>1, <1>2 DEF IsSum
<1> QED BY <1>1, <1>2, <1>3

LEMMA SumAppend ==
  ASSUME NEW s \in Seq(PagedMemory), NEW r \in PagedMemory
  PROVE  SumPages(Append(s, r)) = SumPages(s) + r.numberOfPages
<1> DEFINE t == Append(s, r)
           n == Len(s)
<1>1. /\ t \in Seq(PagedMemory) /\ n \in Nat /\ Len(t) = n + 1 /\ t[n + 1] = r
      /\ \A i \in 1 .. n : s[i] = t[i]
  OBVIOUS
<1>2. PICK f : IsSum(f, s) /\ SumPages(s) = f[Len(s)]
  BY SumIs
<1> HIDE DEF t
<1>3. PICK g : IsSum(g, t) /\ SumPages(t) = g[Len(t)]
  BY <1>1, SumIs
<1>4. f[n] = g[n]
  BY <1>1, <1>2, <1>3, SumsAgree
<1>5. g[n + 1] = g[n] + r.numberOfPages
  <2>1. n + 1 \in 0 .. Len(t) /\ n + 1 # 0 /\ (n + 1) - 1 = n
    BY <1>1
  <2>2. g[n + 1] = g[(n + 1) - 1] + t[n + 1].numberOfPages
    BY <1>3, <2>1 DEF IsSum
  <2> QED BY <1>1, <2>1, <2>2
<1> QED BY <1>1, <1>2, <1>3, <1>4, <1>5 DEF t

LEMMA SumType ==
  ASSUME NEW s \in Seq(PagedMemory)
  PROVE  SumPages(s) \in Nat
<1>1. PICK f : IsSum(f, s) /\ SumPages(s) = f[Len(s)]
  BY SumIs
<1> DEFINE S == {i \in 0 .. Len(s) : f[i] \notin Nat}
<1>2. S \in SUBSET Nat /\ Len(s) \in Nat
  OBVIOUS
<1>3. ASSUME S # {} PROVE FALSE
  <2>1. PICK x \in S : \A y \in S : x <= y
    BY <1>2, <1>3, Least, Zenon
  <2>2. x \in 0 .. Len(s) /\ f[x] \notin Nat
    OBVIOUS
  <2>3. f[x] = IF x = 0 THEN 0 ELSE f[x - 1] + s[x].numberOfPages
    BY <1>1, <2>2 DEF IsSum
  <2>4. x # 0
    BY <2>2, <2>3
  <2>5. x - 1 \in 0 .. Len(s) /\ ~(x <= x - 1) /\ s[x] \in PagedMemory
    BY <1>2, <2>2, <2>4
  <2>6. f[x - 1] \in Nat
    BY <2>1, <2>5
  <2>7. s[x].numberOfPages \in Nat
    BY <2>5 DEF PagedMemory
  <2> HIDE DEF S
  <2> QED BY <2>2, <2>3, <2>4, <2>6, <2>7
<1>4. Len(s) \in 0 .. Len(s)
  BY <1>2
<1> QED BY <1>1, <1>3, <1>4

LEMMA SumOne ==
  ASSUME NEW s \in Seq(PagedMemory), Len(s) = 1
  PROVE  SumPages(s) = s[1].numberOfPages
<1>1. s[1] \in PagedMemory /\ s = Append(<<>>, s[1]) /\ <<>> \in Seq(PagedMemory)
  OBVIOUS
<1>2. SumPages(s) = SumPages(<<>>) + s[1].numberOfPages /\ s[1].numberOfPages \in Nat
  BY <1>1, SumAppend DEF PagedMemory
<1> QED BY <1>2, SumEmpty

-----------------------------------------------------------------------------
(* What the kernel gets is what it asked for *)

\* The pages a call has collected and those it has still to find.
Owed(frame) ==
  IF frame.pc \in {"gather", "gathered"} THEN SumPages(frame.pages) + frame.n
  ELSE IF frame.pc \in {"free", "grow"} THEN 0 ELSE frame.n

\* The call the kernel waits for owes it what was asked, and then has returned it.
Owing ==
  phase = "waiting" => /\ stack # <<>> => Owed(stack[Len(stack)]) = asked
                       /\ stack = <<>> => SumPages(result) = asked

LEMMA OwedGoto ==
  ASSUME IInv, stack # <<>>, NEW f \in Frame, Goto(f), Owed(f) = Owed(top)
  PROVE  stack' # <<>> /\ Owed(stack'[Len(stack')]) = Owed(stack[Len(stack)])
<1>1. /\ Len(stack') = Len(stack) /\ stack'[1] = f /\ stack' # <<>>
      /\ \A d \in 2 .. Len(stack) : stack'[d] = stack[d]
      /\ Len(stack) \in Nat /\ Len(stack) >= 1 /\ top = stack[1]
  BY AfterGoto, TopFacts
<1>2. CASE Len(stack) = 1
  BY <1>1, <1>2
<1>3. CASE Len(stack) # 1
  <2>1. Len(stack) \in 2 .. Len(stack)
    BY <1>1, <1>3
  <2> QED BY <1>1, <2>1
<1> QED BY <1>2, <1>3

LEMMA OwedCall ==
  ASSUME IInv, stack # <<>>, NEW f \in Frame, NEW g \in Frame, Call(g, f), Owed(f) = Owed(top)
  PROVE  stack' # <<>> /\ Owed(stack'[Len(stack')]) = Owed(stack[Len(stack)])
<1>1. /\ Len(stack') = Len(stack) + 1 /\ stack'[2] = f /\ stack' # <<>>
      /\ \A d \in 3 .. Len(stack) + 1 : stack'[d] = stack[d - 1]
      /\ Len(stack) \in Nat /\ Len(stack) >= 1 /\ top = stack[1]
  BY AfterCall, TopFacts
<1>2. CASE Len(stack) = 1
  BY <1>1, <1>2
<1>3. CASE Len(stack) # 1
  <2>0. Len(stack) >= 2
    BY <1>1, <1>3, TwoOrMore, Zenon
  <2>1. Len(stack) + 1 \in 3 .. Len(stack) + 1 /\ (Len(stack) + 1) - 1 = Len(stack)
    BY <1>1, <2>0
  <2>2. stack'[Len(stack) + 1] = stack[Len(stack)]
    BY <1>1, <2>1
  <2> QED BY <1>1, <2>2
<1> QED BY <1>2, <1>3

LEMMA OwedReturn ==
  ASSUME IInv, stack # <<>>, NEW v \in Seq(PagedMemory), Return(v), SumPages(v) = Owed(top)
  PROVE  /\ stack' # <<>> => Owed(stack'[Len(stack')]) = Owed(stack[Len(stack)])
         /\ stack' = <<>> => SumPages(result') = Owed(stack[Len(stack)])
<1>1. Len(stack) \in Nat /\ Len(stack) >= 1 /\ top = stack[1]
  BY TopFacts, HeadTail DEF IInv, StackOK
<1>2. CASE Len(stack) = 1
  BY <1>1, <1>2, AfterLastReturn
<1>3. CASE Len(stack) # 1
  <2>0. Len(stack) >= 2
    BY <1>1, <1>3, TwoOrMore, Zenon
  <2>1. /\ Len(stack') = Len(stack) - 1 /\ stack' # <<>>
        /\ stack'[1].pc = stack[2].pc /\ stack'[1].n = stack[2].n
        /\ stack'[1].pages = stack[2].pages
        /\ \A d \in 2 .. Len(stack) - 1 : stack'[d] = stack[d + 1]
    BY <2>0, AfterReturn
  <2>2. CASE Len(stack) = 2
    <3>1. Owed(stack'[1]) = Owed(stack[2])
      BY <2>1 DEF Owed
    <3> QED BY <2>1, <2>2, <3>1
  <2>3. CASE Len(stack) # 2
    <3>0. Len(stack) >= 3
      BY <1>1, <2>0, <2>3, ThreeOrMore, Zenon
    <3>1. Len(stack) - 1 \in 2 .. Len(stack) - 1 /\ (Len(stack) - 1) + 1 = Len(stack)
      BY <1>1, <3>0
    <3>2. stack'[Len(stack) - 1] = stack[Len(stack)]
      BY <2>1, <3>1
    <3> QED BY <2>1, <3>2
  <2> QED BY <2>2, <2>3
<1> QED BY <1>2, <1>3

\* What a step of a call does to what the call owes: nothing, until it returns it.
LEMMA CallsOwe ==
  ASSUME ArraysInv, AllocStep \/ FreeStep
  PROVE  /\ stack # <<>> /\ UNCHANGED topLevel
         /\ \/ \E f \in Frame : Goto(f) /\ Owed(f) = Owed(top)
            \/ \E f, g \in Frame : Call(g, f) /\ Owed(f) = Owed(top)
            \/ \E v \in Seq(PagedMemory) : Return(v) /\ SumPages(v) = Owed(top)
<1>0. IInv /\ StackGood /\ UnreadyEmpty
  BY DEF ArraysInv, Fitting
<1>1. stack # <<>> /\ UNCHANGED topLevel
  BY <1>0, AllocFitDoes, AllocFromLargerDoes, AllocSplitDoes, AllocReturnDoes, FreeStoreDoes,
     FreeFullDoes, FreeGrowDoes, FreeReturnDoes DEF AllocStep, FreeStep
<1>2. CASE AllocFit
  <2>1. top.pc = "alloc"
    BY <1>0, <1>2, AllocFitDoes
  <2>2. PICK v \in Seq(PagedMemory) : Return(v) /\ Len(v) = 1 /\ v[1].numberOfPages = top.n
    BY <1>0, <1>2, AllocFitDoes
  <2>3. SumPages(v) = Owed(top)
    BY <2>1, <2>2, SumOne DEF Owed
  <2> QED BY <1>1, <2>2, <2>3
<1>3. CASE AllocReturn
  <2>1. /\ top.pc = "return" /\ Return(top.pages) /\ top.pages \in Seq(PagedMemory)
        /\ Len(top.pages) = 1
    BY <1>0, <1>3, AllocReturnDoes
  <2>2. top.pages[1].numberOfPages = top.n
    BY <1>0, <1>1, <2>1, TopReady
  <2>3. SumPages(top.pages) = Owed(top)
    BY <2>1, <2>2, SumOne DEF Owed
  <2> QED BY <1>1, <2>1, <2>3
<1>4. CASE AllocFromLarger \/ AllocSplit
  <2>1. top.pc \in {"alloc", "split"}
    BY <1>0, <1>4, AllocFromLargerDoes, AllocSplitDoes
  <2>2. PICK f, g \in Frame : Call(g, f) /\ f.pc \in {"split", "return"} /\ f.n = top.n
    BY <1>0, <1>4, AllocFromLargerDoes, AllocSplitDoes DEF SameFrame
  <2>3. Owed(f) = Owed(top)
    BY <2>1, <2>2 DEF Owed
  <2> QED BY <1>1, <2>2, <2>3
<1>5. CASE FreeStore \/ FreeGrow
  <2>1. top.pc \in {"free", "grow"}
    BY <1>0, <1>5, FreeStoreDoes, FreeGrowDoes
  <2>2. PICK f \in Frame : Goto(f) /\ f.pc = "free"
    BY <1>0, <1>5, FreeStoreDoes, FreeGrowDoes
  <2>3. Owed(f) = Owed(top)
    BY <2>1, <2>2 DEF Owed
  <2> QED BY <1>1, <2>2, <2>3
<1>6. CASE FreeFull
  <2>1. top.pc = "free"
    BY <1>0, <1>6, FreeFullDoes
  <2>2. PICK f, g \in Frame : Call(g, f) /\ f.pc = "grow"
    BY <1>0, <1>6, FreeFullDoes
  <2>3. Owed(f) = Owed(top)
    BY <2>1, <2>2 DEF Owed
  <2> QED BY <1>1, <2>2, <2>3
<1>7. CASE FreeReturn
  <2>1. top.pc = "free" /\ Return(<<>>) /\ <<>> \in Seq(PagedMemory)
    BY <1>0, <1>7, FreeReturnDoes
  <2>2. SumPages(<<>>) = Owed(top)
    BY <2>1, SumEmpty DEF Owed
  <2> QED BY <1>1, <2>1, <2>2
<1> QED BY <1>2, <1>3, <1>4, <1>5, <1>6, <1>7 DEF AllocStep, FreeStep

\* A call that collects runs owes less by what it has put with the others.
LEMMA GatherOwes ==
  ASSUME IInv, GatherStep, ~GatherOverrun
  PROVE  /\ stack # <<>> /\ UNCHANGED topLevel
         /\ \/ \E f \in Frame : Goto(f) /\ Owed(f) = Owed(top)
            \/ \E f, g \in Frame : Call(g, f) /\ Owed(f) = Owed(top)
            \/ \E v \in Seq(PagedMemory) : Return(v) /\ SumPages(v) = Owed(top)
<1>0. stack # <<>> /\ UNCHANGED topLevel
  BY GatherDoes
<1>1. /\ top \in Frame /\ top.n \in Nat /\ top.pages \in Seq(PagedMemory)
      /\ memory[top.ps] \in Seq(PagedMemory) /\ top.ps \in PageSizes
      /\ top.got \in Seq(PagedMemory) /\ top.room \in Int
  BY <1>0, TopFacts
<1>2. SumPages(top.pages) \in Nat
  BY <1>1, SumType
<1> DEFINE r == LastRun(top.ps)
<1>3. ASSUME memory[top.ps] # <<>> PROVE r \in PagedMemory
  BY <1>1, <1>3 DEF LastRun
<1> HIDE DEF r
<1>4. CASE GatherWhole
  <2> DEFINE p == Append(top.pages, r)
             f == [top EXCEPT !.pages = p, !.n = top.n - r.numberOfPages]
  <2>1. /\ top.pc = "gather" /\ memory[top.ps] # <<>> /\ Goto(f)
        /\ r.numberOfPages < top.n
    <3>1. /\ top.pc = "gather" /\ memory[top.ps] # <<>> /\ LastRun(top.ps).numberOfPages < top.n
          /\ Goto([top EXCEPT !.pages = Append(@, LastRun(top.ps)),
                              !.n = @ - LastRun(top.ps).numberOfPages])
      BY <1>4 DEF GatherWhole, At
    <3>2. [top EXCEPT !.pages = Append(@, LastRun(top.ps)),
                      !.n = @ - LastRun(top.ps).numberOfPages] = f
      BY <1>1 DEF r, Frame
    <3> HIDE DEF f
    <3> QED BY <3>1, <3>2 DEF r
  <2>2. r \in PagedMemory /\ r.numberOfPages \in Nat
    BY <1>3, <2>1 DEF PagedMemory
  <2>3. p \in Seq(PagedMemory) /\ top.n - r.numberOfPages \in Nat
    BY <1>1, <2>1, <2>2
  <2>4. SumPages(p) = SumPages(top.pages) + r.numberOfPages
    BY <1>1, <2>2, SumAppend
  <2> HIDE DEF p
  <2>5. f \in Frame /\ f.pc = "gather" /\ f.pages = p /\ f.n = top.n - r.numberOfPages
    <3>1. f.pc = top.pc
      BY <1>1 DEF Frame
    <3> QED BY <1>1, <2>1, <2>3, <3>1 DEF Frame
  <2>6. Owed(f) = SumPages(p) + (top.n - r.numberOfPages)
    BY <2>5 DEF Owed
  <2>7. Owed(top) = SumPages(top.pages) + top.n
    BY <2>1 DEF Owed
  <2>8. Owed(f) = Owed(top)
    BY <1>1, <1>2, <2>2, <2>4, <2>6, <2>7
  <2> HIDE DEF f
  <2> QED BY <1>0, <2>1, <2>5, <2>8
<1>5. CASE GatherLast
  <2> DEFINE q == Run(r.pageStart, top.n)
             v == Append(top.pages, q)
  <2>1. top.pc = "gather" /\ memory[top.ps] # <<>> /\ Return(v)
    BY <1>5 DEF GatherLast, At, r
  <2>2. q \in PagedMemory /\ q.numberOfPages = top.n
    <3>1. r \in PagedMemory /\ r.pageStart \in Nat
      BY <1>3, <2>1 DEF PagedMemory
    <3> QED BY <1>1, <3>1 DEF Run, PagedMemory
  <2> HIDE DEF q
  <2>3. v \in Seq(PagedMemory) /\ SumPages(v) = SumPages(top.pages) + q.numberOfPages
    BY <1>1, <2>2, SumAppend
  <2>4. SumPages(v) = Owed(top)
    BY <2>1, <2>2, <2>3 DEF Owed
  <2> HIDE DEF v
  <2> QED BY <1>0, <2>1, <2>3, <2>4
<1>6. CASE GatherFromLarger
  <2> DEFINE f == [top EXCEPT !.pc = "gathered"]
             room == top.room - Len(top.pages)
             g == Gather(CeilingDiv(top.n, ENTRIES), toLargerPageSize(top.ps), room)
  <2>1. top.pc = "gather" /\ top.ps < HUGE_PAGE /\ Call(g, f)
    BY <1>6 DEF GatherFromLarger, At
  <2>2. f \in Frame /\ f.pc = "gathered" /\ f.n = top.n /\ f.pages = top.pages
    BY <1>1 DEF Frame, Labels
  <2>3. toLargerPageSize(top.ps) \in PageSizes /\ CeilingDiv(top.n, ENTRIES) \in Nat
    BY <1>1, <2>1, PageSizeFacts, CeilingFacts
  <2>4. g \in Frame
    BY <1>1, <2>3, NewFrames
  <2> HIDE DEF f, g
  <2>5. Owed(f) = Owed(top)
    BY <2>1, <2>2 DEF Owed
  <2> QED BY <1>0, <2>1, <2>2, <2>4, <2>5
<1>7. CASE GatherConvert
  <2> DEFINE converted == [i \in DOMAIN top.got |-> ToSmallerRun(top.got[i])]
             f == [top EXCEPT !.pc = "gather", !.got = <<>>]
             g == Free(converted, top.ps)
  <2>1. top.pc = "gathered" /\ Call(g, f)
    BY <1>7 DEF GatherConvert, At
  <2>2. f \in Frame /\ f.pc = "gather" /\ f.n = top.n /\ f.pages = top.pages
    <3> DEFINE P == Seq(PagedMemory)
    <3>1. top \in [pc : Labels, ps : PageSizes, n : Nat, pages : P, room : Int, got : P]
      BY <1>1 DEF Frame
    <3>2. <<>> \in P /\ "gather" \in Labels
      BY DEF Labels
    <3> HIDE DEF P
    <3>3. /\ f \in [pc : Labels, ps : PageSizes, n : Nat, pages : P, room : Int, got : P]
          /\ f.pc = "gather" /\ f.n = top.n /\ f.pages = top.pages
      BY <3>1, <3>2
    <3> QED BY <3>3 DEF P, Frame
  <2>3. converted \in Seq(PagedMemory)
    <3>1. ASSUME NEW i \in DOMAIN top.got PROVE ToSmallerRun(top.got[i]) \in PagedMemory
      <4>1. top.got[i] \in PagedMemory
        BY <1>1
      <4>2. top.got[i].pageStart \in Nat /\ top.got[i].numberOfPages \in Nat
        BY <4>1 DEF PagedMemory
      <4>3. toSmallerPages(top.got[i].numberOfPages) \in Nat
        BY <4>2, PageSizeFacts DEF toSmallerPages
      <4> QED BY <4>2, <4>3, OneRun DEF ToSmallerRun
    <3> QED BY <1>1, <3>1
  <2>4. g \in Frame
    <3> HIDE DEF converted
    <3> QED BY <1>1, <2>3, NewFrames
  <2> HIDE DEF f, g
  <2>5. Owed(f) = Owed(top)
    BY <2>1, <2>2 DEF Owed
  <2> QED BY <1>0, <2>1, <2>2, <2>4, <2>5
<1> QED BY <1>4, <1>5, <1>6, <1>7 DEF GatherStep

\* What is owed when the kernel calls is what it asks for.
LEMMA KernelOwes ==
  ASSUME IInv, KernelStep
  PROVE  Owing'
<1>1. CASE \E n \in Requests, ps \in PageSizes : KernelAlloc(n, ps)
  <2>1. PICK n \in Requests, ps \in PageSizes : stack' = <<Alloc(n, ps)>> /\ asked' = n
    BY <1>1 DEF KernelAlloc
  <2>2. stack' # <<>> /\ stack'[Len(stack')] = Alloc(n, ps)
    BY <2>1
  <2>3. Owed(Alloc(n, ps)) = n
    BY DEF Owed, Alloc
  <2> QED BY <2>1, <2>2, <2>3 DEF Owing
<1>2. CASE \E n \in Requests, ps \in PageSizes : KernelGather(n, ps)
  <2>1. PICK n \in Requests, ps \in PageSizes : /\ stack' = <<Gather(n, ps, ENTRIES)>>
                                                /\ asked' = n
    BY <1>2 DEF KernelGather
  <2>2. stack' # <<>> /\ stack'[Len(stack')] = Gather(n, ps, ENTRIES) /\ n \in Nat
    BY <2>1, RequestsAssumption
  <2>3. Owed(Gather(n, ps, ENTRIES)) = SumPages(<<>>) + n
    BY DEF Owed, Gather
  <2> QED BY <2>1, <2>2, <2>3, SumEmpty DEF Owing
<1>3. CASE \E h \in held : \E k \in 0 .. h.run.numberOfPages, n \in 1 .. h.run.numberOfPages :
             KernelFree(h, k, n)
  <2>1. PICK p, ps : stack' = <<Free(p, ps)>> /\ asked' = 0
    BY <1>3 DEF KernelFree
  <2>2. stack' # <<>> /\ stack'[Len(stack')] = Free(p, ps)
    BY <2>1
  <2>3. Owed(Free(p, ps)) = 0
    BY DEF Owed, Free
  <2> QED BY <2>1, <2>2, <2>3 DEF Owing
<1> QED BY <1>1, <1>2, <1>3 DEF KernelStep

LEMMA NextOwes ==
  ASSUME ArraysInv, Owing, Next
  PROVE  Owing'
<1>0. IInv
  BY DEF ArraysInv
<1>1. CASE AllocStep \/ FreeStep \/ (GatherStep /\ ~GatherOverrun)
  <2>1. /\ stack # <<>> /\ UNCHANGED topLevel
        /\ \/ \E f \in Frame : Goto(f) /\ Owed(f) = Owed(top)
           \/ \E f, g \in Frame : Call(g, f) /\ Owed(f) = Owed(top)
           \/ \E v \in Seq(PagedMemory) : Return(v) /\ SumPages(v) = Owed(top)
    BY <1>0, <1>1, CallsOwe, GatherOwes
  <2>2. /\ stack' # <<>> => Owed(stack'[Len(stack')]) = Owed(stack[Len(stack)])
        /\ stack' = <<>> => SumPages(result') = Owed(stack[Len(stack)])
    BY <1>0, <2>1, OwedGoto, OwedCall, OwedReturn
  <2>3. UNCHANGED <<phase, asked>>
    BY <2>1 DEF topLevel, kernel
  <2> QED BY <2>1, <2>2, <2>3 DEF Owing
<1>2. CASE InitStep \/ KernelReceive \/ NoMorePhysicalMemory \/ GatherOverrun
  <2>1. phase' # "waiting"
    BY <1>2 DEF InitStep, InitFirst, InitFault, InitCollect, InitFreeCollected, InitFreeHolder,
       InitPMM, InitBuffer, Promote, InitPMMDone, Stop, Idle, KernelReceive,
       NoMorePhysicalMemory, GatherOverrun
  <2> QED BY <2>1 DEF Owing
<1>3. CASE KernelStep
  BY <1>0, <1>3, KernelOwes
<1>4. CASE Halted
  BY <1>4 DEF Halted, vars, topLevel, kernel, Owing
<1> QED BY <1>1, <1>2, <1>3, <1>4 DEF Next, Running

\* A call that returns gives the kernel exactly the number of pages it asked for,
\* from however many managers and in however many turns allocPhysicalPages collected
\* them: for every page table size, every memory map and every sequence of calls.
THEOREM WhatWasAsked == Spec => []ExactlyWhatWasAsked
<1>1. Init => Owing
  BY DEF Init, Owing
<1>2. ArraysInv /\ Owing /\ [Next]_vars => Owing'
  <2> SUFFICES ASSUME ArraysInv, Owing, [Next]_vars PROVE Owing'
    OBVIOUS
  <2>1. CASE UNCHANGED vars
    BY <2>1 DEF vars, topLevel, kernel, Owing
  <2> QED BY <2>1, NextOwes
<1>3. Owing => ExactlyWhatWasAsked
  BY DEF Owing, ExactlyWhatWasAsked, Idle
<1> QED BY <1>1, <1>2, <1>3, ArraysAlways, PTL DEF Spec
=============================================================================
