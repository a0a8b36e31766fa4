------------------------ MODULE DataFlowBlock_proofs ------------------------
(***************************************************************************)
(* Proofs about the dataflow, for every DAG of blocks and any number of    *)
(* items: FlowInv, which is inductive part by part; that a block which has *)
(* stopped transforms nothing more; and that a flow in which no transform  *)
(* throws has processed everything when it completes.                      *)
(*                                                                         *)
(* The parts rest on each other: a count that reaches zero (CountSound)    *)
(* tells that no predecessor is left (OrderSound), so that nothing comes   *)
(* to a block after it drained (DrainSound) or before it could take it     *)
(* (ArriveSound); the count is right because a call below the top of a     *)
(* stack notifies successors (StackSound), and because a block has one     *)
(* owner of its lock (LockSound), each of them told once.                  *)
(***************************************************************************)
EXTENDS DataFlowBlock, FiniteSetTheorems, SequenceTheorems, TLAPS

USE DEF control, task, input, user

(* The changes a call makes to the stack of its thread.                    *)
LEMMA FrontFacts ==
  ASSUME NEW S, NEW s \in Seq(S), s # <<>>
  PROVE  /\ Len(s) \in Nat \ {0}
         /\ Last(s) = s[Len(s)] /\ Last(s) \in S
         /\ Front(s) \in Seq(S)
         /\ Len(Front(s)) = Len(s) - 1
         /\ \A n \in 1..(Len(s) - 1) : Front(s)[n] = s[n]
<1>1. Len(s) \in Nat \ {0} /\ \A n \in 1..Len(s) : s[n] \in S
  BY EmptySeq, ElementOfSeq
<1>. DEFINE k == Len(s) - 1
<1>2. k \in Nat /\ k + 1 = Len(s) /\ \A n \in 1..k : s[n] \in S
  BY <1>1
<1>3. Front(s) = SubSeq(s, 1, k)
  BY DEF Front
<1>. HIDE DEF k
<1>4. /\ SubSeq(s, 1, k) \in Seq(S)
      /\ Len(SubSeq(s, 1, k)) = IF 1 <= k THEN k - 1 + 1 ELSE 0
      /\ \A n \in 1..(k - 1 + 1) : SubSeq(s, 1, k)[n] = s[1 + n - 1]
  BY <1>2, SubSeqProperties
<1>. DEFINE t == SubSeq(s, 1, k)
<1>. HIDE DEF t
<1>5. t \in Seq(S) /\ Len(t) = k /\ \A n \in 1..k : t[n] = s[n]
  BY <1>2, <1>4 DEF t
<1>6. Front(s) \in Seq(S) /\ Len(Front(s)) = k /\ \A n \in 1..k : Front(s)[n] = s[n]
  BY <1>3, <1>5 DEF t
<1>7. k = Len(s) - 1
  BY DEF k
<1>. QED
  BY <1>1, <1>6, <1>7 DEF Last

LEMMA SetTopFacts ==
  ASSUME TypeOK, NEW c \in Callers, stack[c] # <<>>, NEW f \in Frame, SetTop(c, f)
  PROVE  /\ stack' \in [Callers -> Seq(Frame)]
         /\ \A d \in Callers : d # c => stack'[d] = stack[d]
         /\ Len(stack'[c]) = Len(stack[c])
         /\ \A n \in 1..Len(stack[c]) :
              stack'[c][n] = IF n = Len(stack[c]) THEN f ELSE stack[c][n]
<1>. DEFINE s == stack[c]
<1>1. s \in Seq(Frame)
  BY DEF TypeOK
<1>2. /\ Len(s) \in Nat \ {0} /\ Front(s) \in Seq(Frame) /\ Len(Front(s)) = Len(s) - 1
      /\ \A n \in 1..(Len(s) - 1) : Front(s)[n] = s[n]
  BY <1>1, FrontFacts
<1>3. /\ Append(Front(s), f) \in Seq(Frame)
      /\ Len(Append(Front(s), f)) = Len(s)
      /\ \A n \in 1..(Len(s) - 1) : Append(Front(s), f)[n] = s[n]
      /\ Append(Front(s), f)[Len(s)] = f
  BY <1>2, AppendProperties
<1>4. stack' = [stack EXCEPT ![c] = Append(Front(s), f)]
  BY DEF SetTop
<1>. HIDE DEF s
<1>5. stack'[c] = Append(Front(s), f) /\ stack' \in [Callers -> Seq(Frame)]
      /\ \A d \in Callers : d # c => stack'[d] = stack[d]
  BY <1>3, <1>4 DEF TypeOK
<1>. QED
  BY <1>2, <1>3, <1>5 DEF s

LEMMA ReturnFacts ==
  ASSUME TypeOK, NEW c \in Callers, stack[c] # <<>>, Return(c)
  PROVE  /\ stack' \in [Callers -> Seq(Frame)]
         /\ \A d \in Callers : d # c => stack'[d] = stack[d]
         /\ Len(stack'[c]) = Len(stack[c]) - 1
         /\ \A n \in 1..(Len(stack[c]) - 1) : stack'[c][n] = stack[c][n]
<1>. DEFINE s == stack[c]
<1>1. s \in Seq(Frame)
  BY DEF TypeOK
<1>2. /\ Front(s) \in Seq(Frame) /\ Len(Front(s)) = Len(s) - 1
      /\ \A n \in 1..(Len(s) - 1) : Front(s)[n] = s[n]
  BY <1>1, FrontFacts
<1>3. stack' = [stack EXCEPT ![c] = Front(s)]
  BY DEF Return
<1>. HIDE DEF s
<1>. QED
  BY <1>2, <1>3 DEF TypeOK, s

LEMMA NotifyNextFacts ==
  ASSUME TypeOK, NEW c \in Callers, NotifyNext(c)
  PROVE  LET f == [Top(c) EXCEPT !.todo = Tail(@)]
             g == Call(Head(Top(c).todo), Top(c).exceptional)
         IN  /\ stack' \in [Callers -> Seq(Frame)]
             /\ f \in Frame /\ g \in Frame
             /\ \A d \in Callers : d # c => stack'[d] = stack[d]
             /\ Len(stack'[c]) = Len(stack[c]) + 1
             /\ \A n \in 1..Len(stack'[c]) :
                  stack'[c][n] = IF n = Len(stack'[c]) THEN g
                                 ELSE IF n = Len(stack[c]) THEN f
                                 ELSE stack[c][n]
<1>. DEFINE s == stack[c]
            f == [Top(c) EXCEPT !.todo = Tail(@)]
            g == Call(Head(Top(c).todo), Top(c).exceptional)
<1>0. s \in Seq(Frame) /\ s # <<>>
  BY DEF TypeOK, NotifyNext, At
<1>1. /\ Len(s) \in Nat \ {0} /\ Front(s) \in Seq(Frame) /\ Len(Front(s)) = Len(s) - 1
      /\ \A n \in 1..(Len(s) - 1) : Front(s)[n] = s[n]
      /\ Top(c) \in Frame
  BY <1>0, FrontFacts DEF Top
<1>2. Top(c).todo \in Seq(Blocks) /\ Top(c).todo # <<>>
  BY <1>1 DEF NotifyNext, Frame
<1>3. f \in Frame /\ g \in Frame
  <2>1. Head(Top(c).todo) \in Blocks /\ Tail(Top(c).todo) \in Seq(Blocks) /\ <<>> \in Seq(Blocks)
    BY <1>2, HeadTailProperties, EmptySeq
  <2>. HIDE DEF s
  <2>. QED
    BY <1>1, <2>1 DEF Frame, Call
<1>. HIDE DEF f, g
<1>4. /\ Append(Front(s), f) \in Seq(Frame)
      /\ Len(Append(Front(s), f)) = Len(s)
      /\ \A n \in 1..(Len(s) - 1) : Append(Front(s), f)[n] = s[n]
      /\ Append(Front(s), f)[Len(s)] = f
  BY <1>1, <1>3, AppendProperties
<1>. DEFINE t == Append(Front(s), f)
<1>. HIDE DEF t
<1>5. t \in Seq(Frame) /\ Len(t) = Len(s)
      /\ \A n \in 1..Len(s) : t[n] = IF n = Len(s) THEN f ELSE s[n]
  BY <1>1, <1>4 DEF t
<1>6. <<g>> \in Seq(Frame) /\ Len(<<g>>) = 1 /\ <<g>>[1] = g
  BY <1>3
<1>7. /\ t \o <<g>> \in Seq(Frame) /\ Len(t \o <<g>>) = Len(t) + 1
      /\ \A n \in 1..(Len(t) + 1) :
           (t \o <<g>>)[n] = IF n <= Len(t) THEN t[n] ELSE <<g>>[n - Len(t)]
  BY <1>5, <1>6, ConcatProperties
<1>8. stack' = [stack EXCEPT ![c] = t \o <<g>>]
  BY DEF NotifyNext, s, t, f, g
<1>. HIDE DEF s
<1>9. /\ stack'[c] = t \o <<g>> /\ stack' \in [Callers -> Seq(Frame)]
      /\ \A d \in Callers : d # c => stack'[d] = stack[d]
  BY <1>7, <1>8 DEF TypeOK
<1>10. \A n \in 1..(Len(s) + 1) :
         stack'[c][n] = IF n = Len(s) + 1 THEN g ELSE IF n = Len(s) THEN f ELSE s[n]
  BY <1>1, <1>5, <1>6, <1>7, <1>9
<1>. QED
  BY <1>1, <1>3, <1>5, <1>7, <1>9, <1>10 DEF s, f, g

-----------------------------------------------------------------------------
(* The calling threads: a thread in a call has a frame on top of its stack.*)
LEMMA TopFacts ==
  ASSUME TypeOK, NEW c \in Callers, NEW p, At(c, p)
  PROVE  /\ stack[c] \in Seq(Frame) /\ stack[c] # <<>>
         /\ Len(stack[c]) \in Nat \ {0} /\ Len(stack[c]) \in 1..Len(stack[c])
         /\ Top(c) = stack[c][Len(stack[c])]
         /\ Top(c) \in Frame /\ Top(c).phase = p
         /\ Top(c).block \in Blocks
         /\ Top(c).todo \in Seq(Blocks)
         /\ Top(c).exceptional \in BOOLEAN /\ Top(c).raising \in BOOLEAN
<1>1. stack[c] \in Seq(Frame) /\ stack[c] # <<>> /\ Top(c).phase = p
  BY DEF TypeOK, At
<1>2. /\ Len(stack[c]) \in Nat \ {0} /\ Len(stack[c]) \in 1..Len(stack[c])
      /\ Top(c) = stack[c][Len(stack[c])] /\ Top(c) \in Frame
  BY <1>1, FrontFacts DEF Top
<1>. QED
  BY <1>1, <1>2 DEF Frame

LEMMA StartSoundStep ==
  ASSUME TaskInv, Next
  PROVE  StartSound'
<1>0. TypeOK /\ StartSound /\ First \in Blocks
  BY FlowAssumption DEF TaskInv
<1>t. /\ state \in [Blocks -> {"Created", "Started", "Stopping", "Stopped"}]
      /\ ppc \in [Blocks -> {"await", "loop", "take", "waiting", "granted",
                             "transform", "offer", "add", "ended", "failed"}]
      /\ \A b \in Blocks : /\ state[b] = "Created" <=> state[First] = "Created"
                           /\ ppc[b] = "await" <=> state[First] = "Created"
  BY <1>0 DEF TypeOK, StartSound
<1>k. ASSUME state' = state,
             \E b \in Blocks, at \in {"loop", "take", "waiting", "granted", "transform",
                                     "offer", "add", "ended", "failed"} :
               ppc[b] # "await" /\ ppc' = [ppc EXCEPT ![b] = at]
      PROVE  StartSound'
  BY <1>0, <1>t, <1>k DEF StartSound
<1>. USE <1>0, <1>t DEF StartSound
<1>1. CASE Start
  BY <1>1 DEF Start
<1>2. ASSUME NEW i \in Items, CheckStarted(i) PROVE StartSound'
  BY <1>2 DEF CheckStarted
<1>3. ASSUME NEW i \in Items, Add(i) PROVE StartSound'
  BY <1>3 DEF Add, Woken
<1>4. CASE UserComplete
  BY <1>4 DEF UserComplete
<1>5. ASSUME NEW b \in Blocks, ProcessingStep(b) PROVE StartSound'
  <2>1. CASE TestToken(b)
    BY <1>k, <2>1 DEF TestToken
  <2>2. CASE TakeBegin(b)
    BY <2>2 DEF TakeBegin
  <2>3. CASE TakeEnd(b)
    BY <2>3 DEF TakeEnd
  <2>4. CASE Transform(b)
    BY <2>4 DEF Transform
  <2>5. CASE TransformFails(b)
    BY <2>5 DEF TransformFails
  <2>6. CASE AskSuccessor(b)
    BY <2>6 DEF AskSuccessor
  <2>7. CASE OfferCheck(b)
    <3>1. ppc[b] = "offer" /\ state' = state
      BY <2>7 DEF OfferCheck
    <3>2. CASE state[Head(targets[b])] = "Started"
      <4>1. ppc' = [ppc EXCEPT ![b] = "add"]
        BY <2>7, <3>2 DEF OfferCheck
      <4>. QED
        BY <1>k, <3>1, <4>1
    <3>3. CASE state[Head(targets[b])] # "Started"
      <4>1. ppc' = ppc
        BY <2>7, <3>3 DEF OfferCheck
      <4>. QED
        BY <3>1, <4>1
    <3>. QED
      BY <3>2, <3>3
  <2>8. CASE OfferAdd(b)
    <3>1. \A x \in Blocks : ppc'[x] = "await" <=> ppc[x] = "await"
      BY <2>8 DEF OfferAdd, Woken
    <3>. QED
      BY <2>8, <3>1 DEF OfferAdd
  <2>9. CASE Passed(b)
    BY <2>9 DEF Passed
  <2>. QED
    BY <1>5, <2>1, <2>2, <2>3, <2>4, <2>5, <2>6, <2>7, <2>8, <2>9 DEF ProcessingStep
<1>6. ASSUME NEW c \in Callers, CallStep(c) PROVE StartSound'
  <2>1. CASE Enter(c)
    <3>1. Top(c).block \in Blocks
      BY <2>1, TopFacts DEF Enter
    <3>. QED
      BY <2>1, <3>1 DEF Enter, EnterWhen
  <2>2. CASE CancelProcessing(c)
    BY <2>2 DEF CancelProcessing
  <2>3. CASE WakeProcessing(c)
    BY <2>3 DEF WakeProcessing
  <2>4. CASE WaitProcessing(c)
    <3>1. Top(c).block \in Blocks
      BY <2>4, TopFacts DEF WaitProcessing
    <3>. QED
      BY <2>4, <3>1 DEF WaitProcessing, Conclude
  <2>5. CASE NotifyNext(c)
    BY <2>5 DEF NotifyNext
  <2>6. CASE Leave(c)
    BY <2>6 DEF Leave
  <2>7. CASE Terminate(c)
    BY <2>7 DEF Terminate
  <2>. QED
    BY <1>6, <2>1, <2>2, <2>3, <2>4, <2>5, <2>6, <2>7 DEF CallStep
<1>. QED
  BY <1>1, <1>2, <1>3, <1>4, <1>5, <1>6 DEF Next

(* Sequences of items.                                                     *)
LEMMA AddToFacts ==
  ASSUME TypeOK, NEW b \in Blocks, NEW i \in Items, AddTo(b, i)
  PROVE  /\ queue' \in [Blocks -> Seq(Items)]
         /\ \A x \in Blocks : x # b => queue'[x] = queue[x]
         /\ queue'[b] = Append(queue[b], i) /\ queue'[b] # <<>>
         /\ accepted' \in [Blocks -> Seq(Items)]
         /\ \A x \in Blocks : x # b => accepted'[x] = accepted[x]
         /\ accepted'[b] = Append(accepted[b], i)
<1>1. queue \in [Blocks -> Seq(Items)] /\ accepted \in [Blocks -> Seq(Items)]
  BY DEF TypeOK
<1>2. queue[b] \in Seq(Items) /\ accepted[b] \in Seq(Items)
  BY <1>1
<1>3. Append(queue[b], i) \in Seq(Items) /\ Append(queue[b], i) # <<>>
  BY <1>2, AppendProperties
<1>4. Append(accepted[b], i) \in Seq(Items)
  BY <1>2, AppendProperties
<1>. QED
  BY <1>1, <1>3, <1>4 DEF AddTo

LEMMA TailFacts ==
  ASSUME NEW S, NEW s \in Seq(S), s # <<>>
  PROVE  /\ Len(s) \in Nat \ {0}
         /\ Head(s) \in S /\ Head(s) = s[1]
         /\ Tail(s) \in Seq(S) /\ Len(Tail(s)) = Len(s) - 1
         /\ \A n \in 1..(Len(s) - 1) : Tail(s)[n] = s[n + 1]
         /\ Tail(s) = <<>> <=> Len(s) = 1
<1>1. Len(s) \in Nat \ {0}
  BY EmptySeq
<1>2. /\ Head(s) \in S /\ Tail(s) \in Seq(S) /\ Len(Tail(s)) = Len(s) - 1
      /\ \A n \in 1..(Len(s) - 1) : Tail(s)[n] = s[n + 1]
  BY HeadTailProperties
<1>3. Tail(s) = <<>> <=> Len(Tail(s)) = 0
  BY <1>2, EmptySeq
<1>4. Head(s) = s[1]
  OBVIOUS
<1>. QED
  BY <1>1, <1>2, <1>3, <1>4

-----------------------------------------------------------------------------
(* The processing task.                                                    *)
LEMMA TaskFitsKept ==
  ASSUME NEW x, TaskFits(x),
         ppc'[x] = ppc[x], inHand'[x] = inHand[x], draining'[x] = draining[x],
         queue'[x] = queue[x], canceled'[x] = canceled[x], state'[x] = state[x],
         completion'[x] = completion[x]
  PROVE  TaskFits(x)'
BY DEF TaskFits

LEMMA TaskSoundStep ==
  ASSUME TaskInv, Next
  PROVE  TaskSound'
<1>0. TypeOK /\ StartSound /\ TaskSound /\ OfferSound /\ StackSound /\ First \in Blocks
  BY FlowAssumption DEF TaskInv
<1>t. /\ state \in [Blocks -> {"Created", "Started", "Stopping", "Stopped"}]
      /\ canceled \in [Blocks -> BOOLEAN]
      /\ ppc \in [Blocks -> {"await", "loop", "take", "waiting", "granted",
                             "transform", "offer", "add", "ended", "failed"}]
      /\ draining \in [Blocks -> BOOLEAN]
      /\ completion \in [Blocks -> {"none", "result", "error"}]
  BY <1>0 DEF TypeOK
<1>q. queue \in [Blocks -> Seq(Items)] /\ inHand \in [Blocks -> Seq(Items)]
  BY <1>0 DEF TypeOK
<1>s. \A b \in Blocks : TaskFits(b)
  BY <1>0 DEF TaskSound
<1>. SUFFICES \A b \in Blocks : TaskFits(b)'
  BY DEF TaskSound
<1>1. CASE Start
  BY <1>0, <1>1, <1>s DEF Start, StartSound, TaskFits
<1>2. ASSUME NEW i \in Items, CheckStarted(i) PROVE \A b \in Blocks : TaskFits(b)'
  BY <1>s, <1>2, TaskFitsKept DEF CheckStarted
<1>3. ASSUME NEW i \in Items, Add(i) PROVE \A b \in Blocks : TaskFits(b)'
  <2>1. queue'[First] # <<>> /\ \A x \in Blocks : x # First => queue'[x] = queue[x]
    BY <1>0, <1>3, AddToFacts DEF Add
  <2>2. /\ ppc' = [ppc EXCEPT ![First] = Woken(@)]
        /\ UNCHANGED <<state, canceled, completion, inHand, draining>>
    BY <1>3 DEF Add
  <2>3. TaskFits(First)'
    BY <1>0, <1>t, <1>s, <2>1, <2>2 DEF Woken, TaskFits
  <2>4. \A x \in Blocks \ {First} : TaskFits(x)'
    BY <1>t, <1>s, <2>1, <2>2, TaskFitsKept
  <2>. QED
    BY <2>3, <2>4
<1>4. CASE UserComplete
  BY <1>s, <1>4, TaskFitsKept DEF UserComplete
<1>5. ASSUME NEW b \in Blocks, ProcessingStep(b), ~OfferAdd(b)
      PROVE  \A x \in Blocks : TaskFits(x)'
  <2>1. CASE TestToken(b)
    <3>1. \A x \in Blocks \ {b} : TaskFits(x)'
      BY <1>t, <1>q, <1>s, <2>1, TaskFitsKept DEF TestToken
    <3>2. CASE canceled[b]
      <4>1. inHand'[b] = queue[b] /\ queue'[b] = <<>> /\ draining'[b] = TRUE
            /\ ppc'[b] = (IF queue[b] = <<>> THEN "ended" ELSE "transform")
            /\ UNCHANGED control
        BY <1>t, <1>q, <2>1, <3>2 DEF TestToken
      <4>2. TaskFits(b)'
        BY <1>s, <2>1, <3>2, <4>1 DEF TestToken, TaskFits
      <4>. QED
        BY <3>1, <4>2
    <3>3. CASE ~canceled[b]
      <4>1. UNCHANGED <<control, inHand, queue, draining>>
            /\ ppc'[b] = "take"
        BY <1>t, <2>1, <3>3 DEF TestToken
      <4>2. TaskFits(b)'
        BY <1>s, <2>1, <3>3, <4>1 DEF TestToken, TaskFits
      <4>. QED
        BY <3>1, <4>2
    <3>. QED
      BY <3>2, <3>3
  <2>2. CASE TakeBegin(b)
    BY <1>t, <1>s, <2>2 DEF TakeBegin, TaskFits
  <2>3. CASE TakeEnd(b)
    <3>1. \A x \in Blocks \ {b} : TaskFits(x)'
      BY <1>t, <1>q, <1>s, <2>3, TaskFitsKept DEF TakeEnd
    <3>2. inHand'[b] # <<>> /\ Len(inHand'[b]) = 1 /\ ppc'[b] = "transform"
      BY <1>t, <1>q, <2>3 DEF TakeEnd
    <3>3. TaskFits(b)'
      BY <1>s, <2>3, <3>2 DEF TakeEnd, TaskFits
    <3>. QED
      BY <3>1, <3>3
  <2>4. CASE Transform(b)
    BY <1>t, <1>s, <2>4 DEF Transform, TaskFits
  <2>5. CASE TransformFails(b)
    BY <1>t, <1>s, <2>5 DEF TransformFails, TaskFits
  <2>6. CASE AskSuccessor(b)
    BY <1>s, <2>6, TaskFitsKept DEF AskSuccessor
  <2>7. CASE OfferCheck(b)
    <3>1. /\ ppc[b] = "offer" /\ (ppc' = [ppc EXCEPT ![b] = "add"] \/ ppc' = ppc)
          /\ UNCHANGED <<control, inHand, draining, queue>>
      BY <2>7 DEF OfferCheck
    <3>. QED
      BY <1>t, <1>s, <3>1 DEF TaskFits
  <2>8. CASE Passed(b)
    <3>1. inHand[b] # <<>>
      BY <1>s, <2>8 DEF Passed, TaskFits
    <3>2. /\ Len(inHand[b]) \in Nat \ {0}
          /\ Tail(inHand[b]) = <<>> <=> Len(inHand[b]) = 1
          /\ Len(<<>>) = 0
      BY <1>q, <3>1, TailFacts, EmptySeq
    <3>3. \A x \in Blocks \ {b} : TaskFits(x)'
      BY <1>t, <1>q, <1>s, <2>8, TaskFitsKept DEF Passed
    <3>4. /\ inHand'[b] = Tail(inHand[b]) /\ ppc[b] = "offer"
          /\ ppc'[b] = IF ~draining[b] THEN "loop"
                       ELSE IF Len(inHand[b]) = 1 THEN "ended" ELSE "transform"
          /\ UNCHANGED <<control, draining, queue>>
      BY <1>t, <1>q, <2>8 DEF Passed
    <3>5. TaskFits(b)'
      BY <1>t, <1>s, <3>1, <3>2, <3>4 DEF TaskFits
    <3>. QED
      BY <3>3, <3>5
  <2>. QED
    BY <1>5, <2>1, <2>2, <2>3, <2>4, <2>5, <2>6, <2>7, <2>8 DEF ProcessingStep
<1>6. ASSUME NEW b \in Blocks, OfferAdd(b) PROVE \A x \in Blocks : TaskFits(x)'
  <2>. DEFINE s == Head(targets[b])
  <2>1. ppc[b] = "add" /\ targets[b] # <<>> /\ inHand[b] # <<>>
    BY <1>0, <1>s, <1>6 DEF OfferSound, OfferFits, OfferAdd, TaskFits
  <2>2. targets[b] \in Seq(Blocks)
    BY <1>0 DEF TypeOK
  <2>3. s \in Blocks /\ Head(inHand[b]) \in Items
    BY <1>q, <2>1, <2>2, TailFacts
  <2>. HIDE DEF s
  <2>4. /\ AddTo(s, Head(inHand[b])) /\ ppc' = [ppc EXCEPT ![b] = "offer", ![s] = Woken(@)]
        /\ UNCHANGED <<control, inHand, draining>>
    BY <1>6 DEF OfferAdd, s
  <2>5. queue'[s] # <<>> /\ \A x \in Blocks : x # s => queue'[x] = queue[x]
    BY <1>0, <2>3, <2>4, AddToFacts
  <2>6. /\ ppc'[b] = "offer"
        /\ \A x \in Blocks \ {b} :
             ppc'[x] = IF x = s /\ ppc[x] = "waiting" THEN "granted" ELSE ppc[x]
    BY <1>t, <2>3, <2>4 DEF Woken
  <2>7. ASSUME NEW x \in Blocks PROVE TaskFits(x)'
    <3>1. CASE x = b
      BY <1>s, <2>1, <2>4, <2>5, <2>6, <3>1 DEF TaskFits
    <3>2. CASE x # b
      BY <1>s, <1>t, <2>4, <2>5, <2>6, <3>2 DEF TaskFits
    <3>. QED
      BY <3>1, <3>2
  <2>. QED
    BY <2>7
<1>7. ASSUME NEW c \in Callers, CallStep(c) PROVE \A b \in Blocks : TaskFits(b)'
  <2>1. CASE Enter(c)
    <3>1. Top(c).block \in Blocks
      BY <1>0, <2>1, TopFacts DEF Enter
    <3>. QED
      BY <1>s, <1>t, <2>1, <3>1 DEF Enter, EnterWhen, TaskFits
  <2>2. CASE CancelProcessing(c)
    <3>1. Top(c).block \in Blocks /\ Top(c) = stack[c][Len(stack[c])]
          /\ Top(c).phase = "cancel" /\ Len(stack[c]) \in 1..Len(stack[c])
      BY <1>0, <2>2, TopFacts DEF CancelProcessing
    <3>2. state[Top(c).block] = "Stopping"
      BY <1>0, <3>1 DEF StackSound, CallFits
    <3>. QED
      BY <1>s, <1>t, <2>2, <3>1, <3>2 DEF CancelProcessing, TaskFits
  <2>3. CASE WakeProcessing(c)
    <3>1. Top(c).block \in Blocks
      BY <1>0, <2>3, TopFacts DEF WakeProcessing
    <3>. QED
      BY <1>s, <1>t, <2>3, <3>1 DEF WakeProcessing, TaskFits
  <2>4. CASE WaitProcessing(c)
    <3>1. Top(c).block \in Blocks
      BY <1>0, <2>4, TopFacts DEF WaitProcessing
    <3>. QED
      BY <1>s, <1>t, <2>4, <3>1 DEF WaitProcessing, Conclude, TaskFits
  <2>5. CASE NotifyNext(c)
    BY <1>s, <2>5, TaskFitsKept DEF NotifyNext
  <2>6. CASE Leave(c)
    BY <1>s, <2>6, TaskFitsKept DEF Leave
  <2>7. CASE Terminate(c)
    BY <1>s, <2>7, TaskFitsKept DEF Terminate
  <2>. QED
    BY <1>7, <2>1, <2>2, <2>3, <2>4, <2>5, <2>6, <2>7 DEF CallStep
<1>. QED
  BY <1>1, <1>2, <1>3, <1>4, <1>5, <1>6, <1>7 DEF Next, ProcessingStep

-----------------------------------------------------------------------------
(* The order: what a step does to the three parts of the input.            *)
LEMMA OrderAlgebra ==
  ASSUME NEW S, NEW p \in Seq(S), NEW h \in Seq(S), NEW q \in Seq(S)
  PROVE  /\ p \o q \o <<>> = p \o <<>> \o q
         /\ q # <<>> => p \o <<Head(q)>> \o Tail(q) = p \o <<>> \o q
         /\ h # <<>> => Append(p, Head(h)) \o Tail(h) \o q = p \o h \o q
<1>2. p \o q \o <<>> = p \o <<>> \o q
  <2>1. p \o q \in Seq(S)
    BY ConcatProperties
  <2>2. p \o q \o <<>> = p \o q
    BY <2>1, ConcatEmptySeq
  <2>3. p \o <<>> = p
    BY ConcatEmptySeq
  <2>. QED
    BY <2>2, <2>3
<1>3. ASSUME q # <<>> PROVE p \o <<Head(q)>> \o Tail(q) = p \o <<>> \o q
  <2>1. Head(q) \in S /\ Tail(q) \in Seq(S) /\ <<Head(q)>> \in Seq(S)
    BY <1>3, TailFacts
  <2>2. (p \o <<Head(q)>>) \o Tail(q) = p \o (<<Head(q)>> \o Tail(q))
    BY <2>1, ConcatAssociative
  <2>3. <<Head(q)>> \o Tail(q) = q
    BY <1>3
  <2>4. p \o <<>> = p
    BY ConcatEmptySeq
  <2>. QED
    BY <2>2, <2>3, <2>4
<1>4. ASSUME h # <<>> PROVE Append(p, Head(h)) \o Tail(h) \o q = p \o h \o q
  <2>1. Append(p, Head(h)) \o Tail(h) = p \o h
    BY <1>4
  <2>. QED
    BY <2>1
<1>. QED
  BY <1>2, <1>3, <1>4

Ordered(b) == accepted[b] = processed[b] \o Pending(b) \o queue[b]

LEMMA OrderedKept ==
  ASSUME NEW x, Ordered(x), accepted'[x] = accepted[x], processed'[x] = processed[x],
         inHand'[x] = inHand[x], queue'[x] = queue[x],
         ppc'[x] \in {"offer", "add"} <=> ppc[x] \in {"offer", "add"}
  PROVE  Ordered(x)'
BY DEF Ordered, Pending

LEMMA InOrderStep ==
  ASSUME TaskInv, Next
  PROVE  InOrder'
<1>0. /\ TypeOK /\ StartSound /\ TaskSound /\ InOrder /\ OfferSound /\ StackSound
      /\ First \in Blocks
  BY FlowAssumption DEF TaskInv
<1>t. ppc \in [Blocks -> {"await", "loop", "take", "waiting", "granted",
                             "transform", "offer", "add", "ended", "failed"}]
  BY <1>0 DEF TypeOK
<1>q. /\ queue \in [Blocks -> Seq(Items)] /\ inHand \in [Blocks -> Seq(Items)]
      /\ accepted \in [Blocks -> Seq(Items)] /\ processed \in [Blocks -> Seq(Items)]
  BY <1>0 DEF TypeOK
<1>s. \A b \in Blocks : TaskFits(b)
  BY <1>0 DEF TaskSound
<1>o. \A b \in Blocks : Ordered(b)
  BY <1>0 DEF InOrder, Ordered
<1>. SUFFICES \A b \in Blocks : Ordered(b)'
  BY DEF InOrder, Ordered
<1>p. \A b \in Blocks : Pending(b) \in Seq(Items)
  <2>. TAKE b \in Blocks
  <2>1. ppc[b] \in {"offer", "add"} => inHand[b] # <<>>
    BY <1>s DEF TaskFits
  <2>. QED
    BY <1>q, <2>1, TailFacts DEF Pending
<1>1. CASE Start
  BY <1>t, <1>0, <1>o, <1>1, OrderedKept DEF Start, StartSound
<1>2. ASSUME NEW i \in Items, CheckStarted(i) PROVE \A b \in Blocks : Ordered(b)'
  BY <1>o, <1>2, OrderedKept DEF CheckStarted
<1>a. ASSUME NEW s \in Blocks, NEW i \in Items, AddTo(s, i), UNCHANGED <<processed, inHand>>,
             \A x \in Blocks : ppc'[x] \in {"offer", "add"} <=> ppc[x] \in {"offer", "add"}
      PROVE  \A b \in Blocks : Ordered(b)'
  <2>1. /\ queue'[s] = Append(queue[s], i) /\ accepted'[s] = Append(accepted[s], i)
        /\ \A x \in Blocks \ {s} : queue'[x] = queue[x] /\ accepted'[x] = accepted[x]
    BY <1>0, <1>a, AddToFacts
  <2>2. Pending(s)' = Pending(s)
    BY <1>a DEF Pending
  <2>3. Append(processed[s] \o Pending(s) \o queue[s], i) =
          processed[s] \o Pending(s) \o Append(queue[s], i)
    <3>1. processed[s] \in Seq(Items) /\ Pending(s) \in Seq(Items) /\ queue[s] \in Seq(Items)
      BY <1>q, <1>p
    <3>. DEFINE p == processed[s] \o Pending(s)
                q == queue[s]
    <3>2. p \in Seq(Items) /\ q \in Seq(Items) /\ i \in Items /\ <<i>> \in Seq(Items)
      BY <3>1, ConcatProperties
    <3>. HIDE DEF p, q
    <3>3. p \o q \in Seq(Items)
      BY <3>2, ConcatProperties
    <3>4. Append(p \o q, i) = (p \o q) \o <<i>> /\ Append(q, i) = q \o <<i>>
      BY <3>2, <3>3, AppendIsConcat
    <3>5. (p \o q) \o <<i>> = p \o (q \o <<i>>)
      BY <3>2, ConcatAssociative
    <3>. QED
      BY <3>4, <3>5 DEF p, q
  <2>4. Ordered(s)'
    BY <1>a, <1>o, <2>1, <2>2, <2>3 DEF Ordered
  <2>5. \A x \in Blocks \ {s} : Ordered(x)'
    BY <1>a, <1>o, <2>1, OrderedKept
  <2>. QED
    BY <2>4, <2>5
<1>3. ASSUME NEW i \in Items, Add(i) PROVE \A b \in Blocks : Ordered(b)'
  <2>1. \A x \in Blocks : ppc'[x] \in {"offer", "add"} <=> ppc[x] \in {"offer", "add"}
    BY <1>t, <1>0, <1>3 DEF Add, Woken
  <2>2. AddTo(First, i) /\ UNCHANGED <<processed, inHand>>
    BY <1>3 DEF Add
  <2>. QED
    BY <1>0, <1>a, <2>1, <2>2
<1>4. CASE UserComplete
  BY <1>o, <1>4, OrderedKept DEF UserComplete
<1>5. ASSUME NEW b \in Blocks, ProcessingStep(b), ~OfferAdd(b)
      PROVE  \A x \in Blocks : Ordered(x)'
  <2>1. CASE TestToken(b)
    <3>1. \A x \in Blocks \ {b} : Ordered(x)'
      BY <1>t, <1>q, <1>o, <2>1, OrderedKept DEF TestToken
    <3>2. CASE canceled[b]
      <4>1. /\ inHand'[b] = queue[b] /\ queue'[b] = <<>>
            /\ Pending(b)' = queue[b]
            /\ UNCHANGED <<accepted, processed>>
        BY <1>t, <1>q, <2>1, <3>2 DEF TestToken, Pending
      <4>2. Pending(b) = <<>>
        BY <1>s, <2>1 DEF TestToken, TaskFits, Pending
      <4>3. processed[b] \o queue[b] \o <<>> = processed[b] \o <<>> \o queue[b]
        <5>1. processed[b] \in Seq(Items) /\ queue[b] \in Seq(Items)
          BY <1>q
        <5>. QED
          BY <5>1, OrderAlgebra
      <4>4. Ordered(b)'
        BY <1>o, <4>1, <4>2, <4>3 DEF Ordered
      <4>. QED
        BY <3>1, <4>4
    <3>3. CASE ~canceled[b]
      BY <1>t, <1>o, <2>1, <3>3, OrderedKept DEF TestToken
    <3>. QED
      BY <3>2, <3>3
  <2>2. CASE TakeBegin(b)
    BY <1>t, <1>o, <2>2, OrderedKept DEF TakeBegin
  <2>3. CASE TakeEnd(b)
    <3>1. \A x \in Blocks \ {b} : Ordered(x)'
      BY <1>t, <1>q, <1>o, <2>3, OrderedKept DEF TakeEnd
    <3>2. /\ inHand'[b] = <<Head(queue[b])>> /\ queue'[b] = Tail(queue[b])
          /\ Pending(b)' = <<Head(queue[b])>>
          /\ UNCHANGED <<accepted, processed>>
      BY <1>t, <1>q, <2>3 DEF TakeEnd, Pending
    <3>3. Pending(b) = <<>> /\ queue[b] # <<>>
      BY <1>s, <2>3 DEF TakeEnd, TaskFits, Pending
    <3>4. processed[b] \o <<Head(queue[b])>> \o Tail(queue[b]) = processed[b] \o <<>> \o queue[b]
      BY <1>q, <3>3, OrderAlgebra
    <3>5. Ordered(b)'
      BY <1>o, <3>2, <3>3, <3>4 DEF Ordered
    <3>. QED
      BY <3>1, <3>5
  <2>4. CASE Transform(b)
    <3>1. \A x \in Blocks \ {b} : Ordered(x)'
      BY <1>t, <1>q, <1>o, <2>4, OrderedKept DEF Transform
    <3>2. /\ processed'[b] = Append(processed[b], Head(inHand[b]))
          /\ Pending(b)' = Tail(inHand[b]) /\ Pending(b) = inHand[b]
          /\ UNCHANGED <<accepted, queue>>
      BY <1>t, <1>q, <2>4 DEF Transform, Pending
    <3>3. inHand[b] # <<>>
      BY <1>s, <2>4 DEF Transform, TaskFits
    <3>4. Append(processed[b], Head(inHand[b])) \o Tail(inHand[b]) \o queue[b] =
            processed[b] \o inHand[b] \o queue[b]
      BY <1>q, <3>3, OrderAlgebra
    <3>5. Ordered(b)'
      BY <1>o, <3>2, <3>4 DEF Ordered
    <3>. QED
      BY <3>1, <3>5
  <2>5. CASE TransformFails(b)
    BY <1>t, <1>o, <2>5, OrderedKept DEF TransformFails
  <2>6. CASE AskSuccessor(b)
    BY <1>o, <2>6, OrderedKept DEF AskSuccessor
  <2>7. CASE OfferCheck(b)
    <3>1. /\ ppc[b] = "offer" /\ (ppc' = [ppc EXCEPT ![b] = "add"] \/ ppc' = ppc)
          /\ UNCHANGED <<inHand, input, processed>>
      BY <2>7 DEF OfferCheck
    <3>. QED
      BY <1>t, <1>o, <3>1, OrderedKept
  <2>8. CASE Passed(b)
    <3>1. \A x \in Blocks \ {b} : Ordered(x)'
      BY <1>t, <1>q, <1>o, <2>8, OrderedKept DEF Passed
    <3>2. /\ Pending(b)' = Tail(inHand[b]) /\ Pending(b) = Tail(inHand[b])
          /\ UNCHANGED <<accepted, queue, processed>>
      BY <1>t, <1>q, <2>8 DEF Passed, Pending
    <3>3. Ordered(b)'
      BY <1>o, <3>2 DEF Ordered
    <3>. QED
      BY <3>1, <3>3
  <2>. QED
    BY <1>5, <2>1, <2>2, <2>3, <2>4, <2>5, <2>6, <2>7, <2>8 DEF ProcessingStep
<1>6. ASSUME NEW b \in Blocks, OfferAdd(b) PROVE \A x \in Blocks : Ordered(x)'
  <2>. DEFINE s == Head(targets[b])
  <2>1. ppc[b] = "add" /\ targets[b] # <<>> /\ inHand[b] # <<>>
    BY <1>0, <1>s, <1>6 DEF OfferSound, OfferFits, OfferAdd, TaskFits
  <2>2. targets[b] \in Seq(Blocks)
    BY <1>0 DEF TypeOK
  <2>3. s \in Blocks /\ Head(inHand[b]) \in Items
    BY <1>q, <2>1, <2>2, TailFacts
  <2>. HIDE DEF s
  <2>4. /\ AddTo(s, Head(inHand[b])) /\ ppc' = [ppc EXCEPT ![b] = "offer", ![s] = Woken(@)]
        /\ UNCHANGED <<processed, inHand>>
    BY <1>6 DEF OfferAdd, s
  <2>5. \A x \in Blocks : ppc'[x] \in {"offer", "add"} <=> ppc[x] \in {"offer", "add"}
    BY <1>t, <2>1, <2>3, <2>4 DEF Woken
  <2>. QED
    BY <1>a, <2>3, <2>4, <2>5
<1>7. ASSUME NEW c \in Callers, CallStep(c) PROVE \A b \in Blocks : Ordered(b)'
  <2>1. CASE Enter(c)
    BY <1>o, <2>1, OrderedKept DEF Enter, EnterWhen
  <2>2. CASE CancelProcessing(c)
    BY <1>o, <2>2, OrderedKept DEF CancelProcessing
  <2>3. CASE WakeProcessing(c)
    <3>1. Top(c).block \in Blocks
      BY <1>0, <2>3, TopFacts DEF WakeProcessing
    <3>. QED
      BY <1>o, <1>t, <2>3, <3>1, OrderedKept DEF WakeProcessing
  <2>4. CASE WaitProcessing(c)
    BY <1>o, <2>4, OrderedKept DEF WaitProcessing, Conclude
  <2>5. CASE NotifyNext(c)
    BY <1>o, <2>5, OrderedKept DEF NotifyNext
  <2>6. CASE Leave(c)
    BY <1>o, <2>6, OrderedKept DEF Leave
  <2>7. CASE Terminate(c)
    BY <1>o, <2>7, OrderedKept DEF Terminate
  <2>. QED
    BY <1>7, <2>1, <2>2, <2>3, <2>4, <2>5, <2>6, <2>7 DEF CallStep
<1>. QED
  BY <1>1, <1>2, <1>3, <1>4, <1>5, <1>6, <1>7 DEF Next, ProcessingStep

-----------------------------------------------------------------------------
(* The offers.                                                             *)
LEMMA OfferFitsKept ==
  ASSUME NEW x, OfferFits(x), asked'[x] = asked[x], targets'[x] = targets[x],
         inHand'[x] = inHand[x] \/ targets[x] = <<>>,
         ppc'[x] = ppc[x] \/ (ppc[x] \notin {"offer", "add"} /\ ppc'[x] # "add")
  PROVE  OfferFits(x)'
<1>1. \A s \in ToSet(targets'[x]) : Head(inHand'[x]) \in Accepts[s]
  <2>1. CASE targets[x] = <<>>
    BY <2>1, EmptySeq DEF ToSet
  <2>2. CASE inHand'[x] = inHand[x]
    BY <2>2 DEF OfferFits
  <2>. QED
    BY <2>1, <2>2
<1>. QED
  BY <1>1 DEF OfferFits

(* Sequences without repetitions, as sets.                                 *)
LEMMA SetOf ==
  ASSUME NEW S, NEW s \in Seq(S)
  PROVE  /\ ToSet(s) = {s[n] : n \in 1..Len(s)} /\ ToSet(s) \subseteq S
         /\ IsInjective(s) <=> \A m, n \in 1..Len(s) : s[m] = s[n] => m = n
         /\ s = <<>> <=> ToSet(s) = {}
         /\ Len(s) \in Nat
<1>1. Len(s) \in Nat /\ DOMAIN s = 1..Len(s) /\ \A n \in 1..Len(s) : s[n] \in S
  BY LenProperties, ElementOfSeq
<1>2. ToSet(s) = {s[n] : n \in 1..Len(s)} /\ ToSet(s) \subseteq S
  BY <1>1 DEF ToSet
<1>3. IsInjective(s) <=> \A m, n \in 1..Len(s) : s[m] = s[n] => m = n
  BY <1>1 DEF IsInjective
<1>4. s = <<>> <=> ToSet(s) = {}
  <2>1. s # <<>> => Len(s) # 0
    BY EmptySeq
  <2>2. s = <<>> => Len(s) = 0
    BY EmptySeq
  <2>. QED
    BY <1>1, <1>2, <2>1, <2>2
<1>. QED
  BY <1>1, <1>2, <1>3, <1>4

LEMMA TailSet ==
  ASSUME NEW S, NEW s \in Seq(S), s # <<>>, IsInjective(s)
  PROVE  /\ Head(s) \in S /\ Tail(s) \in Seq(S) /\ Head(s) \in ToSet(s)
         /\ ToSet(s) = ToSet(Tail(s)) \cup {Head(s)}
         /\ IsInjective(Tail(s)) /\ Head(s) \notin ToSet(Tail(s))
<1>. DEFINE t == Tail(s)
<1>0. /\ Len(s) \in Nat \ {0} /\ Head(s) = s[1] /\ Head(s) \in S /\ t \in Seq(S)
      /\ Len(t) = Len(s) - 1 /\ \A n \in 1..(Len(s) - 1) : t[n] = s[n + 1]
  BY TailFacts
<1>. HIDE DEF t
<1>1. /\ ToSet(s) = {s[n] : n \in 1..Len(s)}
      /\ \A m, n \in 1..Len(s) : s[m] = s[n] => m = n
  BY SetOf
<1>2. /\ ToSet(t) = {t[n] : n \in 1..Len(t)}
      /\ IsInjective(t) <=> \A m, n \in 1..Len(t) : t[m] = t[n] => m = n
  BY <1>0, SetOf
<1>3. \A n \in 1..Len(s) : n = 1 \/ (n - 1 \in 1..Len(t) /\ t[n - 1] = s[n])
  BY <1>0
<1>4. \A n \in 1..Len(t) : n + 1 \in 1..Len(s) /\ t[n] = s[n + 1] /\ n + 1 # 1
  BY <1>0
<1>5. ToSet(s) = ToSet(t) \cup {Head(s)}
  BY <1>0, <1>1, <1>2, <1>3, <1>4
<1>6. IsInjective(t)
  <2>. SUFFICES ASSUME NEW m \in 1..Len(t), NEW n \in 1..Len(t), t[m] = t[n]
                PROVE  m = n
    BY <1>2
  <2>1. m + 1 = n + 1
    BY <1>1, <1>4
  <2>. QED
    BY <1>0, <2>1
<1>7. Head(s) \notin ToSet(t)
  BY <1>0, <1>1, <1>2, <1>4
<1>. QED
  BY <1>0, <1>5, <1>6, <1>7 DEF t

LEMMA OfferSoundStep ==
  ASSUME TaskInv, Next
  PROVE  OfferSound'
<1>0. TypeOK /\ StartSound /\ TaskSound /\ OfferSound /\ First \in Blocks
  BY FlowAssumption DEF TaskInv
<1>t. /\ ppc \in [Blocks -> {"await", "loop", "take", "waiting", "granted",
                             "transform", "offer", "add", "ended", "failed"}]
      /\ inHand \in [Blocks -> Seq(Items)]
      /\ asked \in [Blocks -> Seq(Blocks)] /\ targets \in [Blocks -> Seq(Blocks)]
  BY <1>0 DEF TypeOK
<1>u. \A b \in Blocks : Successors[b] \in Seq(Blocks) /\ IsInjective(Successors[b])
  BY FlowAssumption
<1>s. \A b \in Blocks : TaskFits(b)
  BY <1>0 DEF TaskSound
<1>o. \A b \in Blocks : OfferFits(b)
  BY <1>0 DEF OfferSound
<1>. SUFFICES \A b \in Blocks : OfferFits(b)'
  BY DEF OfferSound
<1>1. CASE Start
  BY <1>t, <1>0, <1>o, <1>1, OfferFitsKept DEF Start, StartSound
<1>2. ASSUME NEW i \in Items, CheckStarted(i) PROVE \A b \in Blocks : OfferFits(b)'
  BY <1>o, <1>2, OfferFitsKept DEF CheckStarted
<1>3. ASSUME NEW i \in Items, Add(i) PROVE \A b \in Blocks : OfferFits(b)'
  BY <1>t, <1>0, <1>o, <1>3, OfferFitsKept DEF Add, Woken
<1>4. CASE UserComplete
  BY <1>o, <1>4, OfferFitsKept DEF UserComplete
<1>5. ASSUME NEW b \in Blocks, ProcessingStep(b)
      PROVE  \A x \in Blocks : OfferFits(x)'
  <2>0. ppc[b] \notin {"offer", "add"} => targets[b] = <<>> /\ asked[b] = <<>>
    BY <1>o DEF OfferFits
  <2>1. CASE TestToken(b)
    <3>1. OfferFits(b)'
      <4>1. UNCHANGED <<asked, targets>> /\ ppc[b] = "loop" /\ ppc'[b] # "add"
        BY <1>t, <2>1 DEF TestToken
      <4>. QED
        BY <1>o, <2>0, <4>1, OfferFitsKept
    <3>2. \A x \in Blocks \ {b} : OfferFits(x)'
      BY <1>t, <1>o, <2>1, OfferFitsKept DEF TestToken
    <3>. QED
      BY <3>1, <3>2
  <2>2. CASE TakeBegin(b)
    BY <1>t, <1>o, <2>2, OfferFitsKept DEF TakeBegin
  <2>3. CASE TakeEnd(b)
    <3>1. OfferFits(b)'
      <4>1. UNCHANGED <<asked, targets>> /\ ppc[b] = "granted" /\ ppc'[b] # "add"
        BY <1>t, <2>3 DEF TakeEnd
      <4>. QED
        BY <1>o, <2>0, <4>1, OfferFitsKept
    <3>2. \A x \in Blocks \ {b} : OfferFits(x)'
      BY <1>t, <1>o, <2>3, OfferFitsKept DEF TakeEnd
    <3>. QED
      BY <3>1, <3>2
  <2>4. CASE Transform(b)
    <3>1. /\ asked'[b] = Successors[b] /\ targets'[b] = <<>> /\ ppc'[b] = "offer"
      BY <1>t, <2>0, <2>4 DEF Transform
    <3>2. ToSet(<<>>) = {} /\ IsInjective(<<>>)
      BY EmptySeq DEF ToSet, IsInjective
    <3>3. OfferFits(b)'
      BY <1>u, <3>1, <3>2 DEF OfferFits
    <3>4. \A x \in Blocks \ {b} : OfferFits(x)'
      BY <1>t, <1>o, <2>4, OfferFitsKept DEF Transform
    <3>. QED
      BY <3>3, <3>4
  <2>5. CASE TransformFails(b)
    BY <1>t, <1>o, <2>5, OfferFitsKept DEF TransformFails
  <2>6. CASE AskSuccessor(b)
    <3>. DEFINE s == Head(asked[b])
    <3>1. ppc[b] = "offer" /\ asked[b] # <<>> /\ UNCHANGED <<ppc, inHand>>
      BY <2>6 DEF AskSuccessor
    <3>0. /\ asked[b] \in Seq(Blocks) /\ IsInjective(asked[b])
          /\ targets[b] \in Seq(Blocks) /\ IsInjective(targets[b])
          /\ ToSet(asked[b]) \cap ToSet(targets[b]) = {}
      BY <1>t, <1>o DEF OfferFits
    <3>2. /\ s \in Blocks /\ s \in ToSet(asked[b])
          /\ ToSet(asked[b]) = ToSet(Tail(asked[b])) \cup {s}
          /\ IsInjective(Tail(asked[b])) /\ s \notin ToSet(Tail(asked[b]))
      BY <3>0, <3>1, TailSet
    <3>3. /\ asked'[b] = Tail(asked[b])
          /\ targets'[b] = IF CanAcceptInput(s, Head(inHand[b]))
                             THEN Append(targets[b], s) ELSE targets[b]
      BY <1>t, <2>6 DEF AskSuccessor
    <3>. HIDE DEF s
    <3>4. ASSUME targets'[b] = Append(targets[b], s)
          PROVE  ToSet(targets'[b]) = ToSet(targets[b]) \cup {s} /\ IsInjective(targets'[b])
      <4>. DEFINE u == targets[b]  v == targets'[b]
      <4>1. v = Append(u, s) /\ u \in Seq(Blocks) /\ s \in Blocks
            /\ s \notin ToSet(u) /\ IsInjective(u)
        BY <3>0, <3>2, <3>4
      <4>. HIDE DEF u, v
      <4>2. /\ v \in Seq(Blocks) /\ Len(v) = Len(u) + 1 /\ v[Len(u) + 1] = s
            /\ \A n \in 1..Len(u) : v[n] = u[n]
        BY <4>1, AppendProperties
      <4>3. /\ ToSet(u) = {u[n] : n \in 1..Len(u)} /\ Len(u) \in Nat
            /\ \A m, n \in 1..Len(u) : u[m] = u[n] => m = n
        BY <4>1, SetOf
      <4>4. /\ ToSet(v) = {v[n] : n \in 1..Len(v)}
            /\ IsInjective(v) <=> \A m, n \in 1..Len(v) : v[m] = v[n] => m = n
        BY <4>2, SetOf
      <4>5. \A n \in 1..Len(v) : n \in 1..Len(u) \/ n = Len(u) + 1
        BY <4>2, <4>3
      <4>6. Len(u) + 1 \in 1..Len(v) /\ \A n \in 1..Len(u) : n \in 1..Len(v)
        BY <4>2, <4>3
      <4>7. ToSet(v) = ToSet(u) \cup {s}
        BY <4>2, <4>3, <4>4, <4>5, <4>6
      <4>8. \A n \in 1..Len(u) : u[n] # s
        BY <4>1, <4>3
      <4>9. \A m, n \in 1..Len(v) : v[m] = v[n] => m = n
        <5>. TAKE m \in 1..Len(v), n \in 1..Len(v)
        <5>. QED
          BY <4>2, <4>3, <4>5, <4>8
      <4>. QED
        BY <4>4, <4>7, <4>9 DEF u, v
    <3>5. CASE CanAcceptInput(s, Head(inHand[b]))
      <4>1. targets'[b] = Append(targets[b], s)
        BY <3>3, <3>5
      <4>2. \A x \in ToSet(targets'[b]) : Head(inHand'[b]) \in Accepts[x]
        BY <1>o, <3>1, <3>4, <3>5, <4>1 DEF OfferFits, CanAcceptInput
      <4>. HIDE DEF CanAcceptInput
      <4>4. ToSet(targets'[b]) = ToSet(targets[b]) \cup {s} /\ IsInjective(targets'[b])
        BY <3>4, <4>1
      <4>5. asked'[b] = Tail(asked[b])
        BY <3>3
      <4>3. OfferFits(b)'
        BY <1>o, <3>1, <3>2, <4>2, <4>4, <4>5 DEF OfferFits
      <4>. QED
        BY <1>t, <1>o, <2>6, <4>3, OfferFitsKept DEF AskSuccessor
    <3>6. CASE ~CanAcceptInput(s, Head(inHand[b]))
      <4>1. targets'[b] = targets[b]
        BY <3>3, <3>6
      <4>3. OfferFits(b)'
        BY <1>o, <3>1, <3>2, <3>3, <4>1 DEF OfferFits
      <4>. QED
        BY <1>t, <1>o, <2>6, <4>3, OfferFitsKept DEF AskSuccessor
    <3>. QED
      BY <3>5, <3>6
  <2>7. CASE OfferCheck(b)
    <3>1. /\ ppc[b] = "offer" /\ asked[b] = <<>> /\ targets[b] # <<>>
          /\ UNCHANGED <<asked, inHand>>
          /\ \/ ppc' = [ppc EXCEPT ![b] = "add"] /\ UNCHANGED targets
             \/ targets' = [targets EXCEPT ![b] = <<>>] /\ UNCHANGED ppc
      BY <2>7 DEF OfferCheck
    <3>2. ToSet(<<>>) = {} /\ IsInjective(<<>>)
      BY EmptySeq DEF ToSet, IsInjective
    <3>3. OfferFits(b)'
      BY <1>t, <1>o, <3>1, <3>2 DEF OfferFits
    <3>4. \A x \in Blocks \ {b} : OfferFits(x)'
      BY <1>t, <1>o, <3>1, OfferFitsKept
    <3>. QED
      BY <3>3, <3>4
  <2>8. CASE OfferAdd(b)
    <3>1. ppc[b] = "add" /\ targets[b] # <<>> /\ asked[b] = <<>>
      BY <1>o, <2>8 DEF OfferAdd, OfferFits
    <3>0. targets[b] \in Seq(Blocks) /\ IsInjective(targets[b])
      BY <1>t, <1>o DEF OfferFits
    <3>2. /\ Head(targets[b]) \in Blocks
          /\ ToSet(targets[b]) = ToSet(Tail(targets[b])) \cup {Head(targets[b])}
          /\ IsInjective(Tail(targets[b]))
      BY <3>0, <3>1, TailSet
    <3>3. /\ UNCHANGED <<asked, inHand>> /\ targets' = [targets EXCEPT ![b] = Tail(@)]
          /\ ppc' = [ppc EXCEPT ![b] = "offer", ![Head(targets[b])] = Woken(@)]
      BY <2>8 DEF OfferAdd
    <3>4. /\ ppc'[b] = "offer"
          /\ \A x \in Blocks \ {b} : ppc'[x] = ppc[x] \/ (ppc[x] = "waiting" /\ ppc'[x] = "granted")
      <4>. DEFINE s == Head(targets[b])
      <4>1. s \in Blocks /\ ppc' = [ppc EXCEPT ![b] = "offer", ![s] = Woken(@)]
        BY <3>2, <3>3
      <4>. HIDE DEF s
      <4>2. /\ ppc'[b] = "offer"
            /\ \A x \in Blocks \ {b} :
                 ppc'[x] = IF x = s /\ ppc[x] = "waiting" THEN "granted" ELSE ppc[x]
        BY <1>t, <4>1 DEF Woken
      <4>. QED
        BY <4>2
    <3>5. OfferFits(b)'
      BY <1>t, <1>o, <3>1, <3>2, <3>3, <3>4 DEF OfferFits
    <3>6. \A x \in Blocks \ {b} : OfferFits(x)'
      BY <1>t, <1>o, <3>3, <3>4, OfferFitsKept
    <3>. QED
      BY <3>5, <3>6
  <2>9. CASE Passed(b)
    <3>1. OfferFits(b)'
      <4>1. /\ asked[b] = <<>> /\ targets[b] = <<>> /\ UNCHANGED <<asked, targets>>
            /\ ppc'[b] # "add"
        BY <1>t, <2>9 DEF Passed
      <4>2. ToSet(<<>>) = {} /\ IsInjective(<<>>)
        BY EmptySeq DEF ToSet, IsInjective
      <4>. QED
        BY <1>o, <4>1, <4>2 DEF OfferFits
    <3>2. \A x \in Blocks \ {b} : OfferFits(x)'
      BY <1>t, <1>o, <2>9, OfferFitsKept DEF Passed
    <3>. QED
      BY <3>1, <3>2
  <2>. QED
    BY <1>5, <2>1, <2>2, <2>3, <2>4, <2>5, <2>6, <2>7, <2>8, <2>9 DEF ProcessingStep
<1>6. ASSUME NEW c \in Callers, CallStep(c) PROVE \A b \in Blocks : OfferFits(b)'
  <2>1. CASE Enter(c)
    BY <1>o, <2>1, OfferFitsKept DEF Enter, EnterWhen
  <2>2. CASE CancelProcessing(c)
    BY <1>o, <2>2, OfferFitsKept DEF CancelProcessing
  <2>3. CASE WakeProcessing(c)
    <3>1. Top(c).block \in Blocks
      BY <1>0, <2>3, TopFacts DEF WakeProcessing
    <3>. QED
      BY <1>o, <1>t, <2>3, <3>1, OfferFitsKept DEF WakeProcessing
  <2>4. CASE WaitProcessing(c)
    BY <1>o, <2>4, OfferFitsKept DEF WaitProcessing, Conclude
  <2>5. CASE NotifyNext(c)
    BY <1>o, <2>5, OfferFitsKept DEF NotifyNext
  <2>6. CASE Leave(c)
    BY <1>o, <2>6, OfferFitsKept DEF Leave
  <2>7. CASE Terminate(c)
    BY <1>o, <2>7, OfferFitsKept DEF Terminate
  <2>. QED
    BY <1>6, <2>1, <2>2, <2>3, <2>4, <2>5, <2>6, <2>7 DEF CallStep
<1>. QED
  BY <1>1, <1>2, <1>3, <1>4, <1>5, <1>6 DEF Next

LEMMA CallInFrame ==
  ASSUME NEW b \in Blocks, NEW e \in BOOLEAN
  PROVE  Call(b, e) \in Frame /\ <<Call(b, e)>> \in Seq(Frame)
<1>1. <<>> \in Seq(Blocks)
  BY EmptySeq
<1>. DEFINE f == Call(b, e)
<1>2. f \in Frame
  BY <1>1 DEF Call, Frame
<1>. HIDE DEF f
<1>3. <<f>> \in Seq(Frame)
  BY <1>2
<1>. QED
  BY <1>2, <1>3 DEF f

Moved(c, r) == [Top(c) EXCEPT !.phase = r]
Concluded(c) == [Top(c) EXCEPT !.phase = "finally",
                               !.raising = (ppc[Top(c).block] = "failed"),
                               !.todo = Successors[Top(c).block]]

LEMMA GoOnFacts ==
  ASSUME TypeOK, NEW c \in Callers, NEW p, At(c, p),
         NEW r \in {"lock", "cancel", "wake", "wait", "finally"}, GoOn(c, r)
  PROVE  LET f == Moved(c, r)
         IN  /\ f \in Frame
             /\ f.block = Top(c).block /\ f.todo = Top(c).todo
             /\ f.exceptional = Top(c).exceptional /\ f.phase = r
             /\ stack' \in [Callers -> Seq(Frame)]
             /\ \A d \in Callers : d # c => stack'[d] = stack[d]
             /\ Len(stack'[c]) = Len(stack[c])
             /\ \A n \in 1..Len(stack[c]) :
                  stack'[c][n] = IF n = Len(stack[c]) THEN f ELSE stack[c][n]
<1>. DEFINE f == Moved(c, r)
<1>1. Top(c) \in Frame /\ stack[c] # <<>>
  BY TopFacts
<1>2. /\ f \in Frame /\ f.block = Top(c).block /\ f.todo = Top(c).todo
      /\ f.exceptional = Top(c).exceptional /\ f.phase = r
  BY <1>1 DEF Frame, Moved
<1>3. SetTop(c, f)
  BY DEF GoOn, Moved
<1>. HIDE DEF f
<1>4. /\ stack' \in [Callers -> Seq(Frame)]
      /\ \A d \in Callers : d # c => stack'[d] = stack[d]
      /\ Len(stack'[c]) = Len(stack[c])
      /\ \A n \in 1..Len(stack[c]) :
           stack'[c][n] = IF n = Len(stack[c]) THEN f ELSE stack[c][n]
  BY <1>1, <1>2, <1>3, SetTopFacts
<1>. QED
  BY <1>2, <1>4 DEF f

LEMMA ConcludeFacts ==
  ASSUME TypeOK, NEW c \in Callers, NEW p, At(c, p), Conclude(c)
  PROVE  LET b == Top(c).block
             f == Concluded(c)
         IN  /\ f \in Frame /\ Successors[b] \in Seq(Blocks)
             /\ f.block = b /\ f.todo = Successors[b]
             /\ f.exceptional = Top(c).exceptional /\ f.phase = "finally"
             /\ stack' \in [Callers -> Seq(Frame)]
             /\ \A d \in Callers : d # c => stack'[d] = stack[d]
             /\ Len(stack'[c]) = Len(stack[c])
             /\ \A n \in 1..Len(stack[c]) :
                  stack'[c][n] = IF n = Len(stack[c]) THEN f ELSE stack[c][n]
<1>. DEFINE b == Top(c).block
            f == Concluded(c)
<1>1. Top(c) \in Frame /\ stack[c] # <<>> /\ b \in Blocks
  BY TopFacts
<1>2. Successors[b] \in Seq(Blocks)
  BY <1>1, FlowAssumption
<1>3. /\ f \in Frame /\ f.block = b /\ f.todo = Successors[b]
      /\ f.exceptional = Top(c).exceptional /\ f.phase = "finally"
  BY <1>1, <1>2 DEF Frame, Concluded
<1>4. SetTop(c, f)
  BY DEF Conclude, Concluded
<1>. HIDE DEF f
<1>5. /\ stack' \in [Callers -> Seq(Frame)]
      /\ \A d \in Callers : d # c => stack'[d] = stack[d]
      /\ Len(stack'[c]) = Len(stack[c])
      /\ \A n \in 1..Len(stack[c]) :
           stack'[c][n] = IF n = Len(stack[c]) THEN f ELSE stack[c][n]
  BY <1>1, <1>3, <1>4, SetTopFacts
<1>. QED
  BY <1>2, <1>3, <1>5 DEF f

LEMMA TypeOKStep ==
  ASSUME TaskInv, Next
  PROVE  TypeOK'
<1>0. TypeOK /\ TaskSound /\ OfferSound /\ First \in Blocks
  BY FlowAssumption DEF TaskInv
<1>s. \A b \in Blocks : TaskFits(b) /\ OfferFits(b)
  BY <1>0 DEF TaskSound, OfferSound
<1>u. \A b \in Blocks : Starts(b) \in Int /\ Successors[b] \in Seq(Blocks)
  <2>1. IsFiniteSet(Blocks)
    BY FlowAssumption
  <2>2. \A b \in Blocks : Cardinality(Predecessors(b)) \in Nat
    BY <2>1, FS_Subset, FS_CardinalityType DEF Predecessors
  <2>. QED
    BY <2>2, FlowAssumption DEF Starts
<1>1. CASE Start
  BY <1>0, <1>u, <1>1 DEF Start, TypeOK
<1>2. ASSUME NEW i \in Items, CheckStarted(i) PROVE TypeOK'
  BY <1>0, <1>2 DEF CheckStarted, TypeOK
<1>3. ASSUME NEW i \in Items, Add(i) PROVE TypeOK'
  <2>1. queue' \in [Blocks -> Seq(Items)] /\ accepted' \in [Blocks -> Seq(Items)]
    BY <1>0, <1>3, AddToFacts DEF Add
  <2>. QED
    BY <1>0, <1>3, <2>1 DEF Add, Woken, TypeOK
<1>4. CASE UserComplete
  <2>2. <<Call(First, FALSE)>> \in Seq(Frame)
    BY <1>0, CallInFrame
  <2>3. stack' \in [Callers -> Seq(Frame)]
    BY <1>0, <1>4, <2>2 DEF UserComplete, TypeOK
  <2>. QED
    BY <1>0, <1>4, <2>3 DEF UserComplete, TypeOK
<1>5. ASSUME NEW b \in Blocks, ProcessingStep(b) PROVE TypeOK'
  <2>t. /\ queue \in [Blocks -> Seq(Items)] /\ inHand \in [Blocks -> Seq(Items)]
        /\ processed \in [Blocks -> Seq(Items)]
        /\ asked \in [Blocks -> Seq(Blocks)] /\ targets \in [Blocks -> Seq(Blocks)]
    BY <1>0 DEF TypeOK
  <2>e. <<>> \in Seq(Items) /\ <<>> \in Seq(Blocks)
    BY EmptySeq
  <2>i. ppc[b] \in {"transform", "offer", "add"} => inHand[b] # <<>>
    BY <1>s DEF TaskFits
  <2>1. CASE TestToken(b)
    <3>1. /\ ppc' \in [Blocks -> {"await", "loop", "take", "waiting", "granted",
                                "transform", "offer", "add", "ended", "failed"}]
          /\ draining' \in [Blocks -> BOOLEAN]
      BY <1>0, <2>1 DEF TestToken, TypeOK
    <3>2. queue' \in [Blocks -> Seq(Items)] /\ inHand' \in [Blocks -> Seq(Items)]
      BY <2>t, <2>e, <2>1 DEF TestToken
    <3>. QED
      BY <1>0, <2>1, <3>1, <3>2 DEF TestToken, TypeOK
  <2>2. CASE TakeBegin(b)
    BY <1>0, <2>2 DEF TakeBegin, TypeOK
  <2>3. CASE TakeEnd(b)
    <3>1. queue[b] # <<>>
      BY <1>s, <2>3 DEF TaskFits, TakeEnd
    <3>2. Head(queue[b]) \in Items /\ Tail(queue[b]) \in Seq(Items)
      BY <2>t, <3>1, TailFacts
    <3>3. <<Head(queue[b])>> \in Seq(Items)
      BY <3>2
    <3>. QED
      BY <1>0, <2>3, <3>2, <3>3 DEF TakeEnd, TypeOK
  <2>4. CASE Transform(b)
    <3>1. Head(inHand[b]) \in Items
      BY <2>t, <2>i, <2>4, TailFacts DEF Transform
    <3>2. Append(processed[b], Head(inHand[b])) \in Seq(Items)
      BY <2>t, <3>1, AppendProperties
    <3>. QED
      BY <1>0, <1>u, <2>4, <3>2 DEF Transform, TypeOK
  <2>5. CASE TransformFails(b)
    <3>1. <<Call(b, TRUE)>> \in Seq(Frame)
      BY CallInFrame
    <3>2. stack' \in [Callers -> Seq(Frame)]
      BY <1>0, <2>5, <3>1 DEF TransformFails, TypeOK
    <3>. QED
      BY <1>0, <2>5, <3>2 DEF TransformFails, TypeOK
  <2>6. CASE AskSuccessor(b)
    <3>1. asked[b] # <<>>
      BY <2>6 DEF AskSuccessor
    <3>2. Head(asked[b]) \in Blocks /\ Tail(asked[b]) \in Seq(Blocks)
      BY <2>t, <3>1, TailFacts
    <3>3. Append(targets[b], Head(asked[b])) \in Seq(Blocks)
      BY <2>t, <3>2, AppendProperties
    <3>4. asked' \in [Blocks -> Seq(Blocks)]
      BY <2>t, <2>6, <3>2 DEF AskSuccessor
    <3>5. targets' \in [Blocks -> Seq(Blocks)]
      BY <2>t, <2>6, <3>3 DEF AskSuccessor
    <3>. QED
      BY <1>0, <2>6, <3>4, <3>5 DEF AskSuccessor, TypeOK
  <2>7. CASE OfferCheck(b)
    <3>1. targets' \in [Blocks -> Seq(Blocks)]
      BY <2>t, <2>e, <2>7 DEF OfferCheck
    <3>. QED
      BY <1>0, <2>7, <3>1 DEF OfferCheck, TypeOK
  <2>8. CASE OfferAdd(b)
    <3>. DEFINE s == Head(targets[b])
    <3>1. ppc[b] = "add" /\ targets[b] # <<>> /\ inHand[b] # <<>>
      BY <1>s, <2>i, <2>8 DEF OfferAdd, OfferFits
    <3>2. s \in Blocks /\ Head(inHand[b]) \in Items /\ Tail(targets[b]) \in Seq(Blocks)
      BY <2>t, <3>1, TailFacts
    <3>. HIDE DEF s
    <3>3. /\ AddTo(s, Head(inHand[b])) /\ ppc' = [ppc EXCEPT ![b] = "offer", ![s] = Woken(@)]
      BY <2>8 DEF OfferAdd, s
    <3>4. queue' \in [Blocks -> Seq(Items)] /\ accepted' \in [Blocks -> Seq(Items)]
      BY <1>0, <3>2, <3>3, AddToFacts
    <3>5. targets' \in [Blocks -> Seq(Blocks)]
      BY <2>t, <2>8, <3>2 DEF OfferAdd
    <3>6. ppc' \in [Blocks -> {"await", "loop", "take", "waiting", "granted",
                               "transform", "offer", "add", "ended", "failed"}]
      BY <1>0, <3>2, <3>3 DEF TypeOK, Woken
    <3>7. UNCHANGED <<control, inHand, draining, asked, processed, user, stack, terminated>>
      BY <2>8 DEF OfferAdd
    <3>. QED
      BY <1>0, <3>4, <3>5, <3>6, <3>7 DEF TypeOK
  <2>9. CASE Passed(b)
    <3>1. Tail(inHand[b]) \in Seq(Items)
      BY <2>t, <2>i, <2>9, TailFacts DEF Passed
    <3>. QED
      BY <1>0, <2>9, <3>1 DEF Passed, TypeOK
  <2>. QED
    BY <1>5, <2>1, <2>2, <2>3, <2>4, <2>5, <2>6, <2>7, <2>8, <2>9 DEF ProcessingStep
<1>6. ASSUME NEW c \in Callers, CallStep(c) PROVE TypeOK'
  <2>1. CASE Enter(c)
    <3>0. At(c, "lock")
      BY <2>1 DEF Enter
    <3>1. Top(c).block \in Blocks /\ stack[c] # <<>>
      BY <1>0, <3>0, TopFacts
    <3>2. stack' \in [Callers -> Seq(Frame)]
      BY <1>0, <2>1, <3>0, <3>1, ReturnFacts, GoOnFacts DEF Enter, EnterWhen
    <3>3. startCalls' \in [Blocks -> Int]
      BY <1>0, <2>1, <3>1 DEF Enter, EnterWhen, TypeOK
    <3>. QED
      BY <1>0, <2>1, <3>1, <3>2, <3>3 DEF Enter, EnterWhen, TypeOK, Answered
  <2>2. CASE CancelProcessing(c)
    <3>1. Top(c).block \in Blocks /\ stack' \in [Callers -> Seq(Frame)]
      BY <1>0, <2>2, TopFacts, GoOnFacts DEF CancelProcessing
    <3>. QED
      BY <1>0, <2>2, <3>1 DEF CancelProcessing, TypeOK
  <2>3. CASE WakeProcessing(c)
    <3>1. Top(c).block \in Blocks /\ stack' \in [Callers -> Seq(Frame)]
      BY <1>0, <2>3, TopFacts, GoOnFacts DEF WakeProcessing
    <3>. QED
      BY <1>0, <2>3, <3>1 DEF WakeProcessing, TypeOK
  <2>4. CASE WaitProcessing(c)
    <3>1. Top(c).block \in Blocks /\ stack' \in [Callers -> Seq(Frame)]
      BY <1>0, <2>4, TopFacts, ConcludeFacts DEF WaitProcessing
    <3>. QED
      BY <1>0, <2>4, <3>1 DEF WaitProcessing, Conclude, TypeOK
  <2>5. CASE NotifyNext(c)
    <3>1. stack' \in [Callers -> Seq(Frame)]
      BY <1>0, <2>5, NotifyNextFacts
    <3>. QED
      BY <1>0, <2>5, <3>1 DEF NotifyNext, TypeOK
  <2>6. CASE Leave(c)
    <3>1. stack[c] # <<>> /\ stack' \in [Callers -> Seq(Frame)]
      BY <1>0, <2>6, TopFacts, ReturnFacts DEF Leave
    <3>. QED
      BY <1>0, <2>6, <3>1 DEF Leave, Answered, TypeOK
  <2>7. CASE Terminate(c)
    BY <1>0, <2>7 DEF Terminate, TypeOK
  <2>. QED
    BY <1>6, <2>1, <2>2, <2>3, <2>4, <2>5, <2>6, <2>7 DEF CallStep
<1>. QED
  BY <1>1, <1>2, <1>3, <1>4, <1>5, <1>6 DEF Next

(* A processing task that has come to its end, or failed, does nothing more. *)
LEMMA EndIsFinal ==
  ASSUME TaskInv, Next
  PROVE  \A b \in Blocks : ppc[b] \in {"ended", "failed"}
                             => ppc'[b] = ppc[b] /\ processed'[b] = processed[b]
<1>0. TypeOK /\ StartSound /\ OfferSound /\ First \in Blocks
  BY FlowAssumption DEF TaskInv
<1>t. /\ ppc \in [Blocks -> {"await", "loop", "take", "waiting", "granted",
                             "transform", "offer", "add", "ended", "failed"}]
      /\ processed \in [Blocks -> Seq(Items)]
  BY <1>0 DEF TypeOK
<1>. DEFINE Goal == \A b \in Blocks : ppc[b] \in {"ended", "failed"}
                                        => ppc'[b] = ppc[b] /\ processed'[b] = processed[b]
<1>1. CASE Start
  BY <1>0, <1>1 DEF Start, StartSound
<1>2. ASSUME NEW i \in Items, CheckStarted(i) PROVE Goal
  BY <1>2 DEF CheckStarted
<1>3. ASSUME NEW i \in Items, Add(i) PROVE Goal
  BY <1>t, <1>0, <1>3 DEF Add, Woken
<1>4. CASE UserComplete
  BY <1>4 DEF UserComplete
<1>5. ASSUME NEW b \in Blocks, ProcessingStep(b) PROVE Goal
  <2>1. CASE TestToken(b)
    BY <1>t, <2>1 DEF TestToken
  <2>2. CASE TakeBegin(b)
    BY <1>t, <2>2 DEF TakeBegin
  <2>3. CASE TakeEnd(b)
    BY <1>t, <2>3 DEF TakeEnd
  <2>4. CASE Transform(b)
    BY <1>t, <2>4 DEF Transform
  <2>5. CASE TransformFails(b)
    BY <1>t, <2>5 DEF TransformFails
  <2>6. CASE AskSuccessor(b)
    BY <2>6 DEF AskSuccessor
  <2>7. CASE OfferCheck(b)
    BY <1>t, <2>7 DEF OfferCheck
  <2>8. CASE OfferAdd(b)
    <3>. DEFINE s == Head(targets[b])
    <3>1. /\ ppc[b] = "add" /\ ppc' = [ppc EXCEPT ![b] = "offer", ![s] = Woken(@)]
          /\ UNCHANGED processed
      BY <2>8 DEF OfferAdd
    <3>2. targets[b] \in Seq(Blocks) /\ targets[b] # <<>>
      BY <1>0, <3>1 DEF OfferSound, OfferFits, TypeOK
    <3>3. s \in Blocks
      BY <3>2, TailFacts
    <3>. HIDE DEF s
    <3>. QED
      BY <1>t, <3>1, <3>3 DEF Woken
  <2>9. CASE Passed(b)
    BY <1>t, <2>9 DEF Passed
  <2>. QED
    BY <1>5, <2>1, <2>2, <2>3, <2>4, <2>5, <2>6, <2>7, <2>8, <2>9 DEF ProcessingStep
<1>6. ASSUME NEW c \in Callers, CallStep(c) PROVE Goal
  <2>1. CASE WakeProcessing(c)
    <3>1. Top(c).block \in Blocks
      BY <1>0, <2>1, TopFacts DEF WakeProcessing
    <3>. QED
      BY <1>t, <2>1, <3>1 DEF WakeProcessing
  <2>. QED
    BY <1>6, <2>1 DEF CallStep, Enter, EnterWhen, CancelProcessing, WaitProcessing, Conclude,
                      NotifyNext, Leave, Terminate
<1>. QED
  BY <1>1, <1>2, <1>3, <1>4, <1>5, <1>6 DEF Next

LEMMA FailedStays ==
  ASSUME TaskInv, Next
  PROVE  /\ \A b \in Blocks : ppc[b] = "failed" => ppc'[b] = "failed"
         /\ Failed => Failed'
BY EndIsFinal DEF Failed

-----------------------------------------------------------------------------
(* The stacks of the calling threads.                                      *)
LEMMA CallFitsKept ==
  ASSUME NEW c, NEW n, CallFits(c, n), stack'[c][n] = stack[c][n],
         n < Len(stack'[c]) => n < Len(stack[c]) \/ stack[c][n].phase = "finally",
         state'[stack[c][n].block] = state[stack[c][n].block],
         c \in Blocks /\ ppc[c] = "failed" => ppc'[c] = "failed",
         Failed => Failed'
  PROVE  CallFits(c, n)'
BY DEF CallFits

LEMMA FrameFacts ==
  ASSUME TypeOK, NEW c \in Callers, NEW n \in 1..Len(stack[c])
  PROVE  /\ stack[c][n] \in Frame /\ stack[c][n].block \in Blocks
         /\ stack[c][n].todo \in Seq(Blocks)
         /\ Len(stack[c]) \in Nat /\ n \in Nat \ {0} /\ n <= Len(stack[c])
<1>1. stack[c] \in Seq(Frame)
  BY DEF TypeOK
<1>2. stack[c][n] \in Frame /\ Len(stack[c]) \in Nat
  BY <1>1, ElementOfSeq, LenProperties
<1>. QED
  BY <1>2 DEF Frame

LEMMA NewCallFits ==
  ASSUME NEW c, NEW n, NEW b, NEW e, stack'[c][n] = Call(b, e), n = Len(stack'[c]),
         Len(stack'[c]) \in Nat,
         c \in Blocks => ppc'[c] = "failed",
         c = User /\ n = 1 => b = First,
         e => Failed'
  PROVE  CallFits(c, n)'
<1>1. IsInjective(<<>>) /\ ToSet(<<>>) = {}
  BY EmptySeq DEF IsInjective, ToSet
<1>. QED
  BY <1>1 DEF CallFits, Call

LEMMA StackSoundStep ==
  ASSUME TaskInv, Next
  PROVE  StackSound'
<1>0. TypeOK /\ StartSound /\ StackSound /\ LockSound /\ First \in Blocks /\ User \notin Blocks
  BY FlowAssumption DEF TaskInv
<1>t. /\ state \in [Blocks -> {"Created", "Started", "Stopping", "Stopped"}]
      /\ stack \in [Callers -> Seq(Frame)]
      /\ ppc \in [Blocks -> {"await", "loop", "take", "waiting", "granted",
                             "transform", "offer", "add", "ended", "failed"}]
  BY <1>0 DEF TypeOK
<1>f. \A d \in Callers : \A n \in 1..Len(stack[d]) :
        /\ CallFits(d, n) /\ stack[d][n] \in Frame /\ stack[d][n].block \in Blocks
        /\ Len(stack[d]) \in Nat
  BY <1>0, FrameFacts DEF StackSound
<1>k. /\ \A b \in Blocks : ppc[b] = "failed" => ppc'[b] = "failed"
      /\ Failed => Failed'
  BY FailedStays
<1>. SUFFICES \A d \in Callers : \A n \in 1..Len(stack'[d]) : CallFits(d, n)'
  BY DEF StackSound
<1>. DEFINE Goal == \A d \in Callers : \A n \in 1..Len(stack'[d]) : CallFits(d, n)'
<1>a. ASSUME UNCHANGED <<stack, state>> PROVE Goal
  BY <1>f, <1>k, <1>a, CallFitsKept
<1>1. CASE Start
  <2>1. \A b \in Blocks : state[b] = "Created"
    BY <1>0, <1>1 DEF Start, StartSound
  <2>2. UNCHANGED stack
    BY <1>1 DEF Start
  <2>3. ASSUME NEW d \in Callers, NEW n \in 1..Len(stack[d]) PROVE CallFits(d, n)'
    <3>1. stack[d][n].phase = "lock"
      BY <1>f, <2>1 DEF CallFits, Frame
    <3>. QED
      BY <1>f, <1>k, <2>2, <3>1 DEF CallFits
  <2>. QED
    BY <2>2, <2>3
<1>2. ASSUME NEW i \in Items, CheckStarted(i) PROVE Goal
  BY <1>a, <1>2 DEF CheckStarted
<1>3. ASSUME NEW i \in Items, Add(i) PROVE Goal
  BY <1>a, <1>3 DEF Add
<1>4. CASE UserComplete
  <2>1. /\ stack' = [stack EXCEPT ![User] = <<Call(First, FALSE)>>] /\ UNCHANGED state
    BY <1>4 DEF UserComplete
  <2>2. ASSUME NEW d \in Callers, d # User, NEW n \in 1..Len(stack'[d]) PROVE CallFits(d, n)'
    <3>1. stack'[d] = stack[d]
      BY <1>t, <2>1, <2>2
    <3>. QED
      BY <1>f, <1>k, <2>1, <2>2, <3>1, CallFitsKept
  <2>3. ASSUME NEW n \in 1..Len(stack'[User]) PROVE CallFits(User, n)'
    <3>1. stack'[User] = <<Call(First, FALSE)>>
      BY <1>t, <2>1 DEF Callers
    <3>2. Len(stack'[User]) = 1 /\ stack'[User][n] = Call(First, FALSE) /\ n = 1
      <4>. DEFINE g == Call(First, FALSE)
      <4>. HIDE DEF g
      <4>1. stack'[User] = <<g>>
        BY <3>1 DEF g
      <4>2. Len(stack'[User]) = 1 /\ stack'[User][1] = g
        BY <4>1
      <4>3. n \in 1..Len(stack'[User])
        OBVIOUS
      <4>4. n = 1
        BY <4>2, <4>3
      <4>. QED
        BY <4>2, <4>4 DEF g
    <3>3. User \notin Blocks /\ n = Len(stack'[User]) /\ Len(stack'[User]) \in Nat
      BY <1>0, <3>2
    <3>. HIDE DEF Call
    <3>. QED
      BY <3>2, <3>3, NewCallFits
  <2>. QED
    BY <2>2, <2>3
<1>5. ASSUME NEW b \in Blocks, ProcessingStep(b), ~TransformFails(b) PROVE Goal
  BY <1>5, <1>a DEF ProcessingStep, TestToken, TakeBegin, TakeEnd, Transform,
                    AskSuccessor, OfferCheck, OfferAdd, Passed
<1>6. ASSUME NEW b \in Blocks, TransformFails(b) PROVE Goal
  <2>1. /\ stack' = [stack EXCEPT ![b] = <<Call(b, TRUE)>>] /\ UNCHANGED state
        /\ ppc'[b] = "failed" /\ b \in Callers
    BY <1>6, <1>t DEF TransformFails, Callers
  <2>2. ASSUME NEW d \in Callers, d # b, NEW n \in 1..Len(stack'[d]) PROVE CallFits(d, n)'
    <3>1. stack'[d] = stack[d]
      BY <1>t, <2>1, <2>2
    <3>. QED
      BY <1>f, <1>k, <2>1, <2>2, <3>1, CallFitsKept
  <2>3. ASSUME NEW n \in 1..Len(stack'[b]) PROVE CallFits(b, n)'
    <3>1. stack'[b] = <<Call(b, TRUE)>>
      BY <1>t, <2>1
    <3>2. Len(stack'[b]) = 1 /\ stack'[b][n] = Call(b, TRUE) /\ n = 1
      <4>. DEFINE g == Call(b, TRUE)
      <4>. HIDE DEF g
      <4>1. stack'[b] = <<g>>
        BY <3>1 DEF g
      <4>2. Len(stack'[b]) = 1 /\ stack'[b][1] = g
        BY <4>1
      <4>3. n \in 1..Len(stack'[b])
        OBVIOUS
      <4>4. n = 1
        BY <4>2, <4>3
      <4>. QED
        BY <4>2, <4>4 DEF g
    <3>3. Failed' /\ b # User /\ n = Len(stack'[b]) /\ Len(stack'[b]) \in Nat
      BY <1>0, <2>1, <3>2 DEF Failed
    <3>. QED
      BY <2>1, <3>2, <3>3, NewCallFits
  <2>. QED
    BY <2>2, <2>3
<1>r. ASSUME NEW c \in Callers, stack[c] # <<>>, Return(c), UNCHANGED state PROVE Goal
  <2>1. /\ \A d \in Callers : d # c => stack'[d] = stack[d]
        /\ Len(stack'[c]) = Len(stack[c]) - 1
        /\ \A n \in 1..(Len(stack[c]) - 1) : stack'[c][n] = stack[c][n]
    BY <1>0, <1>r, ReturnFacts
  <2>2. ASSUME NEW d \in Callers, d # c, NEW n \in 1..Len(stack'[d]) PROVE CallFits(d, n)'
    BY <1>f, <1>k, <1>r, <2>1, <2>2, CallFitsKept
  <2>3. ASSUME NEW n \in 1..Len(stack'[c]) PROVE CallFits(c, n)'
    <3>0. Len(stack[c]) \in Nat
      BY <1>t, LenProperties
    <3>1. n \in 1..Len(stack[c]) /\ n < Len(stack[c]) /\ stack'[c][n] = stack[c][n]
      BY <2>1, <3>0
    <3>. QED
      BY <1>f, <1>k, <1>r, <3>1, CallFitsKept
  <2>. QED
    BY <2>2, <2>3
<1>g. ASSUME NEW c \in Callers, NEW p \in {"cancel", "wake"}, At(c, p),
             NEW r \in {"wake", "wait"}, GoOn(c, r), UNCHANGED state PROVE Goal
  <2>. DEFINE f == Moved(c, r)
  <2>1. /\ f.block = Top(c).block /\ f.todo = Top(c).todo
        /\ f.exceptional = Top(c).exceptional /\ f.phase = r
        /\ \A d \in Callers : d # c => stack'[d] = stack[d]
        /\ Len(stack'[c]) = Len(stack[c])
        /\ \A n \in 1..Len(stack[c]) :
             stack'[c][n] = IF n = Len(stack[c]) THEN f ELSE stack[c][n]
    <3>1. r \in {"lock", "cancel", "wake", "wait", "finally"}
      BY <1>g
    <3>. QED
      BY <1>0, <1>g, <3>1, GoOnFacts
  <2>2. /\ Len(stack[c]) \in 1..Len(stack[c]) /\ Top(c) = stack[c][Len(stack[c])]
        /\ Top(c).phase = p
    BY <1>0, <1>g, TopFacts
  <2>. HIDE DEF f
  <2>3. ASSUME NEW d \in Callers, NEW n \in 1..Len(stack'[d]), d # c \/ n # Len(stack[c])
        PROVE  CallFits(d, n)'
    <3>1. n \in 1..Len(stack[d]) /\ stack'[d][n] = stack[d][n] /\ Len(stack'[d]) = Len(stack[d])
      BY <2>1, <2>3
    <3>. QED
      BY <1>f, <1>k, <1>g, <3>1, CallFitsKept
  <2>4. ASSUME NEW n \in 1..Len(stack'[c]), n = Len(stack[c]) PROVE CallFits(c, n)'
    <3>1. CallFits(c, n) /\ n \in Nat /\ Top(c) = stack[c][n] /\ stack'[c][n] = f
      BY <1>f, <2>1, <2>2, <2>4
    <3>. QED
      BY <1>g, <1>k, <2>1, <2>2, <2>4, <3>1 DEF CallFits
  <2>. QED
    BY <2>3, <2>4
<1>7. ASSUME NEW c \in Callers, CallStep(c) PROVE Goal
  <2>1. CASE Enter(c)
    <3>. DEFINE b == Top(c).block
                L == Len(stack[c])
    <3>1. /\ At(c, "lock") /\ stack[c] # <<>> /\ b \in Blocks
          /\ L \in 1..L /\ L \in Nat /\ Top(c) = stack[c][L] /\ Top(c).phase = "lock"
      BY <1>0, <2>1, TopFacts DEF Enter
    <3>2. CASE Return(c) /\ UNCHANGED state
      BY <1>r, <3>1, <3>2
    <3>3. CASE /\ state[b] \notin {"Created", "Stopped"}
               /\ state' = [state EXCEPT ![b] = "Stopping"] /\ GoOn(c, "cancel")
      <4>. DEFINE f == Moved(c, "cancel")
      <4>1. /\ f.block = b /\ f.todo = Top(c).todo
            /\ f.exceptional = Top(c).exceptional /\ f.phase = "cancel"
            /\ \A d \in Callers : d # c => stack'[d] = stack[d]
            /\ Len(stack'[c]) = L
            /\ \A n \in 1..L : stack'[c][n] = IF n = L THEN f ELSE stack[c][n]
        BY <1>0, <3>1, <3>3, GoOnFacts
      <4>. HIDE DEF f, b, L
      <4>2. \A x \in Blocks : state'[x] = IF x = b THEN "Stopping" ELSE state[x]
        BY <1>t, <3>3
      <4>3. ASSUME NEW d \in Callers, NEW n \in 1..Len(stack'[d]), d # c \/ n # L
            PROVE  CallFits(d, n)'
        <5>1. n \in 1..Len(stack[d]) /\ stack'[d][n] = stack[d][n] /\ Len(stack'[d]) = Len(stack[d])
          BY <4>1, <4>3 DEF L
        <5>2. CallFits(d, n) /\ stack[d][n].block \in Blocks
          BY <1>f, <5>1
        <5>. QED
          BY <1>k, <3>3, <4>2, <5>1, <5>2 DEF CallFits
      <4>4. ASSUME NEW n \in 1..Len(stack'[c]), n = L PROVE CallFits(c, n)'
        <5>1. CallFits(c, n) /\ Top(c) = stack[c][n] /\ stack'[c][n] = f /\ n = Len(stack'[c])
              /\ n \in Nat
          BY <1>f, <3>1, <4>1, <4>4 DEF L
        <5>. QED
          BY <1>k, <3>1, <4>1, <4>2, <5>1 DEF CallFits, b
      <4>. QED
        BY <4>3, <4>4
    <3>. QED
      BY <2>1, <3>2, <3>3 DEF Enter, EnterWhen
  <2>2. CASE CancelProcessing(c)
    BY <1>g, <2>2 DEF CancelProcessing
  <2>3. CASE WakeProcessing(c)
    BY <1>g, <2>3 DEF WakeProcessing
  <2>4. CASE WaitProcessing(c)
    <3>. DEFINE b == Top(c).block
                L == Len(stack[c])
                f == Concluded(c)
    <3>1. /\ At(c, "wait") /\ b \in Blocks
          /\ L \in 1..L /\ L \in Nat /\ Top(c) = stack[c][L] /\ Top(c).phase = "wait"
          /\ Conclude(c) /\ state' = [state EXCEPT ![b] = "Stopped"]
      BY <1>0, <2>4, TopFacts DEF WaitProcessing, Conclude
    <3>2. /\ f.block = b /\ f.todo = Successors[b]
          /\ f.exceptional = Top(c).exceptional /\ f.phase = "finally"
          /\ \A d \in Callers : d # c => stack'[d] = stack[d]
          /\ Len(stack'[c]) = L
          /\ \A n \in 1..L : stack'[c][n] = IF n = L THEN f ELSE stack[c][n]
      BY <1>0, <3>1, ConcludeFacts
    <3>3. IsInjective(Successors[b])
      BY <3>1, FlowAssumption
    <3>. HIDE DEF f, b, L
    <3>4. \A x \in Blocks : state'[x] = IF x = b THEN "Stopped" ELSE state[x]
      BY <1>t, <3>1
    <3>5. ASSUME NEW d \in Callers, NEW n \in 1..Len(stack'[d]), d # c \/ n # L
          PROVE  CallFits(d, n)'
      <4>1. n \in 1..Len(stack[d]) /\ stack'[d][n] = stack[d][n] /\ Len(stack'[d]) = Len(stack[d])
        BY <3>2, <3>5 DEF L
      <4>2. CallFits(d, n) /\ stack[d][n].block \in Blocks
        BY <1>f, <4>1
      <4>3. stack[d][n].block = b => stack[d][n].phase = "lock"
        BY <1>0, <3>1, <3>5, <4>1 DEF LockSound, b, L
      <4>. QED
        BY <1>k, <3>4, <4>1, <4>2, <4>3 DEF CallFits
    <3>6. ASSUME NEW n \in 1..Len(stack'[c]), n = L PROVE CallFits(c, n)'
      <4>1. CallFits(c, n) /\ Top(c) = stack[c][n] /\ stack'[c][n] = f /\ n = Len(stack'[c])
            /\ n \in Nat
        BY <1>f, <3>1, <3>2, <3>6 DEF L
      <4>. QED
        BY <1>k, <3>1, <3>2, <3>3, <3>4, <4>1 DEF CallFits, b
    <3>. QED
      BY <3>5, <3>6
  <2>5. CASE NotifyNext(c)
    <3>. DEFINE L == Len(stack[c])
                h == Head(Top(c).todo)
                e == Top(c).exceptional
                f == [Top(c) EXCEPT !.todo = Tail(@)]
                g == Call(h, e)
    <3>0. At(c, "finally") /\ Top(c).todo # <<>> /\ UNCHANGED state
      BY <2>5 DEF NotifyNext
    <3>1. /\ L \in 1..L /\ L \in Nat /\ Top(c) = stack[c][L] /\ Top(c).phase = "finally"
          /\ Top(c) \in Frame /\ Top(c).todo \in Seq(Blocks)
      BY <1>0, <3>0, TopFacts
    <3>2. /\ f \in Frame
          /\ \A d \in Callers : d # c => stack'[d] = stack[d]
          /\ Len(stack'[c]) = L + 1
          /\ \A n \in 1..Len(stack'[c]) :
               stack'[c][n] = IF n = Len(stack'[c]) THEN g
                              ELSE IF n = L THEN f ELSE stack[c][n]
      BY <1>0, <2>5, NotifyNextFacts
    <3>3. /\ f.block = Top(c).block /\ f.todo = Tail(Top(c).todo)
          /\ f.exceptional = e /\ f.phase = "finally"
      BY <3>1 DEF Frame
    <3>4. CallFits(c, L)
      BY <1>f, <3>1
    <3>5. IsInjective(Tail(Top(c).todo)) /\ ToSet(Tail(Top(c).todo)) \subseteq ToSet(Top(c).todo)
      <4>1. IsInjective(Top(c).todo)
        BY <3>1, <3>4 DEF CallFits
      <4>. QED
        BY <3>0, <3>1, <4>1, TailSet
    <3>. HIDE DEF f, g, L, h, e
    <3>6. ASSUME NEW d \in Callers, NEW n \in 1..Len(stack'[d]), d # c \/ n < L
          PROVE  CallFits(d, n)'
      <4>1. n \in 1..Len(stack[d]) /\ stack'[d][n] = stack[d][n]
            /\ (Len(stack'[d]) = Len(stack[d]) \/ n < Len(stack[d]))
        BY <3>1, <3>2, <3>6 DEF L
      <4>. QED
        BY <1>f, <1>k, <3>0, <4>1, CallFitsKept
    <3>7. ASSUME NEW n \in 1..Len(stack'[c]), n = L PROVE CallFits(c, n)'
      <4>1. stack'[c][n] = f /\ n # Len(stack'[c]) /\ n \in Nat
        BY <3>1, <3>2, <3>7
      <4>2. /\ c \in Blocks => ppc'[c] = "failed"
            /\ c = User /\ n = 1 => Top(c).block = First
            /\ e => Failed'
            /\ state'[Top(c).block] = "Stopped"
            /\ ToSet(Tail(Top(c).todo)) \subseteq ToSet(Successors[Top(c).block])
        BY <1>k, <3>0, <3>1, <3>4, <3>5, <3>7 DEF CallFits, e
      <4>. QED
        BY <3>3, <3>5, <4>1, <4>2 DEF CallFits
    <3>8. ASSUME NEW n \in 1..Len(stack'[c]), n = L + 1 PROVE CallFits(c, n)'
      <4>1. stack'[c][n] = Call(h, e) /\ n = Len(stack'[c]) /\ n # 1
            /\ Len(stack'[c]) \in Nat
        BY <3>1, <3>2, <3>8 DEF g
      <4>2. (c \in Blocks => ppc'[c] = "failed") /\ (e => Failed')
        BY <1>k, <3>1, <3>4 DEF CallFits, e
      <4>. QED
        BY <4>1, <4>2, NewCallFits
    <3>9. ASSUME NEW n \in 1..Len(stack'[c]) PROVE n < L \/ n = L \/ n = L + 1
      BY <3>1, <3>2
    <3>. QED
      BY <3>6, <3>7, <3>8, <3>9
  <2>6. CASE Leave(c)
    <3>1. stack[c] # <<>> /\ Return(c) /\ UNCHANGED state
      BY <2>6 DEF Leave, At
    <3>. QED
      BY <1>r, <3>1
  <2>7. CASE Terminate(c)
    BY <1>a, <2>7 DEF Terminate
  <2>. QED
    BY <1>7, <2>1, <2>2, <2>3, <2>4, <2>5, <2>6, <2>7 DEF CallStep
<1>. QED
  BY <1>1, <1>2, <1>3, <1>4, <1>5, <1>6, <1>7 DEF Next

LEMMA LockSoundStep ==
  ASSUME TaskInv, Next
  PROVE  LockSound'
<1>0. TypeOK /\ StackSound /\ LockSound
  BY DEF TaskInv
<1>t. stack \in [Callers -> Seq(Frame)]
  BY <1>0 DEF TypeOK
<1>k. ASSUME \A d \in Callers : \A n \in 1..Len(stack'[d]) :
               stack'[d][n].phase # "lock" =>
                 /\ n \in 1..Len(stack[d]) /\ stack[d][n].phase # "lock"
                 /\ stack[d][n].block = stack'[d][n].block
      PROVE  LockSound'
  BY <1>0, <1>k DEF LockSound
<1>a. ASSUME UNCHANGED stack PROVE LockSound'
  BY <1>k, <1>a
<1>c. ASSUME NEW d \in Callers, NEW b, NEW e, stack' = [stack EXCEPT ![d] = <<Call(b, e)>>]
      PROVE  LockSound'
  <2>. DEFINE g == Call(b, e)
  <2>1. g.phase = "lock"
    BY DEF Call
  <2>. HIDE DEF g
  <2>2. stack'[d] = <<g>> /\ \A x \in Callers : x # d => stack'[x] = stack[x]
    BY <1>t, <1>c DEF g
  <2>3. Len(<<g>>) = 1 /\ <<g>>[1] = g
    OBVIOUS
  <2>4. \A n \in 1..Len(stack'[d]) : stack'[d][n].phase = "lock"
    BY <2>1, <2>2, <2>3
  <2>. QED
    BY <1>k, <2>2, <2>4
<1>r. ASSUME NEW c \in Callers, stack[c] # <<>>, Return(c) PROVE LockSound'
  <2>1. /\ \A d \in Callers : d # c => stack'[d] = stack[d]
        /\ Len(stack'[c]) = Len(stack[c]) - 1
        /\ \A n \in 1..(Len(stack[c]) - 1) : stack'[c][n] = stack[c][n]
    BY <1>0, <1>r, ReturnFacts
  <2>2. Len(stack[c]) \in Nat
    BY <1>t, LenProperties
  <2>3. \A n \in 1..Len(stack'[c]) : n \in 1..Len(stack[c]) /\ stack'[c][n] = stack[c][n]
    BY <2>1, <2>2
  <2>. QED
    BY <1>k, <2>1, <2>3
<1>g. ASSUME NEW c \in Callers, NEW p \in {"cancel", "wake"}, At(c, p),
             NEW r \in {"wake", "wait"}, GoOn(c, r) PROVE LockSound'
  <2>. DEFINE f == Moved(c, r)
  <2>1. r \in {"lock", "cancel", "wake", "wait", "finally"} /\ p # "lock"
    BY <1>g
  <2>2. /\ f.block = Top(c).block
        /\ \A d \in Callers : d # c => stack'[d] = stack[d]
        /\ Len(stack'[c]) = Len(stack[c])
        /\ \A n \in 1..Len(stack[c]) :
             stack'[c][n] = IF n = Len(stack[c]) THEN f ELSE stack[c][n]
    BY <1>0, <1>g, <2>1, GoOnFacts
  <2>3. /\ Top(c) = stack[c][Len(stack[c])] /\ Top(c).phase = p
    BY <1>0, <1>g, TopFacts
  <2>. HIDE DEF f
  <2>. QED
    BY <1>k, <2>1, <2>2, <2>3
<1>1. CASE Start
  BY <1>a, <1>1 DEF Start
<1>2. ASSUME NEW i \in Items, CheckStarted(i) \/ Add(i) PROVE LockSound'
  BY <1>a, <1>2 DEF CheckStarted, Add
<1>3. CASE UserComplete
  BY <1>c, <1>3 DEF UserComplete, Callers
<1>4. ASSUME NEW b \in Blocks, ProcessingStep(b) PROVE LockSound'
  <2>1. CASE TransformFails(b)
    BY <1>c, <2>1 DEF TransformFails, Callers
  <2>. QED
    BY <1>4, <1>a, <2>1
       DEF ProcessingStep, TestToken, TakeBegin, TakeEnd, Transform, AskSuccessor,
           OfferCheck, OfferAdd, Passed
<1>5. ASSUME NEW c \in Callers, CallStep(c) PROVE LockSound'
  <2>1. CASE Enter(c)
    <3>. DEFINE b == Top(c).block
                L == Len(stack[c])
    <3>1. /\ At(c, "lock") /\ stack[c] # <<>> /\ L \in Nat
          /\ Top(c) = stack[c][L] /\ Top(c).phase = "lock" /\ Unlocked(b)
      BY <1>0, <2>1, TopFacts DEF Enter
    <3>2. CASE Return(c)
      BY <1>r, <3>1, <3>2
    <3>3. CASE GoOn(c, "cancel")
      <4>. DEFINE f == Moved(c, "cancel")
      <4>1. /\ f.block = b
            /\ \A d \in Callers : d # c => stack'[d] = stack[d]
            /\ Len(stack'[c]) = L
            /\ \A n \in 1..L : stack'[c][n] = IF n = L THEN f ELSE stack[c][n]
        BY <1>0, <3>1, <3>3, GoOnFacts
      <4>2. \A d \in Callers : \A n \in 1..Len(stack[d]) :
              stack[d][n].block = b => stack[d][n].phase = "lock"
        BY <3>1 DEF Unlocked, Holds
      <4>. HIDE DEF f, b, L
      <4>3. ASSUME NEW d \in Callers, NEW n \in 1..Len(stack'[d]), d # c \/ n # L
            PROVE  n \in 1..Len(stack[d]) /\ stack'[d][n] = stack[d][n]
        BY <4>1, <4>3 DEF L
      <4>4. stack'[c][L].block = b \/ L \notin 1..Len(stack'[c])
        BY <4>1
      <4>5. ASSUME NEW d \in Callers, NEW m \in 1..Len(stack'[d]), d # c \/ m # L,
                   stack'[d][m].phase # "lock", L \in 1..Len(stack'[c])
            PROVE  stack'[d][m].block # stack'[c][L].block
        BY <4>2, <4>3, <4>4, <4>5
      <4>6. ASSUME NEW x \in Callers, NEW d \in Callers,
                   NEW m \in 1..Len(stack'[x]), NEW n \in 1..Len(stack'[d]),
                   stack'[x][m].block = stack'[d][n].block,
                   stack'[x][m].phase # "lock", stack'[d][n].phase # "lock"
            PROVE  x = d /\ m = n
        <5>1. CASE x = c /\ m = L
          BY <4>5, <4>6, <5>1
        <5>2. CASE d = c /\ n = L
          BY <4>5, <4>6, <5>2
        <5>3. CASE ~(x = c /\ m = L) /\ ~(d = c /\ n = L)
          <6>1. /\ m \in 1..Len(stack[x]) /\ stack'[x][m] = stack[x][m]
                /\ n \in 1..Len(stack[d]) /\ stack'[d][n] = stack[d][n]
            BY <4>3, <5>3
          <6>. QED
            BY <1>0, <4>6, <6>1 DEF LockSound
        <5>. QED
          BY <5>1, <5>2, <5>3
      <4>. QED
        BY <4>6 DEF LockSound
    <3>. QED
      BY <2>1, <3>2, <3>3 DEF Enter, EnterWhen
  <2>2. CASE CancelProcessing(c)
    BY <1>g, <2>2 DEF CancelProcessing
  <2>3. CASE WakeProcessing(c)
    BY <1>g, <2>3 DEF WakeProcessing
  <2>4. CASE WaitProcessing(c)
    <3>. DEFINE b == Top(c).block
                L == Len(stack[c])
                f == Concluded(c)
    <3>1. /\ At(c, "wait") /\ Conclude(c) /\ Top(c) = stack[c][L] /\ Top(c).phase = "wait"
      BY <1>0, <2>4, TopFacts DEF WaitProcessing
    <3>2. /\ f.block = b
          /\ \A d \in Callers : d # c => stack'[d] = stack[d]
          /\ Len(stack'[c]) = L
          /\ \A n \in 1..L : stack'[c][n] = IF n = L THEN f ELSE stack[c][n]
      BY <1>0, <3>1, ConcludeFacts
    <3>. HIDE DEF f, L
    <3>. QED
      BY <1>k, <3>1, <3>2 DEF L
  <2>5. CASE NotifyNext(c)
    <3>. DEFINE L == Len(stack[c])
                f == [Top(c) EXCEPT !.todo = Tail(@)]
                g == Call(Head(Top(c).todo), Top(c).exceptional)
    <3>1. At(c, "finally")
      BY <2>5 DEF NotifyNext
    <3>2. L \in Nat /\ Top(c) = stack[c][L] /\ Top(c).phase = "finally" /\ Top(c) \in Frame
      BY <1>0, <3>1, TopFacts
    <3>3. /\ \A d \in Callers : d # c => stack'[d] = stack[d]
          /\ Len(stack'[c]) = L + 1
          /\ \A n \in 1..Len(stack'[c]) :
               stack'[c][n] = IF n = Len(stack'[c]) THEN g
                              ELSE IF n = L THEN f ELSE stack[c][n]
      BY <1>0, <2>5, NotifyNextFacts
    <3>4. f.block = Top(c).block /\ g.phase = "lock"
      BY <3>2 DEF Frame, Call
    <3>. HIDE DEF f, g, L
    <3>5. ASSUME NEW n \in 1..Len(stack'[c]), stack'[c][n].phase # "lock"
          PROVE  /\ n \in 1..Len(stack[c]) /\ stack[c][n].phase # "lock"
                 /\ stack[c][n].block = stack'[c][n].block
      <4>1. n # L + 1 /\ n \in 1..L
        BY <3>2, <3>3, <3>4, <3>5
      <4>2. stack'[c][n] = IF n = L THEN f ELSE stack[c][n]
        BY <3>3, <4>1
      <4>. QED
        BY <3>2, <3>4, <3>5, <4>1, <4>2 DEF L
    <3>. QED
      BY <1>k, <3>3, <3>5
  <2>6. CASE Leave(c)
    BY <1>r, <2>6 DEF Leave, At
  <2>7. CASE Terminate(c)
    BY <1>a, <2>7 DEF Terminate
  <2>. QED
    BY <1>5, <2>1, <2>2, <2>3, <2>4, <2>5, <2>6, <2>7 DEF CallStep
<1>. QED
  BY <1>1, <1>2, <1>3, <1>4, <1>5 DEF Next

(* The calls a block can still expect, and those that ask it.              *)
Asks(s, b) == s # <<>> /\ Last(s).phase = "lock" /\ Last(s).block = b

LEMMA AsksFacts ==
  ASSUME NEW s \in Seq(Frame), NEW b
  PROVE  Asks(s, b) <=> /\ Len(s) # 0
                        /\ s[Len(s)].phase = "lock" /\ s[Len(s)].block = b
<1>1. s = <<>> <=> Len(s) = 0
  BY EmptySeq
<1>2. s # <<>> => Last(s) = s[Len(s)]
  BY FrontFacts
<1>. QED
  BY <1>1, <1>2 DEF Asks

LEMMA FiniteBlocks ==
  /\ IsFiniteSet(Callers)
  /\ \A b \in Blocks : /\ IsFiniteSet(Remaining(b)) /\ IsFiniteSet(Asking(b))
                       /\ Cardinality(Asking(b)) \in Nat
                       /\ Expected(b) \in Nat /\ Starts(b) \in Nat
<1>1. IsFiniteSet(Blocks) /\ IsFiniteSet(Callers)
  BY FlowAssumption, FS_AddElement DEF Callers
<1>2. ASSUME NEW b \in Blocks
      PROVE  /\ IsFiniteSet(Remaining(b)) /\ IsFiniteSet(Asking(b))
             /\ Cardinality(Asking(b)) \in Nat
             /\ Expected(b) \in Nat /\ Starts(b) \in Nat
  <2>1. Remaining(b) \subseteq Blocks /\ Asking(b) \subseteq Callers /\ Predecessors(b) \subseteq Blocks
    BY DEF Remaining, Asking, Predecessors
  <2>2. IsFiniteSet(Remaining(b)) /\ IsFiniteSet(Asking(b)) /\ IsFiniteSet(Predecessors(b))
    BY <1>1, <2>1, FS_Subset
  <2>3. Cardinality(Remaining(b)) \in Nat /\ Cardinality(Asking(b)) \in Nat
        /\ Cardinality(Predecessors(b)) \in Nat
    BY <2>2, FS_CardinalityType
  <2>. QED
    BY <2>2, <2>3 DEF Expected, Starts
<1>. QED
  BY <1>1, <1>2

LEMMA AskingCount ==
  ASSUME NEW c \in Callers, \A d \in Callers : d # c => stack'[d] = stack[d],
         NEW b \in Blocks
  PROVE  Cardinality(Asking(b)') = Cardinality(Asking(b))
                                     + (IF Asks(stack'[c], b) THEN 1 ELSE 0)
                                     - (IF Asks(stack[c], b) THEN 1 ELSE 0)
<1>1. Asking(b) = {d \in Callers : Asks(stack[d], b)}
  BY DEF Asking, At, Top, Asks
<1>2. Asking(b)' = {d \in Callers : Asks(stack'[d], b)}
  BY DEF Asking, At, Top, Asks
<1>3. IsFiniteSet(Asking(b)) /\ Cardinality(Asking(b)) \in Nat
  BY FiniteBlocks
<1>4. CASE Asks(stack'[c], b) <=> Asks(stack[c], b)
  <2>1. Asking(b)' = Asking(b)
    BY <1>1, <1>2, <1>4
  <2>. QED
    BY <1>3, <1>4, <2>1
<1>5. CASE Asks(stack'[c], b) /\ ~Asks(stack[c], b)
  <2>1. Asking(b)' = Asking(b) \cup {c} /\ c \notin Asking(b)
    BY <1>1, <1>2, <1>5
  <2>2. Cardinality(Asking(b) \cup {c}) = Cardinality(Asking(b)) + 1
    BY <1>3, <2>1, FS_AddElement
  <2>. QED
    BY <1>3, <1>5, <2>1, <2>2
<1>6. CASE ~Asks(stack'[c], b) /\ Asks(stack[c], b)
  <2>1. Asking(b)' = Asking(b) \ {c} /\ c \in Asking(b)
    BY <1>1, <1>2, <1>6
  <2>2. Cardinality(Asking(b) \ {c}) = Cardinality(Asking(b)) - 1
    BY <1>3, <2>1, FS_RemoveElement
  <2>. QED
    BY <1>3, <1>6, <2>1, <2>2
<1>. QED
  BY <1>4, <1>5, <1>6

LEMMA RemainingKept ==
  ASSUME \A a \in Blocks : state'[a] = "Stopped" <=> state[a] = "Stopped",
         \A d \in Callers : \A n \in 1..Len(stack'[d]) : \A s \in ToSet(stack'[d][n].todo) :
           /\ n \in 1..Len(stack[d]) /\ stack[d][n].block = stack'[d][n].block
           /\ s \in ToSet(stack[d][n].todo),
         \A d \in Callers : \A n \in 1..Len(stack[d]) : \A s \in ToSet(stack[d][n].todo) :
           /\ n \in 1..Len(stack'[d]) /\ stack[d][n].block = stack'[d][n].block
           /\ s \in ToSet(stack'[d][n].todo)
  PROVE  \A b \in Blocks : Remaining(b)' = Remaining(b)
<1>1. ASSUME NEW a \in Blocks, NEW b \in Blocks, ToNotify(a, b) PROVE ToNotify(a, b)'
  <2>1. PICK d \in Callers : \E n \in 1..Len(stack[d]) :
          stack[d][n].block = a /\ b \in ToSet(stack[d][n].todo)
    BY <1>1 DEF ToNotify
  <2>2. PICK n \in 1..Len(stack[d]) : stack[d][n].block = a /\ b \in ToSet(stack[d][n].todo)
    BY <2>1
  <2>3. n \in 1..Len(stack'[d]) /\ stack'[d][n].block = a /\ b \in ToSet(stack'[d][n].todo)
    BY <2>2
  <2>. QED
    BY <2>3 DEF ToNotify
<1>2. ASSUME NEW a \in Blocks, NEW b \in Blocks, ToNotify(a, b)' PROVE ToNotify(a, b)
  <2>1. PICK d \in Callers : \E n \in 1..Len(stack'[d]) :
          stack'[d][n].block = a /\ b \in ToSet(stack'[d][n].todo)
    BY <1>2 DEF ToNotify
  <2>2. PICK n \in 1..Len(stack'[d]) : stack'[d][n].block = a /\ b \in ToSet(stack'[d][n].todo)
    BY <2>1
  <2>3. n \in 1..Len(stack[d]) /\ stack[d][n].block = a /\ b \in ToSet(stack[d][n].todo)
    BY <2>2
  <2>. QED
    BY <2>3 DEF ToNotify
<1>. QED
  BY <1>1, <1>2 DEF Remaining, Predecessors

LEMMA UserCalledKept ==
  ASSUME TypeOK, NEW c \in Callers, stack[c] # <<>>, Return(c),
         NEW a \in {"returned", "threw"}, Answered(c, a)
  PROVE  UserCalled' <=> UserCalled
<1>1. /\ \A d \in Callers : d # c => stack'[d] = stack[d]
      /\ Len(stack'[c]) = Len(stack[c]) - 1
  BY ReturnFacts
<1>2. stack[c] \in Seq(Frame) /\ User \in Callers
  BY DEF TypeOK, Callers
<1>3. c = User => /\ Len(stack[c]) \in Nat \ {0}
                  /\ Len(stack[c]) # 1 => stack'[c] # <<>>
  <2>1. Len(<<>>) = 0
    BY EmptySeq
  <2>2. Len(stack[c]) \in Nat \ {0}
    BY <1>2, EmptySeq, LenProperties
  <2>3. stack'[c] = <<>> => Len(stack[c]) - 1 = 0
    BY <1>1, <2>1
  <2>. QED
    BY <2>2, <2>3
<1>. QED
  BY <1>1, <1>2, <1>3 DEF UserCalled, Answered

(* _startCallsCount keeps counting, and nobody comes to expect a call.     *)
LEMMA CountStep ==
  ASSUME FlowInv, Next, NEW x \in Blocks
  PROVE  CountFits(x)' /\ (Expected(x) = 0 => Expected(x)' = 0)
<1>0. /\ TypeOK /\ StartSound /\ StackSound /\ LockSound /\ CountFits(x)
      /\ First \in Blocks /\ User \notin Blocks
  BY FlowAssumption DEF FlowInv, TaskInv, CountSound
<1>t. /\ stack \in [Callers -> Seq(Frame)] /\ startCalls \in [Blocks -> Int]
      /\ state \in [Blocks -> {"Created", "Started", "Stopping", "Stopped"}]
      /\ ppc \in [Blocks -> {"await", "loop", "take", "waiting", "granted",
                             "transform", "offer", "add", "ended", "failed"}]
  BY <1>0 DEF TypeOK
<1>n. /\ startCalls[x] \in Int /\ Cardinality(Asking(x)) \in Nat
      /\ Expected(x) \in Nat /\ Starts(x) \in Nat
  BY <1>t, FiniteBlocks
<1>f. \A d \in Callers : \A n \in 1..Len(stack[d]) :
        /\ CallFits(d, n) /\ stack[d][n] \in Frame /\ stack[d][n].block \in Blocks
        /\ Len(stack[d]) \in Nat
  BY <1>0, FrameFacts DEF StackSound
<1>. DEFINE Goal == CountFits(x)' /\ (Expected(x) = 0 => Expected(x)' = 0)
            StopsKept == \A a \in Blocks : state'[a] = "Stopped" <=> state[a] = "Stopped"
            Rest == /\ ppc'[x] = "failed" <=> ppc[x] = "failed"
                    /\ state'[First] = "Created" <=> state[First] = "Created"
<1>k. ASSUME UNCHANGED <<startCalls, stack, answer>>, StopsKept, Rest PROVE Goal
  <2>1. Remaining(x)' = Remaining(x)
    BY <1>k, RemainingKept
  <2>2. Asking(x)' = Asking(x) /\ (UserCalled' <=> UserCalled)
    BY <1>k DEF Asking, At, Top, UserCalled
  <2>3. Expected(x)' = Expected(x)
    BY <2>1, <2>2 DEF Expected
  <2>. QED
    BY <1>0, <1>n, <1>k, <2>2, <2>3 DEF CountFits
<1>e. ASSUME NEW c \in Callers, \A d \in Callers : d # c => stack'[d] = stack[d], StopsKept,
             \A n \in 1..Len(stack'[c]) : \A s \in ToSet(stack'[c][n].todo) :
               /\ n \in 1..Len(stack[c]) /\ stack[c][n].block = stack'[c][n].block
               /\ s \in ToSet(stack[c][n].todo),
             \A n \in 1..Len(stack[c]) : \A s \in ToSet(stack[c][n].todo) :
               /\ n \in 1..Len(stack'[c]) /\ stack[c][n].block = stack'[c][n].block
               /\ s \in ToSet(stack'[c][n].todo)
      PROVE  Remaining(x)' = Remaining(x)
  BY <1>e, RemainingKept
<1>l. \A c \in Callers : \A n \in 1..Len(stack[c]) :
        stack[c][n].phase = "lock" => ToSet(stack[c][n].todo) = {}
  BY <1>f, EmptySeq DEF CallFits, ToSet
<1>r. ASSUME NEW c \in Callers, stack[c] # <<>>, Return(c), ToSet(Top(c).todo) = {},
             NEW a \in {"returned", "threw"}, Answered(c, a), StopsKept
      PROVE  Expected(x)' = Expected(x) /\ ~Asks(stack'[c], x)
  <2>1. /\ stack' \in [Callers -> Seq(Frame)]
        /\ \A d \in Callers : d # c => stack'[d] = stack[d]
        /\ Len(stack'[c]) = Len(stack[c]) - 1
        /\ \A n \in 1..(Len(stack[c]) - 1) : stack'[c][n] = stack[c][n]
    BY <1>0, <1>r, ReturnFacts
  <2>2. Len(stack[c]) \in Nat \ {0} /\ Top(c) = stack[c][Len(stack[c])]
    <3>1. stack[c] \in Seq(Frame) /\ stack[c] # <<>>
      BY <1>t, <1>r
    <3>. QED
      BY <3>1, FrontFacts DEF Top
  <2>3. \A n \in 1..Len(stack'[c]) : n \in 1..Len(stack[c]) /\ stack'[c][n] = stack[c][n]
    BY <2>1, <2>2
  <2>4. \A n \in 1..Len(stack[c]) : n = Len(stack[c]) \/ n \in 1..Len(stack'[c])
    BY <2>1, <2>2
  <2>5. Remaining(x)' = Remaining(x)
    BY <1>e, <1>r, <2>1, <2>2, <2>3, <2>4
  <2>6. UserCalled' <=> UserCalled
    BY <1>0, <1>r, UserCalledKept
  <2>7. ~Asks(stack'[c], x)
    <3>. SUFFICES ASSUME Asks(stack'[c], x) PROVE FALSE
      OBVIOUS
    <3>. DEFINE m == Len(stack[c]) - 1
    <3>1. stack'[c] \in Seq(Frame)
      BY <2>1
    <3>2. m # 0 /\ stack'[c][m].phase = "lock"
      BY <2>1, <3>1, AsksFacts
    <3>3. m \in 1..Len(stack[c]) /\ m < Len(stack[c]) /\ stack'[c][m] = stack[c][m]
      <4>1. m \in 1..(Len(stack[c]) - 1) /\ m \in 1..Len(stack[c]) /\ m < Len(stack[c])
        <5>. DEFINE k == Len(stack[c])
        <5>1. k \in Nat \ {0} /\ k - 1 # 0
          BY <2>2, <3>2
        <5>. HIDE DEF k
        <5>2. k - 1 \in 1..(k - 1) /\ k - 1 \in 1..k /\ k - 1 < k
          BY <5>1
        <5>. QED
          BY <5>2 DEF k
      <4>. HIDE DEF m
      <4>. QED
        BY <2>1, <4>1
    <3>. HIDE DEF m
    <3>4. stack[c][m].phase = "finally"
      BY <1>f, <3>3 DEF CallFits
    <3>. QED
      BY <3>2, <3>3, <3>4
  <2>. QED
    BY <2>5, <2>6, <2>7 DEF Expected
<1>g. ASSUME NEW c \in Callers, NEW p \in {"lock", "cancel", "wake"}, At(c, p),
             NEW r \in {"cancel", "wake", "wait"}, GoOn(c, r), StopsKept, UNCHANGED answer
      PROVE  /\ \A d \in Callers : d # c => stack'[d] = stack[d]
             /\ Expected(x)' = Expected(x) /\ ~Asks(stack'[c], x)
             /\ Asks(stack[c], x) <=> p = "lock" /\ Top(c).block = x
  <2>. DEFINE f == Moved(c, r)
              L == Len(stack[c])
  <2>1. r \in {"lock", "cancel", "wake", "wait", "finally"}
    BY <1>g
  <2>2. /\ f.block = Top(c).block /\ f.todo = Top(c).todo /\ f.phase = r
        /\ stack' \in [Callers -> Seq(Frame)]
        /\ \A d \in Callers : d # c => stack'[d] = stack[d]
        /\ Len(stack'[c]) = L
        /\ \A n \in 1..L : stack'[c][n] = IF n = L THEN f ELSE stack[c][n]
    <3>1. At(c, p) /\ GoOn(c, r)
      BY <1>g
    <3>. QED
      BY <1>0, <2>1, <3>1, GoOnFacts
  <2>3. Top(c) = stack[c][L] /\ Top(c).phase = p /\ L \in Nat \ {0} /\ L \in 1..L
        /\ stack[c] \in Seq(Frame)
    BY <1>0, <1>g, TopFacts
  <2>. HIDE DEF f, L
  <2>4. Remaining(x)' = Remaining(x)
    BY <1>e, <1>g, <2>2, <2>3 DEF L
  <2>5. ~Asks(stack'[c], x)
    <3>1. stack'[c] \in Seq(Frame) /\ stack'[c][L] = f
      BY <2>2, <2>3
    <3>. QED
      BY <1>g, <2>2, <3>1, AsksFacts
  <2>6. Asks(stack[c], x) <=> p = "lock" /\ Top(c).block = x
    BY <2>3, AsksFacts DEF L
  <2>7. UserCalled' <=> UserCalled
    <3>1. stack[User] # <<>> <=> stack'[User] # <<>>
      <4>1. CASE c = User
        <5>1. stack'[c] # <<>> /\ stack[c] # <<>>
          BY <2>2, <2>3, EmptySeq DEF L
        <5>. QED
          BY <4>1, <5>1
      <4>2. CASE c # User
        BY <2>2, <4>2 DEF Callers
      <4>. QED
        BY <4>1, <4>2
    <3>. QED
      BY <1>g, <3>1 DEF UserCalled
  <2>. QED
    BY <2>2, <2>4, <2>5, <2>6, <2>7 DEF Expected
<1>1. CASE Start
  <2>1. /\ \A b \in Blocks : state[b] = "Created" /\ ppc[b] = "await"
        /\ startCalls'[x] = startCalls[x] + Starts(x)
        /\ state'[First] = "Started" /\ ppc'[x] = "loop" /\ UNCHANGED <<stack, answer>>
        /\ StopsKept
    BY <1>0, <1>1 DEF Start, StartSound
  <2>2. Remaining(x)' = Remaining(x)
    BY <2>1, RemainingKept
  <2>3. Asking(x)' = Asking(x) /\ (UserCalled' <=> UserCalled)
    BY <2>1 DEF Asking, At, Top, UserCalled
  <2>4. Expected(x)' = Expected(x)
    BY <2>2, <2>3 DEF Expected
  <2>. QED
    BY <1>0, <1>n, <2>1, <2>3, <2>4 DEF CountFits
<1>2. ASSUME NEW i \in Items, CheckStarted(i) PROVE Goal
  BY <1>k, <1>2 DEF CheckStarted
<1>3. ASSUME NEW i \in Items, Add(i) PROVE Goal
  BY <1>k, <1>3, <1>t, <1>0 DEF Add, Woken
<1>4. CASE UserComplete
  <2>. DEFINE g == Call(First, FALSE)
  <2>1. g.block = First /\ g.phase = "lock" /\ g.todo = <<>> /\ g \in Frame
    BY <1>0, CallInFrame DEF Call
  <2>. HIDE DEF g
  <2>2. /\ User \in Callers /\ stack'[User] = <<g>> /\ stack[User] = <<>>
        /\ \A d \in Callers : d # User => stack'[d] = stack[d]
        /\ answer = "none" /\ UNCHANGED <<state, startCalls, ppc, answer>>
    BY <1>t, <1>4 DEF UserComplete, Callers, g
  <2>3. <<g>> \in Seq(Frame) /\ Len(<<g>>) = 1 /\ <<g>>[1] = g /\ Len(<<>>) = 0
        /\ <<>> \in Seq(Frame) /\ <<g>> # <<>> /\ ToSet(<<>>) = {}
    BY <2>1, EmptySeq DEF ToSet
  <2>4. Remaining(x)' = Remaining(x)
    <3>1. \A n \in 1..Len(stack'[User]) : ToSet(stack'[User][n].todo) = {}
      BY <2>1, <2>2, <2>3
    <3>2. \A n \in 1..Len(stack[User]) : ToSet(stack[User][n].todo) = {}
      BY <2>2, <2>3
    <3>. QED
      BY <1>e, <2>2, <3>1, <3>2
  <2>5. ~Asks(stack[User], x) /\ (Asks(stack'[User], x) <=> x = First)
    <3>1. ~Asks(<<>>, x) /\ (Asks(<<g>>, x) <=> x = First)
      <4>. DEFINE t == <<g>>
      <4>1. t \in Seq(Frame) /\ Len(t) = 1 /\ t[1] = g
        BY <2>3
      <4>. HIDE DEF t
      <4>2. Asks(t, x) <=> Len(t) # 0 /\ t[Len(t)].phase = "lock" /\ t[Len(t)].block = x
        BY <4>1, AsksFacts
      <4>3. Asks(t, x) <=> x = First
        BY <2>1, <4>1, <4>2
      <4>. QED
        BY <4>3 DEF Asks, t
    <3>. QED
      BY <2>2, <3>1
  <2>6. ~UserCalled /\ UserCalled'
    BY <2>2, <2>3 DEF UserCalled
  <2>7. Cardinality(Asking(x)') = Cardinality(Asking(x)) + IF x = First THEN 1 ELSE 0
    BY <1>n, <2>2, <2>5, AskingCount
  <2>8. Expected(x)' = IF x = First THEN Expected(x) - 1 ELSE Expected(x)
    BY <2>4, <2>6 DEF Expected
  <2>9. x = First => Expected(x) = 1
    BY <2>6 DEF Expected
  <2>. QED
    BY <1>0, <1>n, <2>2, <2>7, <2>8, <2>9 DEF CountFits
<1>5. ASSUME NEW b \in Blocks, ProcessingStep(b), ~TransformFails(b) PROVE Goal
  <2>1. UNCHANGED <<startCalls, stack, answer, state>>
    BY <1>5 DEF ProcessingStep, TestToken, TakeBegin, TakeEnd, Transform,
                AskSuccessor, OfferCheck, OfferAdd, Passed
  <2>2. ppc[x] = "failed" => ppc'[x] = "failed"
    BY FailedStays DEF FlowInv
  <2>3. ppc'[x] = "failed" => ppc[x] = "failed"
    <3>1. CASE OfferAdd(b)
      <4>1. ppc' = [ppc EXCEPT ![b] = "offer", ![Head(targets[b])] = Woken(@)]
        BY <3>1 DEF OfferAdd
      <4>. QED
        BY <1>t, <4>1 DEF Woken
    <3>. QED
      BY <1>5, <1>t, <3>1 DEF ProcessingStep, TestToken, TakeBegin, TakeEnd, Transform,
                AskSuccessor, OfferCheck, Passed
  <2>. QED
    BY <1>k, <2>1, <2>2, <2>3
<1>6. ASSUME NEW b \in Blocks, TransformFails(b) PROVE Goal
  <2>. DEFINE g == Call(b, TRUE)
  <2>1. g.block = b /\ g.phase = "lock" /\ g.todo = <<>> /\ g \in Frame
    BY CallInFrame DEF Call
  <2>. HIDE DEF g
  <2>2. /\ b \in Callers /\ stack'[b] = <<g>> /\ b # User
        /\ \A d \in Callers : d # b => stack'[d] = stack[d]
        /\ ppc[b] = "transform" /\ ppc' = [ppc EXCEPT ![b] = "failed"]
        /\ UNCHANGED <<state, startCalls, answer>>
    BY <1>0, <1>t, <1>6 DEF TransformFails, Callers, g
  <2>3. <<g>> \in Seq(Frame) /\ Len(<<g>>) = 1 /\ <<g>>[1] = g /\ Len(<<>>) = 0
        /\ <<>> \in Seq(Frame) /\ <<g>> # <<>> /\ ToSet(<<>>) = {}
    BY <2>1, EmptySeq DEF ToSet
  <2>4. stack[b] = <<>>
    <3>1. stack[b] \in Seq(Frame)
      BY <1>t, <2>2
    <3>2. stack[b] # <<>> => 1 \in 1..Len(stack[b])
      BY <3>1, EmptySeq, LenProperties
    <3>. QED
      BY <1>f, <2>2, <3>2 DEF CallFits
  <2>5. Remaining(x)' = Remaining(x)
    <3>1. \A n \in 1..Len(stack'[b]) : ToSet(stack'[b][n].todo) = {}
      BY <2>1, <2>2, <2>3
    <3>2. \A n \in 1..Len(stack[b]) : ToSet(stack[b][n].todo) = {}
      BY <2>3, <2>4
    <3>. QED
      BY <1>e, <2>2, <3>1, <3>2
  <2>6. ~Asks(stack[b], x) /\ (Asks(stack'[b], x) <=> x = b)
    <3>1. ~Asks(<<>>, x) /\ (Asks(<<g>>, x) <=> x = b)
      <4>. DEFINE t == <<g>>
      <4>1. t \in Seq(Frame) /\ Len(t) = 1 /\ t[1] = g
        BY <2>3
      <4>. HIDE DEF t
      <4>2. Asks(t, x) <=> Len(t) # 0 /\ t[Len(t)].phase = "lock" /\ t[Len(t)].block = x
        BY <4>1, AsksFacts
      <4>3. Asks(t, x) <=> x = b
        BY <2>1, <4>1, <4>2
      <4>. QED
        BY <4>3 DEF Asks, t
    <3>. QED
      BY <2>2, <2>4, <3>1
  <2>7. Cardinality(Asking(x)') = Cardinality(Asking(x)) + IF x = b THEN 1 ELSE 0
    BY <1>n, <2>2, <2>6, AskingCount
  <2>8. UserCalled' <=> UserCalled
    BY <2>2 DEF UserCalled, Callers
  <2>9. Expected(x)' = Expected(x)
    BY <2>5, <2>8 DEF Expected
  <2>10. ppc'[x] = "failed" <=> x = b \/ ppc[x] = "failed"
    BY <1>t, <2>2
  <2>. QED
    BY <1>0, <1>n, <2>2, <2>7, <2>9, <2>10 DEF CountFits
<1>7. ASSUME NEW c \in Callers, CallStep(c) PROVE Goal
  <2>1. CASE Enter(c)
    <3>. DEFINE b == Top(c).block
                L == Len(stack[c])
    <3>1. /\ At(c, "lock") /\ stack[c] # <<>> /\ b \in Blocks
          /\ L \in 1..L /\ L \in Nat \ {0} /\ Top(c) = stack[c][L] /\ Top(c).phase = "lock"
          /\ stack[c] \in Seq(Frame)
      BY <1>0, <2>1, TopFacts DEF Enter
    <3>2. /\ startCalls'[x] = IF x = b THEN startCalls[x] - 1 ELSE startCalls[x]
          /\ UNCHANGED ppc
      BY <1>t, <2>1, <3>1 DEF Enter, EnterWhen
    <3>3. Asks(stack[c], x) <=> x = b
      BY <3>1, AsksFacts
    <3>4. ASSUME \A d \in Callers : d # c => stack'[d] = stack[d],
                 Expected(x)' = Expected(x), ~Asks(stack'[c], x),
                 state'[First] = "Created" <=> state[First] = "Created"
          PROVE  Goal
      <4>1. Cardinality(Asking(x)') = Cardinality(Asking(x)) - IF x = b THEN 1 ELSE 0
        BY <1>n, <3>3, <3>4, AskingCount
      <4>. QED
        BY <1>0, <1>n, <3>2, <3>4, <4>1 DEF CountFits
    <3>5. CASE /\ Return(c) /\ UNCHANGED state
               /\ Answered(c, "returned") \/ Answered(c, "threw")
      <4>1. ToSet(Top(c).todo) = {}
        BY <1>l, <3>1
      <4>2. Expected(x)' = Expected(x) /\ ~Asks(stack'[c], x)
        BY <1>r, <3>1, <3>5, <4>1
      <4>3. \A d \in Callers : d # c => stack'[d] = stack[d]
        BY <1>0, <3>1, <3>5, ReturnFacts
      <4>. QED
        BY <3>4, <3>5, <4>2, <4>3
    <3>6. CASE /\ state[b] \notin {"Created", "Stopped"} /\ UNCHANGED answer
               /\ state' = [state EXCEPT ![b] = "Stopping"] /\ GoOn(c, "cancel")
      <4>1. StopsKept /\ (state'[First] = "Created" <=> state[First] = "Created")
        BY <1>0, <1>t, <3>1, <3>6
      <4>2. /\ \A d \in Callers : d # c => stack'[d] = stack[d]
            /\ Expected(x)' = Expected(x) /\ ~Asks(stack'[c], x)
        BY <1>g, <3>1, <3>6, <4>1
      <4>. QED
        BY <3>4, <4>1, <4>2
    <3>. QED
      BY <2>1, <3>5, <3>6 DEF Enter, EnterWhen
  <2>a. ASSUME NEW p \in {"cancel", "wake"}, At(c, p), NEW r \in {"wake", "wait"}, GoOn(c, r),
               UNCHANGED <<state, answer, startCalls>>, ppc'[x] = "failed" <=> ppc[x] = "failed"
        PROVE  Goal
    <3>1. /\ \A d \in Callers : d # c => stack'[d] = stack[d]
          /\ Expected(x)' = Expected(x) /\ ~Asks(stack'[c], x) /\ ~Asks(stack[c], x)
      BY <1>g, <2>a
    <3>2. Cardinality(Asking(x)') = Cardinality(Asking(x))
      BY <1>n, <3>1, AskingCount
    <3>. QED
      BY <1>0, <1>n, <2>a, <3>1, <3>2 DEF CountFits
  <2>2. CASE CancelProcessing(c)
    BY <2>a, <2>2 DEF CancelProcessing
  <2>3. CASE WakeProcessing(c)
    <3>1. ppc'[x] = "failed" <=> ppc[x] = "failed"
      BY <1>t, <2>3 DEF WakeProcessing
    <3>. QED
      BY <2>a, <2>3, <3>1 DEF WakeProcessing
  <2>4. CASE WaitProcessing(c)
    <3>. DEFINE b == Top(c).block
                L == Len(stack[c])
                f == Concluded(c)
    <3>1. /\ At(c, "wait") /\ b \in Blocks /\ stack[c] \in Seq(Frame)
          /\ L \in 1..L /\ L \in Nat \ {0} /\ Top(c) = stack[c][L] /\ Top(c).phase = "wait"
          /\ Conclude(c) /\ state' = [state EXCEPT ![b] = "Stopped"]
          /\ UNCHANGED <<ppc, startCalls, answer>>
      BY <1>0, <2>4, TopFacts DEF WaitProcessing, Conclude
    <3>2. /\ f.block = b /\ f.todo = Successors[b] /\ f.phase = "finally"
          /\ stack' \in [Callers -> Seq(Frame)]
          /\ \A d \in Callers : d # c => stack'[d] = stack[d]
          /\ Len(stack'[c]) = L
          /\ \A n \in 1..L : stack'[c][n] = IF n = L THEN f ELSE stack[c][n]
      BY <1>0, <3>1, ConcludeFacts
    <3>3. state[b] = "Stopping" /\ ToSet(Top(c).todo) = {}
      <4>1. state[b] = "Stopping" /\ Top(c).todo = <<>>
        BY <1>f, <3>1 DEF CallFits
      <4>. QED
        BY <4>1, EmptySeq DEF ToSet
    <3>. HIDE DEF f, b, L
    <3>4. \A y \in Blocks : state'[y] = IF y = b THEN "Stopped" ELSE state[y]
      BY <1>t, <3>1
    <3>5. \A a \in Blocks : a # b => (ToNotify(a, x)' <=> ToNotify(a, x))
      <4>1. ASSUME NEW a \in Blocks, a # b, ToNotify(a, x) PROVE ToNotify(a, x)'
        <5>1. PICK d \in Callers : \E n \in 1..Len(stack[d]) :
                stack[d][n].block = a /\ x \in ToSet(stack[d][n].todo)
          BY <4>1 DEF ToNotify
        <5>2. PICK n \in 1..Len(stack[d]) : stack[d][n].block = a /\ x \in ToSet(stack[d][n].todo)
          BY <5>1
        <5>3. d # c \/ n # L
          BY <3>1, <4>1, <5>2 DEF b
        <5>4. n \in 1..Len(stack'[d]) /\ stack'[d][n] = stack[d][n]
          BY <3>2, <5>3 DEF L
        <5>. QED
          BY <5>2, <5>4 DEF ToNotify
      <4>2. ASSUME NEW a \in Blocks, a # b, ToNotify(a, x)' PROVE ToNotify(a, x)
        <5>1. PICK d \in Callers : \E n \in 1..Len(stack'[d]) :
                stack'[d][n].block = a /\ x \in ToSet(stack'[d][n].todo)
          BY <4>2 DEF ToNotify
        <5>2. PICK n \in 1..Len(stack'[d]) : stack'[d][n].block = a /\ x \in ToSet(stack'[d][n].todo)
          BY <5>1
        <5>3. d # c \/ n # L
          BY <3>1, <3>2, <4>2, <5>2
        <5>4. n \in 1..Len(stack[d]) /\ stack'[d][n] = stack[d][n]
          BY <3>2, <5>3 DEF L
        <5>. QED
          BY <5>2, <5>4 DEF ToNotify
      <4>. QED
        BY <4>1, <4>2
    <3>6. ASSUME NEW y \in Predecessors(x), y = b PROVE ToNotify(y, x)'
      <4>1. L \in 1..Len(stack'[c]) /\ stack'[c][L] = f
        BY <3>1, <3>2
      <4>. QED
        BY <3>2, <3>6, <4>1 DEF ToNotify, Predecessors
    <3>7. Remaining(x)' = Remaining(x)
      BY <3>3, <3>4, <3>5, <3>6 DEF Remaining, Predecessors
    <3>8. ~Asks(stack'[c], x) /\ ~Asks(stack[c], x)
      <4>1. stack'[c] \in Seq(Frame) /\ stack'[c][L] = f
        BY <3>1, <3>2
      <4>. QED
        BY <3>1, <3>2, <4>1, AsksFacts DEF L
    <3>9. Cardinality(Asking(x)') = Cardinality(Asking(x))
      BY <1>n, <3>2, <3>8, AskingCount
    <3>10. UserCalled' <=> UserCalled
      <4>1. stack'[c] # <<>> /\ stack[c] # <<>>
        BY <3>1, <3>2, EmptySeq DEF L
      <4>. QED
        BY <3>1, <3>2, <4>1 DEF UserCalled, Callers
    <3>11. Expected(x)' = Expected(x)
      BY <3>7, <3>10 DEF Expected
    <3>12. state'[First] = "Created" <=> state[First] = "Created"
      BY <1>0, <3>3, <3>4
    <3>. QED
      BY <1>0, <1>n, <3>1, <3>9, <3>11, <3>12 DEF CountFits
  <2>6. CASE Leave(c)
    <3>1. /\ stack[c] # <<>> /\ Return(c) /\ UNCHANGED <<state, startCalls, ppc>>
          /\ Answered(c, "returned") \/ Answered(c, "threw")
          /\ At(c, "finally") /\ Top(c).todo = <<>>
      BY <2>6 DEF Leave, At
    <3>2. ToSet(Top(c).todo) = {}
      BY <3>1, EmptySeq DEF ToSet
    <3>3. Expected(x)' = Expected(x) /\ ~Asks(stack'[c], x)
      BY <1>r, <3>1, <3>2
    <3>4. \A d \in Callers : d # c => stack'[d] = stack[d]
      BY <1>0, <3>1, ReturnFacts
    <3>5. ~Asks(stack[c], x)
      BY <3>1 DEF At, Asks, Top
    <3>6. Cardinality(Asking(x)') = Cardinality(Asking(x))
      BY <1>n, <3>3, <3>4, <3>5, AskingCount
    <3>. QED
      BY <1>0, <1>n, <3>1, <3>3, <3>6 DEF CountFits
  <2>7. CASE Terminate(c)
    BY <1>k, <2>7 DEF Terminate
  <2>5. CASE NotifyNext(c)
    <3>. DEFINE L == Len(stack[c])
                a == Top(c).block
                h == Head(Top(c).todo)
                f == [Top(c) EXCEPT !.todo = Tail(@)]
                g == Call(h, Top(c).exceptional)
    <3>1. At(c, "finally") /\ Top(c).todo # <<>> /\ UNCHANGED <<control, ppc, answer>>
      BY <2>5 DEF NotifyNext
    <3>2. /\ L \in 1..L /\ L \in Nat \ {0} /\ Top(c) = stack[c][L] /\ Top(c).phase = "finally"
          /\ Top(c) \in Frame /\ Top(c).todo \in Seq(Blocks) /\ a \in Blocks
          /\ stack[c] \in Seq(Frame)
      BY <1>0, <3>1, TopFacts
    <3>3. /\ stack' \in [Callers -> Seq(Frame)]
          /\ \A d \in Callers : d # c => stack'[d] = stack[d]
          /\ Len(stack'[c]) = L + 1
          /\ \A n \in 1..Len(stack'[c]) :
               stack'[c][n] = IF n = Len(stack'[c]) THEN g
                              ELSE IF n = L THEN f ELSE stack[c][n]
      BY <1>0, <2>5, NotifyNextFacts
    <3>4. /\ f.block = a /\ f.todo = Tail(Top(c).todo)
          /\ g.block = h /\ g.phase = "lock" /\ ToSet(g.todo) = {}
      BY <3>2, EmptySeq DEF Frame, Call, ToSet
    <3>5. /\ h \in Blocks /\ h \in ToSet(Top(c).todo)
          /\ ToSet(Top(c).todo) = ToSet(f.todo) \cup {h} /\ h \notin ToSet(f.todo)
          /\ state[a] = "Stopped" /\ ToSet(Top(c).todo) \subseteq ToSet(Successors[a])
      <4>1. CallFits(c, L)
        BY <1>f, <3>2
      <4>2. IsInjective(Top(c).todo) /\ state[a] = "Stopped"
            /\ ToSet(Top(c).todo) \subseteq ToSet(Successors[a])
        BY <3>2, <4>1 DEF CallFits
      <4>3. /\ h \in Blocks /\ h \in ToSet(Top(c).todo)
            /\ ToSet(Top(c).todo) = ToSet(Tail(Top(c).todo)) \cup {h}
            /\ h \notin ToSet(Tail(Top(c).todo))
        BY <3>1, <3>2, <4>2, TailSet
      <4>. QED
        BY <3>4, <4>2, <4>3
    <3>. HIDE DEF L, a, h, f, g
    <3>6. \A n \in 1..L : n \in 1..Len(stack'[c]) /\ stack'[c][n] = IF n = L THEN f ELSE stack[c][n]
      BY <3>2, <3>3
    <3>7. \A n \in 1..Len(stack'[c]) : n \in 1..L \/ stack'[c][n] = g
      BY <3>2, <3>3
    <3>8. ASSUME NEW d \in Callers, NEW n \in 1..Len(stack[d]), stack[d][n].block = a,
                 NEW y \in ToSet(stack[d][n].todo)
          PROVE  d = c /\ n = L
      <4>1. stack[d][n].phase = "finally"
        BY <1>f, <1>l, <3>8, EmptySeq DEF CallFits, ToSet
      <4>. QED
        BY <1>0, <3>2, <3>8, <4>1 DEF LockSound, a, L
    <3>9. ASSUME NEW y \in Blocks, y = a
          PROVE  /\ ToNotify(y, x) <=> x \in ToSet(Top(c).todo)
                 /\ ToNotify(y, x)' <=> x \in ToSet(f.todo)
      <4>1. ToNotify(y, x) => x \in ToSet(Top(c).todo)
        BY <3>2, <3>8, <3>9 DEF ToNotify, L
      <4>2. x \in ToSet(Top(c).todo) => ToNotify(y, x)
        BY <3>2, <3>9 DEF ToNotify, a, L
      <4>3. x \in ToSet(f.todo) => ToNotify(y, x)'
        BY <3>2, <3>4, <3>6, <3>9 DEF ToNotify
      <4>4. ASSUME ToNotify(y, x)' PROVE x \in ToSet(f.todo)
        <5>1. PICK d \in Callers : \E n \in 1..Len(stack'[d]) :
                stack'[d][n].block = y /\ x \in ToSet(stack'[d][n].todo)
          BY <4>4 DEF ToNotify
        <5>2. PICK n \in 1..Len(stack'[d]) :
                stack'[d][n].block = y /\ x \in ToSet(stack'[d][n].todo)
          BY <5>1
        <5>3. CASE d # c
          BY <3>3, <3>8, <3>9, <5>2, <5>3
        <5>4. CASE d = c /\ n = L
          BY <3>2, <3>6, <5>2, <5>4
        <5>5. CASE d = c /\ n \in 1..L /\ n # L
          BY <3>6, <3>8, <3>9, <5>2, <5>5 DEF L
        <5>6. CASE d = c /\ n \notin 1..L
          BY <3>4, <3>7, <5>2, <5>6
        <5>. QED
          BY <5>3, <5>4, <5>5, <5>6
      <4>. QED
        BY <4>1, <4>2, <4>3, <4>4
    <3>10. ASSUME NEW y \in Blocks, y # a PROVE ToNotify(y, x)' <=> ToNotify(y, x)
      <4>1. ASSUME ToNotify(y, x) PROVE ToNotify(y, x)'
        <5>1. PICK d \in Callers : \E n \in 1..Len(stack[d]) :
                stack[d][n].block = y /\ x \in ToSet(stack[d][n].todo)
          BY <4>1 DEF ToNotify
        <5>2. PICK n \in 1..Len(stack[d]) : stack[d][n].block = y /\ x \in ToSet(stack[d][n].todo)
          BY <5>1
        <5>3. d # c \/ n # L
          BY <3>2, <3>10, <5>2 DEF a
        <5>4. n \in 1..Len(stack'[d]) /\ stack'[d][n] = stack[d][n]
          BY <3>3, <3>6, <5>3 DEF L
        <5>. QED
          BY <5>2, <5>4 DEF ToNotify
      <4>2. ASSUME ToNotify(y, x)' PROVE ToNotify(y, x)
        <5>1. PICK d \in Callers : \E n \in 1..Len(stack'[d]) :
                stack'[d][n].block = y /\ x \in ToSet(stack'[d][n].todo)
          BY <4>2 DEF ToNotify
        <5>2. PICK n \in 1..Len(stack'[d]) :
                stack'[d][n].block = y /\ x \in ToSet(stack'[d][n].todo)
          BY <5>1
        <5>3. CASE d # c
          BY <3>3, <5>2, <5>3 DEF ToNotify
        <5>4. CASE d = c /\ n = L
          BY <3>2, <3>4, <3>6, <3>10, <5>2, <5>4
        <5>5. CASE d = c /\ n \in 1..L /\ n # L
          BY <3>6, <5>2, <5>5 DEF ToNotify, L
        <5>6. CASE d = c /\ n \notin 1..L
          BY <3>4, <3>7, <5>2, <5>6
        <5>. QED
          BY <5>3, <5>4, <5>5, <5>6
      <4>. QED
        BY <4>1, <4>2
    <3>11. ~Asks(stack[c], x) /\ (Asks(stack'[c], x) <=> x = h)
      <4>1. stack'[c] \in Seq(Frame) /\ stack'[c][L + 1] = g /\ L + 1 # 0
        BY <3>2, <3>3
      <4>2. Asks(stack'[c], x) <=> x = h
        BY <3>3, <3>4, <4>1, AsksFacts
      <4>3. ~Asks(stack[c], x)
        BY <3>1 DEF At, Asks, Top
      <4>. QED
        BY <4>2, <4>3
    <3>12. Cardinality(Asking(x)') = Cardinality(Asking(x)) + IF x = h THEN 1 ELSE 0
      BY <1>n, <3>3, <3>11, AskingCount
    <3>13. UserCalled' <=> UserCalled
      <4>1. stack'[c] # <<>> /\ stack[c] # <<>>
        BY <3>2, <3>3, EmptySeq DEF L
      <4>. QED
        BY <3>1, <3>3, <4>1 DEF UserCalled, Callers
    <3>14. CASE x = h
      <4>1. a \in Blocks /\ a \in Predecessors(x) /\ x # First
        BY <3>2, <3>5, <3>14, FlowAssumption DEF Predecessors
      <4>2. Remaining(x)' = Remaining(x) \ {a} /\ a \in Remaining(x)
        BY <3>1, <3>5, <3>9, <3>10, <3>14, <4>1 DEF Remaining, Predecessors
      <4>3. Cardinality(Remaining(x)') = Cardinality(Remaining(x)) - 1
        BY <4>2, FiniteBlocks, FS_RemoveElement
      <4>4. Expected(x) = Cardinality(Remaining(x)) /\ Expected(x)' = Expected(x) - 1
        BY <4>1, <4>3 DEF Expected
      <4>5. Expected(x) # 0
        BY <4>2, <4>4, FiniteBlocks, FS_EmptySet
      <4>6. CountFits(x)'
        <5>1. startCalls'[x] = startCalls[x] /\ ppc'[x] = ppc[x] /\ state' = state
          BY <3>1
        <5>2. Cardinality(Asking(x)') = Cardinality(Asking(x)) + 1
          BY <3>12, <3>14
        <5>3. CountFits(x)
          BY <1>0
        <5>. QED
          BY <1>n, <4>4, <5>1, <5>2, <5>3 DEF CountFits
      <4>. QED
        BY <4>5, <4>6
    <3>15. CASE x # h
      <4>1. Remaining(x)' = Remaining(x)
        BY <3>1, <3>5, <3>9, <3>10, <3>15 DEF Remaining, Predecessors
      <4>2. Expected(x)' = Expected(x)
        BY <3>13, <4>1 DEF Expected
      <4>. QED
        BY <1>0, <1>n, <3>1, <3>12, <3>15, <4>2 DEF CountFits
    <3>. QED
      BY <3>14, <3>15
  <2>. QED
    BY <1>7, <2>1, <2>2, <2>3, <2>4, <2>5, <2>6, <2>7 DEF CallStep
<1>. QED
  BY <1>1, <1>2, <1>3, <1>4, <1>5, <1>6, <1>7 DEF Next

LEMMA OrderSoundStep ==
  ASSUME FlowInv, Next
  PROVE  OrderSound'
<1>0. /\ TypeOK /\ StartSound /\ TaskSound /\ StackSound /\ CountSound /\ OrderSound
      /\ First \in Blocks
  BY FlowAssumption DEF FlowInv, TaskInv
<1>t. /\ state \in [Blocks -> {"Created", "Started", "Stopping", "Stopped"}]
      /\ completion \in [Blocks -> {"none", "result", "error"}]
      /\ ppc \in [Blocks -> {"await", "loop", "take", "waiting", "granted",
                             "transform", "offer", "add", "ended", "failed"}]
      /\ startCalls \in [Blocks -> Int]
  BY <1>0 DEF TypeOK
<1>. SUFFICES ASSUME ~Failed', NEW x \in Blocks
              PROVE  /\ state'[x] \in {"Stopping", "Stopped"} => Expected(x)' = 0
                     /\ state'[x] = "Stopped" => completion'[x] = "result"
  BY DEF OrderSound
<1>f. ~Failed
  BY FailedStays DEF FlowInv
<1>o. /\ state[x] \in {"Stopping", "Stopped"} => Expected(x) = 0
      /\ state[x] = "Stopped" => completion[x] = "result"
  BY <1>0, <1>f DEF OrderSound
<1>e. Expected(x) = 0 => Expected(x)' = 0
  BY CountStep
<1>. DEFINE Goal == /\ state'[x] \in {"Stopping", "Stopped"} => Expected(x)' = 0
                    /\ state'[x] = "Stopped" => completion'[x] = "result"
<1>k. ASSUME UNCHANGED <<state, completion>> PROVE Goal
  BY <1>o, <1>e, <1>k
<1>1. CASE Start
  BY <1>1 DEF Start
<1>2. ASSUME NEW i \in Items, CheckStarted(i) \/ Add(i) PROVE Goal
  BY <1>k, <1>2 DEF CheckStarted, Add
<1>3. CASE UserComplete
  BY <1>k, <1>3 DEF UserComplete
<1>4. ASSUME NEW b \in Blocks, ProcessingStep(b) PROVE Goal
  BY <1>4, <1>k DEF ProcessingStep, TestToken, TakeBegin, TakeEnd, Transform, TransformFails,
                    AskSuccessor, OfferCheck, OfferAdd, Passed
<1>5. ASSUME NEW c \in Callers, CallStep(c) PROVE Goal
  <2>1. CASE Enter(c)
    <3>. DEFINE b == Top(c).block
                L == Len(stack[c])
    <3>1. /\ At(c, "lock") /\ b \in Blocks /\ L \in 1..L /\ Top(c) = stack[c][L]
      BY <1>0, <2>1, TopFacts DEF Enter
    <3>2. CASE UNCHANGED state
      BY <1>k, <2>1, <3>2 DEF Enter, EnterWhen
    <3>3. CASE /\ state[b] \notin {"Created", "Stopped"} /\ ~CountsDown(c)
               /\ state' = [state EXCEPT ![b] = "Stopping"] /\ UNCHANGED completion
      <4>1. CASE x # b
        BY <1>t, <1>o, <1>e, <3>1, <3>3, <4>1
      <4>2. CASE x = b
        <5>1. ~Top(c).exceptional
          BY <1>0, <1>f, <3>1 DEF StackSound, CallFits
        <5>2. startCalls[x] <= 1
          BY <1>t, <3>3, <4>2, <5>1 DEF CountsDown
        <5>3. startCalls[x] = Expected(x) + Cardinality(Asking(x))
          <6>1. CountFits(x) /\ ppc[x] # "failed" /\ state[First] # "Created"
            BY <1>0, <1>f, <3>3, <4>2 DEF CountSound, Failed, StartSound
          <6>. QED
            BY <6>1, FiniteBlocks DEF CountFits
        <5>4. Cardinality(Asking(x)) >= 1
          <6>1. c \in Asking(x)
            BY <3>1, <4>2 DEF Asking
          <6>. QED
            BY <6>1, FiniteBlocks, FS_EmptySet
        <5>5. Expected(x) = 0
          BY <5>2, <5>3, <5>4, FiniteBlocks
        <5>6. state'[x] = "Stopping"
          BY <1>t, <3>3, <4>2
        <5>. QED
          BY <1>e, <5>5, <5>6
      <4>. QED
        BY <4>1, <4>2
    <3>. QED
      BY <2>1, <3>2, <3>3 DEF Enter, EnterWhen
  <2>2. CASE WaitProcessing(c)
    <3>. DEFINE b == Top(c).block
                L == Len(stack[c])
    <3>1. /\ At(c, "wait") /\ b \in Blocks /\ L \in 1..L /\ Top(c) = stack[c][L]
          /\ Top(c).phase = "wait" /\ Conclude(c)
      BY <1>0, <2>2, TopFacts DEF WaitProcessing
    <3>2. state[b] = "Stopping" /\ ~Top(c).exceptional
      BY <1>0, <1>f, <3>1 DEF StackSound, CallFits
    <3>3. ppc[b] # "failed" /\ completion[b] = "none"
      BY <1>0, <1>t, <1>f, <3>1, <3>2 DEF Failed, TaskSound, TaskFits
    <3>. HIDE DEF b
    <3>4. /\ state' = [state EXCEPT ![b] = "Stopped"]
          /\ completion' = [completion EXCEPT ![b] = "result"]
      BY <1>t, <3>1, <3>2, <3>3 DEF Conclude, b
    <3>. QED
      BY <1>t, <1>o, <1>e, <3>1, <3>2, <3>4
  <2>3. CASE ~Enter(c) /\ ~WaitProcessing(c)
    BY <1>5, <1>k, <2>3 DEF CallStep, CancelProcessing, WakeProcessing, NotifyNext, Leave, Terminate
  <2>. QED
    BY <2>1, <2>2, <2>3
<1>. QED
  BY <1>1, <1>2, <1>3, <1>4, <1>5 DEF Next

(* As long as no transform throws, whoever passes an item on finds its     *)
(* successors started, and their tasks in the loop.                        *)
LEMMA SuccessorStarted ==
  ASSUME FlowInv, ~Failed, NEW b \in Blocks, NEW s \in ToSet(Successors[b]),
         ppc[b] \in {"transform", "offer", "add"}
  PROVE  /\ s \in Blocks /\ b \in Predecessors(s) /\ s # First
         /\ state[s] = "Started" /\ ~draining[s]
<1>0. /\ TypeOK /\ StartSound /\ TaskSound /\ OrderSound
  BY DEF FlowInv, TaskInv
<1>1. Successors[b] \in Seq(Blocks)
  BY FlowAssumption
<1>2. s \in Blocks
  BY <1>1, SetOf
<1>3. b \in Predecessors(s) /\ s # First
  BY <1>2, FlowAssumption DEF Predecessors
<1>4. state[b] # "Stopped" /\ state[b] # "Created"
  BY <1>0 DEF TaskSound, TaskFits, StartSound
<1>5. b \in Remaining(s)
  BY <1>3, <1>4 DEF Remaining
<1>6. Expected(s) # 0
  <2>1. IsFiniteSet(Remaining(s))
    BY <1>2, FiniteBlocks
  <2>2. Cardinality(Remaining(s)) # 0
    BY <1>5, <2>1, FS_EmptySet
  <2>. QED
    BY <1>3, <2>2 DEF Expected
<1>7. state[s] \notin {"Stopping", "Stopped"} /\ state[s] # "Created"
  BY <1>0, <1>2, <1>4, <1>6 DEF OrderSound, StartSound
<1>8. state[s] = "Started"
  BY <1>0, <1>2, <1>7 DEF TypeOK
<1>. QED
  BY <1>0, <1>2, <1>3, <1>8 DEF TaskSound, TaskFits

-----------------------------------------------------------------------------
(* How often an item comes up.                                             *)
LEMMA CountType ==
  ASSUME NEW S, NEW s \in Seq(S), NEW i
  PROVE  IsFiniteSet(Positions(i, s)) /\ Count(i, s) \in Nat
<1>1. Len(s) \in Nat
  BY LenProperties
<1>2. IsFiniteSet(1..Len(s))
  BY <1>1, FS_Interval
<1>3. IsFiniteSet(Positions(i, s))
  BY <1>2, FS_Subset DEF Positions
<1>. QED
  BY <1>3, FS_CardinalityType DEF Count

LEMMA CountAppend ==
  ASSUME NEW S, NEW s \in Seq(S), NEW e \in S, NEW i
  PROVE  /\ Positions(i, Append(s, e)) =
              Positions(i, s) \cup (IF e = i THEN {Len(s) + 1} ELSE {})
         /\ Count(i, Append(s, e)) = Count(i, s) + IF e = i THEN 1 ELSE 0
<1>. DEFINE t == Append(s, e)
            P == Positions(i, s)
<1>1. /\ Len(s) \in Nat /\ Len(t) = Len(s) + 1 /\ t[Len(s) + 1] = e
      /\ \A n \in 1..Len(s) : t[n] = s[n]
  BY AppendProperties, LenProperties
<1>. HIDE DEF t
<1>2. IsFiniteSet(P) /\ Count(i, s) \in Nat /\ Count(i, s) = Cardinality(P)
  BY CountType DEF Count
<1>3. Len(s) + 1 \notin P
  BY <1>1 DEF Positions
<1>4. CASE e = i
  <2>1. Positions(i, t) = P \cup {Len(s) + 1}
    <3>1. \A n : n \in 1..Len(t) <=> n \in 1..Len(s) \/ n = Len(s) + 1
      BY <1>1
    <3>. QED
      BY <1>1, <1>4, <3>1 DEF Positions
  <2>. HIDE DEF P
  <2>2. Cardinality(P \cup {Len(s) + 1}) = Cardinality(P) + 1
    BY <1>2, <1>3, FS_AddElement
  <2>3. Count(i, t) = Count(i, s) + 1
    BY <1>2, <2>1, <2>2 DEF Count
  <2>. QED
    BY <1>4, <2>1, <2>3 DEF t, P
<1>5. CASE e # i
  <2>1. Positions(i, t) = P
    <3>1. \A n : n \in 1..Len(t) <=> n \in 1..Len(s) \/ n = Len(s) + 1
      BY <1>1
    <3>. QED
      BY <1>1, <1>5, <3>1 DEF Positions
  <2>2. Count(i, t) = Count(i, s)
    BY <1>2, <2>1 DEF Count
  <2>. QED
    BY <1>2, <1>5, <2>1, <2>2 DEF t, P
<1>. QED
  BY <1>4, <1>5

LEMMA PassedOnFinite ==
  ASSUME TypeOK, NEW b \in Blocks, NEW i
  PROVE  IsFiniteSet(PassedOn(b, i)) /\ Cardinality(PassedOn(b, i)) \in Nat
<1>. DEFINE P == Predecessors(b)
            f == [a \in P |-> {a} \X Positions(i, processed[a])]
            T == {f[a] : a \in P}
<1>1. IsFiniteSet(P)
  BY FlowAssumption, FS_Subset DEF Predecessors
<1>2. f \in Surjection(P, T)
  BY DEF Surjection
<1>3. IsFiniteSet(T)
  <2>. HIDE DEF f, T, P
  <2>. QED
    BY <1>1, <1>2, FS_Surjection
<1>4. \A t \in T : IsFiniteSet(t)
  <2>. SUFFICES ASSUME NEW a \in P PROVE IsFiniteSet({a} \X Positions(i, processed[a]))
    OBVIOUS
  <2>1. processed[a] \in Seq(Items)
    BY DEF TypeOK, Predecessors
  <2>2. IsFiniteSet(Positions(i, processed[a])) /\ IsFiniteSet({a})
    BY <2>1, CountType, FS_Singleton
  <2>. QED
    BY <2>2, FS_Product
<1>5. PassedOn(b, i) = UNION T
  BY DEF PassedOn
<1>. HIDE DEF T
<1>6. IsFiniteSet(UNION T)
  BY <1>3, <1>4, FS_UNION
<1>. QED
  BY <1>5, <1>6, FS_CardinalityType

LEMMA AppendToSet ==
  ASSUME NEW S, NEW u \in Seq(S), NEW e \in S
  PROVE  ToSet(Append(u, e)) = ToSet(u) \cup {e}
<1>. DEFINE v == Append(u, e)
<1>1. /\ v \in Seq(S) /\ Len(v) = Len(u) + 1 /\ v[Len(u) + 1] = e
      /\ \A n \in 1..Len(u) : v[n] = u[n]
  BY AppendProperties
<1>. HIDE DEF v
<1>2. ToSet(u) = {u[n] : n \in 1..Len(u)} /\ Len(u) \in Nat
  BY SetOf
<1>3. ToSet(v) = {v[n] : n \in 1..Len(v)}
  BY <1>1, SetOf
<1>4. \A n \in 1..Len(v) : n \in 1..Len(u) \/ n = Len(u) + 1
  BY <1>1, <1>2
<1>5. Len(u) + 1 \in 1..Len(v) /\ \A n \in 1..Len(u) : n \in 1..Len(v)
  BY <1>1, <1>2
<1>. QED
  BY <1>1, <1>2, <1>3, <1>4, <1>5 DEF v

(* Whether block a has item i on offer for block s.                        *)
Offers(a, s, i) ==
  /\ ppc[a] \in {"offer", "add"} /\ Head(inHand[a]) = i
  /\ s \in ToSet(asked[a]) \cup ToSet(targets[a])

LEMMA OfferingCount ==
  ASSUME NEW s \in Blocks, NEW i, NEW b \in Blocks,
         \A a \in Blocks \ {b} : Offers(a, s, i)' <=> Offers(a, s, i)
  PROVE  /\ Cardinality(Offering(s, i)) \in Nat
         /\ b \notin Predecessors(s) \/ (Offers(b, s, i)' <=> Offers(b, s, i))
              => Cardinality(Offering(s, i)') = Cardinality(Offering(s, i))
         /\ b \in Predecessors(s) /\ Offers(b, s, i)' /\ ~Offers(b, s, i)
              => Cardinality(Offering(s, i)') = Cardinality(Offering(s, i)) + 1
         /\ b \in Predecessors(s) /\ ~Offers(b, s, i)' /\ Offers(b, s, i)
              => Cardinality(Offering(s, i)') = Cardinality(Offering(s, i)) - 1
<1>1. Offering(s, i) = {a \in Predecessors(s) : Offers(a, s, i)}
  BY DEF Offering, Offers
<1>2. Offering(s, i)' = {a \in Predecessors(s) : Offers(a, s, i)'}
  BY DEF Offering, Offers, Predecessors
<1>3. Predecessors(s) \subseteq Blocks /\ IsFiniteSet(Blocks)
  BY FlowAssumption DEF Predecessors
<1>4. IsFiniteSet(Offering(s, i))
  BY <1>1, <1>3, FS_Subset
<1>5. Cardinality(Offering(s, i)) \in Nat
  BY <1>4, FS_CardinalityType
<1>6. ASSUME b \notin Predecessors(s) \/ (Offers(b, s, i)' <=> Offers(b, s, i))
      PROVE  Cardinality(Offering(s, i)') = Cardinality(Offering(s, i))
  <2>1. Offering(s, i)' = Offering(s, i)
    BY <1>1, <1>2, <1>3, <1>6
  <2>. QED
    BY <2>1
<1>7. ASSUME b \in Predecessors(s), Offers(b, s, i)', ~Offers(b, s, i)
      PROVE  Cardinality(Offering(s, i)') = Cardinality(Offering(s, i)) + 1
  <2>1. Offering(s, i)' = Offering(s, i) \cup {b} /\ b \notin Offering(s, i)
    BY <1>1, <1>2, <1>3, <1>7
  <2>. QED
    BY <1>4, <2>1, FS_AddElement
<1>8. ASSUME b \in Predecessors(s), ~Offers(b, s, i)', Offers(b, s, i)
      PROVE  Cardinality(Offering(s, i)') = Cardinality(Offering(s, i)) - 1
  <2>1. Offering(s, i)' = Offering(s, i) \ {b} /\ b \in Offering(s, i)
    BY <1>1, <1>2, <1>3, <1>8
  <2>. QED
    BY <1>4, <2>1, FS_RemoveElement
<1>. QED
  BY <1>5, <1>6, <1>7, <1>8

LEMMA ArriveStep ==
  ASSUME FlowInv, Next, ~Failed', NEW s \in Blocks \ {First}, NEW i \in Items
  PROVE  ArriveFits(s, i)'
<1>0. /\ TypeOK /\ StartSound /\ TaskSound /\ OfferSound /\ StackSound
      /\ First \in Blocks
  BY FlowAssumption DEF FlowInv, TaskInv
<1>n. ~Failed
  BY FailedStays DEF FlowInv
<1>a. ArriveFits(s, i)
  BY <1>n DEF FlowInv, TaskInv, ArriveSound
<1>t. /\ ppc \in [Blocks -> {"await", "loop", "take", "waiting", "granted",
                             "transform", "offer", "add", "ended", "failed"}]
      /\ inHand \in [Blocks -> Seq(Items)] /\ queue \in [Blocks -> Seq(Items)]
      /\ accepted \in [Blocks -> Seq(Items)] /\ processed \in [Blocks -> Seq(Items)]
      /\ asked \in [Blocks -> Seq(Blocks)] /\ targets \in [Blocks -> Seq(Blocks)]
  BY <1>0 DEF TypeOK
<1>o. \A b \in Blocks : OfferFits(b) /\ TaskFits(b)
  BY <1>0 DEF OfferSound, TaskSound
<1>c. /\ Count(i, accepted[s]) \in Nat
      /\ Cardinality(Offering(s, i)) \in Nat /\ Cardinality(PassedOn(s, i)) \in Nat
  <2>1. accepted[s] \in Seq(Items)
    BY <1>t
  <2>2. Count(i, accepted[s]) \in Nat
    BY <2>1, CountType
  <2>3. Cardinality(PassedOn(s, i)) \in Nat
    BY <1>0, PassedOnFinite
  <2>4. Offering(s, i) \subseteq Blocks /\ IsFiniteSet(Blocks)
    BY FlowAssumption DEF Offering, Predecessors
  <2>5. Cardinality(Offering(s, i)) \in Nat
    BY <2>4, FS_Subset, FS_CardinalityType
  <2>. QED
    BY <2>2, <2>3, <2>5
(* A step in which what s has on offer, and what came to it, stay.         *)
<1>k. ASSUME UNCHANGED <<accepted, processed>>,
             \A a \in Blocks : Offers(a, s, i)' <=> Offers(a, s, i)
      PROVE  ArriveFits(s, i)'
  <2>1. Offering(s, i)' = Offering(s, i)
    BY <1>k DEF Offering, Offers, Predecessors
  <2>2. PassedOn(s, i)' = PassedOn(s, i)
    BY <1>k DEF PassedOn, Predecessors
  <2>. QED
    BY <1>a, <1>k, <2>1, <2>2 DEF ArriveFits
<1>1. CASE Start
  <2>1. \A a \in Blocks : ppc[a] = "await" /\ ppc'[a] = "loop"
    BY <1>0, <1>1 DEF Start, StartSound
  <2>. QED
    BY <1>k, <1>1, <2>1 DEF Start, Offers
<1>2. ASSUME NEW j \in Items, CheckStarted(j) PROVE ArriveFits(s, i)'
  BY <1>k, <1>2 DEF CheckStarted, Offers
<1>3. ASSUME NEW j \in Items, Add(j) PROVE ArriveFits(s, i)'
  <2>1. /\ accepted'[s] = accepted[s] /\ UNCHANGED <<processed, inHand, asked, targets>>
        /\ \A a \in Blocks : ppc'[a] \in {"offer", "add"} <=> ppc[a] \in {"offer", "add"}
    BY <1>t, <1>0, <1>3 DEF Add, AddTo, Woken
  <2>2. Offering(s, i)' = Offering(s, i)
    BY <2>1 DEF Offering, Predecessors
  <2>3. PassedOn(s, i)' = PassedOn(s, i)
    BY <2>1 DEF PassedOn, Predecessors
  <2>. QED
    BY <1>a, <2>1, <2>2, <2>3 DEF ArriveFits
<1>4. CASE UserComplete
  BY <1>k, <1>4 DEF UserComplete, Offers
<1>5. ASSUME NEW b \in Blocks, ProcessingStep(b) PROVE ArriveFits(s, i)'
  <2>. DEFINE e == Head(inHand[b])
  <2>e. ppc[b] \in {"transform", "offer", "add"} => inHand[b] # <<>> /\ e \in Items
    BY <1>t, <1>o, TailFacts DEF TaskFits
  <2>1. CASE TestToken(b)
    <3>1. /\ ppc[b] = "loop" /\ ppc'[b] \notin {"offer", "add"}
          /\ \A a \in Blocks \ {b} : ppc'[a] = ppc[a] /\ inHand'[a] = inHand[a]
          /\ UNCHANGED <<accepted, processed, asked, targets>>
      BY <1>t, <2>1 DEF TestToken
    <3>. QED
      BY <1>k, <3>1 DEF Offers
  <2>2. CASE TakeBegin(b)
    <3>1. /\ ppc[b] = "take" /\ ppc'[b] \notin {"offer", "add"}
          /\ \A a \in Blocks \ {b} : ppc'[a] = ppc[a]
          /\ UNCHANGED <<accepted, processed, asked, targets, inHand>>
      BY <1>t, <2>2 DEF TakeBegin
    <3>. QED
      BY <1>k, <3>1 DEF Offers
  <2>3. CASE TakeEnd(b)
    <3>1. /\ ppc[b] = "granted" /\ ppc'[b] = "transform"
          /\ \A a \in Blocks \ {b} : ppc'[a] = ppc[a] /\ inHand'[a] = inHand[a]
          /\ UNCHANGED <<accepted, processed, asked, targets>>
      BY <1>t, <2>3 DEF TakeEnd
    <3>. QED
      BY <1>k, <3>1 DEF Offers
  <2>4. CASE Transform(b)
    <3>1. /\ ppc[b] = "transform" /\ ppc'[b] = "offer" /\ asked'[b] = Successors[b]
          /\ \A a \in Blocks \ {b} : /\ ppc'[a] = ppc[a] /\ asked'[a] = asked[a]
                                     /\ processed'[a] = processed[a]
          /\ processed'[b] = Append(processed[b], e)
          /\ UNCHANGED <<accepted, inHand, targets>>
      BY <1>t, <2>4 DEF Transform
    <3>2. targets[b] = <<>> /\ ToSet(<<>>) = {} /\ e \in Items
      BY <1>o, <2>e, <3>1, EmptySeq DEF OfferFits, ToSet
    <3>. HIDE DEF e
    <3>3. \A a \in Blocks \ {b} : Offers(a, s, i)' <=> Offers(a, s, i)
      BY <3>1 DEF Offers
    <3>4. /\ ~Offers(b, s, i)
          /\ Offers(b, s, i)' <=> e = i /\ b \in Predecessors(s)
      BY <3>1, <3>2 DEF Offers, Predecessors, e
    <3>5. CASE b \in Predecessors(s) /\ e = i
      <4>. DEFINE n == Len(processed[b]) + 1
      <4>1. processed[b] \in Seq(Items) /\ Len(processed[b]) \in Nat
        BY <1>t, LenProperties
      <4>2. Positions(i, processed'[b]) = Positions(i, processed[b]) \cup {n}
        BY <3>1, <3>2, <3>5, <4>1, CountAppend
      <4>3. <<b, n>> \notin PassedOn(s, i)
        BY <4>1 DEF PassedOn, Positions
      <4>. HIDE DEF n
      <4>4. PassedOn(s, i)' = PassedOn(s, i) \cup {<<b, n>>}
        <5>1. \A a \in Predecessors(s) \ {b} : processed'[a] = processed[a]
          BY <3>1 DEF Predecessors
        <5>2. \A z : z \in PassedOn(s, i)' <=>
                \E a \in Predecessors(s) : z \in {a} \X Positions(i, processed'[a])
          BY DEF PassedOn, Positions, Predecessors
        <5>3. \A z : z \in PassedOn(s, i) <=>
                \E a \in Predecessors(s) : z \in {a} \X Positions(i, processed[a])
          BY DEF PassedOn
        <5>4. {b} \X Positions(i, processed'[b]) =
                ({b} \X Positions(i, processed[b])) \cup {<<b, n>>}
          BY <4>2
        <5>5. \A z : z \in PassedOn(s, i)' <=> z \in PassedOn(s, i) \/ z = <<b, n>>
          BY <3>5, <5>1, <5>2, <5>3, <5>4
        <5>. QED
          BY <5>5
      <4>5. Cardinality(PassedOn(s, i)') = Cardinality(PassedOn(s, i)) + 1
        BY <1>0, <4>3, <4>4, PassedOnFinite, FS_AddElement
      <4>6. Cardinality(Offering(s, i)') = Cardinality(Offering(s, i)) + 1
        BY <3>3, <3>4, <3>5, OfferingCount
      <4>. QED
        BY <1>a, <1>c, <3>1, <4>5, <4>6 DEF ArriveFits
    <3>6. CASE ~(b \in Predecessors(s) /\ e = i)
      <4>1. \A a \in Predecessors(s) : Positions(i, processed'[a]) = Positions(i, processed[a])
        <5>1. CASE b \in Predecessors(s)
          <6>1. processed[b] \in Seq(Items) /\ e # i
            BY <1>t, <3>6, <5>1
          <6>2. Positions(i, processed'[b]) = Positions(i, processed[b])
            <7>1. Positions(i, Append(processed[b], e)) =
                    Positions(i, processed[b]) \cup (IF e = i THEN {Len(processed[b]) + 1} ELSE {})
              BY <3>2, <6>1, CountAppend
            <7>. QED
              BY <3>1, <6>1, <7>1
          <6>. QED
            BY <3>1, <6>2 DEF Predecessors
        <5>2. CASE b \notin Predecessors(s)
          BY <3>1, <5>2 DEF Predecessors
        <5>. QED
          BY <5>1, <5>2
      <4>2. PassedOn(s, i)' = PassedOn(s, i)
        BY <4>1 DEF PassedOn, Positions, Predecessors
      <4>3. Cardinality(Offering(s, i)') = Cardinality(Offering(s, i))
        BY <3>3, <3>4, <3>6, OfferingCount
      <4>. QED
        BY <1>a, <3>1, <4>2, <4>3 DEF ArriveFits
    <3>. QED
      BY <3>5, <3>6
  <2>5. CASE TransformFails(b)
    <3>1. Failed'
      BY <1>t, <2>5 DEF TransformFails, Failed
    <3>. QED
      BY <3>1
  <2>6. CASE AskSuccessor(b)
    <3>. DEFINE h == Head(asked[b])
    <3>1. /\ ppc[b] = "offer" /\ asked[b] # <<>>
          /\ \A a \in Blocks \ {b} : asked'[a] = asked[a] /\ targets'[a] = targets[a]
          /\ asked'[b] = Tail(asked[b])
          /\ targets'[b] = IF CanAcceptInput(h, e) THEN Append(targets[b], h) ELSE targets[b]
          /\ UNCHANGED <<accepted, processed, ppc, inHand>>
      BY <1>t, <2>6 DEF AskSuccessor
    <3>2. /\ asked[b] \in Seq(Blocks) /\ IsInjective(asked[b]) /\ targets[b] \in Seq(Blocks)
          /\ ToSet(asked[b]) \subseteq ToSet(Successors[b])
          /\ ToSet(asked[b]) \cap ToSet(targets[b]) = {}
      BY <1>t, <1>o DEF OfferFits
    <3>3. /\ h \in Blocks /\ h \in ToSet(asked[b])
          /\ ToSet(asked[b]) = ToSet(Tail(asked[b])) \cup {h} /\ h \notin ToSet(Tail(asked[b]))
      BY <3>1, <3>2, TailSet
    <3>4. CanAcceptInput(h, e) => ToSet(targets'[b]) = ToSet(targets[b]) \cup {h}
      <4>1. ToSet(Append(targets[b], h)) = ToSet(targets[b]) \cup {h}
        BY <3>2, <3>3, AppendToSet
      <4>. QED
        BY <3>1, <4>1
    <3>5. state[h] = "Started"
      BY <1>n, <3>1, <3>2, <3>3, SuccessorStarted
    <3>. HIDE DEF h, e
    <3>6. \A a \in Blocks \ {b} : Offers(a, s, i)' <=> Offers(a, s, i)
      BY <3>1 DEF Offers
    <3>7. CASE CanAcceptInput(h, e)
      <4>1. Offers(b, s, i)' <=> Offers(b, s, i)
        BY <3>1, <3>3, <3>4, <3>7 DEF Offers
      <4>. QED
        BY <1>k, <3>1, <3>6, <4>1
    <3>8. CASE ~CanAcceptInput(h, e) /\ (s # h \/ i # e)
      <4>1. Offers(b, s, i)' <=> Offers(b, s, i)
        BY <3>1, <3>3, <3>8 DEF Offers, e
      <4>. QED
        BY <1>k, <3>1, <3>6, <4>1
    <3>9. CASE ~CanAcceptInput(h, e) /\ s = h /\ i = e
      <4>1. i \notin Accepts[s]
        BY <3>5, <3>9 DEF CanAcceptInput
      <4>. QED
        BY <1>a, <3>1, <4>1 DEF ArriveFits
    <3>. QED
      BY <3>7, <3>8, <3>9
  <2>7. CASE OfferCheck(b)
    <3>1. /\ ppc[b] = "offer" /\ asked[b] = <<>> /\ targets[b] # <<>>
          /\ UNCHANGED <<accepted, processed, asked, inHand>>
          /\ IF state[Head(targets[b])] = "Started"
               THEN ppc' = [ppc EXCEPT ![b] = "add"] /\ UNCHANGED targets
               ELSE targets' = [targets EXCEPT ![b] = <<>>] /\ UNCHANGED ppc
      BY <2>7 DEF OfferCheck
    <3>2. /\ targets[b] \in Seq(Blocks) /\ IsInjective(targets[b])
          /\ ToSet(targets[b]) \subseteq ToSet(Successors[b])
      BY <1>t, <1>o DEF OfferFits
    <3>3. Head(targets[b]) \in ToSet(targets[b])
      BY <3>1, <3>2, TailSet
    <3>4. state[Head(targets[b])] = "Started"
      BY <1>n, <3>1, <3>2, <3>3, SuccessorStarted
    <3>5. ppc' = [ppc EXCEPT ![b] = "add"] /\ UNCHANGED targets
      BY <3>1, <3>4
    <3>. QED
      BY <1>t, <1>k, <3>1, <3>5 DEF Offers
  <2>8. CASE OfferAdd(b)
    <3>. DEFINE h == Head(targets[b])
    <3>1. /\ ppc[b] = "add" /\ targets[b] # <<>> /\ asked[b] = <<>>
          /\ targets[b] \in Seq(Blocks) /\ IsInjective(targets[b]) /\ ToSet(<<>>) = {}
          /\ ToSet(targets[b]) \subseteq ToSet(Successors[b])
          /\ \A y \in ToSet(targets[b]) : e \in Accepts[y]
      <4>1. ppc[b] = "add"
        BY <2>8 DEF OfferAdd
      <4>2. ToSet(<<>>) = {}
        BY EmptySeq DEF ToSet
      <4>. QED
        BY <1>t, <1>o, <4>1, <4>2 DEF OfferFits
    <3>2. /\ h \in Blocks /\ h \in ToSet(targets[b])
          /\ ToSet(targets[b]) = ToSet(Tail(targets[b])) \cup {h}
          /\ h \notin ToSet(Tail(targets[b]))
      BY <3>1, TailSet
    <3>3. b \in Predecessors(h) /\ e \in Items
      BY <1>n, <2>e, <3>1, <3>2, SuccessorStarted
    <3>. HIDE DEF h
    <3>4. /\ AddTo(h, e) /\ ppc' = [ppc EXCEPT ![b] = "offer", ![h] = Woken(@)]
          /\ targets' = [targets EXCEPT ![b] = Tail(@)]
          /\ UNCHANGED <<processed, inHand, asked>>
      BY <2>8 DEF OfferAdd, h
    <3>5. /\ \A a \in Blocks : ppc'[a] \in {"offer", "add"} <=> ppc[a] \in {"offer", "add"}
          /\ targets'[b] = Tail(targets[b])
          /\ \A a \in Blocks \ {b} : targets'[a] = targets[a]
      BY <1>t, <3>1, <3>2, <3>4 DEF Woken
    <3>. HIDE DEF e
    <3>6. /\ accepted'[h] = Append(accepted[h], e)
          /\ \A x \in Blocks : x # h => accepted'[x] = accepted[x]
      BY <1>0, <3>2, <3>3, <3>4, AddToFacts
    <3>7. \A a \in Blocks \ {b} : Offers(a, s, i)' <=> Offers(a, s, i)
      BY <3>4, <3>5 DEF Offers
    <3>8. PassedOn(s, i)' = PassedOn(s, i)
      BY <3>4 DEF PassedOn, Predecessors
    <3>9. CASE s = h /\ i = e
      <4>1. Offers(b, s, i) /\ ~Offers(b, s, i)'
        BY <3>1, <3>2, <3>4, <3>5, <3>9 DEF Offers, e
      <4>2. Cardinality(Offering(s, i)') = Cardinality(Offering(s, i)) - 1
        BY <3>3, <3>7, <3>9, <4>1, OfferingCount
      <4>3. accepted[s] \in Seq(Items)
        BY <1>t
      <4>4. Count(i, accepted'[s]) = Count(i, accepted[s]) + 1
        <5>1. Count(i, Append(accepted[s], e)) =
                Count(i, accepted[s]) + IF e = i THEN 1 ELSE 0
          BY <3>3, <4>3, CountAppend
        <5>. QED
          BY <3>6, <3>9, <5>1
      <4>5. i \in Accepts[s]
        BY <3>1, <3>2, <3>9 DEF e
      <4>. QED
        BY <1>a, <1>c, <3>8, <4>2, <4>4, <4>5 DEF ArriveFits
    <3>10. CASE s # h \/ i # e
      <4>1. Offers(b, s, i)' <=> Offers(b, s, i)
        BY <3>1, <3>2, <3>4, <3>5, <3>10 DEF Offers, e
      <4>2. Cardinality(Offering(s, i)') = Cardinality(Offering(s, i))
        BY <3>7, <4>1, OfferingCount
      <4>3. accepted[s] \in Seq(Items)
        BY <1>t
      <4>4. Count(i, accepted'[s]) = Count(i, accepted[s])
        <5>1. CASE s = h
          <6>1. Count(i, Append(accepted[s], e)) =
                  Count(i, accepted[s]) + IF e = i THEN 1 ELSE 0
            BY <3>3, <4>3, CountAppend
          <6>2. accepted'[s] = Append(accepted[s], e) /\ e # i
            BY <3>6, <3>10, <5>1
          <6>. DEFINE k == Count(i, accepted[s])
          <6>3. k \in Nat
            BY <1>c
          <6>. HIDE DEF k
          <6>4. Count(i, Append(accepted[s], e)) = k
            BY <6>1, <6>2, <6>3 DEF k
          <6>. QED
            BY <6>2, <6>4 DEF k
        <5>2. CASE s # h
          BY <3>6, <5>2
        <5>. QED
          BY <5>1, <5>2
      <4>. QED
        BY <1>a, <3>8, <4>2, <4>4 DEF ArriveFits
    <3>. QED
      BY <3>9, <3>10
  <2>9. CASE Passed(b)
    <3>1. /\ asked[b] = <<>> /\ targets[b] = <<>> /\ ToSet(<<>>) = {}
          /\ \A a \in Blocks \ {b} : ppc'[a] = ppc[a] /\ inHand'[a] = inHand[a]
          /\ UNCHANGED <<accepted, processed, asked, targets>>
      BY <1>t, <2>9, EmptySeq DEF Passed, ToSet
    <3>. QED
      BY <1>k, <3>1 DEF Offers
  <2>. QED
    BY <1>5, <2>1, <2>2, <2>3, <2>4, <2>5, <2>6, <2>7, <2>8, <2>9 DEF ProcessingStep
<1>6. ASSUME NEW c \in Callers, CallStep(c) PROVE ArriveFits(s, i)'
  <2>1. UNCHANGED <<accepted, processed, inHand, asked, targets>>
    BY <1>6 DEF CallStep, Enter, EnterWhen, CancelProcessing, WakeProcessing, WaitProcessing,
                Conclude, NotifyNext, Leave, Terminate
  <2>2. CASE WakeProcessing(c)
    <3>1. \A a \in Blocks : ppc'[a] \in {"offer", "add"} <=> ppc[a] \in {"offer", "add"}
      BY <1>t, <2>2 DEF WakeProcessing
    <3>. QED
      BY <1>k, <2>1, <3>1 DEF Offers
  <2>3. CASE ~WakeProcessing(c)
    <3>1. UNCHANGED ppc
      BY <1>6, <2>3 DEF CallStep, Enter, EnterWhen, CancelProcessing, WaitProcessing,
                        Conclude, NotifyNext, Leave, Terminate
    <3>. QED
      BY <1>k, <2>1, <3>1 DEF Offers
  <2>. QED
    BY <2>2, <2>3
<1>. QED
  BY <1>1, <1>2, <1>3, <1>4, <1>5, <1>6 DEF Next

LEMMA ArriveSoundStep ==
  ASSUME FlowInv, Next
  PROVE  ArriveSound'
<1>0. TypeOK /\ OfferSound /\ TaskSound /\ ArriveSound /\ First \in Blocks
  BY FlowAssumption DEF FlowInv, TaskInv
<1>t. /\ accepted \in [Blocks -> Seq(Items)] /\ inHand \in [Blocks -> Seq(Items)]
      /\ upc \in [Items -> {"idle", "checked", "accepted", "threw"}]
  BY <1>0 DEF TypeOK
<1>s. ~Failed' => \A s \in Blocks \ {First}, i \in Items : ArriveFits(s, i)'
  BY ArriveStep
<1>. SUFFICES ASSUME NEW i \in Items
              PROVE  Count(i, accepted'[First]) = IF upc'[i] = "accepted" THEN 1 ELSE 0
  BY <1>s DEF ArriveSound
<1>f. Count(i, accepted[First]) = IF upc[i] = "accepted" THEN 1 ELSE 0
  BY <1>0 DEF ArriveSound
<1>k. ASSUME accepted'[First] = accepted[First], upc'[i] = "accepted" <=> upc[i] = "accepted"
      PROVE  Count(i, accepted'[First]) = IF upc'[i] = "accepted" THEN 1 ELSE 0
  BY <1>f, <1>k
<1>1. CASE Start
  BY <1>k, <1>1 DEF Start
<1>2. ASSUME NEW j \in Items, CheckStarted(j)
      PROVE  Count(i, accepted'[First]) = IF upc'[i] = "accepted" THEN 1 ELSE 0
  BY <1>t, <1>k, <1>2 DEF CheckStarted
<1>3. ASSUME NEW j \in Items, Add(j)
      PROVE  Count(i, accepted'[First]) = IF upc'[i] = "accepted" THEN 1 ELSE 0
  <2>1. /\ accepted'[First] = Append(accepted[First], j) /\ upc[j] = "checked"
        /\ upc' = [upc EXCEPT ![j] = "accepted"]
    BY <1>0, <1>t, <1>3, AddToFacts DEF Add
  <2>2. accepted[First] \in Seq(Items)
    BY <1>0, <1>t
  <2>3. Count(i, Append(accepted[First], j)) =
          Count(i, accepted[First]) + IF j = i THEN 1 ELSE 0
    BY <2>2, CountAppend
  <2>4. CASE i = j
    BY <1>f, <1>t, <2>1, <2>3, <2>4
  <2>5. CASE i # j
    BY <1>f, <1>t, <2>1, <2>3, <2>5
  <2>. QED
    BY <2>4, <2>5
<1>4. CASE UserComplete
  BY <1>k, <1>4 DEF UserComplete
<1>5. ASSUME NEW b \in Blocks, ProcessingStep(b)
      PROVE  Count(i, accepted'[First]) = IF upc'[i] = "accepted" THEN 1 ELSE 0
  <2>1. CASE OfferAdd(b)
    <3>. DEFINE s == Head(targets[b])
    <3>1. /\ ppc[b] = "add" /\ targets[b] # <<>> /\ targets[b] \in Seq(Blocks)
          /\ IsInjective(targets[b]) /\ ToSet(targets[b]) \subseteq ToSet(Successors[b])
          /\ inHand[b] # <<>>
      BY <1>0, <2>1 DEF OfferSound, TaskSound, TaskFits, OfferFits, OfferAdd, TypeOK
    <3>2. s \in Blocks /\ s \in ToSet(Successors[b])
      BY <3>1, TailSet
    <3>3. s # First
      BY <3>2, FlowAssumption DEF Predecessors
    <3>4. Head(inHand[b]) \in Items
      BY <1>t, <3>1, TailFacts
    <3>5. AddTo(s, Head(inHand[b])) /\ UNCHANGED upc
      BY <2>1 DEF OfferAdd
    <3>. HIDE DEF s
    <3>6. accepted'[First] = accepted[First]
      BY <1>0, <3>2, <3>3, <3>4, <3>5, AddToFacts
    <3>. QED
      BY <1>k, <3>5, <3>6
  <2>2. CASE ~OfferAdd(b)
    BY <1>5, <1>k, <2>2
       DEF ProcessingStep, TestToken, TakeBegin, TakeEnd, Transform, TransformFails,
           AskSuccessor, OfferCheck, Passed
  <2>. QED
    BY <2>1, <2>2
<1>6. ASSUME NEW c \in Callers, CallStep(c)
      PROVE  Count(i, accepted'[First]) = IF upc'[i] = "accepted" THEN 1 ELSE 0
  BY <1>6, <1>k DEF CallStep, Enter, EnterWhen, CancelProcessing, WakeProcessing, WaitProcessing,
                    Conclude, NotifyNext, Leave, Terminate
<1>. QED
  BY <1>1, <1>2, <1>3, <1>4, <1>5, <1>6 DEF Next

-----------------------------------------------------------------------------
(* What comes after TryTakeAll.                                            *)
LEMMA DrainSoundStep ==
  ASSUME FlowInv, Next
  PROVE  DrainSound'
<1>0. /\ TypeOK /\ StartSound /\ OfferSound /\ TaskSound /\ OrderSound /\ DrainSound
      /\ First \in Blocks
  BY FlowAssumption DEF FlowInv, TaskInv
<1>t. /\ ppc \in [Blocks -> {"await", "loop", "take", "waiting", "granted",
                             "transform", "offer", "add", "ended", "failed"}]
      /\ draining \in [Blocks -> BOOLEAN]
      /\ inHand \in [Blocks -> Seq(Items)] /\ queue \in [Blocks -> Seq(Items)]
      /\ upc \in [Items -> {"idle", "checked", "accepted", "threw"}]
      /\ promised \in SUBSET Items
  BY <1>0 DEF TypeOK
<1>o. \A b \in Blocks : OfferFits(b) /\ TaskFits(b)
  BY <1>0 DEF OfferSound, TaskSound
<1>p. \A i \in promised : upc[i] = "accepted"
  BY <1>0 DEF DrainSound
<1>1. \A i \in promised' : upc'[i] = "accepted"
  <2>1. CASE UserComplete
    BY <2>1 DEF UserComplete
  <2>2. ASSUME NEW i \in Items, CheckStarted(i) PROVE \A j \in promised' : upc'[j] = "accepted"
    BY <1>t, <1>p, <2>2 DEF CheckStarted
  <2>3. ASSUME NEW i \in Items, Add(i) PROVE \A j \in promised' : upc'[j] = "accepted"
    BY <1>t, <1>p, <2>3 DEF Add
  <2>4. ASSUME UNCHANGED <<promised, upc>> PROVE \A j \in promised' : upc'[j] = "accepted"
    BY <1>p, <2>4
  <2>5. ASSUME NEW b \in Blocks, ProcessingStep(b) PROVE UNCHANGED <<promised, upc>>
    BY <2>5 DEF ProcessingStep, TestToken, TakeBegin, TakeEnd, Transform, TransformFails,
                AskSuccessor, OfferCheck, OfferAdd, Passed
  <2>6. ASSUME NEW c \in Callers, CallStep(c) PROVE UNCHANGED <<promised, upc>>
    BY <2>6 DEF CallStep, Enter, EnterWhen, CancelProcessing, WakeProcessing, WaitProcessing,
                Conclude, NotifyNext, Leave, Terminate
  <2>7. CASE Start
    BY <1>p, <2>7 DEF Start
  <2>. QED
    BY <2>1, <2>2, <2>3, <2>4, <2>5, <2>6, <2>7 DEF Next
<1>. SUFFICES ASSUME ~Failed', NEW x \in Blocks
              PROVE  DrainFits(x)'
  BY <1>1 DEF DrainSound
<1>n. ~Failed
  BY FailedStays DEF FlowInv
<1>d. DrainFits(x)
  BY <1>0, <1>n DEF DrainSound
<1>k. ASSUME draining'[x] = draining[x], queue'[x] = queue[x], UNCHANGED promised
      PROVE  DrainFits(x)'
  BY <1>d, <1>k DEF DrainFits
<1>2. CASE Start
  BY <1>k, <1>2 DEF Start
<1>3. ASSUME NEW i \in Items, CheckStarted(i) PROVE DrainFits(x)'
  BY <1>k, <1>3 DEF CheckStarted
<1>4. ASSUME NEW i \in Items, Add(i) PROVE DrainFits(x)'
  <2>1. CASE x # First
    BY <1>t, <1>k, <1>4, <2>1 DEF Add, AddTo
  <2>2. CASE x = First
    <3>1. /\ i \notin promised /\ UNCHANGED <<draining, promised>>
          /\ queue'[x] = Append(queue[x], i) /\ queue[x] \in Seq(Items)
      BY <1>t, <1>0, <1>p, <1>4, <2>2, AddToFacts DEF Add
    <3>. DEFINE q == queue[x]  r == queue'[x]
    <3>2. /\ Len(r) = Len(q) + 1 /\ r[Len(q) + 1] = i /\ \A n \in 1..Len(q) : r[n] = q[n]
          /\ Len(q) \in Nat
      BY <3>1, AppendProperties, LenProperties
    <3>3. draining[x] => \A n \in 1..Len(q) : q[n] \notin promised
      BY <1>d DEF DrainFits
    <3>. HIDE DEF q, r
    <3>4. draining[x] => \A n \in 1..Len(r) : r[n] \notin promised
      <4>1. \A n \in 1..Len(r) : n \in 1..Len(q) \/ n = Len(q) + 1
        BY <3>2
      <4>. QED
        BY <3>1, <3>2, <3>3, <4>1
    <3>. QED
      BY <2>2, <3>1, <3>4 DEF DrainFits, r
  <2>. QED
    BY <2>1, <2>2
<1>5. CASE UserComplete
  <2>1. UNCHANGED <<queue, draining>>
    BY <1>5 DEF UserComplete
  <2>2. CASE x # First \/ ~draining[x]
    BY <1>d, <2>1, <2>2 DEF DrainFits
  <2>3. CASE x = First /\ draining[x]
    <3>1. state[First] \in {"Stopping", "Stopped"}
      BY <1>o, <2>3 DEF TaskFits
    <3>2. Expected(First) = 0
      BY <1>0, <1>n, <3>1 DEF OrderSound
    <3>3. ~UserCalled
      BY <1>5 DEF UserComplete, UserCalled
    <3>. QED
      BY <3>2, <3>3 DEF Expected
  <2>. QED
    BY <2>2, <2>3
<1>6. ASSUME NEW b \in Blocks, ProcessingStep(b) PROVE DrainFits(x)'
  <2>1. CASE TestToken(b)
    <3>1. CASE x # b
      BY <1>t, <1>k, <2>1, <3>1 DEF TestToken
    <3>2. CASE x = b /\ canceled[b]
      <4>1. queue'[x] = <<>>
        BY <1>t, <2>1, <3>2 DEF TestToken
      <4>2. Len(<<>>) = 0
        BY EmptySeq
      <4>. QED
        BY <4>1, <4>2 DEF DrainFits
    <3>3. CASE x = b /\ ~canceled[b]
      BY <1>k, <2>1, <3>3 DEF TestToken
    <3>. QED
      BY <3>1, <3>2, <3>3
  <2>2. CASE TakeEnd(b)
    <3>1. CASE x # b
      BY <1>t, <1>k, <2>2, <3>1 DEF TakeEnd
    <3>2. CASE x = b
      BY <1>t, <1>o, <2>2, <3>2 DEF TakeEnd, TaskFits, DrainFits
    <3>. QED
      BY <3>1, <3>2
  <2>3. CASE OfferAdd(b)
    <3>. DEFINE s == Head(targets[b])
    <3>1. /\ ppc[b] = "add" /\ targets[b] # <<>> /\ targets[b] \in Seq(Blocks)
          /\ IsInjective(targets[b]) /\ ToSet(targets[b]) \subseteq ToSet(Successors[b])
          /\ inHand[b] # <<>>
      BY <1>0, <1>o, <2>3 DEF TaskFits, OfferFits, OfferAdd, TypeOK
    <3>2. s \in Blocks /\ s \in ToSet(Successors[b])
      BY <3>1, TailSet
    <3>3. ~draining[s]
      BY <1>n, <3>1, <3>2, SuccessorStarted
    <3>4. Head(inHand[b]) \in Items
      BY <1>t, <3>1, TailFacts
    <3>5. AddTo(s, Head(inHand[b])) /\ UNCHANGED <<draining, promised>>
      BY <2>3 DEF OfferAdd
    <3>. HIDE DEF s
    <3>6. \A y \in Blocks : y # s => queue'[y] = queue[y]
      BY <1>0, <3>2, <3>4, <3>5, AddToFacts
    <3>. QED
      BY <1>k, <3>3, <3>5, <3>6 DEF DrainFits
  <2>4. CASE ~TestToken(b) /\ ~TakeEnd(b) /\ ~OfferAdd(b)
    BY <1>6, <1>k, <2>4 DEF ProcessingStep, TakeBegin, Transform, TransformFails,
                            AskSuccessor, OfferCheck, Passed
  <2>. QED
    BY <2>1, <2>2, <2>3, <2>4
<1>7. ASSUME NEW c \in Callers, CallStep(c) PROVE DrainFits(x)'
  BY <1>7, <1>k DEF CallStep, Enter, EnterWhen, CancelProcessing, WakeProcessing, WaitProcessing,
                    Conclude, NotifyNext, Leave, Terminate
<1>. QED
  BY <1>2, <1>3, <1>4, <1>5, <1>6, <1>7 DEF Next

-----------------------------------------------------------------------------
(* The invariant as a whole.                                               *)
LEMMA NoPositions ==
  ASSUME NEW i
  PROVE  Positions(i, <<>>) = {} /\ Count(i, <<>>) = 0
<1>1. Positions(i, <<>>) = {}
  BY EmptySeq DEF Positions
<1>. QED
  BY <1>1, FS_EmptySet DEF Count

LEMMA CountSoundStep ==
  ASSUME FlowInv, Next
  PROVE  CountSound'
<1>1. ASSUME NEW x \in Blocks PROVE CountFits(x)'
  BY CountStep
<1>. QED
  BY <1>1 DEF CountSound

LEMMA InitFlow == Init => FlowInv
<1>. SUFFICES ASSUME Init PROVE FlowInv
  OBVIOUS
<1>0. First \in Blocks /\ User \notin Blocks /\ User \in Callers /\ Blocks \subseteq Callers
  BY FlowAssumption DEF Callers
<1>e. /\ \A S : <<>> \in Seq(S)
      /\ ToSet(<<>>) = {} /\ IsInjective(<<>>) /\ Len(<<>>) = 0 /\ <<>> \o <<>> = <<>>
  BY EmptySeq DEF ToSet, IsInjective
<1>1. TypeOK
  <2>1. /\ state \in [Blocks -> {"Created", "Started", "Stopping", "Stopped"}]
        /\ ppc \in [Blocks -> {"await", "loop", "take", "waiting", "granted",
                              "transform", "offer", "add", "ended", "failed"}]
        /\ completion \in [Blocks -> {"none", "result", "error"}]
        /\ upc \in [Items -> {"idle", "checked", "accepted", "threw"}]
    BY DEF Init
  <2>3. /\ canceled \in [Blocks -> BOOLEAN] /\ draining \in [Blocks -> BOOLEAN]
        /\ startCalls \in [Blocks -> Int]
    BY DEF Init
  <2>4. /\ answer \in {"none", "returned", "threw"}
        /\ promised \in SUBSET Items /\ terminated \in BOOLEAN
    BY DEF Init
  <2>2. /\ queue \in [Blocks -> Seq(Items)] /\ inHand \in [Blocks -> Seq(Items)]
        /\ accepted \in [Blocks -> Seq(Items)] /\ processed \in [Blocks -> Seq(Items)]
        /\ asked \in [Blocks -> Seq(Blocks)] /\ targets \in [Blocks -> Seq(Blocks)]
        /\ stack \in [Callers -> Seq(Frame)]
    BY <1>e DEF Init
  <2>. QED
    BY <2>1, <2>2, <2>3, <2>4 DEF TypeOK
<1>2. InOrder /\ StartSound
  BY <1>0, <1>e DEF Init, InOrder, Pending, StartSound
<1>3. TaskSound
  BY <1>e DEF Init, TaskSound, TaskFits
<1>4. OfferSound
  BY <1>e DEF Init, OfferSound, OfferFits
<1>5. StackSound /\ LockSound
  BY <1>e DEF Init, StackSound, LockSound
<1>6. CountSound
  <2>. SUFFICES ASSUME NEW b \in Blocks PROVE CountFits(b)
    BY DEF CountSound
  <2>1. Asking(b) = {} /\ Cardinality(Asking(b)) = 0
    BY FS_EmptySet DEF Init, Asking, At
  <2>2. Expected(b) = Starts(b)
    <3>1. CASE b = First
      BY <1>0, <3>1 DEF Init, Expected, UserCalled, Starts
    <3>2. CASE b # First
      <4>1. Remaining(b) = Predecessors(b)
        BY DEF Init, Remaining, Predecessors
      <4>. QED
        BY <3>2, <4>1 DEF Expected, Starts
    <3>. QED
      BY <3>1, <3>2
  <2>3. Starts(b) \in Nat
    BY FiniteBlocks
  <2>. QED
    BY <1>0, <2>1, <2>2, <2>3 DEF Init, CountFits
<1>7. OrderSound
  BY DEF Init, OrderSound
<1>8. ArriveSound
  <2>1. ASSUME NEW i \in Items
        PROVE  Count(i, accepted[First]) = IF upc[i] = "accepted" THEN 1 ELSE 0
    BY <1>0, NoPositions DEF Init
  <2>2. ASSUME NEW b \in Blocks, NEW i \in Items PROVE ArriveFits(b, i)
    <3>1. Offering(b, i) = {} /\ Cardinality(Offering(b, i)) = 0
      BY FS_EmptySet DEF Init, Offering, Predecessors
    <3>2. \A a \in Predecessors(b) : {a} \X Positions(i, processed[a]) = {}
      BY NoPositions DEF Init, Predecessors
    <3>3. PassedOn(b, i) = {}
      BY <3>2 DEF PassedOn
    <3>4. Cardinality(PassedOn(b, i)) = 0
      BY <3>3, FS_EmptySet
    <3>5. Count(i, accepted[b]) = 0
      BY NoPositions DEF Init
    <3>. QED
      BY <3>1, <3>4, <3>5 DEF ArriveFits
  <2>. QED
    BY <2>1, <2>2 DEF ArriveSound
<1>9. DrainSound
  BY DEF Init, DrainSound, DrainFits
<1>. QED
  BY <1>1, <1>2, <1>3, <1>4, <1>5, <1>6, <1>7, <1>8, <1>9 DEF FlowInv, TaskInv

LEMMA TaskStutters ==
  ASSUME TaskInv, UNCHANGED vars
  PROVE  TaskInv'
<1>1. TypeOK' /\ InOrder' /\ StartSound'
  BY DEF vars, TaskInv, TypeOK, InOrder, Pending, StartSound
<1>2. TaskSound'
  BY DEF vars, TaskInv, TaskSound, TaskFits
<1>3. OfferSound'
  BY DEF vars, TaskInv, OfferSound, OfferFits
<1>4. stack' = stack /\ state' = state /\ ppc' = ppc
  BY DEF vars
<1>5. StackSound'
  BY <1>4 DEF TaskInv, StackSound, CallFits, Failed
<1>6. LockSound'
  BY <1>4 DEF TaskInv, LockSound
<1>. QED
  BY <1>1, <1>2, <1>3, <1>5, <1>6 DEF TaskInv

LEMMA FlowStutters ==
  ASSUME FlowInv, UNCHANGED vars
  PROVE  FlowInv'
<1>1. TaskInv'
  BY TaskStutters DEF FlowInv
<1>2. \A b \in Blocks : Expected(b)' = Expected(b) /\ Asking(b)' = Asking(b)
  BY DEF vars, Expected, UserCalled, Remaining, ToNotify, Asking, At, Top
<1>3. CountSound' /\ OrderSound'
  BY <1>2 DEF vars, FlowInv, CountSound, CountFits, OrderSound, Failed
<1>4. \A b \in Blocks, i \in Items :
        Offering(b, i)' = Offering(b, i) /\ PassedOn(b, i)' = PassedOn(b, i)
  BY DEF vars, Offering, PassedOn
<1>5. ArriveSound'
  BY <1>4 DEF vars, FlowInv, ArriveSound, ArriveFits, Failed
<1>6. DrainSound'
  BY DEF vars, FlowInv, DrainSound, DrainFits, Failed
<1>. QED
  BY <1>1, <1>3, <1>5, <1>6 DEF FlowInv

(* The invariant of the flow, with all it rests on.                        *)
THEOREM FlowInvariant == SafeSpec => []FlowInv
<1>1. ASSUME FlowInv, Next PROVE FlowInv'
  BY <1>1, TypeOKStep, InOrderStep, StartSoundStep, TaskSoundStep, OfferSoundStep,
     StackSoundStep, LockSoundStep, CountSoundStep, OrderSoundStep, ArriveSoundStep,
     DrainSoundStep DEF FlowInv, TaskInv
<1>2. FlowInv /\ [Next]_vars => FlowInv'
  BY <1>1, FlowStutters
<1>. QED
  BY InitFlow, <1>2, PTL DEF SafeSpec

(* A block that has stopped, or whose completion is set, transforms        *)
(* nothing more: whoever set it had waited for the processing task.        *)
THEOREM BlocksSettle == SafeSpec => SettledIsFinal
<1>1. ASSUME FlowInv, Next, NEW b \in Blocks, state[b] = "Stopped" \/ completion[b] # "none"
      PROVE  processed'[b] = processed[b]
  <2>1. ppc[b] \in {"ended", "failed"}
    BY <1>1 DEF FlowInv, TaskInv, TaskSound, TaskFits
  <2>. QED
    BY <1>1, <2>1, EndIsFinal DEF FlowInv
<1>2. FlowInv /\ [Next]_vars
        => [\A b \in Blocks : state[b] = "Stopped" \/ completion[b] # "none"
                                => processed'[b] = processed[b]]_vars
  BY <1>1 DEF vars
<1>. QED
  BY FlowInvariant, <1>2, PTL DEF SafeSpec, SettledIsFinal

LEMMA CountConcat ==
  ASSUME NEW S, NEW p \in Seq(S), NEW q \in Seq(S), NEW i,
         \A n \in 1..Len(q) : q[n] # i
  PROVE  Count(i, p \o q) = Count(i, p)
<1>1. /\ Len(p) \in Nat /\ Len(q) \in Nat /\ Len(p \o q) = Len(p) + Len(q)
      /\ \A n \in 1..Len(p) : (p \o q)[n] = p[n]
      /\ \A n \in Len(p)+1..Len(p) + Len(q) : (p \o q)[n] = q[n - Len(p)]
  BY ConcatProperties, LenProperties
<1>2. Positions(i, p \o q) = Positions(i, p)
  <2>1. ASSUME NEW n \in 1..Len(p \o q), (p \o q)[n] = i PROVE n \in 1..Len(p) /\ p[n] = i
    <3>1. CASE n \in 1..Len(p)
      BY <1>1, <2>1, <3>1
    <3>2. CASE n \notin 1..Len(p)
      <4>1. n - Len(p) \in 1..Len(q) /\ (p \o q)[n] = q[n - Len(p)]
        BY <1>1, <3>2
      <4>. QED
        BY <2>1, <4>1
    <3>. QED
      BY <3>1, <3>2
  <2>2. ASSUME NEW n \in 1..Len(p), p[n] = i PROVE n \in 1..Len(p \o q) /\ (p \o q)[n] = i
    BY <1>1, <2>2
  <2>. QED
    BY <2>1, <2>2 DEF Positions
<1>. QED
  BY <1>2 DEF Count

(* As long as no transform throws, a block that completes with success has *)
(* processed all it was to process, and its predecessors have completed.   *)
THEOREM FlowArrives == SafeSpec => []ArrivesUnlessFailed
<1>1. ASSUME FlowInv, ~Failed, NEW b \in Blocks, completion[b] = "result"
      PROVE  /\ b = First => \A i \in promised : Count(i, processed[b]) = 1
             /\ b # First => \A i \in Items :
                  Count(i, processed[b]) =
                    IF i \in Accepts[b] THEN Cardinality(PassedOn(b, i)) ELSE 0
             /\ \A a \in Predecessors(b) : completion[a] = "result"
  <2>0. /\ TypeOK /\ InOrder /\ TaskSound /\ OfferSound /\ OrderSound /\ ArriveSound
        /\ DrainSound /\ First \in Blocks
    BY <1>1, FlowAssumption DEF FlowInv, TaskInv
  <2>t. /\ ppc \in [Blocks -> {"await", "loop", "take", "waiting", "granted",
                               "transform", "offer", "add", "ended", "failed"}]
        /\ processed[b] \in Seq(Items) /\ queue[b] \in Seq(Items)
        /\ promised \subseteq Items
    BY <2>0 DEF TypeOK
  <2>1. \A a \in Blocks : state[a] = "Stopped" => ppc[a] = "ended"
    BY <1>1, <2>0 DEF TaskSound, TaskFits, Failed
  <2>2. state[b] = "Stopped" /\ ppc[b] = "ended" /\ draining[b] /\ inHand[b] = <<>>
    BY <1>1, <2>0, <2>1 DEF TaskSound, TaskFits
  <2>3. accepted[b] = processed[b] \o queue[b]
    <3>1. accepted[b] = processed[b] \o <<>> \o queue[b]
      BY <2>0, <2>2 DEF InOrder, Pending
    <3>. QED
      BY <2>t, <3>1, ConcatEmptySeq
  <2>4. DrainFits(b)
    BY <1>1, <2>0 DEF DrainSound
  <2>5. ASSUME b = First, NEW i \in promised PROVE Count(i, processed[b]) = 1
    <3>1. upc[i] = "accepted" /\ Count(i, accepted[b]) = 1
      BY <2>0, <2>t, <2>5 DEF DrainSound, ArriveSound
    <3>2. \A n \in 1..Len(queue[b]) : queue[b][n] # i
      BY <2>2, <2>4, <2>5 DEF DrainFits
    <3>3. Count(i, processed[b] \o queue[b]) = Count(i, processed[b])
      BY <2>t, <3>2, CountConcat
    <3>. QED
      BY <2>3, <3>1, <3>3
  <2>6. ASSUME b # First
        PROVE  \A a \in Predecessors(b) : state[a] = "Stopped"
    <3>1. Expected(b) = 0
      BY <1>1, <2>0, <2>2 DEF OrderSound
    <3>2. Cardinality(Remaining(b)) = 0 /\ IsFiniteSet(Remaining(b))
      BY <2>6, <3>1, FiniteBlocks DEF Expected
    <3>3. Remaining(b) = {}
      BY <3>2, FS_EmptySet
    <3>. QED
      BY <3>3 DEF Remaining
  <2>7. ASSUME NEW a \in Predecessors(b) PROVE completion[a] = "result"
    <3>1. b # First /\ a \in Blocks
      BY <2>7, FlowAssumption DEF Predecessors
    <3>. QED
      BY <1>1, <2>0, <2>6, <2>7, <3>1 DEF OrderSound
  <2>8. ASSUME b # First, NEW i \in Items
        PROVE  Count(i, processed[b]) =
                 IF i \in Accepts[b] THEN Cardinality(PassedOn(b, i)) ELSE 0
    <3>1. Count(i, accepted[b]) = Count(i, processed[b])
      <4>1. \A n \in 1..Len(queue[b]) : queue[b][n] # i
        BY <2>2, <2>4, <2>8 DEF DrainFits
      <4>2. Count(i, processed[b] \o queue[b]) = Count(i, processed[b])
        BY <2>t, <4>1, CountConcat
      <4>. QED
        BY <2>3, <4>2
    <3>2. Offering(b, i) = {}
      BY <2>1, <2>6, <2>8 DEF Offering, Predecessors
    <3>3. Cardinality(Offering(b, i)) = 0 /\ Count(i, accepted[b]) \in Nat
          /\ Cardinality(PassedOn(b, i)) \in Nat
      BY <2>0, <3>2, FS_EmptySet, CountType, PassedOnFinite DEF TypeOK
    <3>4. ArriveFits(b, i)
      BY <1>1, <2>0, <2>8 DEF ArriveSound
    <3>. QED
      BY <3>1, <3>3, <3>4 DEF ArriveFits
  <2>. QED
    BY <2>5, <2>7, <2>8
<1>2. FlowInv => ArrivesUnlessFailed
  BY <1>1 DEF ArrivesUnlessFailed, EverythingArrives
<1>. QED
  BY FlowInvariant, <1>2, PTL
=============================================================================
