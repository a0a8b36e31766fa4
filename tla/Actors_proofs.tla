--------------------------- MODULE Actors_proofs ---------------------------
(***************************************************************************)
(* Proofs about the actors, alone and in the sample's pipeline.            *)
(*                                                                         *)
(* The pipeline, for any number of threads, lines and lines in a batch:    *)
(* MapReduceInv, which is inductive, and from it that the dictionary the   *)
(* writer is sent counts every line once, and that an actor is destroyed   *)
(* when it has nothing left to do.  What a mailbox holds is tied to where  *)
(* the stage before it stands, and the counter of the reducer to the       *)
(* mappers that have not told it.                                          *)
(*                                                                         *)
(* An actor alone, for any messages, handlers and interleaving: ActorInv,  *)
(* and that the answers follow the order of the messages.  What an actor   *)
(* does to its queue are steps of a flow of one block, but for the second  *)
(* Complete, which is that of the destructor: the part of the flow's       *)
(* invariant that does not count the calls of Complete holds, and with it  *)
(* the order; the answers are given in that order.                         *)
(***************************************************************************)
EXTENDS MapReduce, Actor, DataFlowBlock_proofs

-----------------------------------------------------------------------------
(* The actors and the threads are all different.                           *)
LEMMA ActorFacts ==
  /\ Parser \in Pipeline /\ Reducer \in Pipeline /\ Writer \in Pipeline
  /\ Mappers \subseteq Pipeline
  /\ Parser \notin Mappers /\ Reducer \notin Mappers /\ Writer \notin Mappers
  /\ Parser # Reducer /\ Parser # Writer /\ Reducer # Writer
  /\ \A a \in Pipeline : a \in Mappers \/ a = Parser \/ a = Reducer \/ a = Writer
<1>1. \A n : Mapper(n)[1] = "mapper"
  BY DEF Mapper
<1>2. Parser[1] = "parser" /\ Reducer[1] = "reducer" /\ Writer[1] = "writer"
  BY DEF Parser, Reducer, Writer
<1>3. \A m \in Mappers : m[1] = "mapper"
  BY <1>1 DEF Mappers
<1>. QED
  BY <1>2, <1>3 DEF Pipeline

LEMMA ThreadFacts ==
  /\ Main \in Threads
  /\ \A a \in Pipeline : Handler(a) \in Threads /\ Completed(a) \in Threads
  /\ \A t \in Threads : t = Main \/ \E a \in Pipeline : t = Handler(a) \/ t = Completed(a)
  /\ \A a, b : /\ Main # Handler(a) /\ Main # Completed(a) /\ Handler(a) # Completed(b)
               /\ Handler(a) = Handler(b) => a = b
               /\ Completed(a) = Completed(b) => a = b
<1>1. Len(Main) = 1 /\ \A a : Len(Handler(a)) = 2 /\ Len(Completed(a)) = 2
  BY DEF Main, Handler, Completed
<1>2. \A a : /\ Handler(a)[1] = a /\ Handler(a)[2] = "handler"
             /\ Completed(a)[1] = a /\ Completed(a)[2] = "completed"
  BY DEF Handler, Completed
<1>3. \A t \in Threads : t = Main \/ \E a \in Pipeline : t = Handler(a) \/ t = Completed(a)
  BY DEF Threads
<1>4. /\ Main \in Threads
      /\ \A a \in Pipeline : Handler(a) \in Threads /\ Completed(a) \in Threads
  BY DEF Threads
<1>5. \A a, b : /\ Main # Handler(a) /\ Main # Completed(a) /\ Handler(a) # Completed(b)
                /\ Handler(a) = Handler(b) => a = b
                /\ Completed(a) = Completed(b) => a = b
  <2>. TAKE a, b
  <2>1. Main # Handler(a) /\ Main # Completed(a)
    BY <1>1
  <2>2. Handler(a) # Completed(b)
    BY <1>2
  <2>3. Handler(a) = Handler(b) => a = b
    BY <1>2
  <2>4. Completed(a) = Completed(b) => a = b
    BY <1>2
  <2>. QED
    BY <2>1, <2>2, <2>3, <2>4
<1>. QED
  BY <1>3, <1>4, <1>5

-----------------------------------------------------------------------------
(* Batches, and who gets them.                                             *)
LEMMA DivisionFacts ==
  ASSUME NEW n \in Nat, NEW d \in Nat \ {0}
  PROVE  /\ n \div d \in Nat /\ n % d \in 0..d-1
         /\ (n \div d) * d <= n /\ n < (n \div d) * d + d
OBVIOUS

LEMMA TimesMonotonic ==
  ASSUME NEW a \in Nat, NEW b \in Nat, NEW d \in Nat \ {0}, a < b
  PROVE  a * d + d <= b * d
OBVIOUS

LEMMA BatchFacts ==
  ASSUME NEW l \in 1..Lines
  PROVE  /\ BatchOf(l) \in Nat \ {0}
         /\ Goes(l) <=> l <= FullBatches * BatchSize
<1>. DEFINE q == (l - 1) \div BatchSize
            f == Lines \div BatchSize
<1>1. l - 1 \in Nat /\ BatchSize \in Nat \ {0} /\ Lines \in Nat
  BY MapReduceAssumption
<1>2. q \in Nat /\ q * BatchSize <= l - 1 /\ l - 1 < q * BatchSize + BatchSize
  BY <1>1, DivisionFacts
<1>3. f \in Nat
  BY <1>1, DivisionFacts
<1>. HIDE DEF q, f
<1>4. q < f => q * BatchSize + BatchSize <= f * BatchSize
  BY <1>1, <1>2, <1>3, TimesMonotonic
<1>5. f < q => f * BatchSize + BatchSize <= q * BatchSize
  BY <1>1, <1>2, <1>3, TimesMonotonic
<1>. DEFINE x == q * BatchSize
            y == f * BatchSize
<1>6. x \in Nat /\ y \in Nat
  BY <1>1, <1>2, <1>3
<1>7. /\ x <= l - 1 /\ l - 1 < x + BatchSize /\ (f = q => x = y)
      /\ (q < f => x + BatchSize <= y) /\ (f < q => y + BatchSize <= x)
  BY <1>2, <1>4, <1>5
<1>. HIDE DEF x, y
<1>8. q + 1 <= f <=> l <= y
  BY <1>1, <1>2, <1>3, <1>6, <1>7
<1>. QED
  BY <1>2, <1>8 DEF q, f, y, BatchOf, Goes, FullBatches

LEMMA FullBatchesFacts == FullBatches \in Nat
BY MapReduceAssumption, DivisionFacts DEF FullBatches

LEMMA MapperOfFacts ==
  ASSUME NEW k \in Nat \ {0}
  PROVE  MapperOf(k) \in Mappers
<1>1. k - 1 \in Nat /\ HardwareThreads \in Nat \ {0}
  BY MapReduceAssumption
<1>2. (k - 1) % HardwareThreads \in 0..HardwareThreads - 1
  BY <1>1, DivisionFacts
<1>. DEFINE r == (k - 1) % HardwareThreads
<1>. HIDE DEF r
<1>3. r + 1 \in 1..HardwareThreads
  BY <1>1, <1>2 DEF r
<1>. QED
  BY <1>3 DEF MapperOf, Mappers, r

LEMMA MappersFinite ==
  /\ IsFiniteSet(Mappers) /\ Mappers # {} /\ Cardinality(Mappers) = HardwareThreads
<1>. DEFINE S == 1..HardwareThreads
            f == [n \in S |-> Mapper(n)]
<1>1. HardwareThreads \in Nat \ {0}
  BY MapReduceAssumption
<1>2. IsFiniteSet(S) /\ Cardinality(S) = HardwareThreads
  BY <1>1, FS_Interval
<1>3. f \in Bijection(S, Mappers)
  <2>1. \A m, n : Mapper(m) = Mapper(n) => m = n
    <3>1. \A n : Mapper(n)[2] = n
      BY DEF Mapper
    <3>. QED
      BY <3>1
  <2>2. f \in [S -> Mappers] /\ \A m \in Mappers : \E n \in S : f[n] = m
    BY DEF Mappers
  <2>3. \A m, n \in S : f[m] = f[n] => m = n
    BY <2>1
  <2>. HIDE DEF S, f
  <2>. QED
    BY <2>2, <2>3 DEF Bijection, Injection, Surjection, IsInjective
<1>4. IsFiniteSet(Mappers) /\ Cardinality(Mappers) = HardwareThreads
  <2>. HIDE DEF S, f
  <2>. QED
    BY <1>2, <1>3, FS_Bijection DEF ExistsBijection
<1>5. Mapper(1) \in Mappers
  BY <1>1 DEF Mappers
<1>. QED
  BY <1>4, <1>5

-----------------------------------------------------------------------------
(* The calls of Run.                                                       *)
LEMMA NewCallFacts ==
  ASSUME NEW a \in Pipeline
  PROVE  /\ \A c \in Counts : Schedule(a, c) \in CallRecord
         /\ CompleteCall(a) \in CallRecord /\ DestroyCall(a) \in CallRecord
         /\ AwaitFirst(a) \in CallRecord /\ AwaitCompletion(a) \in CallRecord
BY DEF Schedule, CompleteCall, DestroyCall, AwaitFirst, AwaitCompletion, NewCall, CallRecord

LEMMA ConcatFacts ==
  ASSUME NEW S, NEW p \in Seq(S), NEW q \in Seq(S)
  PROVE  /\ p \o q \in Seq(S) /\ Len(p \o q) = Len(p) + Len(q)
         /\ \A n \in 1..Len(p) : (p \o q)[n] = p[n]
         /\ \A n \in 1..Len(q) : (p \o q)[Len(p) + n] = q[n]
<1>1. p \o q \in Seq(S) /\ Len(p \o q) = Len(p) + Len(q)
  BY ConcatProperties
<1>2. \A i \in 1..Len(p) + Len(q) : (p \o q)[i] = IF i <= Len(p) THEN p[i] ELSE q[i - Len(p)]
  BY ConcatProperties
<1>3. Len(p) \in Nat /\ Len(q) \in Nat
  OBVIOUS
<1>. DEFINE s == p \o q
            m == Len(p)
            k == Len(q)
<1>. HIDE DEF s, m, k
<1>4. m \in Nat /\ k \in Nat /\ \A i \in 1..m + k : s[i] = IF i <= m THEN p[i] ELSE q[i - m]
  BY <1>2, <1>3 DEF s, m, k
<1>5. \A n \in 1..m : s[n] = p[n]
  BY <1>4
<1>6. \A n \in 1..k : s[m + n] = q[n]
  <2>. TAKE n \in 1..k
  <2>1. m + n \in 1..m + k /\ ~(m + n <= m) /\ (m + n) - m = n
    BY <1>4
  <2>. QED
    BY <1>4, <2>1
<1>. QED
  BY <1>1, <1>5, <1>6 DEF s, m, k

LEMMA ConcatNothing ==
  ASSUME NEW c
  PROVE  <<c>> \o <<>> = <<c>>
<1>. DEFINE s == <<c>>
<1>1. s \in Seq({c})
  OBVIOUS
<1>. HIDE DEF s
<1>2. s \o <<>> = s
  BY <1>1, ConcatEmptySeq
<1>. QED
  BY <1>2 DEF s

LEMMA DestroyActorsFacts ==
  /\ DestroyActors \in Seq(CallRecord)
  /\ \A n \in 1..Len(DestroyActors) : DestroyActors[n].op = "destroy"
  /\ \A a \in Pipeline : \E n \in 1..Len(DestroyActors) : DestroyActors[n].to = a
<1>. DEFINE first == <<DestroyCall(Parser)>>
            second == [n \in 1..HardwareThreads |-> DestroyCall(Mapper(n))]
            third == <<DestroyCall(Reducer), DestroyCall(Writer)>>
            D == [op : {"destroy"}, to : Pipeline, what : {<<>>}]
<1>0. HardwareThreads \in Nat /\ \A n \in 1..HardwareThreads : Mapper(n) \in Pipeline
  BY MapReduceAssumption, ActorFacts DEF Mappers
<1>1. \A a \in Pipeline : DestroyCall(a) \in D /\ DestroyCall(a).to = a
  BY DEF DestroyCall, NewCall
<1>2. first \in Seq(D) /\ Len(first) = 1 /\ first[1] = DestroyCall(Parser)
  BY <1>1, ActorFacts
<1>3. second \in Seq(D) /\ Len(second) = HardwareThreads
      /\ \A n \in 1..HardwareThreads : second[n] = DestroyCall(Mapper(n))
  BY <1>0, <1>1
<1>4. third \in Seq(D) /\ Len(third) = 2 /\ third[1] = DestroyCall(Reducer) /\ third[2] = DestroyCall(Writer)
  BY <1>1, ActorFacts
<1>5. DestroyActors = first \o second \o third
  BY DEF DestroyActors
<1>. HIDE DEF first, second, third
<1>. DEFINE s == first \o second
<1>. HIDE DEF D
<1>6. /\ first \o second \in Seq(D) /\ Len(first \o second) = 1 + HardwareThreads
      /\ (first \o second)[1] = first[1]
      /\ \A n \in 1..HardwareThreads : (first \o second)[1 + n] = second[n]
  <2>. HIDE DEF s
  <2>1. first \in Seq(D) /\ second \in Seq(D)
    BY <1>2, <1>3
  <2>2. /\ first \o second \in Seq(D) /\ Len(first \o second) = Len(first) + Len(second)
        /\ \A n \in 1..Len(first) : (first \o second)[n] = first[n]
        /\ \A n \in 1..Len(second) : (first \o second)[Len(first) + n] = second[n]
    BY <2>1, ConcatFacts
  <2>. QED
    BY <1>0, <1>2, <1>3, <2>2
<1>7. /\ s \in Seq(D) /\ Len(s) = 1 + HardwareThreads
      /\ s[1] = first[1] /\ \A n \in 1..HardwareThreads : s[1 + n] = second[n]
  BY <1>6
<1>. HIDE DEF s
<1>. DEFINE u == s \o third
<1>8. /\ u \in Seq(D) /\ Len(u) = HardwareThreads + 3
      /\ \A n \in 1..1 + HardwareThreads : u[n] = s[n]
      /\ \A n \in 1..2 : u[1 + HardwareThreads + n] = third[n]
  <2>. HIDE DEF u
  <2>1. s \in Seq(D) /\ third \in Seq(D)
    BY <1>4, <1>7
  <2>2. /\ s \o third \in Seq(D) /\ Len(s \o third) = Len(s) + Len(third)
        /\ \A n \in 1..Len(s) : (s \o third)[n] = s[n]
        /\ \A n \in 1..Len(third) : (s \o third)[Len(s) + n] = third[n]
    BY <2>1, ConcatFacts
  <2>. QED
    BY <1>0, <1>4, <1>7, <2>2 DEF u
<1>12. u = DestroyActors
  BY <1>5 DEF s
<1>. HIDE DEF u
<1>9. \A n \in 1..Len(u) : u[n] \in D
  BY <1>8, ElementOfSeq
<1>10. u \in Seq(CallRecord) /\ \A n \in 1..Len(u) : u[n].op = "destroy"
  <2>1. D \subseteq CallRecord
    BY DEF D, CallRecord
  <2>2. \A n \in 1..Len(u) : u[n] \in CallRecord
    BY <1>9, <2>1
  <2>3. u \in Seq(CallRecord)
    BY <1>8, <2>2, SeqDef, ElementOfSeq
  <2>. QED
    BY <1>9, <2>3 DEF D
<1>11. ASSUME NEW a \in Pipeline PROVE \E n \in 1..Len(u) : u[n].to = a
  <2>1. CASE a = Parser
    <3>1. 1 \in 1..Len(u) /\ u[1] = DestroyCall(Parser)
      BY <1>0, <1>2, <1>7, <1>8
    <3>. QED
      BY <1>1, <2>1, <3>1
  <2>2. CASE a = Reducer
    <3>1. 2 + HardwareThreads \in 1..Len(u) /\ u[2 + HardwareThreads] = DestroyCall(Reducer)
      BY <1>0, <1>4, <1>8
    <3>. QED
      BY <1>1, <2>2, <3>1, ActorFacts
  <2>3. CASE a = Writer
    <3>1. 3 + HardwareThreads \in 1..Len(u) /\ u[3 + HardwareThreads] = DestroyCall(Writer)
      BY <1>0, <1>4, <1>8
    <3>. QED
      BY <1>1, <2>3, <3>1, ActorFacts
  <2>4. CASE a \in Mappers
    <3>1. PICK k \in 1..HardwareThreads : a = Mapper(k)
      BY <2>4 DEF Mappers
    <3>2. 1 + k \in 1..Len(u) /\ u[1 + k] = DestroyCall(Mapper(k))
      BY <1>0, <1>3, <1>7, <1>8
    <3>. QED
      BY <1>0, <1>1, <3>1, <3>2
  <2>. QED
    BY <2>1, <2>2, <2>3, <2>4, ActorFacts
<1>. QED
  BY <1>12, <1>10, <1>11

LEMMA RunFacts ==
  /\ Run \in Seq(CallRecord) /\ Run # <<>> /\ Head(Run) = Schedule(Parser, Book)
  /\ Tail(Run) \in Seq(CallRecord) /\ Tail(Run) # <<>> /\ Head(Tail(Run)) = AwaitFirst(Parser)
  /\ Tail(Tail(Run)) \in Seq(CallRecord) /\ Tail(Tail(Run)) # <<>>
  /\ Head(Tail(Tail(Run))) = CompleteCall(Parser)
  /\ InComplete \in Seq(CallRecord) /\ InComplete # <<>>
  /\ Head(InComplete) = AwaitCompletion(Parser)
  /\ <<AwaitCompletion(Parser)>> \o Tail(Tail(Tail(Run))) = InComplete
  /\ \A n \in 1..Len(InComplete) : InComplete[n].op \in {"awaitCompletion", "destroy"}
  /\ \A s \in BeforeComplete \cup {InComplete} : \A a \in Pipeline :
       \E n \in 1..Len(s) : s[n].to = a
<1>. DEFINE first == <<Schedule(Parser, Book), AwaitFirst(Parser), CompleteCall(Parser),
                      AwaitCompletion(Writer)>>
            second == DestroyActors
            k == Len(second)
<1>1. Book \in Counts
  BY DEF Book, Counts
<1>2. first \in Seq(CallRecord) /\ Len(first) = 4
  BY <1>1, ActorFacts, NewCallFacts
<1>3. second \in Seq(CallRecord) /\ k \in Nat
  BY DestroyActorsFacts
<1>4. /\ first[1] = Schedule(Parser, Book) /\ first[2] = AwaitFirst(Parser)
      /\ first[3] = CompleteCall(Parser) /\ first[4] = AwaitCompletion(Writer)
  OBVIOUS
<1>5. Run = first \o second
  BY DEF Run
<1>. HIDE DEF first, second, k
<1>6. /\ first \o second \in Seq(CallRecord) /\ Len(first \o second) = Len(first) + Len(second)
      /\ \A n \in 1..Len(first) : (first \o second)[n] = first[n]
      /\ \A n \in 1..Len(second) : (first \o second)[Len(first) + n] = second[n]
  <2>1. first \in Seq(CallRecord) /\ second \in Seq(CallRecord)
    BY <1>2, <1>3
  <2>. QED
    BY <2>1, ConcatFacts
<1>7. /\ Run \in Seq(CallRecord) /\ Len(Run) = 4 + k
      /\ Run[1] = first[1] /\ Run[2] = first[2] /\ Run[3] = first[3] /\ Run[4] = first[4]
      /\ \A n \in 1..k : Run[4 + n] = second[n]
  BY <1>2, <1>3, <1>5, <1>6 DEF k
<1>. DEFINE t1 == Tail(Run)
            t2 == Tail(t1)
            t3 == Tail(t2)
<1>. HIDE DEF t1, t2, t3
<1>8. /\ t1 \in Seq(CallRecord) /\ Len(t1) = 3 + k /\ Run # <<>> /\ Head(Run) = Run[1]
      /\ \A n \in 1..3 + k : t1[n] = Run[n + 1]
  BY <1>3, <1>7, TailFacts DEF t1
<1>9. /\ t2 \in Seq(CallRecord) /\ Len(t2) = 2 + k /\ t1 # <<>> /\ Head(t1) = t1[1]
      /\ \A n \in 1..2 + k : t2[n] = t1[n + 1]
  BY <1>3, <1>8, TailFacts DEF t2
<1>10. /\ t3 \in Seq(CallRecord) /\ Len(t3) = 1 + k /\ t2 # <<>> /\ Head(t2) = t2[1]
       /\ \A n \in 1..1 + k : t3[n] = t2[n + 1]
  BY <1>3, <1>9, TailFacts DEF t3
<1>11. t1[1] = Run[2] /\ t2[1] = Run[3] /\ t3[1] = Run[4]
  BY <1>3, <1>8, <1>9, <1>10
<1>12. \A n \in 1..k : t1[3 + n] = second[n] /\ t2[2 + n] = second[n] /\ t3[1 + n] = second[n]
  <2>. TAKE n \in 1..k
  <2>1. /\ 3 + n \in 1..3 + k /\ 2 + n \in 1..2 + k /\ 1 + n \in 1..1 + k
        /\ 3 + n + 1 = 4 + n /\ 2 + n + 1 = 3 + n /\ 1 + n + 1 = 2 + n
    BY <1>3
  <2>2. t1[3 + n] = Run[4 + n] /\ t2[2 + n] = t1[3 + n] /\ t3[1 + n] = t2[2 + n]
    BY <1>8, <1>9, <1>10, <2>1
  <2>. QED
    BY <1>7, <2>2
<1>. DEFINE call == AwaitCompletion(Parser)
            one == <<call>>
            c == one \o t3
<1>13. call \in CallRecord /\ call.op = "awaitCompletion" /\ call.to = Parser
  BY ActorFacts, NewCallFacts DEF AwaitCompletion, NewCall
<1>14. one \in Seq(CallRecord) /\ Len(one) = 1 /\ one[1] = call
  <2>. HIDE DEF call
  <2>. QED
    BY <1>13
<1>15. c = InComplete
  BY DEF InComplete, t1, t2, t3
<1>. HIDE DEF call, one, c
<1>16. /\ c \in Seq(CallRecord) /\ Len(c) = 2 + k
       /\ c[1] = call /\ \A n \in 1..1 + k : c[1 + n] = t3[n]
  <2>1. /\ one \o t3 \in Seq(CallRecord) /\ Len(one \o t3) = Len(one) + Len(t3)
        /\ \A n \in 1..Len(one) : (one \o t3)[n] = one[n]
        /\ \A n \in 1..Len(t3) : (one \o t3)[Len(one) + n] = t3[n]
    <3>1. one \in Seq(CallRecord) /\ t3 \in Seq(CallRecord)
      BY <1>10, <1>14
    <3>. QED
      BY <3>1, ConcatFacts
  <2>. QED
    BY <1>3, <1>10, <1>14, <2>1 DEF c
<1>17. \A n \in 1..k : c[2 + n] = second[n]
  <2>. TAKE n \in 1..k
  <2>1. 1 + n \in 1..1 + k /\ 1 + (1 + n) = 2 + n
    BY <1>3
  <2>. QED
    BY <1>12, <1>16, <2>1
<1>18. c # <<>> /\ Head(c) = call
  BY <1>3, <1>16, TailFacts
<1>19. \A n \in 1..Len(c) : c[n].op \in {"awaitCompletion", "destroy"}
  <2>. SUFFICES ASSUME NEW n \in 1..Len(c) PROVE c[n].op \in {"awaitCompletion", "destroy"}
    OBVIOUS
  <2>1. CASE n = 1
    BY <1>13, <1>16, <2>1
  <2>2. CASE n = 2
    <3>1. c[2] = AwaitCompletion(Writer)
      BY <1>3, <1>4, <1>7, <1>11, <1>16
    <3>. QED
      BY <2>2, <3>1 DEF AwaitCompletion, NewCall
  <2>3. CASE n > 2
    <3>1. n - 2 \in 1..k /\ 2 + (n - 2) = n
      BY <1>3, <1>16, <2>3
    <3>2. c[n] = second[n - 2]
      BY <1>17, <3>1
    <3>. QED
      BY <3>1, <3>2, DestroyActorsFacts DEF second, k
  <2>. QED
    BY <1>3, <1>16, <2>1, <2>2, <2>3
<1>20. \A a \in Pipeline : /\ \E n \in 1..Len(Run) : Run[n].to = a
                           /\ \E n \in 1..Len(t1) : t1[n].to = a
                           /\ \E n \in 1..Len(t2) : t2[n].to = a
                           /\ \E n \in 1..Len(c) : c[n].to = a
  <2>. TAKE a \in Pipeline
  <2>1. PICK n \in 1..k : second[n].to = a
    BY DestroyActorsFacts DEF second, k
  <2>2. /\ 4 + n \in 1..Len(Run) /\ 3 + n \in 1..Len(t1) /\ 2 + n \in 1..Len(t2)
        /\ 2 + n \in 1..Len(c)
    BY <1>3, <1>7, <1>8, <1>9, <1>16
  <2>. QED
    BY <1>7, <1>12, <1>17, <2>1, <2>2
<1>. QED
  <2>1. \A s \in BeforeComplete \cup {InComplete} : \A a \in Pipeline :
          \E n \in 1..Len(s) : s[n].to = a
    <3>1. BeforeComplete = {Run, t1, t2}
      BY DEF BeforeComplete, t1, t2
    <3>. TAKE s \in BeforeComplete \cup {InComplete}
    <3>. TAKE a \in Pipeline
    <3>2. s = Run \/ s = t1 \/ s = t2 \/ s = c
      BY <1>15, <3>1
    <3>. QED
      BY <1>20, <3>2
  <2>2. <<AwaitCompletion(Parser)>> \o Tail(Tail(Tail(Run))) = InComplete
    BY DEF InComplete
  <2>. QED
    BY <1>4, <1>7, <1>8, <1>9, <1>10, <1>11, <1>15, <1>16, <1>18, <1>19, <2>1, <2>2
      DEF t1, t2, call

-----------------------------------------------------------------------------
(* The parser completes last: then every stage has, and nobody but Run has *)
(* calls to make.                                                          *)
LEMMA AllDone ==
  ASSUME MapReduceTypeOK, PhaseSound, StagesSound, ReducerSound, phase[Parser] = "completed"
  PROVE  /\ NotCompleted = {}
         /\ \A a \in Pipeline : phase[a] = "completed" /\ mail[a] = <<>> /\ a \notin busy
         /\ \A t \in Threads : t = Main \/ calls[t] = <<>>
<1>1. \A m \in Mappers : phase[m] = "completed"
  BY DEF StagesSound, MapperTold
<1>2. NotCompleted = {}
  BY <1>1 DEF NotCompleted, HasCompleted
<1>3. phase[Reducer] = "completed"
  BY <1>1, <1>2 DEF ReducerSound
<1>4. phase[Writer] = "completed"
  BY <1>3 DEF ReducerSound, HasCompleted
<1>5. \A a \in Pipeline : phase[a] = "completed"
  BY <1>1, <1>3, <1>4, ActorFacts
<1>6. ASSUME NEW a \in Pipeline
      PROVE  /\ mail[a] = <<>> /\ a \notin busy
             /\ calls[Handler(a)] = <<>> /\ calls[Completed(a)] = <<>>
  BY <1>5 DEF PhaseSound, PhaseFits
<1>7. \A t \in Threads : t = Main \/ calls[t] = <<>>
  BY <1>6, ThreadFacts
<1>. QED
  BY <1>2, <1>5, <1>6, <1>7

LEMMA MainIsNotDone ==
  ASSUME MapReduceTypeOK, MainSound, phase[Parser] # "completed"
  PROVE  /\ calls[Main] # <<>>
         /\ \A a \in Pipeline : \E n \in 1..Len(calls[Main]) : calls[Main][n].to = a
<1>1. calls[Main] \in BeforeComplete \cup {InComplete}
  BY DEF MainSound
<1>2. calls[Main] # <<>>
  BY <1>1, RunFacts DEF BeforeComplete
<1>. QED
  BY <1>1, <1>2, RunFacts

(* What the invariant is for.                                              *)
LEMMA MapReduceInvIsSafe ==
  ASSUME MapReduceInv
  PROVE  CountedOnce /\ DestroyedIsDone
<1>. USE DEF MapReduceInv
<1>1. DestroyedIsDone
  <2>. SUFFICES ASSUME NEW a \in Pipeline, Destroyed(a)
                PROVE  /\ phase[a] = "completed" /\ mail[a] = <<>> /\ a \notin busy
                       /\ \A t \in Threads : \A n \in 1..Len(calls[t]) : calls[t][n].to # a
    BY DEF DestroyedIsDone
  <2>1. phase[Parser] = "completed"
    BY MainIsNotDone DEF Destroyed
  <2>2. \A t \in Threads : t = Main \/ calls[t] = <<>>
    BY <2>1, AllDone
  <2>3. ASSUME NEW t \in Threads, NEW n \in 1..Len(calls[t]) PROVE calls[t][n].to # a
    <3>1. CASE t = Main
      BY <3>1 DEF Destroyed
    <3>2. CASE t # Main
      BY <2>2, <3>2
    <3>. QED
      BY <3>1, <3>2
  <2>. QED
    BY <2>1, <2>3, AllDone
<1>2. CountedOnce
  <2>. SUFFICES ASSUME handled[Writer] # <<>> \/ calls[Main] = <<>>
                PROVE  /\ Len(handled[Writer]) = 1
                       /\ \A l \in 1..Lines : handled[Writer][1][l] =
                                             IF l <= FullBatches * BatchSize THEN 1 ELSE 0
    BY DEF CountedOnce
  <2>1. handled[Writer] \in Seq(Counts) /\ mail[Writer] \in Seq(Counts)
    BY ActorFacts DEF MapReduceTypeOK
  <2>2. Received(Writer) = <<Whole>> \/ (Received(Writer) = <<>> /\ ~HasSent(Reducer))
    BY DEF DictionarySound
  <2>3. handled[Writer] = <<Whole>>
    <3>1. handled[Writer] # <<>>
      <4>1. CASE calls[Main] = <<>>
        <5>1. phase[Parser] = "completed"
          BY <4>1, MainIsNotDone
        <5>2. phase[Reducer] = "completed" /\ mail[Writer] = <<>>
          BY <5>1, AllDone, ActorFacts
        <5>3. Received(Writer) = handled[Writer]
          BY <2>1, <5>2, ConcatEmptySeq DEF Received
        <5>4. handled[Writer] = <<Whole>>
          BY <2>2, <5>2, <5>3 DEF HasSent
        <5>. QED
          BY <5>4
      <4>. QED
        BY <4>1
    <3>. DEFINE h == handled[Writer]
                q == mail[Writer]
    <3>2. h \in Seq(Counts) /\ q \in Seq(Counts) /\ h # <<>>
      BY <2>1, <3>1
    <3>3. h \o q = <<Whole>> \/ h \o q = <<>>
      BY <2>2 DEF Received
    <3>. HIDE DEF h, q
    <3>4. /\ Len(h \o q) = Len(h) + Len(q) /\ \A n \in 1..Len(h) : (h \o q)[n] = h[n]
      BY <3>2, ConcatFacts
    <3>5. Len(h) \in Nat \ {0} /\ Len(q) \in Nat
      BY <3>2, EmptySeq
    <3>6. Len(h \o q) = 1 /\ h \o q = <<Whole>>
      BY <3>3, <3>4, <3>5
    <3>7. Len(h) = 1
      BY <3>4, <3>5, <3>6
    <3>8. h[1] = (h \o q)[1]
      BY <3>4, <3>7
    <3>9. h[1] = Whole
      BY <3>6, <3>8
    <3>. QED
      BY <3>2, <3>7, <3>9 DEF h
  <2>4. \A l \in 1..Lines : Whole[l] = IF l <= FullBatches * BatchSize THEN 1 ELSE 0
    BY BatchFacts DEF Whole
  <2>. QED
    BY <2>3, <2>4
<1>. QED
  BY <1>1, <1>2

-----------------------------------------------------------------------------
(* What a step does, by who takes it: the calls in the order in which the  *)
(* sample makes them.                                                      *)
Change(t, todo) == calls' = [calls EXCEPT ![t] = todo]
Rest == <<handled, busy, dictionary>>

BookSent == /\ calls[Main] = Run /\ phase[Parser] = "started"
            /\ Change(Main, Tail(Run))
            /\ mail' = [mail EXCEPT ![Parser] = Append(@, Book)]
            /\ UNCHANGED <<Rest, phase, completedCallsRequired>>

FirstDone == /\ calls[Main] = Tail(Run) /\ handled[Parser] # <<>>
             /\ Change(Main, Tail(Tail(Run)))
             /\ UNCHANGED <<Rest, mail, phase, completedCallsRequired>>

ParserTold == /\ calls[Main] = Tail(Tail(Run)) /\ phase[Parser] = "started"
              /\ Change(Main, InComplete)
              /\ phase' = [phase EXCEPT ![Parser] = "draining"]
              /\ UNCHANGED <<Rest, mail, completedCallsRequired>>

MainGoesOn == /\ phase[Parser] = "completed"
              /\ \E todo \in Seq(CallRecord) :
                   /\ \A n \in 1..Len(todo) : todo[n].op \in {"awaitCompletion", "destroy"}
                   /\ Change(Main, todo)
              /\ UNCHANGED <<Rest, mail, phase, completedCallsRequired>>

BatchSent(k) ==
  /\ Parser \in busy /\ calls[Handler(Parser)] # <<>>
  /\ k = FullBatches - Len(calls[Handler(Parser)]) + 1
  /\ phase[MapperOf(k)] = "started"
  /\ Change(Handler(Parser), Tail(calls[Handler(Parser)]))
  /\ mail' = [mail EXCEPT ![MapperOf(k)] = Append(@, Batch(k))]
  /\ UNCHANGED <<Rest, phase, completedCallsRequired>>

IsTold(m) ==
  /\ phase[Parser] = "completing" /\ calls[Completed(Parser)] # <<>>
  /\ Head(calls[Completed(Parser)]) = CompleteCall(m)
  /\ Change(Completed(Parser), <<AwaitCompletion(m)>> \o Tail(calls[Completed(Parser)]))
  /\ phase' = IF phase[m] = "started" THEN [phase EXCEPT ![m] = "draining"] ELSE phase
  /\ UNCHANGED <<Rest, mail, completedCallsRequired>>

HasDone(m) ==
  /\ phase[Parser] = "completing" /\ calls[Completed(Parser)] # <<>>
  /\ Head(calls[Completed(Parser)]) = AwaitCompletion(m) /\ phase[m] = "completed"
  /\ Change(Completed(Parser), Tail(calls[Completed(Parser)]))
  /\ UNCHANGED <<Rest, mail, phase, completedCallsRequired>>

Sends(a, to, what) ==
  /\ phase[a] = "completing" /\ phase[to] = "started"
  /\ calls[Completed(a)] = <<Schedule(to, what), CompleteCall(to)>>
  /\ Change(Completed(a), <<CompleteCall(to)>>)
  /\ mail' = [mail EXCEPT ![to] = Append(@, what)]
  /\ UNCHANGED <<Rest, phase, completedCallsRequired>>

Completes(a, to) ==
  /\ phase[a] = "completing" /\ phase[to] = "started"
  /\ calls[Completed(a)] = <<CompleteCall(to)>>
  /\ Change(Completed(a), <<AwaitCompletion(to)>>)
  /\ phase' = [phase EXCEPT ![to] = "draining"]
  /\ UNCHANGED <<Rest, mail>>

ReducerCountsDown(m) ==
  /\ phase[m] = "completing" /\ phase[Reducer] = "started"
  /\ calls[Completed(m)] = <<CompleteCall(Reducer)>>
  /\ completedCallsRequired # 1 /\ completedCallsRequired' = completedCallsRequired - 1
  /\ Change(Completed(m), <<>>)
  /\ UNCHANGED <<Rest, mail, phase>>

Awaited(a, to) ==
  /\ phase[a] = "completing" /\ phase[to] = "completed" /\ Awaits(a, to)
  /\ Change(Completed(a), <<>>)
  /\ UNCHANGED <<Rest, mail, phase, completedCallsRequired>>

ParserCalls(m) == IsTold(m) \/ HasDone(m)

MapperCalls(m) ==
  \/ Sends(m, Reducer, Share(m)) \/ ReducerCountsDown(m) \/ Awaited(m, Reducer)
  \/ /\ completedCallsRequired = 1 /\ completedCallsRequired' = 0
     /\ Completes(m, Reducer)

ReducerCalls ==
  \/ Sends(Reducer, Writer, Whole) \/ Awaited(Reducer, Writer)
  \/ Completes(Reducer, Writer) /\ UNCHANGED completedCallsRequired

LEMMA GoFacts ==
  ASSUME MapReduceTypeOK, NEW t \in Threads, calls[t] # <<>>
  PROVE  /\ Go(t, <<>>) => Change(t, Tail(calls[t]))
         /\ \A c : Go(t, <<c>>) => Change(t, <<c>> \o Tail(calls[t]))
<1>. DEFINE s == Tail(calls[t])
<1>1. s \in Seq(CallRecord)
  BY TailFacts DEF MapReduceTypeOK
<1>2. <<>> \o s = s
  <2>. HIDE DEF s
  <2>. QED
    BY <1>1, ConcatEmptySeq
<1>. QED
  BY <1>2 DEF Go, Change

(* A call is one of these.                                                 *)
LEMMA MakeCallFacts ==
  ASSUME MapReduceTypeOK, NEW t \in Threads, MakeCall(t)
  PROVE  LET call == Head(calls[t])
             todo == Tail(calls[t])
         IN
         /\ calls[t] # <<>> /\ call \in CallRecord /\ UNCHANGED <<Rest>>
         /\ \/ /\ call.op = "schedule"
               /\ mail' = IF phase[call.to] = "started"
                            THEN [mail EXCEPT ![call.to] = Append(@, call.what)] ELSE mail
               /\ Change(t, todo) /\ UNCHANGED <<phase, completedCallsRequired>>
            \/ /\ call.op = "awaitFirst" /\ handled[call.to] # <<>>
               /\ Change(t, todo) /\ UNCHANGED <<mail, phase, completedCallsRequired>>
            \/ /\ call.op = "awaitCompletion" /\ phase[call.to] = "completed"
               /\ Change(t, todo) /\ UNCHANGED <<mail, phase, completedCallsRequired>>
            \/ /\ call.op \in {"complete", "destroy"}
               /\ call.op = "destroy" \/ call.to # Reducer
               /\ phase' = IF phase[call.to] = "started"
                             THEN [phase EXCEPT ![call.to] = "draining"] ELSE phase
               /\ Change(t, <<AwaitCompletion(call.to)>> \o todo)
               /\ UNCHANGED <<mail, completedCallsRequired>>
            \/ /\ call.op = "complete" /\ call.to = Reducer /\ completedCallsRequired = 1
               /\ completedCallsRequired' = 0
               /\ phase' = IF phase[Reducer] = "started"
                             THEN [phase EXCEPT ![Reducer] = "draining"] ELSE phase
               /\ Change(t, <<AwaitCompletion(Reducer)>> \o todo) /\ UNCHANGED mail
            \/ /\ call.op = "complete" /\ call.to = Reducer /\ completedCallsRequired # 1
               /\ completedCallsRequired' = completedCallsRequired - 1
               /\ Change(t, todo) /\ UNCHANGED <<mail, phase>>
<1>1. calls[t] # <<>>
  BY DEF MakeCall, CallComplete, ScheduleFunction, WaitReturns, Calls
<1>2. Head(calls[t]) \in CallRecord
  BY <1>1, TailFacts DEF MapReduceTypeOK
<1>3. UNCHANGED <<Rest>>
  BY DEF MakeCall, CallComplete, ScheduleFunction, WaitReturns, BeginComplete, Rest
<1>4. /\ Go(t, <<>>) => Change(t, Tail(calls[t]))
      /\ \A c : Go(t, <<c>>) => Change(t, <<c>> \o Tail(calls[t]))
  BY <1>1, GoFacts
<1>5. CASE ScheduleFunction(t) /\ UNCHANGED completedCallsRequired
  BY <1>1, <1>2, <1>3, <1>4, <1>5 DEF ScheduleFunction, Calls, To
<1>6. CASE WaitReturns(t) /\ UNCHANGED completedCallsRequired
  BY <1>1, <1>2, <1>3, <1>4, <1>6 DEF WaitReturns, Calls, To
<1>7. CASE CallComplete(t)
  <2>1. CASE To(t) = Reducer /\ Head(calls[t]).op = "complete" /\ completedCallsRequired = 1
    BY <1>1, <1>2, <1>3, <1>4, <1>7, <2>1 DEF CallComplete, BeginComplete, Calls, To
  <2>2. CASE To(t) = Reducer /\ Head(calls[t]).op = "complete" /\ completedCallsRequired # 1
    BY <1>1, <1>2, <1>3, <1>4, <1>7, <2>2 DEF CallComplete, BeginComplete, Calls, To
  <2>3. CASE ~(To(t) = Reducer /\ Head(calls[t]).op = "complete")
    BY <1>1, <1>2, <1>3, <1>4, <1>7, <2>3 DEF CallComplete, BeginComplete, Calls, To
  <2>. QED
    BY <2>1, <2>2, <2>3
<1>. QED
  BY <1>5, <1>6, <1>7 DEF MakeCall

LEMMA MainCalls ==
  ASSUME MapReduceInv, MakeCall(Main)
  PROVE  BookSent \/ FirstDone \/ ParserTold \/ MainGoesOn
<1>. USE DEF MapReduceInv
<1>. DEFINE call == Head(calls[Main])
            todo == Tail(calls[Main])
<1>1. Main \in Threads /\ calls[Main] \in Seq(CallRecord)
  BY ThreadFacts DEF MapReduceTypeOK
<1>2. calls[Main] # <<>> /\ call \in CallRecord /\ UNCHANGED <<Rest>>
  BY <1>1, MakeCallFacts
<1>3. CASE calls[Main] = Run
  <2>1. call = Schedule(Parser, Book) /\ phase[Parser] = "started"
    BY <1>3, RunFacts DEF MainSound, BeforeComplete
  <2>2. call.op = "schedule" /\ call.to = Parser /\ call.what = Book
    BY <2>1 DEF Schedule, NewCall
  <2>3. /\ mail' = [mail EXCEPT ![Parser] = Append(@, Book)] /\ Change(Main, todo)
        /\ UNCHANGED <<phase, completedCallsRequired>>
    BY <1>1, <2>1, <2>2, MakeCallFacts
  <2>. QED
    BY <1>2, <1>3, <2>1, <2>3 DEF BookSent
<1>4. CASE calls[Main] = Tail(Run)
  <2>1. call.op = "awaitFirst" /\ call.to = Parser
    <3>1. call = AwaitFirst(Parser)
      BY <1>4, RunFacts
    <3>. QED
      BY <3>1 DEF AwaitFirst, NewCall
  <2>2. /\ handled[Parser] # <<>> /\ Change(Main, todo)
        /\ UNCHANGED <<mail, phase, completedCallsRequired>>
    BY <1>1, <2>1, MakeCallFacts
  <2>. QED
    BY <1>2, <1>4, <2>2 DEF FirstDone
<1>5. CASE calls[Main] = Tail(Tail(Run))
  <2>1. call.op = "complete" /\ call.to = Parser /\ phase[Parser] = "started"
    <3>1. call = CompleteCall(Parser) /\ phase[Parser] = "started"
      BY <1>5, RunFacts DEF MainSound, BeforeComplete
    <3>. QED
      BY <3>1 DEF CompleteCall, NewCall
  <2>2. /\ phase' = [phase EXCEPT ![Parser] = "draining"]
        /\ Change(Main, <<AwaitCompletion(Parser)>> \o todo)
        /\ UNCHANGED <<mail, completedCallsRequired>>
    BY <1>1, <2>1, MakeCallFacts, ActorFacts
  <2>3. <<AwaitCompletion(Parser)>> \o todo = InComplete
    BY <1>5, RunFacts
  <2>. QED
    BY <1>2, <1>5, <2>1, <2>2, <2>3 DEF ParserTold
<1>6. CASE calls[Main] \notin BeforeComplete
  <2>1. phase[Parser] = "completed"
    <3>. SUFFICES ASSUME phase[Parser] # "completed" PROVE FALSE
      OBVIOUS
    <3>1. calls[Main] = InComplete
      BY <1>6 DEF MainSound
    <3>2. call = AwaitCompletion(Parser)
      BY <3>1, RunFacts
    <3>3. call.op = "awaitCompletion" /\ call.to = Parser
      BY <3>2 DEF AwaitCompletion, NewCall
    <3>. QED
      BY <1>1, <3>3, MakeCallFacts
  <2>2. \A a \in Pipeline : phase[a] = "completed"
    BY <2>1, AllDone
  <2>3. /\ call = calls[Main][1] /\ todo \in Seq(CallRecord) /\ Len(todo) = Len(calls[Main]) - 1
        /\ \A n \in 1..Len(calls[Main]) - 1 : todo[n] = calls[Main][n + 1]
        /\ Len(calls[Main]) \in Nat \ {0}
    BY <1>1, <1>2, TailFacts
  <2>4. \A n \in 1..Len(calls[Main]) : calls[Main][n].op \in {"awaitCompletion", "destroy"}
    BY <2>1 DEF MainSound
  <2>5. call.op \in {"awaitCompletion", "destroy"} /\ call.to \in Pipeline
    <3>1. call.op \in {"awaitCompletion", "destroy"}
      BY <2>3, <2>4
    <3>. QED
      BY <1>2, <3>1 DEF CallRecord
  <2>6. \A n \in 1..Len(todo) : todo[n].op \in {"awaitCompletion", "destroy"}
    BY <2>3, <2>4
  <2>7. phase[call.to] = "completed"
    BY <2>2, <2>5
  <2>8. /\ Change(Main, todo) \/ Change(Main, <<AwaitCompletion(call.to)>> \o todo)
        /\ UNCHANGED <<mail, phase, completedCallsRequired>>
    BY <1>1, <2>5, <2>7, MakeCallFacts
  <2>9. /\ <<AwaitCompletion(call.to)>> \o todo \in Seq(CallRecord)
        /\ \A n \in 1..Len(<<AwaitCompletion(call.to)>> \o todo) :
             (<<AwaitCompletion(call.to)>> \o todo)[n].op \in {"awaitCompletion", "destroy"}
    <3>. DEFINE c == AwaitCompletion(call.to)
                one == <<c>>
                rest == todo
    <3>1. c \in CallRecord /\ c.op = "awaitCompletion"
      BY <2>5, NewCallFacts DEF AwaitCompletion, NewCall
    <3>2. rest \in Seq(CallRecord)
          /\ \A n \in 1..Len(rest) : rest[n].op \in {"awaitCompletion", "destroy"}
      BY <2>3, <2>6
    <3>. HIDE DEF c
    <3>3. one \in Seq(CallRecord) /\ Len(one) = 1 /\ one[1] = c
      BY <3>1
    <3>. HIDE DEF one, rest
    <3>4. one \in Seq(CallRecord) /\ rest \in Seq(CallRecord)
      BY <3>2, <3>3
    <3>5. /\ one \o rest \in Seq(CallRecord) /\ Len(one \o rest) = Len(one) + Len(rest)
          /\ \A n \in 1..Len(one) : (one \o rest)[n] = one[n]
          /\ \A n \in 1..Len(rest) : (one \o rest)[Len(one) + n] = rest[n]
      BY <3>4, ConcatFacts
    <3>6. \A n \in 1..Len(one \o rest) : (one \o rest)[n].op \in {"awaitCompletion", "destroy"}
      <4>. SUFFICES ASSUME NEW n \in 1..Len(one \o rest)
                    PROVE  (one \o rest)[n].op \in {"awaitCompletion", "destroy"}
        OBVIOUS
      <4>0. Len(rest) \in Nat
        BY <3>4
      <4>1. CASE n = 1
        BY <3>1, <3>3, <3>5, <4>1
      <4>2. CASE n # 1
        <5>1. n - 1 \in 1..Len(rest) /\ 1 + (n - 1) = n
          BY <3>3, <3>5, <4>0, <4>2
        <5>2. (one \o rest)[n] = rest[n - 1]
          BY <3>3, <3>5, <5>1
        <5>. QED
          BY <3>2, <5>1, <5>2
      <4>. QED
        BY <4>1, <4>2
    <3>. QED
      BY <3>5, <3>6 DEF one, rest, c
  <2>. QED
    BY <1>2, <2>1, <2>3, <2>6, <2>8, <2>9 DEF MainGoesOn
<1>. QED
  BY <1>3, <1>4, <1>5, <1>6 DEF BeforeComplete

LEMMA HandlerCalls ==
  ASSUME MapReduceInv, NEW a \in Pipeline, MakeCall(Handler(a))
  PROVE  \E k \in 1..FullBatches : BatchSent(k)
<1>. USE DEF MapReduceInv
<1>. DEFINE todo == calls[Handler(a)]
<1>1. Handler(a) \in Threads /\ todo \in Seq(CallRecord)
  BY ThreadFacts DEF MapReduceTypeOK
<1>2. todo # <<>> /\ UNCHANGED <<Rest>>
  BY <1>1, MakeCallFacts
<1>3. a = Parser /\ Parser \in busy
  BY <1>2 DEF PhaseSound, PhaseFits
<1>4. /\ Len(todo) <= FullBatches
      /\ \A n \in 1..Len(todo) : todo[n] = ProcessBook[FullBatches - Len(todo) + n]
  BY <1>3 DEF ParserSound
<1>5. Len(todo) \in Nat \ {0} /\ Head(todo) = todo[1]
  BY <1>1, <1>2, TailFacts
<1>. DEFINE k == FullBatches - Len(todo) + 1
            m == MapperOf(k)
<1>6. k \in 1..FullBatches
  BY <1>4, <1>5, FullBatchesFacts
<1>7. Head(todo) = Schedule(m, Batch(k))
  <2>1. Head(todo) = ProcessBook[k]
    BY <1>4, <1>5
  <2>. HIDE DEF k, todo
  <2>. QED
    BY <1>6, <2>1 DEF ProcessBook
<1>8. m \in Mappers
  BY <1>6, MapperOfFacts
<1>9. phase[m] = "started"
  <2>1. phase[Parser] \notin {"completing", "completed"}
    BY <1>3, ActorFacts DEF PhaseSound, PhaseFits
  <2>. QED
    BY <1>8, <2>1 DEF StagesSound, MapperTold
<1>10. /\ mail' = [mail EXCEPT ![m] = Append(@, Batch(k))] /\ Change(Handler(a), Tail(todo))
       /\ UNCHANGED <<phase, completedCallsRequired>>
  <2>1. Head(todo).op = "schedule" /\ Head(todo).to = m /\ Head(todo).what = Batch(k)
    BY <1>7 DEF Schedule, NewCall
  <2>. HIDE DEF m, k
  <2>. QED
    BY <1>1, <1>9, <2>1, MakeCallFacts
<1>11. BatchSent(k)
  BY <1>2, <1>3, <1>9, <1>10 DEF BatchSent
<1>. QED
  BY <1>6, <1>11

LEMMA ParserCompletedCalls ==
  ASSUME MapReduceInv, MakeCall(Completed(Parser))
  PROVE  \E m \in Mappers : ParserCalls(m)
<1>. USE DEF MapReduceInv
<1>. DEFINE t == Completed(Parser)
            call == Head(calls[t])
            todo == Tail(calls[t])
<1>1. t \in Threads /\ calls[t] \in Seq(CallRecord)
  BY ThreadFacts, ActorFacts DEF MapReduceTypeOK
<1>2. calls[t] # <<>> /\ UNCHANGED <<Rest>>
  BY <1>1, MakeCallFacts
<1>3. phase[Parser] = "completing"
  BY <1>2, ActorFacts DEF PhaseSound, PhaseFits
<1>4. Len(calls[t]) \in Nat \ {0} /\ call = calls[t][1]
  BY <1>1, <1>2, TailFacts
<1>5. PICK m \in Mappers : call \in {CompleteCall(m), AwaitCompletion(m)}
  BY <1>4 DEF StagesSound
<1>6. m \in Pipeline /\ m # Reducer
  BY ActorFacts
<1>7. CASE call = CompleteCall(m)
  <2>1. call.op = "complete" /\ call.to = m
    BY <1>7 DEF CompleteCall, NewCall
  <2>. HIDE DEF t
  <2>2. /\ phase' = IF phase[m] = "started" THEN [phase EXCEPT ![m] = "draining"] ELSE phase
        /\ Change(t, <<AwaitCompletion(m)>> \o todo)
        /\ UNCHANGED <<mail, completedCallsRequired>>
    BY <1>1, <1>6, <2>1, MakeCallFacts DEF t
  <2>3. IsTold(m)
    BY <1>2, <1>3, <1>7, <2>2 DEF IsTold, t
  <2>. QED
    BY <2>3 DEF ParserCalls
<1>8. CASE call = AwaitCompletion(m)
  <2>1. call.op = "awaitCompletion" /\ call.to = m
    BY <1>8 DEF AwaitCompletion, NewCall
  <2>. HIDE DEF t
  <2>2. /\ phase[m] = "completed" /\ Change(t, todo)
        /\ UNCHANGED <<mail, phase, completedCallsRequired>>
    BY <1>1, <2>1, MakeCallFacts DEF t
  <2>3. HasDone(m)
    BY <1>2, <1>3, <1>8, <2>2 DEF HasDone, t
  <2>. QED
    BY <2>3 DEF ParserCalls
<1>. QED
  BY <1>5, <1>7, <1>8

(* The mappers that have not completed are those the reducer counts.       *)
LEMMA NotCompletedFacts ==
  ASSUME ReducerSound, NEW m \in Mappers, ~HasCompleted(m)
  PROVE  phase[Reducer] = "started"
BY DEF ReducerSound, NotCompleted

LEMMA MapperCompletedCalls ==
  ASSUME MapReduceInv, NEW m \in Mappers, MakeCall(Completed(m))
  PROVE  MapperCalls(m)
<1>. USE DEF MapReduceInv
<1>. DEFINE t == Completed(m)
            call == Head(calls[t])
            todo == Tail(calls[t])
<1>1. t \in Threads /\ m \in Pipeline /\ m # Writer /\ calls[t] \in Seq(CallRecord)
  BY ThreadFacts, ActorFacts DEF MapReduceTypeOK
<1>2. calls[t] # <<>> /\ UNCHANGED <<Rest>>
  BY <1>1, MakeCallFacts
<1>3. phase[m] = "completing"
  BY <1>1, <1>2 DEF PhaseSound, PhaseFits
<1>4. calls[t] \in {<<Schedule(Reducer, Share(m)), CompleteCall(Reducer)>>,
                   <<CompleteCall(Reducer)>>, <<AwaitCompletion(Reducer)>>}
  BY <1>2 DEF StagesSound, CompletedFits
<1>5. CASE calls[t] = <<Schedule(Reducer, Share(m)), CompleteCall(Reducer)>>
  <2>1. call = Schedule(Reducer, Share(m)) /\ todo = <<CompleteCall(Reducer)>>
    BY <1>5
  <2>2. call.op = "schedule" /\ call.to = Reducer /\ call.what = Share(m)
    BY <2>1 DEF Schedule, NewCall
  <2>3. ~HasCompleted(m)
    BY <1>3, <1>5, <2>2 DEF HasCompleted
  <2>4. phase[Reducer] = "started"
    BY <2>3, NotCompletedFacts
  <2>. HIDE DEF t
  <2>5. /\ mail' = [mail EXCEPT ![Reducer] = Append(@, Share(m))]
        /\ Change(t, todo) /\ UNCHANGED <<phase, completedCallsRequired>>
    BY <1>1, <2>2, <2>4, MakeCallFacts DEF t
  <2>. QED
    BY <1>2, <1>3, <1>5, <2>1, <2>4, <2>5 DEF MapperCalls, Sends, t
<1>6. CASE calls[t] = <<CompleteCall(Reducer)>>
  <2>1. call = CompleteCall(Reducer) /\ todo = <<>>
    BY <1>6
  <2>2. call.op = "complete" /\ call.to = Reducer
    BY <2>1 DEF CompleteCall, NewCall
  <2>3. ~HasCompleted(m)
    BY <1>3, <1>6, <2>2 DEF HasCompleted
  <2>4. phase[Reducer] = "started"
    BY <2>3, NotCompletedFacts
  <2>5. <<AwaitCompletion(Reducer)>> \o todo = <<AwaitCompletion(Reducer)>>
    BY <2>1, ConcatNothing
  <2>. HIDE DEF t
  <2>6. CASE completedCallsRequired = 1
    <3>1. /\ completedCallsRequired' = 0 /\ UNCHANGED mail
          /\ phase' = [phase EXCEPT ![Reducer] = "draining"]
          /\ Change(t, <<AwaitCompletion(Reducer)>> \o todo)
      BY <1>1, <2>2, <2>4, <2>6, MakeCallFacts DEF t
    <3>2. Completes(m, Reducer)
      BY <1>2, <1>3, <1>6, <2>4, <2>5, <3>1 DEF Completes, t
    <3>. QED
      BY <2>6, <3>1, <3>2 DEF MapperCalls
  <2>7. CASE completedCallsRequired # 1
    <3>1. /\ completedCallsRequired' = completedCallsRequired - 1
          /\ Change(t, todo) /\ UNCHANGED <<mail, phase>>
      BY <1>1, <2>2, <2>7, MakeCallFacts DEF t
    <3>2. ReducerCountsDown(m)
      BY <1>2, <1>3, <1>6, <2>1, <2>4, <2>7, <3>1 DEF ReducerCountsDown, t
    <3>. QED
      BY <3>2 DEF MapperCalls
  <2>. QED
    BY <2>6, <2>7
<1>7. CASE calls[t] = <<AwaitCompletion(Reducer)>>
  <2>1. call = AwaitCompletion(Reducer) /\ todo = <<>>
    BY <1>7
  <2>2. call.op = "awaitCompletion" /\ call.to = Reducer
    BY <2>1 DEF AwaitCompletion, NewCall
  <2>. HIDE DEF t
  <2>3. /\ phase[Reducer] = "completed" /\ Change(t, todo)
        /\ UNCHANGED <<mail, phase, completedCallsRequired>>
    BY <1>1, <2>2, MakeCallFacts DEF t
  <2>4. Awaited(m, Reducer)
    BY <1>2, <1>3, <1>7, <2>1, <2>3 DEF Awaited, Awaits, t
  <2>. QED
    BY <2>4 DEF MapperCalls
<1>. QED
  BY <1>4, <1>5, <1>6, <1>7

LEMMA ReducerCompletedCalls ==
  ASSUME MapReduceInv, MakeCall(Completed(Reducer))
  PROVE  ReducerCalls
<1>. USE DEF MapReduceInv
<1>. DEFINE t == Completed(Reducer)
            call == Head(calls[t])
            todo == Tail(calls[t])
<1>1. t \in Threads /\ Reducer # Writer /\ Reducer \in Pipeline /\ calls[t] \in Seq(CallRecord)
  BY ThreadFacts, ActorFacts DEF MapReduceTypeOK
<1>2. calls[t] # <<>> /\ UNCHANGED <<Rest>>
  BY <1>1, MakeCallFacts
<1>3. phase[Reducer] = "completing"
  BY <1>1, <1>2 DEF PhaseSound, PhaseFits
<1>4. calls[t] \in {<<Schedule(Writer, Whole), CompleteCall(Writer)>>,
                   <<CompleteCall(Writer)>>, <<AwaitCompletion(Writer)>>}
  BY <1>2 DEF StagesSound, CompletedFits
<1>5. CASE calls[t] = <<Schedule(Writer, Whole), CompleteCall(Writer)>>
  <2>1. call = Schedule(Writer, Whole) /\ todo = <<CompleteCall(Writer)>>
    BY <1>5
  <2>2. call.op = "schedule" /\ call.to = Writer /\ call.what = Whole
    BY <2>1 DEF Schedule, NewCall
  <2>3. phase[Writer] = "started"
    BY <1>3, <1>5, <2>2 DEF HasCompleted, ReducerSound
  <2>. HIDE DEF t
  <2>4. /\ mail' = [mail EXCEPT ![Writer] = Append(@, Whole)]
        /\ Change(t, todo) /\ UNCHANGED <<phase, completedCallsRequired>>
    BY <1>1, <2>2, <2>3, MakeCallFacts DEF t
  <2>. QED
    BY <1>2, <1>3, <1>5, <2>1, <2>3, <2>4 DEF ReducerCalls, Sends, t
<1>6. CASE calls[t] = <<CompleteCall(Writer)>>
  <2>1. call = CompleteCall(Writer) /\ todo = <<>>
    BY <1>6
  <2>2. call.op = "complete" /\ call.to = Writer
    BY <2>1 DEF CompleteCall, NewCall
  <2>3. phase[Writer] = "started"
    BY <1>3, <1>6, <2>2 DEF HasCompleted, ReducerSound
  <2>4. <<AwaitCompletion(Writer)>> \o todo = <<AwaitCompletion(Writer)>>
    BY <2>1, ConcatNothing
  <2>. HIDE DEF t
  <2>5. /\ UNCHANGED <<mail, completedCallsRequired>>
        /\ phase' = [phase EXCEPT ![Writer] = "draining"]
        /\ Change(t, <<AwaitCompletion(Writer)>> \o todo)
    BY <1>1, <2>2, <2>3, MakeCallFacts DEF t
  <2>6. Completes(Reducer, Writer)
    BY <1>2, <1>3, <1>6, <2>3, <2>4, <2>5 DEF Completes, t
  <2>. QED
    BY <2>5, <2>6 DEF ReducerCalls
<1>7. CASE calls[t] = <<AwaitCompletion(Writer)>>
  <2>1. call = AwaitCompletion(Writer) /\ todo = <<>>
    BY <1>7
  <2>2. call.op = "awaitCompletion" /\ call.to = Writer
    BY <2>1 DEF AwaitCompletion, NewCall
  <2>. HIDE DEF t
  <2>3. /\ phase[Writer] = "completed" /\ Change(t, todo)
        /\ UNCHANGED <<mail, phase, completedCallsRequired>>
    BY <1>1, <2>2, MakeCallFacts DEF t
  <2>4. Awaited(Reducer, Writer)
    BY <1>2, <1>3, <1>7, <2>1, <2>3 DEF Awaited, Awaits, t
  <2>. QED
    BY <2>4 DEF ReducerCalls
<1>. QED
  BY <1>4, <1>5, <1>6, <1>7

LEMMA MakeCallCases ==
  ASSUME MapReduceInv, NEW t \in Threads, MakeCall(t)
  PROVE  \/ BookSent \/ FirstDone \/ ParserTold \/ MainGoesOn
         \/ \E k \in 1..FullBatches : BatchSent(k)
         \/ \E m \in Mappers : ParserCalls(m) \/ MapperCalls(m)
         \/ ReducerCalls
<1>1. CASE t = Main
  BY <1>1, MainCalls
<1>2. ASSUME NEW a \in Pipeline, t = Handler(a)
      PROVE  \E k \in 1..FullBatches : BatchSent(k)
  BY <1>2, HandlerCalls
<1>3. ASSUME NEW a \in Pipeline, t = Completed(a)
      PROVE  ReducerCalls \/ \E m \in Mappers : ParserCalls(m) \/ MapperCalls(m)
  <2>1. CASE a = Parser
    BY <1>3, <2>1, ParserCompletedCalls
  <2>2. CASE a \in Mappers
    BY <1>3, <2>2, MapperCompletedCalls
  <2>3. CASE a = Reducer
    BY <1>3, <2>3, ReducerCompletedCalls
  <2>4. CASE a = Writer
    <3>1. calls[t] = <<>>
      BY <1>3, <2>4, ActorFacts DEF MapReduceInv, PhaseSound, PhaseFits
    <3>. QED
      BY <3>1, MakeCallFacts DEF MapReduceInv
  <2>. QED
    BY <2>1, <2>2, <2>3, <2>4, ActorFacts
<1>. QED
  BY <1>1, <1>2, <1>3, ThreadFacts

LEMMA ChangeFacts ==
  ASSUME MapReduceTypeOK, NEW t \in Threads, NEW todo, Change(t, todo)
  PROVE  /\ calls'[t] = todo
         /\ \A u \in Threads : u # t => calls'[u] = calls[u]
         /\ todo \in Seq(CallRecord) => calls' \in [Threads -> Seq(CallRecord)]
BY DEF Change, MapReduceTypeOK

LEMMA CountsFacts ==
  /\ Book \in Counts /\ Whole \in Counts
  /\ \A k : Batch(k) \in Counts
  /\ \A m : Share(m) \in Counts
BY DEF Counts, Book, Whole, Batch, Share

LEMMA OneCall ==
  ASSUME NEW S, NEW c \in S, NEW s \in Seq(S)
  PROVE  /\ <<c>> \o s \in Seq(S) /\ Len(<<c>> \o s) = Len(s) + 1
         /\ (<<c>> \o s)[1] = c
         /\ \A n \in 1..Len(s) : (<<c>> \o s)[n + 1] = s[n]
<1>. DEFINE one == <<c>>
<1>1. one \in Seq(S) /\ Len(one) = 1 /\ one[1] = c
  OBVIOUS
<1>. HIDE DEF one
<1>2. one \in Seq(S)
  BY <1>1
<1>3. /\ one \o s \in Seq(S) /\ Len(one \o s) = Len(one) + Len(s)
      /\ \A n \in 1..Len(one) : (one \o s)[n] = one[n]
      /\ \A n \in 1..Len(s) : (one \o s)[Len(one) + n] = s[n]
  BY <1>2, ConcatFacts
<1>4. Len(s) \in Nat /\ \A n \in 1..Len(s) : 1 + n = n + 1
  OBVIOUS
<1>. QED
  BY <1>1, <1>3, <1>4 DEF one

-----------------------------------------------------------------------------
(* When a mapper or the reducer stops, it has got all, and counted it.     *)
LEMMA CompletedFacts ==
  ASSUME MapReduceTypeOK, NEW a \in Pipeline
  PROVE  HasCompleted(a) => HasSent(a)
BY DEF HasCompleted, HasSent

LEMMA AllIsSent ==
  ASSUME MapReduceInv, NEW m \in Mappers, phase[m] # "started"
  PROVE  BatchesSent = FullBatches
<1>. USE DEF MapReduceInv
<1>1. phase[Parser] \in {"completing", "completed"}
  BY DEF StagesSound, MapperTold
<1>2. Parser \notin busy
  BY <1>1, ActorFacts DEF PhaseSound, PhaseFits
<1>3. handled[Parser] # <<>>
  BY <1>1 DEF ParserSound
<1>. QED
  BY <1>2, <1>3 DEF BatchesSent

LEMMA SharesFacts ==
  ASSUME MapReduceInv, NEW m \in Mappers, phase[m] # "started", mail[m] = <<>>
  PROVE  dictionary[m] = Share(m)
<1>. USE DEF MapReduceInv
<1>1. BatchesSent = FullBatches
  BY AllIsSent
<1>2. Received(m) = handled[m]
  BY ActorFacts, ConcatEmptySeq DEF Received, MapReduceTypeOK
<1>3. \A l \in 1..Lines : Has(handled[m], l) <=> Goes(l) /\ MapperOf(BatchOf(l)) = m
  BY <1>1, <1>2 DEF DictionarySound, Goes
<1>4. dictionary[m] = [l \in 1..Lines |-> IF Has(handled[m], l) THEN 1 ELSE 0]
  BY DEF DictionarySound, CountsOnce
<1>. QED
  BY <1>3, <1>4 DEF Share

LEMMA WholeFacts ==
  ASSUME MapReduceInv, phase[Reducer] # "started", mail[Reducer] = <<>>
  PROVE  dictionary[Reducer] = Whole
<1>. USE DEF MapReduceInv
<1>1. \A m \in Mappers : HasSent(m)
  <2>1. \A m \in Mappers : HasCompleted(m)
    BY DEF ReducerSound, NotCompleted
  <2>. QED
    BY <2>1, CompletedFacts, ActorFacts
<1>2. Received(Reducer) = handled[Reducer]
  BY ActorFacts, ConcatEmptySeq DEF Received, MapReduceTypeOK
<1>3. \A l \in 1..Lines : Has(handled[Reducer], l) <=> Goes(l)
  BY <1>1, <1>2, BatchFacts, MapperOfFacts DEF DictionarySound
<1>4. dictionary[Reducer] = [l \in 1..Lines |-> IF Has(handled[Reducer], l) THEN 1 ELSE 0]
  BY DEF DictionarySound, CountsOnce
<1>. QED
  BY <1>3, <1>4 DEF Whole

(* So these are the calls of OnCompleted.                                  *)
LEMMA CompletedCallsFacts ==
  ASSUME MapReduceInv, NEW a \in Pipeline, phase[a] = "stopped"
  PROVE  /\ CompletedCalls(a) \in Seq(CallRecord)
         /\ a = Parser => CompletedCalls(a) = ParserCompleted
         /\ a \in Mappers =>
              CompletedCalls(a) = <<Schedule(Reducer, Share(a)), CompleteCall(Reducer)>>
         /\ a = Reducer =>
              CompletedCalls(a) = <<Schedule(Writer, Whole), CompleteCall(Writer)>>
         /\ a = Writer => CompletedCalls(a) = <<>>
<1>. USE DEF MapReduceInv
<1>0. mail[a] = <<>>
  BY DEF PhaseSound, PhaseFits
<1>1. CASE a = Parser
  <2>1. HardwareThreads \in Nat /\ \A n \in 1..HardwareThreads : Mapper(n) \in Pipeline
    BY MapReduceAssumption, ActorFacts DEF Mappers
  <2>2. ParserCompleted \in Seq(CallRecord)
    BY <2>1, NewCallFacts DEF ParserCompleted
  <2>. QED
    BY <1>1, <2>2, ActorFacts DEF CompletedCalls
<1>2. CASE a \in Mappers
  <2>1. CompletedCalls(a) = <<Schedule(Reducer, Share(a)), CompleteCall(Reducer)>>
    BY <1>0, <1>2, SharesFacts, ActorFacts DEF CompletedCalls, MapperCompleted
  <2>2. Schedule(Reducer, Share(a)) \in CallRecord /\ CompleteCall(Reducer) \in CallRecord
    BY NewCallFacts, CountsFacts, ActorFacts
  <2>. QED
    BY <1>2, <2>1, <2>2, ActorFacts
<1>3. CASE a = Reducer
  <2>1. CompletedCalls(a) = <<Schedule(Writer, Whole), CompleteCall(Writer)>>
    BY <1>0, <1>3, WholeFacts, ActorFacts DEF CompletedCalls, ReducerCompleted
  <2>2. Schedule(Writer, Whole) \in CallRecord /\ CompleteCall(Writer) \in CallRecord
    BY NewCallFacts, CountsFacts, ActorFacts
  <2>. QED
    BY <1>3, <2>1, <2>2, ActorFacts
<1>4. CASE a = Writer
  BY <1>4, ActorFacts DEF CompletedCalls
<1>. QED
  BY <1>1, <1>2, <1>3, <1>4, ActorFacts

-----------------------------------------------------------------------------
(* The types, one step at a time.                                          *)
LEMMA MapReduceTypeStep ==
  ASSUME MapReduceInv, MapReduceNext
  PROVE  MapReduceTypeOK'
<1>. USE DEF MapReduceInv
<1>0. /\ mail \in [Pipeline -> Seq(Counts)] /\ handled \in [Pipeline -> Seq(Counts)]
      /\ phase \in [Pipeline -> {"started", "draining", "stopped", "completing", "completed"}]
      /\ busy \in SUBSET Pipeline /\ calls \in [Threads -> Seq(CallRecord)]
      /\ dictionary \in [Mappers \cup {Reducer} -> Counts] /\ completedCallsRequired \in Int
  BY DEF MapReduceTypeOK
<1>1. ASSUME NEW t \in Threads, MakeCall(t)
      PROVE  MapReduceTypeOK'
  <2>. DEFINE call == Head(calls[t])
              todo == Tail(calls[t])
  <2>1. calls[t] # <<>> /\ call \in CallRecord /\ UNCHANGED <<Rest>>
    BY <1>1, MakeCallFacts
  <2>2. call.to \in Pipeline /\ (call.op = "schedule" => call.what \in Counts)
    BY <2>1 DEF CallRecord
  <2>3. todo \in Seq(CallRecord)
    BY <1>0, <2>1, TailFacts
  <2>4. \A a \in Pipeline : <<AwaitCompletion(a)>> \o todo \in Seq(CallRecord)
    <3>. HIDE DEF todo
    <3>. QED
      BY <2>3, NewCallFacts, OneCall
  <2>5. mail' \in [Pipeline -> Seq(Counts)]
    <3>1. mail' = mail \/ (call.op = "schedule" /\
                             mail' = [mail EXCEPT ![call.to] = Append(@, call.what)])
      BY <1>1, MakeCallFacts
    <3>. HIDE DEF call
    <3>2. CASE mail' = mail
      BY <1>0, <3>2
    <3>3. CASE call.op = "schedule" /\ mail' = [mail EXCEPT ![call.to] = Append(@, call.what)]
      <4>. DEFINE s == Append(mail[call.to], call.what)
      <4>1. s \in Seq(Counts)
        BY <1>0, <2>2, <3>3
      <4>2. mail' = [mail EXCEPT ![call.to] = s]
        BY <3>3
      <4>. HIDE DEF s
      <4>. QED
        BY <1>0, <2>2, <4>1, <4>2
    <3>. QED
      BY <3>1, <3>2, <3>3
  <2>6. phase' \in [Pipeline -> {"started", "draining", "stopped", "completing", "completed"}]
    BY <1>0, <1>1, <2>2, MakeCallFacts
  <2>7. completedCallsRequired' \in Int
    <3>1. completedCallsRequired' \in {completedCallsRequired, 0, completedCallsRequired - 1}
      BY <1>1, MakeCallFacts
    <3>. QED
      BY <1>0, <3>1
  <2>8. Change(t, todo) \/ \E a \in Pipeline : Change(t, <<AwaitCompletion(a)>> \o todo)
    BY <1>1, <2>2, MakeCallFacts, ActorFacts
  <2>9. calls' \in [Threads -> Seq(CallRecord)]
    BY <1>1, <2>3, <2>4, <2>8, ChangeFacts
  <2>. QED
    BY <1>0, <2>1, <2>5, <2>6, <2>7, <2>9 DEF MapReduceTypeOK, Rest
<1>2. ASSUME NEW a \in Pipeline, ActorStep(a)
      PROVE  MapReduceTypeOK'
  <2>1. CASE TakeMessage(a, Function(a))
    <3>1. Function(a) \in Seq(CallRecord)
      <4>1. ProcessBook \in Seq(CallRecord)
        <5>1. \A k \in 1..FullBatches : Schedule(MapperOf(k), Batch(k)) \in CallRecord
          BY MapperOfFacts, ActorFacts, NewCallFacts, CountsFacts
        <5>. QED
          BY <5>1, FullBatchesFacts DEF ProcessBook
      <4>. QED
        BY <4>1 DEF Function
    <3>2. calls' \in [Threads -> Seq(CallRecord)]
      BY <1>0, <2>1, <3>1, ThreadFacts DEF TakeMessage
    <3>. QED
      BY <1>0, <1>2, <2>1, <3>2 DEF TakeMessage, ActorStep, MessageDone, CountWords, MapReduceTypeOK
  <2>2. CASE MessageDone(a) /\ CountWords(a)
    <3>1. mail[a] # <<>> /\ mail[a] \in Seq(Counts)
      BY <1>0, <2>2 DEF MessageDone, PhaseSound, PhaseFits
    <3>2. Head(mail[a]) \in Counts /\ Tail(mail[a]) \in Seq(Counts)
      BY <3>1, TailFacts
    <3>3. dictionary' \in [Mappers \cup {Reducer} -> Counts]
      <4>1. CASE a \in Mappers \cup {Reducer}
        <5>1. [l \in 1..Lines |-> dictionary[a][l] + Head(mail[a])[l]] \in Counts
          <6>. DEFINE d == dictionary[a]
                      h == Head(mail[a])
          <6>1. d \in Counts /\ h \in Counts
            BY <1>0, <3>2, <4>1
          <6>. HIDE DEF d, h
          <6>2. [l \in 1..Lines |-> d[l] + h[l]] \in Counts
            BY <6>1 DEF Counts
          <6>. QED
            BY <6>2 DEF d, h
        <5>. QED
          BY <1>0, <2>2, <4>1, <5>1 DEF CountWords
      <4>2. CASE a \notin Mappers \cup {Reducer}
        BY <1>0, <2>2, <4>2 DEF CountWords
      <4>. QED
        BY <4>1, <4>2
    <3>4. handled' \in [Pipeline -> Seq(Counts)] /\ mail' \in [Pipeline -> Seq(Counts)]
      BY <1>0, <2>2, <3>2 DEF MessageDone
    <3>. QED
      BY <1>0, <1>2, <2>2, <3>3, <3>4 DEF MessageDone, ActorStep, MapReduceTypeOK
  <2>3. CASE Drained(a) /\ UNCHANGED dictionary
    BY <1>0, <1>2, <2>3 DEF Drained, ActorStep, MapReduceTypeOK
  <2>4. CASE OnCompleted(a, CompletedCalls(a)) /\ UNCHANGED dictionary
    <3>1. CompletedCalls(a) \in Seq(CallRecord)
      BY <2>4, CompletedCallsFacts DEF OnCompleted
    <3>2. calls' \in [Threads -> Seq(CallRecord)]
      BY <1>0, <2>4, <3>1, ThreadFacts DEF OnCompleted
    <3>3. phase' \in [Pipeline -> {"started", "draining", "stopped", "completing", "completed"}]
      BY <1>0, <2>4 DEF OnCompleted
    <3>. QED
      BY <1>0, <1>2, <2>4, <3>2, <3>3 DEF OnCompleted, ActorStep, MapReduceTypeOK
  <2>5. CASE OnCompletedDone(a) /\ UNCHANGED dictionary
    BY <1>0, <1>2, <2>5 DEF OnCompletedDone, ActorStep, MapReduceTypeOK
  <2>. QED
    BY <1>2, <2>1, <2>2, <2>3, <2>4, <2>5 DEF ActorStep
<1>. QED
  BY <1>1, <1>2 DEF MapReduceNext

-----------------------------------------------------------------------------
(* Who else has the calls it had.                                          *)
LEMMA MainChange ==
  ASSUME MapReduceTypeOK, NEW todo, Change(Main, todo)
  PROVE  /\ calls'[Main] = todo
         /\ \A a \in Pipeline : /\ calls'[Handler(a)] = calls[Handler(a)]
                               /\ calls'[Completed(a)] = calls[Completed(a)]
BY ChangeFacts, ThreadFacts

LEMMA HandlerChange ==
  ASSUME MapReduceTypeOK, NEW a \in Pipeline, NEW todo, Change(Handler(a), todo)
  PROVE  /\ calls'[Main] = calls[Main] /\ calls'[Handler(a)] = todo
         /\ \A b \in Pipeline : /\ b # a => calls'[Handler(b)] = calls[Handler(b)]
                               /\ calls'[Completed(b)] = calls[Completed(b)]
BY ChangeFacts, ThreadFacts

LEMMA CompletedChange ==
  ASSUME MapReduceTypeOK, NEW a \in Pipeline, NEW todo, Change(Completed(a), todo)
  PROVE  /\ calls'[Main] = calls[Main] /\ calls'[Completed(a)] = todo
         /\ \A b \in Pipeline : /\ b # a => calls'[Completed(b)] = calls[Completed(b)]
                               /\ calls'[Handler(b)] = calls[Handler(b)]
BY ChangeFacts, ThreadFacts

(* What a stage's step is, of what it does to calls and phase.             *)
LEMMA ParserCallsFacts ==
  ASSUME MapReduceTypeOK, NEW m \in Mappers, ParserCalls(m)
  PROVE  /\ \E todo : Change(Completed(Parser), todo)
         /\ phase' = phase \/ (phase[m] = "started" /\
                               phase' = [phase EXCEPT ![m] = "draining"])
         /\ \A a \in Pipeline : a # m => phase'[a] = phase[a]
         /\ phase[Parser] = "completing" /\ phase'[Parser] = "completing"
         /\ UNCHANGED <<Rest, mail, completedCallsRequired>>
BY ActorFacts DEF ParserCalls, IsTold, HasDone, MapReduceTypeOK

LEMMA MapperCallsFacts ==
  ASSUME MapReduceTypeOK, NEW m \in Mappers, MapperCalls(m)
  PROVE  /\ \E todo : Change(Completed(m), todo)
         /\ phase' = phase \/ phase' = [phase EXCEPT ![Reducer] = "draining"]
         /\ \A a \in Pipeline : a # Reducer => phase'[a] = phase[a]
         /\ phase[m] = "completing" /\ phase'[m] = "completing"
         /\ UNCHANGED <<Rest>>
BY ActorFacts DEF MapperCalls, Sends, ReducerCountsDown, Completes, Awaited, MapReduceTypeOK

LEMMA ReducerCallsFacts ==
  ASSUME MapReduceTypeOK, ReducerCalls
  PROVE  /\ \E todo : Change(Completed(Reducer), todo)
         /\ phase' = phase \/ phase' = [phase EXCEPT ![Writer] = "draining"]
         /\ \A a \in Pipeline : a # Writer => phase'[a] = phase[a]
         /\ phase[Reducer] = "completing" /\ phase'[Reducer] = "completing"
         /\ UNCHANGED <<Rest, completedCallsRequired>>
BY ActorFacts DEF ReducerCalls, Sends, Completes, Awaited, MapReduceTypeOK

(* And of an actor's, of what it does to phase and calls.                  *)
LEMMA ActorStepFacts ==
  ASSUME MapReduceTypeOK, NEW a \in Pipeline, ActorStep(a)
  PROVE  /\ calls'[Main] = calls[Main]
         /\ \A b \in Pipeline : b # a => /\ calls'[Handler(b)] = calls[Handler(b)]
                                        /\ calls'[Completed(b)] = calls[Completed(b)]
                                        /\ phase'[b] = phase[b]
                                        /\ mail'[b] = mail[b] /\ handled'[b] = handled[b]
                                        /\ (b \in busy' <=> b \in busy)
         /\ phase'[a] = phase[a] \/ <<phase[a], phase'[a]>> \in
              {<<"draining", "stopped">>, <<"stopped", "completing">>, <<"completing", "completed">>}
         /\ UNCHANGED completedCallsRequired
<1>0. /\ mail \in [Pipeline -> Seq(Counts)] /\ handled \in [Pipeline -> Seq(Counts)]
      /\ phase \in [Pipeline -> {"started", "draining", "stopped", "completing", "completed"}]
      /\ calls \in [Threads -> Seq(CallRecord)]
  BY DEF MapReduceTypeOK
<1>1. CASE TakeMessage(a, Function(a))
  <2>1. Change(Handler(a), Function(a)) /\ busy' = busy \cup {a}
        /\ UNCHANGED <<mail, handled, phase>>
    BY <1>1 DEF TakeMessage, Change
  <2>. QED
    BY <1>0, <2>1, HandlerChange DEF ActorStep
<1>2. CASE MessageDone(a)
  BY <1>0, <1>2 DEF MessageDone, ActorStep
<1>3. CASE Drained(a)
  BY <1>0, <1>3 DEF Drained, ActorStep
<1>4. CASE OnCompleted(a, CompletedCalls(a))
  <2>1. Change(Completed(a), CompletedCalls(a)) /\ phase[a] = "stopped"
        /\ phase' = [phase EXCEPT ![a] = "completing"] /\ UNCHANGED <<mail, handled, busy>>
    BY <1>4 DEF OnCompleted, Change
  <2>. QED
    BY <1>0, <2>1, CompletedChange DEF ActorStep
<1>5. CASE OnCompletedDone(a)
  BY <1>0, <1>5 DEF OnCompletedDone, ActorStep
<1>. QED
  BY <1>1, <1>2, <1>3, <1>4, <1>5 DEF ActorStep

-----------------------------------------------------------------------------
(* Where Run is.                                                           *)
LEMMA MainKept ==
  ASSUME MainSound, calls'[Main] = calls[Main],
         phase'[Parser] = phase[Parser] \/ (phase[Parser] \notin {"started", "completed"} /\
                                            phase'[Parser] # "started")
  PROVE  MainSound'
BY RunFacts DEF MainSound

LEMMA RunsDiffer ==
  /\ Head(Run).op = "schedule" /\ Head(Tail(Run)).op = "awaitFirst"
  /\ Head(Tail(Tail(Run))).op = "complete" /\ Head(InComplete).op = "awaitCompletion"
  /\ Run # Tail(Run) /\ Run # Tail(Tail(Run)) /\ Tail(Run) # Tail(Tail(Run))
  /\ InComplete \notin BeforeComplete
<1>1. /\ Head(Run).op = "schedule" /\ Head(Tail(Run)).op = "awaitFirst"
      /\ Head(Tail(Tail(Run))).op = "complete" /\ Head(InComplete).op = "awaitCompletion"
  <2>1. /\ Schedule(Parser, Book).op = "schedule" /\ AwaitFirst(Parser).op = "awaitFirst"
        /\ CompleteCall(Parser).op = "complete"
        /\ AwaitCompletion(Parser).op = "awaitCompletion"
    BY DEF Schedule, AwaitFirst, CompleteCall, AwaitCompletion, NewCall
  <2>. QED
    BY <2>1, RunFacts, Zenon
<1>. QED
  BY <1>1 DEF BeforeComplete

LEMMA MainSoundStep ==
  ASSUME MapReduceInv, MapReduceNext
  PROVE  MainSound'
<1>. USE DEF MapReduceInv
<1>0. /\ Parser \in Pipeline /\ Parser \notin Mappers /\ Reducer # Parser /\ Writer # Parser
      /\ Mappers \subseteq Pipeline /\ Reducer \in Pipeline
  BY ActorFacts
<1>1. CASE BookSent
  <2>1. calls'[Main] = Tail(Run) /\ phase' = phase
    BY <1>1, MainChange DEF BookSent
  <2>. QED
    BY <1>1, <2>1 DEF MainSound, BeforeComplete, BookSent
<1>2. CASE FirstDone
  <2>1. calls'[Main] = Tail(Tail(Run)) /\ phase' = phase /\ phase[Parser] = "started"
    BY <1>2, MainChange DEF FirstDone, MainSound, BeforeComplete
  <2>. QED
    BY <2>1 DEF MainSound, BeforeComplete
<1>3. CASE ParserTold
  <2>1. calls'[Main] = InComplete /\ phase'[Parser] = "draining"
    BY <1>0, <1>3, MainChange DEF ParserTold, MapReduceTypeOK
  <2>. QED
    BY <2>1, RunsDiffer DEF MainSound
<1>4. CASE MainGoesOn
  <2>1. PICK todo \in Seq(CallRecord) :
          /\ \A n \in 1..Len(todo) : todo[n].op \in {"awaitCompletion", "destroy"}
          /\ Change(Main, todo)
    BY <1>4 DEF MainGoesOn
  <2>2. calls'[Main] = todo /\ phase'[Parser] = "completed"
    BY <1>4, <2>1, MainChange DEF MainGoesOn
  <2>3. todo \notin BeforeComplete
    <3>1. \A s \in BeforeComplete : /\ s \in Seq(CallRecord) /\ s # <<>>
                                   /\ Head(s).op \in {"schedule", "awaitFirst", "complete"}
      <4>. DEFINE r == Run
                  r1 == Tail(Run)
                  r2 == Tail(Tail(Run))
      <4>1. /\ r \in Seq(CallRecord) /\ r # <<>> /\ Head(r).op = "schedule"
            /\ r1 \in Seq(CallRecord) /\ r1 # <<>> /\ Head(r1).op = "awaitFirst"
            /\ r2 \in Seq(CallRecord) /\ r2 # <<>> /\ Head(r2).op = "complete"
        BY RunFacts, RunsDiffer
      <4>2. BeforeComplete = {r, r1, r2}
        BY DEF BeforeComplete
      <4>. HIDE DEF r, r1, r2
      <4>. QED
        BY <4>1, <4>2
    <3>2. todo # <<>> => Head(todo).op \in {"awaitCompletion", "destroy"}
      <4>. SUFFICES ASSUME todo # <<>> PROVE Head(todo).op \in {"awaitCompletion", "destroy"}
        OBVIOUS
      <4>1. Head(todo) = todo[1] /\ 1 \in 1..Len(todo)
        BY TailFacts
      <4>. QED
        BY <2>1, <4>1
    <3>. QED
      BY <3>1, <3>2
  <2>. QED
    BY <2>1, <2>2, <2>3 DEF MainSound
<1>5. ASSUME NEW k \in 1..FullBatches, BatchSent(k)
      PROVE  MainSound'
  <2>1. calls'[Main] = calls[Main] /\ phase' = phase
    BY <1>0, <1>5, HandlerChange DEF BatchSent
  <2>. QED
    BY <2>1, MainKept
<1>6. ASSUME NEW m \in Mappers, ParserCalls(m) \/ MapperCalls(m)
      PROVE  MainSound'
  <2>1. calls'[Main] = calls[Main] /\ phase'[Parser] = phase[Parser]
    BY <1>0, <1>6, ParserCallsFacts, MapperCallsFacts, CompletedChange
  <2>. QED
    BY <2>1, MainKept
<1>7. CASE ReducerCalls
  <2>1. calls'[Main] = calls[Main] /\ phase'[Parser] = phase[Parser]
    BY <1>0, <1>7, ReducerCallsFacts, CompletedChange
  <2>. QED
    BY <2>1, MainKept
<1>8. ASSUME NEW a \in Pipeline, ActorStep(a)
      PROVE  MainSound'
  <2>1. /\ calls'[Main] = calls[Main]
        /\ phase'[Parser] = phase[Parser] \/ (phase[Parser] \notin {"started", "completed"} /\
                                               phase'[Parser] # "started")
    BY <1>0, <1>8, ActorStepFacts
  <2>. QED
    BY <2>1, MainKept
<1>. QED
  BY <1>1, <1>2, <1>3, <1>4, <1>5, <1>6, <1>7, <1>8, MakeCallCases DEF MapReduceNext

-----------------------------------------------------------------------------
(* The parser's one message, and its function.                             *)
LEMMA ParserKept ==
  ASSUME ParserSound, calls'[Main] = calls[Main],
         calls'[Handler(Parser)] = calls[Handler(Parser)],
         handled'[Parser] = handled[Parser], mail'[Parser] = mail[Parser],
         phase[Parser] = "started" => phase'[Parser] = "started"
  PROVE  ParserSound'
BY DEF ParserSound

LEMMA ParserSoundStep ==
  ASSUME MapReduceInv, MapReduceNext
  PROVE  ParserSound'
<1>. USE DEF MapReduceInv
<1>0. /\ Parser \in Pipeline /\ Parser \notin Mappers /\ Reducer # Parser /\ Writer # Parser
      /\ Mappers \subseteq Pipeline /\ Reducer \in Pipeline /\ Writer \in Pipeline
  BY ActorFacts
<1>a. /\ handled[Parser] \in Seq(Counts) /\ mail[Parser] \in Seq(Counts)
      /\ mail \in [Pipeline -> Seq(Counts)] /\ handled \in [Pipeline -> Seq(Counts)]
      /\ calls[Handler(Parser)] \in Seq(CallRecord)
  BY <1>0, ThreadFacts DEF MapReduceTypeOK
<1>1. CASE BookSent
  <2>1. /\ calls'[Main] = Tail(Run) /\ calls'[Handler(Parser)] = calls[Handler(Parser)]
        /\ phase'[Parser] = "started" /\ handled' = handled
    BY <1>0, <1>1, MainChange DEF BookSent, Rest
  <2>2. Len(handled[Parser]) + Len(mail[Parser]) = 0
    BY <1>1 DEF ParserSound, BookSent
  <2>3. mail'[Parser] = Append(mail[Parser], Book) /\ Book \in Counts
    BY <1>0, <1>a, <1>1, CountsFacts DEF BookSent
  <2>4. Len(handled'[Parser]) + Len(mail'[Parser]) = 1
    BY <1>a, <2>1, <2>2, <2>3
  <2>. QED
    BY <2>1, <2>4, RunsDiffer DEF ParserSound
<1>2. CASE FirstDone
  <2>1. /\ calls'[Main] = Tail(Tail(Run)) /\ calls'[Handler(Parser)] = calls[Handler(Parser)]
        /\ UNCHANGED <<mail, handled, phase>> /\ handled[Parser] # <<>>
        /\ calls[Main] = Tail(Run)
    BY <1>0, <1>2, MainChange DEF FirstDone, Rest
  <2>. QED
    BY <2>1, RunsDiffer DEF ParserSound
<1>3. CASE ParserTold
  <2>1. /\ calls'[Main] = InComplete /\ calls'[Handler(Parser)] = calls[Handler(Parser)]
        /\ UNCHANGED <<mail, handled>> /\ calls[Main] = Tail(Tail(Run))
    BY <1>0, <1>3, MainChange DEF ParserTold, Rest
  <2>. QED
    BY <2>1, RunsDiffer DEF ParserSound, BeforeComplete
<1>4. CASE MainGoesOn
  <2>1. /\ calls'[Handler(Parser)] = calls[Handler(Parser)] /\ phase[Parser] = "completed"
        /\ UNCHANGED <<mail, handled, phase>>
    BY <1>0, <1>4, MainChange DEF MainGoesOn, Rest
  <2>2. calls[Main] \notin BeforeComplete /\ calls'[Main] \notin BeforeComplete
    BY <2>1, MainSoundStep DEF MainSound
  <2>. QED
    BY <2>1, <2>2 DEF ParserSound, BeforeComplete
<1>5. ASSUME NEW k \in 1..FullBatches, BatchSent(k)
      PROVE  ParserSound'
  <2>. DEFINE todo == calls[Handler(Parser)]
              next == Tail(todo)
  <2>1. /\ calls'[Main] = calls[Main] /\ calls'[Handler(Parser)] = next
        /\ todo # <<>> /\ UNCHANGED <<handled, phase>>
    BY <1>0, <1>5, HandlerChange DEF BatchSent, Rest
  <2>2. mail'[Parser] = mail[Parser]
    BY <1>0, <1>a, <1>5, MapperOfFacts DEF BatchSent
  <2>3. /\ next \in Seq(CallRecord) /\ Len(next) = Len(todo) - 1 /\ Len(todo) \in Nat \ {0}
        /\ \A n \in 1..Len(todo) - 1 : next[n] = todo[n + 1]
    BY <1>a, <2>1, TailFacts
  <2>4. /\ Len(todo) <= FullBatches
        /\ \A n \in 1..Len(todo) : todo[n] = ProcessBook[FullBatches - Len(todo) + n]
    BY DEF ParserSound
  <2>. HIDE DEF todo, next
  <2>5. Len(next) <= FullBatches
    BY <2>3, <2>4, FullBatchesFacts
  <2>6. \A n \in 1..Len(next) : next[n] = ProcessBook[FullBatches - Len(next) + n]
    <3>. TAKE n \in 1..Len(next)
    <3>1. /\ n \in 1..Len(todo) - 1 /\ n + 1 \in 1..Len(todo)
          /\ FullBatches - Len(todo) + (n + 1) = FullBatches - Len(next) + n
      BY <2>3, FullBatchesFacts
    <3>. QED
      BY <2>3, <2>4, <3>1
  <2>. QED
    BY <2>1, <2>2, <2>5, <2>6 DEF ParserSound
<1>6. ASSUME NEW m \in Mappers, ParserCalls(m) \/ MapperCalls(m)
      PROVE  ParserSound'
  <2>1. /\ calls'[Main] = calls[Main] /\ phase'[Parser] = phase[Parser]
        /\ calls'[Handler(Parser)] = calls[Handler(Parser)] /\ handled' = handled
    BY <1>0, <1>6, ParserCallsFacts, MapperCallsFacts, CompletedChange DEF Rest
  <2>2. mail'[Parser] = mail[Parser]
    BY <1>0, <1>a, <1>6 DEF ParserCalls, IsTold, HasDone, MapperCalls, Sends, ReducerCountsDown,
                            Completes, Awaited
  <2>. QED
    BY <2>1, <2>2, ParserKept
<1>7. CASE ReducerCalls
  <2>1. /\ calls'[Main] = calls[Main] /\ phase'[Parser] = phase[Parser]
        /\ calls'[Handler(Parser)] = calls[Handler(Parser)] /\ handled' = handled
    BY <1>0, <1>7, ReducerCallsFacts, CompletedChange DEF Rest
  <2>2. mail'[Parser] = mail[Parser]
    BY <1>0, <1>a, <1>7 DEF ReducerCalls, Sends, Completes, Awaited
  <2>. QED
    BY <2>1, <2>2, ParserKept
<1>8. ASSUME NEW a \in Pipeline, a # Parser, ActorStep(a)
      PROVE  ParserSound'
  <2>1. /\ calls'[Main] = calls[Main] /\ calls'[Handler(Parser)] = calls[Handler(Parser)]
        /\ phase'[Parser] = phase[Parser] /\ mail'[Parser] = mail[Parser]
        /\ handled'[Parser] = handled[Parser]
    BY <1>0, <1>8, ActorStepFacts
  <2>. QED
    BY <2>1, ParserKept
<1>9. CASE ActorStep(Parser)
  <2>1. calls'[Main] = calls[Main] /\ (phase[Parser] = "started" => phase'[Parser] = "started")
    BY <1>0, <1>9, ActorStepFacts
  <2>2. CASE TakeMessage(Parser, Function(Parser))
    <3>1. calls'[Handler(Parser)] = ProcessBook /\ UNCHANGED <<mail, handled>>
      BY <1>0, <2>2, HandlerChange DEF TakeMessage, Change, Function
    <3>2. Len(ProcessBook) = FullBatches
      BY FullBatchesFacts DEF ProcessBook
    <3>. DEFINE book == ProcessBook
    <3>3. \A n \in 1..Len(book) : FullBatches - Len(book) + n = n
      BY <3>2, FullBatchesFacts
    <3>. HIDE DEF book
    <3>4. Len(book) <= FullBatches /\ \A n \in 1..Len(book) : book[n] = book[FullBatches - Len(book) + n]
      BY <3>2, <3>3, FullBatchesFacts DEF book
    <3>. QED
      BY <2>1, <3>1, <3>4 DEF ParserSound, book
  <2>3. CASE MessageDone(Parser)
    <3>1. mail[Parser] # <<>>
      BY <1>0, <2>3 DEF MessageDone, PhaseSound, PhaseFits
    <3>2. /\ handled'[Parser] = Append(handled[Parser], Head(mail[Parser]))
          /\ mail'[Parser] = Tail(mail[Parser]) /\ UNCHANGED <<calls, phase>>
      BY <1>0, <1>a, <2>3 DEF MessageDone
    <3>3. Head(mail[Parser]) \in Counts /\ Len(mail[Parser]) \in Nat
          /\ Len(Tail(mail[Parser])) = Len(mail[Parser]) - 1
      BY <1>a, <3>1, TailFacts
    <3>. DEFINE h == handled[Parser]
                q == mail[Parser]
                c == Head(q)
    <3>4. h \in Seq(Counts) /\ c \in Counts
      BY <1>a, <3>3
    <3>5. Len(Append(h, c)) = Len(h) + 1 /\ Append(h, c) # <<>> /\ Len(h) \in Nat
      <4>. HIDE DEF h, c
      <4>. QED
        BY <3>4, AppendProperties
    <3>6. Len(Append(h, c)) + Len(Tail(q)) = Len(h) + Len(q)
      <4>. DEFINE i == Len(h)
                  j == Len(q)
                  k == Len(Append(h, c))
                  l == Len(Tail(q))
      <4>1. i \in Nat /\ j \in Nat /\ k = i + 1 /\ l = j - 1
        BY <3>3, <3>5
      <4>. HIDE DEF i, j, k, l
      <4>2. k + l = i + j
        BY <4>1
      <4>. QED
        BY <4>2 DEF i, j, k, l
    <3>. QED
      BY <3>2, <3>5, <3>6 DEF ParserSound
  <2>4. CASE Drained(Parser) \/ OnCompleted(Parser, CompletedCalls(Parser)) \/ OnCompletedDone(Parser)
    <3>1. /\ calls'[Handler(Parser)] = calls[Handler(Parser)]
          /\ UNCHANGED <<mail, handled>>
      BY <1>0, <2>4, CompletedChange DEF Drained, OnCompleted, OnCompletedDone, Change
    <3>. QED
      BY <2>1, <3>1, ParserKept
  <2>. QED
    BY <1>9, <2>2, <2>3, <2>4 DEF ActorStep
<1>. QED
  BY <1>1, <1>2, <1>3, <1>4, <1>5, <1>6, <1>7, <1>8, <1>9, MakeCallCases DEF MapReduceNext

-----------------------------------------------------------------------------
(* What the phase of an actor says of its queue and its calls.             *)
LEMMA PhaseKept ==
  ASSUME NEW a \in Pipeline, PhaseFits(a),
         busy' = busy, mail'[a] = mail[a] \/ (mail'[a] # <<>> /\ phase'[a] = "started"),
         phase'[a] = phase[a] \/ (phase[a] = "started" /\ phase'[a] = "draining"),
         calls'[Handler(a)] = calls[Handler(a)] \/ (a = Parser /\ a \in busy),
         calls'[Completed(a)] = calls[Completed(a)]
           \/ (phase[a] = "completing" /\ phase'[a] = "completing" /\ a # Writer)
  PROVE  PhaseFits(a)'
BY DEF PhaseFits

LEMMA AppendIsNotEmpty ==
  ASSUME NEW S, NEW s \in Seq(S), NEW c \in S
  PROVE  Append(s, c) # <<>>
BY AppendProperties

LEMMA PhaseSoundStep ==
  ASSUME MapReduceInv, MapReduceNext
  PROVE  PhaseSound'
<1>. USE DEF MapReduceInv
<1>. SUFFICES ASSUME NEW b \in Pipeline PROVE PhaseFits(b)'
  BY DEF PhaseSound
<1>0. /\ Parser \in Pipeline /\ Parser \notin Mappers /\ Reducer # Parser /\ Writer # Parser
      /\ Mappers \subseteq Pipeline /\ Reducer \in Pipeline /\ Writer \in Pipeline
      /\ Reducer \notin Mappers /\ Writer \notin Mappers /\ Reducer # Writer
  BY ActorFacts
<1>a. /\ mail \in [Pipeline -> Seq(Counts)] /\ handled \in [Pipeline -> Seq(Counts)]
      /\ phase \in [Pipeline -> {"started", "draining", "stopped", "completing", "completed"}]
      /\ calls \in [Threads -> Seq(CallRecord)] /\ PhaseFits(b)
  BY DEF MapReduceTypeOK, PhaseSound
<1>b. ASSUME NEW to \in Pipeline, NEW c \in Counts, mail' = [mail EXCEPT ![to] = Append(@, c)],
             phase[to] = "started", phase' = phase
      PROVE  mail'[b] = mail[b] \/ (mail'[b] # <<>> /\ phase'[b] = "started")
  <2>1. mail[to] \in Seq(Counts)
    BY <1>a
  <2>2. Append(mail[to], c) # <<>>
    BY <2>1, AppendIsNotEmpty
  <2>. QED
    BY <1>a, <1>b, <2>2
<1>1. CASE BookSent
  <2>1. /\ calls'[Handler(b)] = calls[Handler(b)] /\ calls'[Completed(b)] = calls[Completed(b)]
        /\ phase' = phase /\ busy' = busy
    BY <1>1, MainChange DEF BookSent, Rest
  <2>2. mail'[b] = mail[b] \/ (mail'[b] # <<>> /\ phase'[b] = "started")
    BY <1>0, <1>1, <1>b, CountsFacts DEF BookSent
  <2>. QED
    BY <1>a, <2>1, <2>2, PhaseKept
<1>2. CASE FirstDone \/ ParserTold \/ MainGoesOn
  <2>1. /\ calls'[Handler(b)] = calls[Handler(b)] /\ calls'[Completed(b)] = calls[Completed(b)]
        /\ mail' = mail /\ busy' = busy
    BY <1>2, MainChange DEF FirstDone, ParserTold, MainGoesOn, Rest
  <2>2. phase'[b] = phase[b] \/ (phase[b] = "started" /\ phase'[b] = "draining")
    BY <1>0, <1>a, <1>2 DEF FirstDone, ParserTold, MainGoesOn
  <2>. QED
    BY <1>a, <2>1, <2>2, PhaseKept
<1>3. ASSUME NEW k \in 1..FullBatches, BatchSent(k)
      PROVE  PhaseFits(b)'
  <2>1. /\ calls'[Handler(b)] = calls[Handler(b)] \/ (b = Parser /\ b \in busy)
        /\ calls'[Completed(b)] = calls[Completed(b)]
        /\ phase' = phase /\ busy' = busy
    BY <1>0, <1>3, HandlerChange DEF BatchSent, Rest
  <2>2. mail'[b] = mail[b] \/ (mail'[b] # <<>> /\ phase'[b] = "started")
    <3>1. MapperOf(k) \in Pipeline /\ Batch(k) \in Counts
      BY <1>0, MapperOfFacts, CountsFacts
    <3>. QED
      BY <1>3, <1>b, <3>1 DEF BatchSent
  <2>. QED
    BY <1>a, <2>1, <2>2, PhaseKept
<1>4. ASSUME NEW m \in Mappers, ParserCalls(m)
      PROVE  PhaseFits(b)'
  <2>1. /\ calls'[Handler(b)] = calls[Handler(b)]
        /\ b = Parser \/ calls'[Completed(b)] = calls[Completed(b)]
        /\ phase[Parser] = "completing" /\ phase'[Parser] = "completing"
        /\ busy' = busy /\ mail' = mail
    BY <1>0, <1>4, ParserCallsFacts, CompletedChange DEF Rest
  <2>2. phase'[b] = phase[b] \/ (phase[b] = "started" /\ phase'[b] = "draining")
    BY <1>0, <1>a, <1>4, ParserCallsFacts
  <2>. QED
    BY <1>0, <1>a, <2>1, <2>2, PhaseKept
<1>5. ASSUME NEW m \in Mappers, MapperCalls(m)
      PROVE  PhaseFits(b)'
  <2>1. /\ calls'[Handler(b)] = calls[Handler(b)]
        /\ b = m \/ calls'[Completed(b)] = calls[Completed(b)]
        /\ phase[m] = "completing" /\ phase'[m] = "completing" /\ busy' = busy
    BY <1>0, <1>5, MapperCallsFacts, CompletedChange DEF Rest
  <2>2. mail'[b] = mail[b] \/ (mail'[b] # <<>> /\ phase'[b] = "started")
    <3>1. CASE Sends(m, Reducer, Share(m))
      BY <1>0, <1>b, <3>1, CountsFacts DEF Sends
    <3>2. CASE ~Sends(m, Reducer, Share(m))
      BY <1>5, <3>2 DEF MapperCalls, ReducerCountsDown, Awaited, Completes
    <3>. QED
      BY <3>1, <3>2
  <2>3. phase'[b] = phase[b] \/ (phase[b] = "started" /\ phase'[b] = "draining")
    BY <1>0, <1>a, <1>5 DEF MapperCalls, Sends, ReducerCountsDown, Awaited, Completes
  <2>. QED
    BY <1>0, <1>a, <2>1, <2>2, <2>3, PhaseKept
<1>6. CASE ReducerCalls
  <2>1. /\ calls'[Handler(b)] = calls[Handler(b)]
        /\ b = Reducer \/ calls'[Completed(b)] = calls[Completed(b)]
        /\ phase[Reducer] = "completing" /\ phase'[Reducer] = "completing" /\ busy' = busy
    BY <1>0, <1>6, ReducerCallsFacts, CompletedChange DEF Rest
  <2>2. mail'[b] = mail[b] \/ (mail'[b] # <<>> /\ phase'[b] = "started")
    <3>1. CASE Sends(Reducer, Writer, Whole)
      BY <1>0, <1>b, <3>1, CountsFacts DEF Sends
    <3>2. CASE ~Sends(Reducer, Writer, Whole)
      BY <1>6, <3>2 DEF ReducerCalls, Awaited, Completes
    <3>. QED
      BY <3>1, <3>2
  <2>3. phase'[b] = phase[b] \/ (phase[b] = "started" /\ phase'[b] = "draining")
    BY <1>0, <1>a, <1>6 DEF ReducerCalls, Sends, Awaited, Completes
  <2>. QED
    BY <1>0, <1>a, <2>1, <2>2, <2>3, PhaseKept
<1>7. ASSUME NEW a \in Pipeline, a # b, ActorStep(a)
      PROVE  PhaseFits(b)'
  <2>1. /\ calls'[Handler(b)] = calls[Handler(b)] /\ calls'[Completed(b)] = calls[Completed(b)]
        /\ phase'[b] = phase[b] /\ mail'[b] = mail[b] /\ (b \in busy' <=> b \in busy)
    BY <1>7, ActorStepFacts
  <2>. QED
    BY <1>a, <2>1 DEF PhaseFits
<1>8. CASE ActorStep(b)
  <2>1. CASE TakeMessage(b, Function(b))
    <3>1. /\ calls'[Handler(b)] = Function(b) /\ calls'[Completed(b)] = calls[Completed(b)]
          /\ mail[b] # <<>> /\ b \in busy' /\ UNCHANGED <<mail, phase>>
      BY <2>1, HandlerChange DEF TakeMessage, Change
    <3>. QED
      BY <1>a, <3>1 DEF PhaseFits, Function
  <2>2. CASE MessageDone(b)
    <3>1. /\ calls[Handler(b)] = <<>> /\ mail[b] # <<>> /\ b \notin busy'
          /\ UNCHANGED <<calls, phase>>
      BY <1>a, <2>2 DEF MessageDone, PhaseFits
    <3>. QED
      BY <1>a, <3>1 DEF PhaseFits
  <2>3. CASE Drained(b)
    <3>1. phase[b] = "draining" /\ phase'[b] = "stopped" /\ mail[b] = <<>>
          /\ UNCHANGED <<mail, busy, calls>>
      BY <1>a, <2>3 DEF Drained
    <3>. QED
      BY <1>a, <3>1 DEF PhaseFits
  <2>4. CASE OnCompleted(b, CompletedCalls(b))
    <3>1. /\ calls'[Completed(b)] = CompletedCalls(b) /\ calls'[Handler(b)] = calls[Handler(b)]
          /\ phase[b] = "stopped" /\ phase'[b] = "completing" /\ UNCHANGED <<mail, busy>>
      BY <1>a, <2>4, CompletedChange DEF OnCompleted, Change
    <3>2. b = Writer => CompletedCalls(b) = <<>>
      BY <3>1, CompletedCallsFacts
    <3>. QED
      BY <1>a, <3>1, <3>2 DEF PhaseFits
  <2>5. CASE OnCompletedDone(b)
    <3>1. /\ phase[b] = "completing" /\ phase'[b] = "completed" /\ calls[Completed(b)] = <<>>
          /\ UNCHANGED <<mail, busy, calls>>
      BY <1>a, <2>5 DEF OnCompletedDone
    <3>. QED
      BY <1>a, <3>1 DEF PhaseFits
  <2>. QED
    BY <1>8, <2>1, <2>2, <2>3, <2>4, <2>5 DEF ActorStep
<1>. QED
  BY <1>1, <1>2, <1>3, <1>4, <1>5, <1>6, <1>7, <1>8, MakeCallCases DEF MapReduceNext

-----------------------------------------------------------------------------
(* Whose step changes the phase of an actor, or what its OnCompleted has   *)
(* still to call.                                                          *)
LEMMA CompletedMoves ==
  ASSUME MapReduceInv, MapReduceNext, NEW a \in Pipeline
  PROVE  \/ calls'[Completed(a)] = calls[Completed(a)]
         \/ a = Parser /\ \E m \in Mappers : ParserCalls(m)
         \/ a \in Mappers /\ MapperCalls(a)
         \/ a = Reducer /\ ReducerCalls
         \/ /\ phase[a] = "stopped" /\ phase'[a] = "completing"
            /\ calls'[Completed(a)] = CompletedCalls(a) /\ ActorStep(a)
<1>. USE DEF MapReduceInv
<1>0. Parser \in Pipeline /\ Reducer \in Pipeline /\ Mappers \subseteq Pipeline
  BY ActorFacts
<1>1. CASE BookSent \/ FirstDone \/ ParserTold \/ MainGoesOn
  BY <1>1, MainChange DEF BookSent, FirstDone, ParserTold, MainGoesOn
<1>2. ASSUME NEW k \in 1..FullBatches, BatchSent(k)
      PROVE  calls'[Completed(a)] = calls[Completed(a)]
  BY <1>0, <1>2, HandlerChange DEF BatchSent
<1>3. ASSUME NEW m \in Mappers, ParserCalls(m)
      PROVE  calls'[Completed(a)] = calls[Completed(a)] \/ a = Parser
  BY <1>0, <1>3, ParserCallsFacts, CompletedChange
<1>4. ASSUME NEW m \in Mappers, MapperCalls(m)
      PROVE  calls'[Completed(a)] = calls[Completed(a)] \/ a = m
  BY <1>0, <1>4, MapperCallsFacts, CompletedChange
<1>5. CASE ReducerCalls
  BY <1>0, <1>5, ReducerCallsFacts, CompletedChange
<1>6. ASSUME NEW b \in Pipeline, b # a, ActorStep(b)
      PROVE  calls'[Completed(a)] = calls[Completed(a)]
  BY <1>6, ActorStepFacts
<1>7. CASE ActorStep(a)
  <2>1. CASE OnCompleted(a, CompletedCalls(a))
    <3>1. calls'[Completed(a)] = CompletedCalls(a)
      BY <2>1, CompletedChange DEF OnCompleted, Change
    <3>2. phase[a] = "stopped" /\ phase'[a] = "completing"
      BY <2>1 DEF OnCompleted, MapReduceTypeOK
    <3>. QED
      BY <1>7, <3>1, <3>2
  <2>2. CASE TakeMessage(a, Function(a))
    BY <2>2, HandlerChange DEF TakeMessage, Change
  <2>3. CASE MessageDone(a) \/ Drained(a) \/ OnCompletedDone(a)
    BY <2>3 DEF MessageDone, Drained, OnCompletedDone
  <2>. QED
    BY <1>7, <2>1, <2>2, <2>3 DEF ActorStep
<1>. QED
  BY <1>1, <1>2, <1>3, <1>4, <1>5, <1>6, <1>7, MakeCallCases DEF MapReduceNext

LEMMA PhaseMoves ==
  ASSUME MapReduceInv, MapReduceNext, NEW a \in Pipeline
  PROVE  \/ phase'[a] = phase[a]
         \/ /\ phase[a] = "started" /\ phase'[a] = "draining"
            /\ \/ a = Parser /\ ParserTold
               \/ a \in Mappers /\ phase[Parser] = "completing" /\ phase'[Parser] = "completing"
               \/ a = Reducer /\ \E m \in Mappers : /\ Completes(m, Reducer)
                                                    /\ completedCallsRequired = 1
                                                    /\ completedCallsRequired' = 0
               \/ a = Writer /\ Completes(Reducer, Writer)
         \/ ActorStep(a) /\ <<phase[a], phase'[a]>> \in
              {<<"draining", "stopped">>, <<"stopped", "completing">>, <<"completing", "completed">>}
<1>. USE DEF MapReduceInv
<1>0. /\ Parser \in Pipeline /\ Reducer \in Pipeline /\ Mappers \subseteq Pipeline
      /\ Writer \in Pipeline
      /\ phase \in [Pipeline -> {"started", "draining", "stopped", "completing", "completed"}]
  BY ActorFacts DEF MapReduceTypeOK
<1>1. CASE BookSent \/ FirstDone \/ ParserTold \/ MainGoesOn
  BY <1>0, <1>1 DEF BookSent, FirstDone, ParserTold, MainGoesOn
<1>2. ASSUME NEW k \in 1..FullBatches, BatchSent(k)
      PROVE  phase' = phase
  BY <1>2 DEF BatchSent
<1>3. ASSUME NEW m \in Mappers, ParserCalls(m)
      PROVE  \/ phase'[a] = phase[a]
             \/ /\ phase[a] = "started" /\ phase'[a] = "draining" /\ a \in Mappers
                /\ phase[Parser] = "completing" /\ phase'[Parser] = "completing"
  BY <1>0, <1>3, ParserCallsFacts
<1>4. ASSUME NEW m \in Mappers, MapperCalls(m)
      PROVE  \/ phase'[a] = phase[a]
             \/ /\ phase[a] = "started" /\ phase'[a] = "draining"
                /\ a = Reducer /\ Completes(m, Reducer)
                /\ completedCallsRequired = 1 /\ completedCallsRequired' = 0
  BY <1>0, <1>4 DEF MapperCalls, Sends, ReducerCountsDown, Awaited, Completes
<1>5. CASE ReducerCalls
  BY <1>0, <1>5 DEF ReducerCalls, Sends, Awaited, Completes
<1>6. ASSUME NEW b \in Pipeline, ActorStep(b)
      PROVE  \/ phase'[a] = phase[a]
             \/ ActorStep(a) /\ <<phase[a], phase'[a]>> \in
              {<<"draining", "stopped">>, <<"stopped", "completing">>, <<"completing", "completed">>}
  BY <1>6, ActorStepFacts
<1>. QED
  BY <1>1, <1>2, <1>3, <1>4, <1>5, <1>6, MakeCallCases DEF MapReduceNext

-----------------------------------------------------------------------------
(* What the stages have still to call.                                     *)
MapperMade == {CompleteCall(m) : m \in Mappers} \cup {AwaitCompletion(m) : m \in Mappers}

LEMMA ParserStageStep ==
  ASSUME MapReduceInv, MapReduceNext
  PROVE  \A n \in 1..Len(calls'[Completed(Parser)]) : calls'[Completed(Parser)][n] \in MapperMade
<1>. USE DEF MapReduceInv
<1>. DEFINE s == calls[Completed(Parser)]
            next == calls'[Completed(Parser)]
<1>0. Parser \in Pipeline /\ Completed(Parser) \in Threads
  BY ActorFacts, ThreadFacts
<1>1. s \in Seq(CallRecord) /\ \A n \in 1..Len(s) : s[n] \in MapperMade
  BY <1>0 DEF StagesSound, MapperMade, MapReduceTypeOK
<1>2. s \in Seq(MapperMade)
  <2>. HIDE DEF s
  <2>. QED
    BY <1>1, SeqDef, ElementOfSeq
<1>3. next \in Seq(MapperMade)
  <2>1. CASE next = s
    BY <1>2, <2>1
  <2>2. ASSUME NEW m \in Mappers, ParserCalls(m)
        PROVE  next \in Seq(MapperMade)
    <3>1. s # <<>> /\ (next = Tail(s) \/ next = <<AwaitCompletion(m)>> \o Tail(s))
      BY <1>0, <2>2, CompletedChange DEF ParserCalls, IsTold, HasDone
    <3>. DEFINE rest == Tail(s)
                c == AwaitCompletion(m)
    <3>2. rest \in Seq(MapperMade)
      BY <1>2, <3>1, TailFacts
    <3>3. c \in MapperMade
      BY <2>2 DEF MapperMade
    <3>. HIDE DEF rest, c, MapperMade
    <3>4. <<c>> \o rest \in Seq(MapperMade)
      BY <3>2, <3>3, OneCall
    <3>. QED
      BY <3>1, <3>2, <3>4 DEF rest, c
  <2>3. CASE phase[Parser] = "stopped" /\ next = CompletedCalls(Parser)
    <3>1. next = ParserCompleted
      BY <1>0, <2>3, CompletedCallsFacts
    <3>2. HardwareThreads \in Nat /\ \A n \in 1..HardwareThreads : Mapper(n) \in Mappers
      BY MapReduceAssumption DEF Mappers
    <3>3. \A n \in 1..HardwareThreads : CompleteCall(Mapper(n)) \in MapperMade
      BY <3>2 DEF MapperMade
    <3>4. ParserCompleted \in Seq(MapperMade)
      BY <3>2, <3>3 DEF ParserCompleted
    <3>. QED
      BY <3>1, <3>4
  <2>. QED
    BY <1>0, <2>1, <2>2, <2>3, CompletedMoves, ActorFacts
<1>. HIDE DEF next
<1>4. \A n \in 1..Len(next) : next[n] \in MapperMade
  BY <1>3, ElementOfSeq
<1>. QED
  BY <1>4 DEF next

LEMMA MapperFitsStep ==
  ASSUME MapReduceInv, MapReduceNext, NEW m \in Mappers
  PROVE  CompletedFits(m, Reducer, Share(m))'
<1>. USE DEF MapReduceInv
<1>0. m \in Pipeline /\ m # Parser /\ m # Reducer
  BY ActorFacts
<1>1. CASE calls'[Completed(m)] = calls[Completed(m)]
  BY <1>1 DEF StagesSound, CompletedFits
<1>2. CASE MapperCalls(m)
  <2>1. calls'[Completed(m)] \in {<<CompleteCall(Reducer)>>, <<AwaitCompletion(Reducer)>>, <<>>}
    BY <1>0, <1>2, CompletedChange DEF MapperCalls, Sends, ReducerCountsDown, Completes, Awaited
  <2>. QED
    BY <2>1 DEF CompletedFits
<1>3. CASE phase[m] = "stopped" /\ calls'[Completed(m)] = CompletedCalls(m)
  BY <1>0, <1>3, CompletedCallsFacts DEF CompletedFits
<1>. QED
  BY <1>0, <1>1, <1>2, <1>3, CompletedMoves

LEMMA ReducerFitsStep ==
  ASSUME MapReduceInv, MapReduceNext
  PROVE  CompletedFits(Reducer, Writer, Whole)'
<1>. USE DEF MapReduceInv
<1>0. Reducer \in Pipeline /\ Reducer # Parser /\ Reducer \notin Mappers
  BY ActorFacts
<1>1. CASE calls'[Completed(Reducer)] = calls[Completed(Reducer)]
  BY <1>1 DEF StagesSound, CompletedFits
<1>2. CASE ReducerCalls
  <2>1. calls'[Completed(Reducer)] \in {<<CompleteCall(Writer)>>, <<AwaitCompletion(Writer)>>, <<>>}
    BY <1>0, <1>2, CompletedChange DEF ReducerCalls, Sends, Completes, Awaited
  <2>. QED
    BY <2>1 DEF CompletedFits
<1>3. CASE phase[Reducer] = "stopped" /\ calls'[Completed(Reducer)] = CompletedCalls(Reducer)
  BY <1>0, <1>3, CompletedCallsFacts DEF CompletedFits
<1>. QED
  BY <1>0, <1>1, <1>2, <1>3, CompletedMoves

(* A stage that the parser has told stays told, until it has completed.    *)
LEMMA ToldKept ==
  ASSUME MapReduceInv, NEW m \in Mappers, NEW b \in Mappers, ParserCalls(b),
         ToldBy(m, Completed(Parser))
  PROVE  phase'[m] = "completed" \/ ToldBy(m, Completed(Parser))'
<1>. USE DEF MapReduceInv
<1>. DEFINE s == calls[Completed(Parser)]
            rest == Tail(s)
            c == AwaitCompletion(b)
            next == calls'[Completed(Parser)]
<1>0. Parser \in Pipeline /\ s \in Seq(CallRecord) /\ m \in Pipeline /\ b \in Pipeline
  BY ActorFacts, ThreadFacts DEF MapReduceTypeOK
<1>1. PICK n \in 1..Len(s) : s[n].to = m
  BY DEF ToldBy
<1>2. s # <<>>
  BY <1>0, <1>1
<1>3. /\ rest \in Seq(CallRecord) /\ Len(rest) = Len(s) - 1 /\ Len(s) \in Nat \ {0}
      /\ Head(s) = s[1] /\ \A i \in 1..Len(s) - 1 : rest[i] = s[i + 1]
  BY <1>0, <1>2, TailFacts
<1>4. c \in CallRecord /\ c.to = b
  BY <1>0, NewCallFacts DEF AwaitCompletion, NewCall
<1>5. CASE IsTold(b)
  <2>1. next = <<c>> \o rest /\ s[1].to = b
    <3>1. Head(s) = CompleteCall(b) /\ next = <<c>> \o rest
      BY <1>0, <1>5, CompletedChange DEF IsTold
    <3>2. CompleteCall(b).to = b
      BY DEF CompleteCall, NewCall
    <3>. QED
      BY <1>3, <3>1, <3>2
  <2>. HIDE DEF s, rest, c
  <2>2. /\ Len(<<c>> \o rest) = Len(rest) + 1 /\ (<<c>> \o rest)[1] = c
        /\ \A i \in 1..Len(rest) : (<<c>> \o rest)[i + 1] = rest[i]
    BY <1>3, <1>4, OneCall
  <2>. DEFINE u == <<c>> \o rest
  <2>3. /\ Len(u) = Len(s) /\ u[1].to = s[1].to
        /\ \A i \in 1..Len(s) - 1 : u[i + 1] = s[i + 1]
    BY <1>3, <1>4, <2>1, <2>2
  <2>. HIDE DEF u
  <2>4. u[n].to = m /\ n \in 1..Len(u)
    <3>1. CASE n = 1
      BY <1>1, <2>3, <3>1
    <3>2. CASE n # 1
      <4>1. n - 1 \in 1..Len(s) - 1 /\ (n - 1) + 1 = n
        BY <1>1, <1>3, <3>2
      <4>. QED
        BY <1>1, <2>3, <4>1
    <3>. QED
      BY <3>1, <3>2
  <2>. QED
    BY <2>1, <2>4 DEF ToldBy, u
<1>6. CASE HasDone(b)
  <2>1. next = rest /\ s[1].to = b /\ phase[b] = "completed" /\ phase' = phase
    BY <1>0, <1>3, <1>6, CompletedChange DEF HasDone, AwaitCompletion, NewCall
  <2>2. CASE n = 1
    BY <1>1, <2>1, <2>2
  <2>3. CASE n # 1
    <3>1. n - 1 \in 1..Len(rest) /\ (n - 1) + 1 = n
      BY <1>1, <1>3, <2>3
    <3>2. rest[n - 1].to = m
      BY <1>1, <1>3, <3>1
    <3>. QED
      BY <2>1, <3>1, <3>2 DEF ToldBy
  <2>. QED
    BY <2>2, <2>3
<1>. QED
  BY <1>5, <1>6 DEF ParserCalls

LEMMA MapperToldStep ==
  ASSUME MapReduceInv, MapReduceNext, NEW m \in Mappers
  PROVE  MapperTold(m)'
<1>. USE DEF MapReduceInv
<1>0. /\ m \in Pipeline /\ m # Parser /\ m # Reducer /\ m # Writer /\ Parser \in Pipeline
      /\ Parser \notin Mappers /\ Parser # Reducer /\ Parser # Writer /\ MapperTold(m)
  BY ActorFacts DEF StagesSound
<1>1. \/ phase'[Parser] = phase[Parser]
      \/ phase[Parser] = "started" /\ phase'[Parser] = "draining"
      \/ phase[Parser] = "draining" /\ phase'[Parser] = "stopped"
      \/ phase[Parser] = "stopped" /\ phase'[Parser] = "completing"
      \/ ActorStep(Parser) /\ phase[Parser] = "completing" /\ phase'[Parser] = "completed"
  BY <1>0, PhaseMoves
<1>2. phase'[m] # "started" => phase'[Parser] \in {"completing", "completed"}
  <2>1. CASE phase[m] # "started"
    BY <1>0, <1>1, <2>1 DEF MapperTold
  <2>2. CASE phase[m] = "started"
    BY <1>0, <2>2, PhaseMoves
  <2>. QED
    BY <2>1, <2>2
<1>3. phase[m] = "completed" => phase'[m] = "completed"
  BY <1>0, PhaseMoves
<1>4. phase'[Parser] = "completed" => phase'[m] = "completed"
  <2>1. CASE phase[Parser] = "completed"
    BY <1>0, <1>3, <2>1 DEF MapperTold
  <2>2. CASE ActorStep(Parser) /\ phase[Parser] = "completing" /\ phase'[Parser] = "completed"
    <3>1. OnCompletedDone(Parser)
      BY <1>0, <2>2 DEF ActorStep, TakeMessage, MessageDone, Drained, OnCompleted, OnCompletedDone
    <3>2. calls[Completed(Parser)] = <<>>
      BY <3>1 DEF OnCompletedDone
    <3>3. ~ToldBy(m, Completed(Parser))
      BY <3>2 DEF ToldBy
    <3>. QED
      BY <1>0, <1>3, <2>2, <3>3 DEF MapperTold
  <2>. QED
    BY <1>1, <2>1, <2>2
<1>5. phase'[Parser] = "completing" => phase'[m] = "completed" \/ ToldBy(m, Completed(Parser))'
  <2>. SUFFICES ASSUME phase'[Parser] = "completing"
                PROVE  phase'[m] = "completed" \/ ToldBy(m, Completed(Parser))'
    OBVIOUS
  <2>1. CASE phase[Parser] = "completing"
    <3>1. phase[m] = "completed" \/ ToldBy(m, Completed(Parser))
      BY <1>0, <2>1 DEF MapperTold
    <3>2. CASE calls'[Completed(Parser)] = calls[Completed(Parser)]
      BY <1>3, <3>1, <3>2 DEF ToldBy
    <3>3. ASSUME NEW b \in Mappers, ParserCalls(b)
          PROVE  phase'[m] = "completed" \/ ToldBy(m, Completed(Parser))'
      BY <1>3, <3>1, <3>3, ToldKept
    <3>. QED
      BY <1>0, <2>1, <3>2, <3>3, CompletedMoves
  <2>2. CASE phase[Parser] = "stopped"
    <3>1. calls'[Completed(Parser)] = CompletedCalls(Parser)
      <4>1. ActorStep(Parser)
        BY <1>0, <2>2, PhaseMoves
      <4>2. OnCompleted(Parser, CompletedCalls(Parser))
        BY <1>0, <2>2, <4>1
          DEF ActorStep, TakeMessage, MessageDone, Drained, OnCompleted, OnCompletedDone
      <4>. QED
        BY <1>0, <4>2, CompletedChange DEF OnCompleted, Change
    <3>2. CompletedCalls(Parser) = ParserCompleted
      BY <1>0, <2>2, CompletedCallsFacts
    <3>3. PICK n \in 1..HardwareThreads : m = Mapper(n)
      BY DEF Mappers
    <3>4. ParserCompleted[n].to = m /\ n \in 1..Len(ParserCompleted)
      <4>1. Len(ParserCompleted) = HardwareThreads /\ ParserCompleted[n] = CompleteCall(Mapper(n))
        BY MapReduceAssumption DEF ParserCompleted
      <4>. QED
        BY <3>3, <4>1 DEF CompleteCall, NewCall
    <3>. QED
      BY <3>1, <3>2, <3>4 DEF ToldBy
  <2>. QED
    BY <1>1, <2>1, <2>2
<1>. QED
  BY <1>2, <1>4, <1>5 DEF MapperTold

LEMMA StagesSoundStep ==
  ASSUME MapReduceInv, MapReduceNext
  PROVE  StagesSound'
BY ParserStageStep, MapperToldStep, MapperFitsStep, ReducerFitsStep DEF StagesSound, MapperMade

-----------------------------------------------------------------------------
(* A stage sends what it has, completes the next, and waits for it.        *)
NextStage(a) == IF a = Reducer THEN Writer ELSE Reducer
Output(a) == IF a = Reducer THEN Whole ELSE Share(a)

StageCalls(a) ==
  \/ Sends(a, NextStage(a), Output(a)) \/ Awaited(a, NextStage(a))
  \/ Completes(a, NextStage(a)) \/ (a # Reducer /\ ReducerCountsDown(a))

LEMMA StageCallsFacts ==
  ASSUME MapReduceInv, MapReduceNext, NEW a \in Mappers \cup {Reducer}
  PROVE  \/ /\ calls'[Completed(a)] = calls[Completed(a)]
            /\ \/ phase'[a] = phase[a]
               \/ {phase[a], phase'[a]} \subseteq {"started", "draining", "stopped"}
               \/ /\ phase[a] = "completing" /\ phase'[a] = "completed"
                  /\ calls[Completed(a)] = <<>>
         \/ StageCalls(a) /\ phase[a] = "completing" /\ phase'[a] = "completing"
         \/ /\ phase[a] = "stopped" /\ phase'[a] = "completing"
            /\ calls'[Completed(a)] =
                 <<Schedule(NextStage(a), Output(a)), CompleteCall(NextStage(a))>>
<1>. USE DEF MapReduceInv
<1>0. /\ a \in Pipeline /\ a # Parser /\ a # Writer /\ (a \in Mappers => a # Reducer)
      /\ Reducer \in Pipeline
  BY ActorFacts
<1>1. CASE calls'[Completed(a)] = calls[Completed(a)]
  <2>1. CASE phase'[a] = phase[a]
    BY <1>1, <2>1
  <2>2. CASE phase[a] = "started" /\ phase'[a] = "draining"
    BY <1>1, <2>2
  <2>3. CASE phase[a] = "draining" /\ phase'[a] = "stopped"
    BY <1>1, <2>3
  <2>4. CASE ActorStep(a) /\ phase[a] = "stopped" /\ phase'[a] = "completing"
    <3>1. OnCompleted(a, CompletedCalls(a))
      BY <1>0, <2>4 DEF ActorStep, TakeMessage, MessageDone, Drained, OnCompletedDone
    <3>2. calls'[Completed(a)] = CompletedCalls(a)
      BY <1>0, <3>1, CompletedChange DEF OnCompleted, Change
    <3>. QED
      BY <1>0, <2>4, <3>2, CompletedCallsFacts DEF NextStage, Output
  <2>5. CASE ActorStep(a) /\ phase[a] = "completing" /\ phase'[a] = "completed"
    <3>1. OnCompletedDone(a)
      BY <1>0, <2>5 DEF ActorStep, TakeMessage, MessageDone, Drained, OnCompleted
    <3>. QED
      BY <1>1, <2>5, <3>1 DEF OnCompletedDone
  <2>. QED
    BY <1>0, <2>1, <2>2, <2>3, <2>4, <2>5, PhaseMoves
<1>2. CASE a \in Mappers /\ MapperCalls(a)
  <2>1. phase[a] = "completing" /\ phase'[a] = "completing"
    BY <1>2, MapperCallsFacts
  <2>2. StageCalls(a)
    BY <1>0, <1>2 DEF MapperCalls, StageCalls, NextStage, Output
  <2>. QED
    BY <2>1, <2>2
<1>3. CASE a = Reducer /\ ReducerCalls
  <2>1. phase[a] = "completing" /\ phase'[a] = "completing"
    BY <1>3, ReducerCallsFacts
  <2>2. StageCalls(a)
    BY <1>0, <1>3 DEF ReducerCalls, StageCalls, NextStage, Output
  <2>. QED
    BY <2>1, <2>2
<1>4. CASE phase[a] = "stopped" /\ phase'[a] = "completing" /\ calls'[Completed(a)] = CompletedCalls(a)
  BY <1>0, <1>4, CompletedCallsFacts DEF NextStage, Output
<1>. QED
  BY <1>0, <1>1, <1>2, <1>3, <1>4, CompletedMoves

(* When it has completed the next, and when it has sent.                   *)
LEMMA HasCompletedMoves ==
  ASSUME MapReduceInv, MapReduceNext, NEW a \in Mappers \cup {Reducer}
  PROVE  \/ HasCompleted(a)' <=> HasCompleted(a)
         \/ /\ ~HasCompleted(a) /\ HasCompleted(a)'
            /\ Completes(a, NextStage(a)) \/ (a # Reducer /\ ReducerCountsDown(a))
<1>. USE DEF MapReduceInv
<1>. DEFINE to == NextStage(a)
<1>0. a \in Pipeline
  BY ActorFacts
<1>1. CASE /\ calls'[Completed(a)] = calls[Completed(a)]
           /\ \/ phase'[a] = phase[a]
              \/ {phase[a], phase'[a]} \subseteq {"started", "draining", "stopped"}
              \/ /\ phase[a] = "completing" /\ phase'[a] = "completed"
                 /\ calls[Completed(a)] = <<>>
  BY <1>1 DEF HasCompleted
<1>2. CASE StageCalls(a) /\ phase[a] = "completing" /\ phase'[a] = "completing"
  <2>1. CASE Sends(a, to, Output(a))
    <3>1. /\ calls[Completed(a)] = <<Schedule(to, Output(a)), CompleteCall(to)>>
          /\ calls'[Completed(a)] = <<CompleteCall(to)>>
      BY <1>0, <2>1, CompletedChange DEF Sends
    <3>2. Head(calls[Completed(a)]).op = "schedule" /\ Head(calls'[Completed(a)]).op = "complete"
      BY <3>1 DEF Schedule, CompleteCall, NewCall
    <3>. QED
      BY <1>2, <3>1, <3>2 DEF HasCompleted
  <2>2. CASE Awaited(a, to)
    <3>1. /\ calls[Completed(a)] = <<AwaitCompletion(to)>> /\ calls'[Completed(a)] = <<>>
      BY <1>0, <2>2, CompletedChange DEF Awaited, Awaits
    <3>2. Head(calls[Completed(a)]).op = "awaitCompletion"
      BY <3>1 DEF AwaitCompletion, NewCall
    <3>. QED
      BY <1>2, <3>1, <3>2 DEF HasCompleted
  <2>3. CASE Completes(a, to)
    <3>1. /\ calls[Completed(a)] = <<CompleteCall(to)>>
          /\ calls'[Completed(a)] = <<AwaitCompletion(to)>>
      BY <1>0, <2>3, CompletedChange DEF Completes
    <3>2. /\ Head(calls[Completed(a)]).op = "complete"
          /\ Head(calls'[Completed(a)]).op = "awaitCompletion"
      BY <3>1 DEF AwaitCompletion, CompleteCall, NewCall
    <3>. QED
      BY <1>2, <2>3, <3>1, <3>2 DEF HasCompleted
  <2>4. CASE a # Reducer /\ ReducerCountsDown(a)
    <3>1. calls[Completed(a)] = <<CompleteCall(Reducer)>> /\ calls'[Completed(a)] = <<>>
      BY <1>0, <2>4, CompletedChange DEF ReducerCountsDown
    <3>2. Head(calls[Completed(a)]).op = "complete"
      BY <3>1 DEF CompleteCall, NewCall
    <3>. QED
      BY <1>2, <2>4, <3>1, <3>2 DEF HasCompleted
  <2>. QED
    BY <1>2, <2>1, <2>2, <2>3, <2>4 DEF StageCalls
<1>3. CASE /\ phase[a] = "stopped" /\ phase'[a] = "completing"
           /\ calls'[Completed(a)] = <<Schedule(to, Output(a)), CompleteCall(to)>>
  <2>1. Head(calls'[Completed(a)]).op = "schedule"
    BY <1>3 DEF Schedule, NewCall
  <2>. QED
    BY <1>3, <2>1 DEF HasCompleted
<1>. QED
  BY <1>1, <1>2, <1>3, StageCallsFacts

LEMMA HasSentMoves ==
  ASSUME MapReduceInv, MapReduceNext, NEW a \in Mappers \cup {Reducer}
  PROVE  \/ HasSent(a)' <=> HasSent(a)
         \/ ~HasSent(a) /\ HasSent(a)' /\ Sends(a, NextStage(a), Output(a))
<1>. USE DEF MapReduceInv
<1>. DEFINE to == NextStage(a)
<1>0. a \in Pipeline
  BY ActorFacts
<1>1. CASE /\ calls'[Completed(a)] = calls[Completed(a)]
           /\ \/ phase'[a] = phase[a]
              \/ {phase[a], phase'[a]} \subseteq {"started", "draining", "stopped"}
              \/ /\ phase[a] = "completing" /\ phase'[a] = "completed"
                 /\ calls[Completed(a)] = <<>>
  BY <1>1 DEF HasSent
<1>2. CASE StageCalls(a) /\ phase[a] = "completing" /\ phase'[a] = "completing"
  <2>1. CASE Sends(a, to, Output(a))
    <3>1. /\ calls[Completed(a)] = <<Schedule(to, Output(a)), CompleteCall(to)>>
          /\ calls'[Completed(a)] = <<CompleteCall(to)>>
      BY <1>0, <2>1, CompletedChange DEF Sends
    <3>2. Head(calls[Completed(a)]).op = "schedule" /\ Head(calls'[Completed(a)]).op = "complete"
      BY <3>1 DEF Schedule, CompleteCall, NewCall
    <3>. QED
      BY <1>2, <2>1, <3>1, <3>2 DEF HasSent
  <2>2. CASE Awaited(a, to)
    <3>1. /\ calls[Completed(a)] = <<AwaitCompletion(to)>> /\ calls'[Completed(a)] = <<>>
      BY <1>0, <2>2, CompletedChange DEF Awaited, Awaits
    <3>2. Head(calls[Completed(a)]).op = "awaitCompletion"
      BY <3>1 DEF AwaitCompletion, NewCall
    <3>. QED
      BY <1>2, <3>1, <3>2 DEF HasSent
  <2>3. CASE Completes(a, to) \/ (a # Reducer /\ ReducerCountsDown(a))
    <3>1. /\ calls[Completed(a)] = <<CompleteCall(to)>>
          /\ calls'[Completed(a)] \in {<<AwaitCompletion(to)>>, <<>>}
      BY <1>0, <2>3, CompletedChange DEF Completes, ReducerCountsDown, NextStage
    <3>2. /\ Head(calls[Completed(a)]).op = "complete"
          /\ calls'[Completed(a)] = <<>> \/ Head(calls'[Completed(a)]).op = "awaitCompletion"
      BY <3>1 DEF AwaitCompletion, CompleteCall, NewCall
    <3>. QED
      BY <1>2, <3>1, <3>2 DEF HasSent
  <2>. QED
    BY <1>2, <2>1, <2>2, <2>3 DEF StageCalls
<1>3. CASE /\ phase[a] = "stopped" /\ phase'[a] = "completing"
           /\ calls'[Completed(a)] = <<Schedule(to, Output(a)), CompleteCall(to)>>
  <2>1. Head(calls'[Completed(a)]).op = "schedule"
    BY <1>3 DEF Schedule, NewCall
  <2>. QED
    BY <1>3, <2>1 DEF HasSent
<1>. QED
  BY <1>1, <1>2, <1>3, StageCallsFacts

(* It waits until the next has completed.                                  *)
LEMMA AwaitKept ==
  ASSUME MapReduceInv, MapReduceNext, NEW a \in Mappers \cup {Reducer},
         phase[a] = "completing", Awaits(a, NextStage(a)), phase[NextStage(a)] # "completed"
  PROVE  phase'[a] = "completing" /\ Awaits(a, NextStage(a))'
<1>. DEFINE to == NextStage(a)
<1>1. /\ calls[Completed(a)] = <<AwaitCompletion(to)>>
      /\ Head(calls[Completed(a)]).op = "awaitCompletion"
  BY DEF Awaits, AwaitCompletion, NewCall
<1>2. ~StageCalls(a)
  <2>1. ~Sends(a, to, Output(a))
    BY <1>1 DEF Sends, Schedule, NewCall
  <2>2. ~Completes(a, to)
    BY <1>1 DEF Completes, CompleteCall, NewCall
  <2>3. ~ReducerCountsDown(a)
    BY <1>1 DEF ReducerCountsDown, CompleteCall, NewCall
  <2>4. ~Awaited(a, to)
    BY DEF Awaited
  <2>. QED
    BY <2>1, <2>2, <2>3, <2>4 DEF StageCalls
<1>3. calls[Completed(a)] # <<>>
  BY <1>1
<1>4. calls'[Completed(a)] = calls[Completed(a)] /\ phase'[a] = phase[a]
  BY <1>2, <1>3, StageCallsFacts
<1>. QED
  BY <1>1, <1>4 DEF Awaits, NextStage

-----------------------------------------------------------------------------
(* The reducer counts the mappers down, and tells the writer.              *)
LEMMA NotCompletedFinite ==
  /\ IsFiniteSet(NotCompleted) /\ Cardinality(NotCompleted) \in Nat
  /\ Cardinality(NotCompleted) = 0 <=> NotCompleted = {}
<1>1. NotCompleted \subseteq Mappers
  BY DEF NotCompleted
<1>2. IsFiniteSet(NotCompleted)
  BY <1>1, MappersFinite, FS_Subset
<1>. QED
  BY <1>2, FS_CardinalityType, FS_EmptySet

LEMMA OneLess ==
  ASSUME MapReduceInv, NEW m \in Mappers, ~HasCompleted(m), HasCompleted(m)',
         \A b \in Mappers : b # m => (HasCompleted(b)' <=> HasCompleted(b))
  PROVE  /\ NotCompleted' = NotCompleted \ {m} /\ m \in NotCompleted
         /\ Cardinality(NotCompleted') = Cardinality(NotCompleted) - 1
<1>1. NotCompleted' = NotCompleted \ {m} /\ m \in NotCompleted
  BY DEF NotCompleted
<1>2. Cardinality(NotCompleted \ {m}) = Cardinality(NotCompleted) - 1
  BY <1>1, NotCompletedFinite, FS_RemoveElement
<1>. QED
  BY <1>1, <1>2

(* The call of a mapper is of no other mapper.                             *)
LEMMA OthersKeep ==
  ASSUME MapReduceTypeOK, NEW m \in Mappers, ReducerCountsDown(m) \/ Completes(m, Reducer)
  PROVE  \A b \in Mappers : b # m => (HasCompleted(b)' <=> HasCompleted(b))
<1>1. \A b \in Mappers : b # m => /\ calls'[Completed(b)] = calls[Completed(b)]
                                /\ phase'[b] = phase[b]
  <2>1. m \in Pipeline /\ \A b \in Mappers : b \in Pipeline /\ b # Reducer
    BY ActorFacts
  <2>2. \A b \in Mappers : b # m => calls'[Completed(b)] = calls[Completed(b)]
    BY <2>1, CompletedChange DEF ReducerCountsDown, Completes
  <2>3. \A b \in Mappers : phase'[b] = phase[b]
    BY <2>1 DEF ReducerCountsDown, Completes, MapReduceTypeOK
  <2>. QED
    BY <2>2, <2>3
<1>. QED
  BY <1>1 DEF HasCompleted

LEMMA ReducerCountStep ==
  ASSUME MapReduceInv, MapReduceNext
  PROVE  /\ completedCallsRequired' = Cardinality(NotCompleted') \/ phase'[Parser] = "completed"
         /\ phase'[Reducer] = "started" <=> NotCompleted' # {}
         /\ \/ phase'[Reducer] \in {"started", "completed"}
            \/ \E m \in Mappers : phase'[m] = "completing" /\ Awaits(m, Reducer)'
<1>. USE DEF MapReduceInv
<1>0. /\ Parser \in Pipeline /\ Reducer \in Pipeline /\ Mappers \subseteq Pipeline
      /\ Reducer \notin Mappers /\ Reducer # Parser /\ Parser \notin Mappers /\ Reducer # Writer
  BY ActorFacts
<1>a. /\ completedCallsRequired = Cardinality(NotCompleted) \/ phase[Parser] = "completed"
      /\ phase[Reducer] = "started" <=> NotCompleted # {}
      /\ \/ phase[Reducer] \in {"started", "completed"}
         \/ \E m \in Mappers : phase[m] = "completing" /\ Awaits(m, Reducer)
  BY DEF ReducerSound
<1>b. phase[Parser] = "completed" => phase'[Parser] = "completed"
  BY <1>0, PhaseMoves
<1>c. \A m \in Mappers : phase[m] = "completing" => phase[Parser] # "completed"
  BY DEF StagesSound, MapperTold
<1>d. phase[Reducer] \notin {"started", "completed"} /\ phase'[Reducer] # "completed" =>
        \E m \in Mappers : phase'[m] = "completing" /\ Awaits(m, Reducer)'
  <2>. SUFFICES ASSUME phase[Reducer] \notin {"started", "completed"}
                PROVE  \E m \in Mappers : phase'[m] = "completing" /\ Awaits(m, Reducer)'
    OBVIOUS
  <2>1. PICK m \in Mappers : phase[m] = "completing" /\ Awaits(m, Reducer)
    BY <1>a
  <2>2. NextStage(m) = Reducer
    BY <1>0 DEF NextStage
  <2>3. phase'[m] = "completing" /\ Awaits(m, NextStage(m))'
    BY <2>1, <2>2, AwaitKept
  <2>4. NextStage(m)' = Reducer
    BY <2>2 DEF NextStage
  <2>. QED
    BY <2>3, <2>4 DEF NextStage
<1>1. ASSUME NEW m \in Mappers, ReducerCountsDown(m), ~HasCompleted(m), HasCompleted(m)'
      PROVE  /\ completedCallsRequired' = Cardinality(NotCompleted')
             /\ phase'[Reducer] = "started" /\ NotCompleted' # {}
  <2>1. Cardinality(NotCompleted') = Cardinality(NotCompleted) - 1
    BY <1>1, OthersKeep, OneLess
  <2>2. completedCallsRequired = Cardinality(NotCompleted)
    BY <1>a, <1>c, <1>1 DEF ReducerCountsDown
  <2>3. completedCallsRequired # 1 /\ completedCallsRequired' = completedCallsRequired - 1
        /\ phase' = phase /\ phase[Reducer] = "started"
    BY <1>1 DEF ReducerCountsDown
  <2>4. Cardinality(NotCompleted) \in Nat /\ Cardinality(NotCompleted') # 0
    BY <2>1, <2>2, <2>3, NotCompletedFinite
  <2>5. NotCompleted' # {}
    BY <2>4, FS_EmptySet
  <2>. QED
    BY <2>1, <2>2, <2>3, <2>5
<1>2. ASSUME NEW m \in Mappers, Completes(m, Reducer), completedCallsRequired = 1,
             completedCallsRequired' = 0, ~HasCompleted(m), HasCompleted(m)'
      PROVE  /\ completedCallsRequired' = Cardinality(NotCompleted')
             /\ phase'[Reducer] = "draining" /\ NotCompleted' = {}
             /\ phase'[m] = "completing" /\ Awaits(m, Reducer)'
  <2>1. /\ Cardinality(NotCompleted') = Cardinality(NotCompleted) - 1
        /\ NotCompleted' = NotCompleted \ {m}
    BY <1>2, OthersKeep, OneLess
  <2>2. completedCallsRequired = Cardinality(NotCompleted)
    BY <1>a, <1>c, <1>2 DEF Completes
  <2>3. Cardinality(NotCompleted') = 0 /\ IsFiniteSet(NotCompleted')
    BY <1>2, <2>1, <2>2, NotCompletedFinite, FS_RemoveElement, FS_Subset
  <2>4. NotCompleted' = {}
    BY <2>3, FS_EmptySet
  <2>5. /\ phase'[Reducer] = "draining" /\ phase'[m] = "completing"
        /\ calls'[Completed(m)] = <<AwaitCompletion(Reducer)>>
    BY <1>0, <1>2, CompletedChange DEF Completes, MapReduceTypeOK
  <2>. QED
    BY <1>2, <2>3, <2>4, <2>5 DEF Awaits
<1>3. CASE \A m \in Mappers : HasCompleted(m)' <=> HasCompleted(m)
  <2>1. NotCompleted' = NotCompleted
    BY <1>3 DEF NotCompleted
  <2>2. \A m \in Mappers : ~ReducerCountsDown(m) /\ ~Completes(m, Reducer)
    <3>. SUFFICES ASSUME NEW m \in Mappers, ReducerCountsDown(m) \/ Completes(m, Reducer) PROVE FALSE
      OBVIOUS
    <3>1. /\ calls[Completed(m)] = <<CompleteCall(Reducer)>> /\ phase[m] = "completing"
          /\ calls'[Completed(m)] \in {<<AwaitCompletion(Reducer)>>, <<>>}
      BY <1>0, CompletedChange DEF ReducerCountsDown, Completes
    <3>2. phase'[m] = "completing"
      BY <1>0, <3>1 DEF ReducerCountsDown, Completes, MapReduceTypeOK
    <3>3. /\ Head(calls[Completed(m)]).op = "complete"
          /\ calls'[Completed(m)] = <<>> \/ Head(calls'[Completed(m)]).op = "awaitCompletion"
      BY <3>1 DEF AwaitCompletion, CompleteCall, NewCall
    <3>. QED
      BY <1>3, <3>1, <3>2, <3>3 DEF HasCompleted
  <2>3. completedCallsRequired' = completedCallsRequired
    <3>1. ASSUME NEW k \in 1..FullBatches, BatchSent(k)
          PROVE  completedCallsRequired' = completedCallsRequired
      BY <3>1 DEF BatchSent
    <3>2. ASSUME NEW m \in Mappers, ParserCalls(m) \/ MapperCalls(m)
          PROVE  completedCallsRequired' = completedCallsRequired
      BY <2>2, <3>2 DEF ParserCalls, IsTold, HasDone, MapperCalls, Sends, Awaited
    <3>3. CASE ReducerCalls
      BY <3>3 DEF ReducerCalls, Sends, Awaited
    <3>4. CASE \E a \in Pipeline : ActorStep(a)
      BY <3>4 DEF ActorStep
    <3>. QED
      BY <3>1, <3>2, <3>3, <3>4, MakeCallCases
        DEF MapReduceNext, BookSent, FirstDone, ParserTold, MainGoesOn
  <2>4. /\ phase'[Reducer] = "started" <=> phase[Reducer] = "started"
        /\ phase[Reducer] = "completed" => phase'[Reducer] = "completed"
    BY <1>0, <2>2, PhaseMoves
  <2>. QED
    BY <1>a, <1>b, <1>d, <2>1, <2>3, <2>4
<1>4. CASE \E m \in Mappers : ~(HasCompleted(m)' <=> HasCompleted(m))
  <2>1. PICK m \in Mappers : ~(HasCompleted(m)' <=> HasCompleted(m))
    BY <1>4
  <2>2. /\ ~HasCompleted(m) /\ HasCompleted(m)' /\ m # Reducer
        /\ Completes(m, Reducer) \/ ReducerCountsDown(m)
    BY <1>0, <2>1, HasCompletedMoves DEF NextStage
  <2>3. CASE ReducerCountsDown(m)
    BY <1>1, <2>2, <2>3
  <2>4. CASE ~ReducerCountsDown(m)
    <3>1. completedCallsRequired = 1 /\ completedCallsRequired' = 0
      <4>1. Change(Completed(m), <<AwaitCompletion(Reducer)>>)
            /\ calls[Completed(m)] = <<CompleteCall(Reducer)>>
            /\ phase'[Reducer] = "draining" /\ phase[Reducer] = "started"
        BY <1>0, <2>2, <2>4 DEF Completes, MapReduceTypeOK
      <4>. QED
        BY <1>0, <4>1, PhaseMoves
    <3>. QED
      BY <1>2, <2>2, <2>4, <3>1
  <2>. QED
    BY <2>3, <2>4
<1>. QED
  BY <1>3, <1>4

LEMMA WriterStep ==
  ASSUME MapReduceInv, MapReduceNext
  PROVE  /\ phase'[Writer] = "started" <=> ~HasCompleted(Reducer)'
         /\ \/ phase'[Writer] \in {"started", "completed"}
            \/ phase'[Reducer] = "completing" /\ Awaits(Reducer, Writer)'
<1>. USE DEF MapReduceInv
<1>0. /\ Writer \in Pipeline /\ Writer # Parser /\ Writer # Reducer /\ Writer \notin Mappers
      /\ Reducer \in Pipeline
  BY ActorFacts
<1>1. NextStage(Reducer) = Writer
  BY DEF NextStage
<1>a. /\ phase[Writer] = "started" <=> ~HasCompleted(Reducer)
      /\ \/ phase[Writer] \in {"started", "completed"}
         \/ phase[Reducer] = "completing" /\ Awaits(Reducer, Writer)
  BY DEF ReducerSound
<1>2. CASE Completes(Reducer, Writer)
  <2>1. /\ phase'[Writer] = "draining" /\ phase'[Reducer] = "completing"
        /\ calls'[Completed(Reducer)] = <<AwaitCompletion(Writer)>>
    BY <1>0, <1>2, CompletedChange DEF Completes, MapReduceTypeOK
  <2>2. Head(calls'[Completed(Reducer)]).op = "awaitCompletion"
    BY <2>1 DEF AwaitCompletion, NewCall
  <2>. QED
    BY <2>1, <2>2 DEF Awaits, HasCompleted
<1>3. CASE ~Completes(Reducer, Writer)
  <2>1. HasCompleted(Reducer)' <=> HasCompleted(Reducer)
    BY <1>1, <1>3, HasCompletedMoves
  <2>2. /\ phase'[Writer] = "started" <=> phase[Writer] = "started"
        /\ phase[Writer] = "completed" => phase'[Writer] = "completed"
    BY <1>0, <1>3, PhaseMoves
  <2>3. phase[Writer] \notin {"started", "completed"} =>
          phase'[Reducer] = "completing" /\ Awaits(Reducer, Writer)'
    <3>. SUFFICES ASSUME phase[Writer] \notin {"started", "completed"}
                  PROVE  phase'[Reducer] = "completing" /\ Awaits(Reducer, Writer)'
      OBVIOUS
    <3>1. phase'[Reducer] = "completing" /\ Awaits(Reducer, NextStage(Reducer))'
      BY <1>1, <1>a, AwaitKept
    <3>. QED
      BY <3>1 DEF NextStage
  <2>. QED
    BY <1>a, <2>1, <2>2, <2>3
<1>. QED
  BY <1>2, <1>3

LEMMA ReducerSoundStep ==
  ASSUME MapReduceInv, MapReduceNext
  PROVE  ReducerSound'
BY ReducerCountStep, WriterStep DEF ReducerSound

-----------------------------------------------------------------------------
(* Sequences of counts: one more at the end, and one from a queue.         *)
Bits == [1..Lines -> {0, 1}]
Disjoint(s) == \A l \in 1..Lines : \A m, n \in 1..Len(s) :
                 s[m][l] = 1 /\ s[n][l] = 1 => m = n

LEMMA QueueAlgebra ==
  ASSUME NEW S, NEW h \in Seq(S), NEW q \in Seq(S), NEW c \in S
  PROVE  /\ h \o Append(q, c) = Append(h \o q, c)
         /\ q # <<>> => Append(h, Head(q)) \o Tail(q) = h \o q
<1>1. h \o Append(q, c) = Append(h \o q, c)
  OBVIOUS
<1>2. ASSUME q # <<>> PROVE Append(h, Head(q)) \o Tail(q) = h \o q
  BY <1>2
<1>. QED
  BY <1>1, <1>2

LEMMA AppendFacts ==
  ASSUME NEW S, NEW s \in Seq(S), NEW c \in S
  PROVE  /\ Append(s, c) \in Seq(S) /\ Len(Append(s, c)) = Len(s) + 1 /\ Len(s) \in Nat
         /\ \A n \in 1..Len(s) : Append(s, c)[n] = s[n]
         /\ Append(s, c)[Len(s) + 1] = c
BY AppendProperties

LEMMA HasAppend ==
  ASSUME NEW S, NEW s \in Seq(S), NEW c \in S, NEW l
  PROVE  Has(Append(s, c), l) <=> Has(s, l) \/ c[l] = 1
<1>. DEFINE u == Append(s, c)
            k == Len(s)
<1>1. /\ Len(u) = k + 1 /\ k \in Nat /\ u[k + 1] = c
      /\ \A n \in 1..k : u[n] = s[n]
  BY AppendFacts
<1>. HIDE DEF u
<1>2. ASSUME NEW n \in 1..Len(u), u[n][l] = 1 PROVE Has(s, l) \/ c[l] = 1
  <2>. HIDE DEF k
  <2>1. n \in 1..k \/ n = k + 1
    BY <1>1
  <2>2. CASE n \in 1..k
    BY <1>1, <1>2, <2>2 DEF Has, k
  <2>. QED
    BY <1>1, <1>2, <2>1, <2>2
<1>3. ASSUME NEW n \in 1..Len(s), s[n][l] = 1 PROVE Has(u, l)
  <2>1. n \in 1..Len(u) /\ u[n] = s[n]
    BY <1>1
  <2>. QED
    BY <1>3, <2>1 DEF Has
<1>4. ASSUME c[l] = 1 PROVE Has(u, l)
  <2>1. k + 1 \in 1..Len(u)
    BY <1>1
  <2>. QED
    BY <1>1, <1>4, <2>1 DEF Has
<1>. QED
  BY <1>2, <1>3, <1>4 DEF Has, u

LEMMA DisjointAppend ==
  ASSUME NEW s \in Seq(Bits), NEW c \in Bits, Disjoint(s),
         \A l \in 1..Lines : c[l] = 1 => ~Has(s, l)
  PROVE  Append(s, c) \in Seq(Bits) /\ Disjoint(Append(s, c))
<1>. DEFINE u == Append(s, c)
            k == Len(s)
<1>1. /\ u \in Seq(Bits) /\ Len(u) = k + 1 /\ k \in Nat /\ u[k + 1] = c
      /\ \A n \in 1..k : u[n] = s[n]
  BY AppendFacts
<1>. HIDE DEF u
<1>2. ASSUME NEW l \in 1..Lines, NEW m \in 1..Len(u), NEW n \in 1..Len(u),
             u[m][l] = 1, u[n][l] = 1
      PROVE  m = n
  <2>1. (m \in 1..k \/ m = k + 1) /\ (n \in 1..k \/ n = k + 1)
    BY <1>1
  <2>2. CASE m \in 1..k /\ n \in 1..k
    BY <1>1, <1>2, <2>2 DEF Disjoint
  <2>3. ASSUME NEW i \in 1..k, u[i][l] = 1 PROVE c[l] # 1
    <3>1. Has(s, l)
      BY <1>1, <2>3 DEF Has
    <3>. QED
      BY <3>1
  <2>. QED
    BY <1>1, <1>2, <2>1, <2>2, <2>3
<1>. QED
  BY <1>1, <1>2 DEF Disjoint, u

(* What came to an actor, when it gets one more, and when it has handled   *)
(* one.                                                                    *)
LEMMA OnceAppend ==
  ASSUME NEW a \in Mappers \cup {Reducer}, NEW c \in Bits, MapReduceTypeOK, CountsOnce(a),
         handled'[a] = handled[a], dictionary'[a] = dictionary[a],
         mail'[a] = Append(mail[a], c),
         \A l \in 1..Lines : c[l] = 1 => ~Has(Received(a), l)
  PROVE  /\ CountsOnce(a)'
         /\ \A l \in 1..Lines : Has(Received(a), l)' <=> Has(Received(a), l) \/ c[l] = 1
<1>. DEFINE h == handled[a]
            q == mail[a]
            s == h \o q
<1>0. a \in Pipeline /\ Bits \subseteq Counts
  BY ActorFacts DEF Bits, Counts
<1>1. h \in Seq(Counts) /\ q \in Seq(Counts) /\ c \in Counts
  BY <1>0 DEF MapReduceTypeOK
<1>2. s \in Seq(Bits) /\ Disjoint(s)
  BY DEF CountsOnce, Received, Disjoint, Bits
<1>3. Received(a)' = Append(s, c)
  <2>. HIDE DEF h, q
  <2>1. h \o Append(q, c) = Append(h \o q, c)
    BY <1>1, QueueAlgebra
  <2>2. handled'[a] = h /\ mail'[a] = Append(q, c)
    BY DEF h, q
  <2>. QED
    BY <2>1, <2>2 DEF Received
<1>4. \A l \in 1..Lines : c[l] = 1 => ~Has(s, l)
  BY DEF Received
<1>. HIDE DEF s
<1>5. Append(s, c) \in Seq(Bits) /\ Disjoint(Append(s, c))
  BY <1>2, <1>4, DisjointAppend
<1>6. \A l \in 1..Lines : Has(Append(s, c), l) <=> Has(s, l) \/ c[l] = 1
  BY <1>2, HasAppend
<1>7. CountsOnce(a)'
  <2>1. Received(a)' \in Seq(Bits) /\ Disjoint(Received(a)')
    BY <1>3, <1>5
  <2>2. dictionary'[a] = [l \in 1..Lines |-> IF Has(handled'[a], l) THEN 1 ELSE 0]
    BY DEF CountsOnce
  <2>. QED
    BY <2>1, <2>2 DEF CountsOnce, Disjoint, Bits, Has
<1>8. \A l \in 1..Lines : Has(Received(a), l)' <=> Has(Received(a), l) \/ c[l] = 1
  BY <1>3, <1>6 DEF Has, s, Received
<1>. QED
  BY <1>7, <1>8

LEMMA OnceDone ==
  ASSUME NEW a \in Mappers \cup {Reducer}, MapReduceTypeOK, CountsOnce(a), mail[a] # <<>>,
         handled'[a] = Append(handled[a], Head(mail[a])), mail'[a] = Tail(mail[a]),
         dictionary'[a] = [l \in 1..Lines |-> dictionary[a][l] + Head(mail[a])[l]]
  PROVE  CountsOnce(a)' /\ Received(a)' = Received(a)
<1>. DEFINE h == handled[a]
            q == mail[a]
            s == h \o q
            c == Head(q)
            k == Len(h)
<1>0. a \in Pipeline
  BY ActorFacts
<1>1. h \in Seq(Counts) /\ q \in Seq(Counts) /\ q # <<>>
  BY <1>0 DEF MapReduceTypeOK
<1>2. s \in Seq(Bits) /\ Disjoint(s)
  BY DEF CountsOnce, Received, Disjoint, Bits
<1>3. c \in Counts /\ c = q[1] /\ Len(q) \in Nat \ {0} /\ k \in Nat
  BY <1>1, TailFacts
<1>. HIDE DEF h, q
<1>4. Append(h, c) \o Tail(q) = h \o q
  BY <1>1, <1>3, QueueAlgebra
<1>5. Received(a)' = Received(a)
  <2>1. handled'[a] = Append(h, c) /\ mail'[a] = Tail(q)
    BY DEF h, q
  <2>. QED
    BY <1>4, <2>1 DEF Received, h, q
<1>. HIDE DEF c, s
<1>6. /\ Len(s) = k + Len(q) /\ \A n \in 1..k : s[n] = h[n]
      /\ s[k + 1] = c
  <2>1. /\ Len(h \o q) = Len(h) + Len(q)
        /\ \A n \in 1..Len(h) : (h \o q)[n] = h[n]
        /\ \A n \in 1..Len(q) : (h \o q)[Len(h) + n] = q[n]
    BY <1>1, ConcatFacts
  <2>2. 1 \in 1..Len(q)
    BY <1>3
  <2>. QED
    BY <1>3, <2>1, <2>2 DEF s
<1>7. k + 1 \in 1..Len(s) /\ 1..k \subseteq 1..Len(s)
  BY <1>3, <1>6
<1>8. c \in Bits
  BY <1>2, <1>6, <1>7, ElementOfSeq
<1>9. \A l \in 1..Lines : c[l] = 1 => ~Has(h, l)
  <2>. SUFFICES ASSUME NEW l \in 1..Lines, c[l] = 1, NEW n \in 1..Len(h), h[n][l] = 1
                PROVE  FALSE
    BY DEF Has
  <2>1. n \in 1..Len(s) /\ s[n][l] = 1 /\ s[k + 1][l] = 1
    BY <1>6, <1>7
  <2>2. n = k + 1
    BY <1>2, <1>7, <2>1 DEF Disjoint
  <2>. QED
    BY <1>3, <2>2
<1>10. \A l \in 1..Lines : Has(Append(h, c), l) <=> Has(h, l) \/ c[l] = 1
  BY <1>1, <1>3, HasAppend
<1>11. dictionary[a] = [l \in 1..Lines |-> IF Has(h, l) THEN 1 ELSE 0]
  BY DEF CountsOnce, h
<1>12. dictionary'[a] = [l \in 1..Lines |-> IF Has(Append(h, c), l) THEN 1 ELSE 0]
  <2>1. \A l \in 1..Lines : dictionary[a][l] + c[l] = IF Has(Append(h, c), l) THEN 1 ELSE 0
    <3>. TAKE l \in 1..Lines
    <3>1. dictionary[a][l] = IF Has(h, l) THEN 1 ELSE 0
      BY <1>11
    <3>2. c[l] \in {0, 1}
      BY <1>8 DEF Bits
    <3>. QED
      BY <1>9, <1>10, <3>1, <3>2
  <2>2. dictionary'[a] = [l \in 1..Lines |-> dictionary[a][l] + c[l]]
    BY DEF c, q
  <2>. QED
    BY <2>1, <2>2
<1>13. Received(a)' \in Seq(Bits) /\ Disjoint(Received(a)')
  BY <1>2, <1>5 DEF s, h, q, Received
<1>14. handled'[a] = Append(h, c)
  BY DEF h, c, q
<1>15. dictionary'[a] = [l \in 1..Lines |-> IF Has(handled'[a], l) THEN 1 ELSE 0]
  BY <1>12, <1>14
<1>16. CountsOnce(a)'
  BY <1>13, <1>15 DEF CountsOnce, Disjoint, Bits, Has
<1>. QED
  BY <1>5, <1>16

-----------------------------------------------------------------------------
(* What has come is what was sent.                                         *)
MailSame(a) == /\ mail'[a] = mail[a] /\ handled'[a] = handled[a]
               /\ a \in Mappers \cup {Reducer} => dictionary'[a] = dictionary[a]

LEMMA MailMoves ==
  ASSUME MapReduceInv, MapReduceNext, NEW a \in Pipeline
  PROVE  \/ MailSame(a) \/ a = Parser
         \/ \E k \in 1..FullBatches : BatchSent(k)
         \/ a = Reducer /\ \E m \in Mappers : Sends(m, Reducer, Share(m))
         \/ a = Writer /\ Sends(Reducer, Writer, Whole)
         \/ MessageDone(a) /\ CountWords(a)
<1>. USE DEF MapReduceInv
<1>0. /\ Parser \in Pipeline /\ Reducer \in Pipeline /\ Writer \in Pipeline
      /\ mail \in [Pipeline -> Seq(Counts)]
      /\ dictionary \in [Mappers \cup {Reducer} -> Counts]
  BY ActorFacts DEF MapReduceTypeOK
<1>1. CASE BookSent \/ FirstDone \/ ParserTold \/ MainGoesOn
  BY <1>0, <1>1 DEF BookSent, FirstDone, ParserTold, MainGoesOn, Rest, MailSame
<1>2. ASSUME NEW m \in Mappers, ParserCalls(m) \/ MapperCalls(m)
      PROVE  MailSame(a) \/ (a = Reducer /\ Sends(m, Reducer, Share(m)))
  BY <1>0, <1>2 DEF ParserCalls, IsTold, HasDone, MapperCalls, Sends, ReducerCountsDown, Completes,
                    Awaited, Rest, MailSame
<1>3. CASE ReducerCalls
  BY <1>0, <1>3 DEF ReducerCalls, Sends, Completes, Awaited, Rest, MailSame
<1>4. ASSUME NEW b \in Pipeline, ActorStep(b)
      PROVE  MailSame(a) \/ (MessageDone(a) /\ CountWords(a))
  <2>1. CASE b = a /\ MessageDone(b) /\ CountWords(b)
    BY <2>1
  <2>2. CASE b # a /\ MessageDone(b) /\ CountWords(b)
    <3>1. mail'[a] = mail[a] /\ handled'[a] = handled[a]
      BY <1>4, <2>2, ActorStepFacts
    <3>2. a \in Mappers \cup {Reducer} => dictionary'[a] = dictionary[a]
      BY <1>0, <2>2 DEF CountWords
    <3>. QED
      BY <3>1, <3>2 DEF MailSame
  <2>3. CASE ~(MessageDone(b) /\ CountWords(b))
    BY <1>4, <2>3 DEF ActorStep, TakeMessage, Drained, OnCompleted, OnCompletedDone, MailSame
  <2>. QED
    BY <2>1, <2>2, <2>3
<1>. QED
  BY <1>1, <1>2, <1>3, <1>4, MakeCallCases DEF MapReduceNext

LEMMA BatchIsSent ==
  ASSUME MapReduceInv, NEW k \in 1..FullBatches, BatchSent(k)
  PROVE  BatchesSent = k - 1 /\ BatchesSent' = k
<1>. USE DEF MapReduceInv
<1>. DEFINE todo == calls[Handler(Parser)]
<1>0. Parser \in Pipeline /\ todo \in Seq(CallRecord)
  BY ActorFacts, ThreadFacts DEF MapReduceTypeOK
<1>1. /\ todo # <<>> /\ k = FullBatches - Len(todo) + 1 /\ Parser \in busy /\ busy' = busy
      /\ calls'[Handler(Parser)] = Tail(todo)
  BY <1>0, HandlerChange DEF BatchSent, Rest
<1>2. Len(Tail(todo)) = Len(todo) - 1 /\ Len(todo) \in Nat
  BY <1>0, <1>1, TailFacts
<1>3. BatchesSent = FullBatches - Len(todo) /\ BatchesSent' = FullBatches - Len(Tail(todo))
  BY <1>1 DEF BatchesSent
<1>. HIDE DEF todo
<1>. QED
  BY <1>1, <1>2, <1>3, FullBatchesFacts

LEMMA BatchesKept ==
  ASSUME MapReduceInv, MapReduceNext, \A k \in 1..FullBatches : ~BatchSent(k)
  PROVE  BatchesSent' = BatchesSent
<1>. USE DEF MapReduceInv
<1>0. /\ Parser \in Pipeline /\ Reducer \in Pipeline /\ Mappers \subseteq Pipeline
      /\ handled[Parser] \in Seq(Counts) /\ mail[Parser] \in Seq(Counts)
      /\ handled \in [Pipeline -> Seq(Counts)]
  BY ActorFacts DEF MapReduceTypeOK
<1>a. ASSUME calls'[Handler(Parser)] = calls[Handler(Parser)],
             handled'[Parser] = handled[Parser], Parser \in busy' <=> Parser \in busy
      PROVE  BatchesSent' = BatchesSent
  BY <1>a DEF BatchesSent
<1>1. CASE BookSent \/ FirstDone \/ ParserTold \/ MainGoesOn
  <2>1. calls'[Handler(Parser)] = calls[Handler(Parser)] /\ UNCHANGED <<handled, busy>>
    BY <1>0, <1>1, MainChange DEF BookSent, FirstDone, ParserTold, MainGoesOn, Rest
  <2>. QED
    BY <1>a, <2>1
<1>2. ASSUME NEW m \in Mappers, ParserCalls(m) \/ MapperCalls(m)
      PROVE  BatchesSent' = BatchesSent
  <2>1. calls'[Handler(Parser)] = calls[Handler(Parser)] /\ UNCHANGED <<handled, busy>>
    BY <1>0, <1>2, ParserCallsFacts, MapperCallsFacts, CompletedChange DEF Rest
  <2>. QED
    BY <1>a, <2>1
<1>3. CASE ReducerCalls
  <2>1. calls'[Handler(Parser)] = calls[Handler(Parser)] /\ UNCHANGED <<handled, busy>>
    BY <1>0, <1>3, ReducerCallsFacts, CompletedChange DEF Rest
  <2>. QED
    BY <1>a, <2>1
<1>4. ASSUME NEW a \in Pipeline, a # Parser, ActorStep(a)
      PROVE  BatchesSent' = BatchesSent
  BY <1>0, <1>a, <1>4, ActorStepFacts
<1>5. CASE ActorStep(Parser)
  <2>1. CASE TakeMessage(Parser, Function(Parser))
    <3>1. /\ calls'[Handler(Parser)] = ProcessBook /\ Parser \in busy' /\ Parser \notin busy
          /\ mail[Parser] # <<>>
      BY <1>0, <2>1, HandlerChange DEF TakeMessage, Change, Function
    <3>2. Len(ProcessBook) = FullBatches /\ FullBatches - FullBatches = 0
      BY FullBatchesFacts DEF ProcessBook
    <3>3. handled[Parser] = <<>>
      <4>. DEFINE i == Len(handled[Parser])
                  j == Len(mail[Parser])
      <4>1. i \in Nat /\ j \in Nat \ {0}
        BY <1>0, <3>1, EmptySeq
      <4>2. i + j = 0 \/ i + j = 1
        BY DEF ParserSound
      <4>. HIDE DEF i, j
      <4>3. i = 0
        BY <4>1, <4>2
      <4>. QED
        BY <1>0, <4>3, EmptySeq DEF i
    <3>. QED
      BY <3>1, <3>2, <3>3 DEF BatchesSent
  <2>2. CASE MessageDone(Parser)
    <3>1. /\ calls[Handler(Parser)] = <<>> /\ Parser \in busy /\ Parser \notin busy'
          /\ handled'[Parser] = Append(handled[Parser], Head(mail[Parser]))
      BY <1>0, <2>2 DEF MessageDone
    <3>2. Head(mail[Parser]) \in Counts
      BY <1>0, <3>1, TailFacts DEF PhaseSound, PhaseFits
    <3>. DEFINE h == handled[Parser]
                c == Head(mail[Parser])
    <3>3. h \in Seq(Counts) /\ c \in Counts
      BY <1>0, <3>2
    <3>4. Append(h, c) # <<>>
      <4>. HIDE DEF h, c
      <4>. QED
        BY <3>3, AppendIsNotEmpty
    <3>5. Len(<<>>) = 0 /\ FullBatches - 0 = FullBatches
      BY FullBatchesFacts
    <3>. QED
      BY <3>1, <3>4, <3>5 DEF BatchesSent
  <2>3. CASE Drained(Parser) \/ OnCompleted(Parser, CompletedCalls(Parser)) \/ OnCompletedDone(Parser)
    <3>1. /\ calls'[Handler(Parser)] = calls[Handler(Parser)]
          /\ UNCHANGED <<handled, busy>>
      BY <1>0, <2>3, CompletedChange DEF Drained, OnCompleted, OnCompletedDone, Change
    <3>. QED
      BY <1>a, <3>1
  <2>. QED
    BY <1>5, <2>1, <2>2, <2>3 DEF ActorStep
<1>. QED
  BY <1>1, <1>2, <1>3, <1>4, <1>5, MakeCallCases DEF MapReduceNext

LEMMA OnceKept ==
  ASSUME NEW a \in Mappers \cup {Reducer}, CountsOnce(a), MailSame(a)
  PROVE  CountsOnce(a)' /\ Received(a)' = Received(a)
<1>1. /\ Received(a)' = Received(a) /\ handled'[a] = handled[a]
      /\ dictionary'[a] = dictionary[a]
  BY DEF MailSame, Received
<1>. QED
  BY <1>1 DEF CountsOnce, Has

(* A message that was counted: nothing else has come.                      *)
LEMMA OnceCounted ==
  ASSUME MapReduceInv, NEW a \in Mappers \cup {Reducer}, CountsOnce(a),
         MessageDone(a), CountWords(a)
  PROVE  CountsOnce(a)' /\ Received(a)' = Received(a)
<1>. USE DEF MapReduceInv
<1>0. a \in Pipeline /\ MapReduceTypeOK
  BY ActorFacts
<1>1. mail[a] # <<>>
  BY <1>0 DEF MessageDone, PhaseSound, PhaseFits
<1>2. handled'[a] = Append(handled[a], Head(mail[a])) /\ mail'[a] = Tail(mail[a])
  BY <1>0 DEF MessageDone, MapReduceTypeOK
<1>3. dictionary'[a] = [l \in 1..Lines |-> dictionary[a][l] + Head(mail[a])[l]]
  BY <1>0 DEF CountWords, MapReduceTypeOK
<1>. QED
  BY <1>0, <1>1, <1>2, <1>3, OnceDone

LEMMA MapperMailStep ==
  ASSUME MapReduceInv, MapReduceNext, NEW m \in Mappers
  PROVE  /\ CountsOnce(m)'
         /\ \A l \in 1..Lines : Has(Received(m), l)' <=>
                                  BatchOf(l) <= BatchesSent' /\ MapperOf(BatchOf(l)) = m
<1>. USE DEF MapReduceInv
<1>0. /\ m \in Pipeline /\ m # Reducer /\ m # Writer /\ m # Parser
      /\ mail \in [Pipeline -> Seq(Counts)]
  BY ActorFacts DEF MapReduceTypeOK
<1>a. /\ CountsOnce(m)
      /\ \A l \in 1..Lines : Has(Received(m), l) <=>
                               BatchOf(l) <= BatchesSent /\ MapperOf(BatchOf(l)) = m
  BY DEF DictionarySound
<1>b. \A l \in 1..Lines : BatchOf(l) \in Nat
  BY BatchFacts
<1>1. ASSUME NEW k \in 1..FullBatches, BatchSent(k), MapperOf(k) = m
      PROVE  /\ CountsOnce(m)'
             /\ \A l \in 1..Lines : Has(Received(m), l)' <=>
                                      BatchOf(l) <= BatchesSent' /\ MapperOf(BatchOf(l)) = m
  <2>1. BatchesSent = k - 1 /\ BatchesSent' = k
    BY <1>1, BatchIsSent
  <2>2. /\ handled'[m] = handled[m] /\ dictionary'[m] = dictionary[m]
        /\ mail'[m] = Append(mail[m], Batch(k))
    BY <1>0, <1>1 DEF BatchSent, Rest
  <2>3. Batch(k) \in Bits /\ \A l \in 1..Lines : Batch(k)[l] = 1 <=> BatchOf(l) = k
    BY DEF Batch, Bits
  <2>4. \A l \in 1..Lines : BatchOf(l) = k => ~(BatchOf(l) <= k - 1)
    BY <1>b
  <2>5. \A l \in 1..Lines : Batch(k)[l] = 1 => ~Has(Received(m), l)
    BY <1>a, <2>1, <2>3, <2>4
  <2>6. /\ CountsOnce(m)'
        /\ \A l \in 1..Lines : Has(Received(m), l)' <=> Has(Received(m), l) \/ Batch(k)[l] = 1
    BY <1>a, <2>2, <2>3, <2>5, OnceAppend
  <2>7. \A l \in 1..Lines : BatchOf(l) <= k <=> BatchOf(l) <= k - 1 \/ BatchOf(l) = k
    BY <1>b
  <2>. QED
    BY <1>1, <1>a, <2>1, <2>3, <2>6, <2>7
<1>2. ASSUME NEW k \in 1..FullBatches, BatchSent(k), MapperOf(k) # m
      PROVE  /\ CountsOnce(m)'
             /\ \A l \in 1..Lines : Has(Received(m), l)' <=>
                                      BatchOf(l) <= BatchesSent' /\ MapperOf(BatchOf(l)) = m
  <2>1. BatchesSent = k - 1 /\ BatchesSent' = k
    BY <1>2, BatchIsSent
  <2>2. MailSame(m)
    BY <1>0, <1>2 DEF BatchSent, Rest, MailSame
  <2>3. CountsOnce(m)' /\ Received(m)' = Received(m)
    BY <1>a, <2>2, OnceKept
  <2>4. \A l \in 1..Lines : MapperOf(BatchOf(l)) = m => BatchOf(l) # k
    BY <1>2
  <2>5. \A l \in 1..Lines : BatchOf(l) # k => (BatchOf(l) <= k <=> BatchOf(l) <= k - 1)
    BY <1>b
  <2>6. \A l \in 1..Lines : Has(Received(m), l)' <=> Has(Received(m), l)
    BY <2>3 DEF Has
  <2>. QED
    BY <1>a, <2>1, <2>3, <2>4, <2>5, <2>6
<1>3. CASE \A k \in 1..FullBatches : ~BatchSent(k)
  <2>1. BatchesSent' = BatchesSent
    BY <1>3, BatchesKept
  <2>2. CountsOnce(m)' /\ Received(m)' = Received(m)
    <3>1. MailSame(m) \/ (MessageDone(m) /\ CountWords(m))
      BY <1>0, <1>3, MailMoves
    <3>. QED
      BY <1>a, <3>1, OnceKept, OnceCounted
  <2>3. \A l \in 1..Lines : Has(Received(m), l)' <=> Has(Received(m), l)
    BY <2>2 DEF Has
  <2>. QED
    BY <1>a, <2>1, <2>2, <2>3
<1>. QED
  BY <1>1, <1>2, <1>3

LEMMA ReducerMailStep ==
  ASSUME MapReduceInv, MapReduceNext
  PROVE  /\ CountsOnce(Reducer)'
         /\ \A l \in 1..Lines : Has(Received(Reducer), l)' <=>
                                  Goes(l) /\ HasSent(MapperOf(BatchOf(l)))'
<1>. USE DEF MapReduceInv
<1>0. /\ Reducer \in Pipeline /\ Reducer # Parser /\ Reducer # Writer /\ Reducer \notin Mappers
      /\ Mappers \subseteq Pipeline /\ mail \in [Pipeline -> Seq(Counts)]
  BY ActorFacts DEF MapReduceTypeOK
<1>a. /\ CountsOnce(Reducer)
      /\ \A l \in 1..Lines : Has(Received(Reducer), l) <=>
                               Goes(l) /\ HasSent(MapperOf(BatchOf(l)))
  BY DEF DictionarySound
<1>b. \A l \in 1..Lines : MapperOf(BatchOf(l)) \in Mappers
  BY BatchFacts, MapperOfFacts
<1>1. ASSUME NEW m \in Mappers, Sends(m, Reducer, Share(m))
      PROVE  /\ CountsOnce(Reducer)'
             /\ \A l \in 1..Lines : Has(Received(Reducer), l)' <=>
                                      Goes(l) /\ HasSent(MapperOf(BatchOf(l)))'
  <2>1. /\ handled'[Reducer] = handled[Reducer] /\ dictionary'[Reducer] = dictionary[Reducer]
        /\ mail'[Reducer] = Append(mail[Reducer], Share(m)) /\ phase' = phase
        /\ phase[m] = "completing"
        /\ calls[Completed(m)] = <<Schedule(Reducer, Share(m)), CompleteCall(Reducer)>>
    BY <1>0, <1>1 DEF Sends, Rest
  <2>2. calls'[Completed(m)] = <<CompleteCall(Reducer)>>
        /\ \A b \in Mappers : b # m => calls'[Completed(b)] = calls[Completed(b)]
    BY <1>0, <1>1, CompletedChange DEF Sends
  <2>3. ~HasSent(m) /\ HasSent(m)'
    <3>1. Head(calls[Completed(m)]).op = "schedule" /\ Head(calls'[Completed(m)]).op = "complete"
      BY <2>1, <2>2 DEF Schedule, CompleteCall, NewCall
    <3>. QED
      BY <2>1, <3>1 DEF HasSent
  <2>4. \A b \in Mappers : b # m => (HasSent(b)' <=> HasSent(b))
    BY <2>1, <2>2 DEF HasSent
  <2>5. Share(m) \in Bits
        /\ \A l \in 1..Lines : Share(m)[l] = 1 <=> Goes(l) /\ MapperOf(BatchOf(l)) = m
    BY DEF Share, Bits
  <2>6. \A l \in 1..Lines : Share(m)[l] = 1 => ~Has(Received(Reducer), l)
    BY <1>a, <2>3, <2>5
  <2>7. /\ CountsOnce(Reducer)'
        /\ \A l \in 1..Lines : Has(Received(Reducer), l)' <=>
                                 Has(Received(Reducer), l) \/ Share(m)[l] = 1
    BY <1>a, <2>1, <2>5, <2>6, OnceAppend
  <2>8. ASSUME NEW l \in 1..Lines
        PROVE  Has(Received(Reducer), l)' <=> Goes(l) /\ HasSent(MapperOf(BatchOf(l)))'
    <3>1. CASE MapperOf(BatchOf(l)) = m
      <4>1. HasSent(MapperOf(BatchOf(l)))'
        BY <2>3, <3>1
      <4>. QED
        BY <1>a, <2>5, <2>7, <3>1, <4>1
    <3>2. CASE MapperOf(BatchOf(l)) # m
      <4>1. HasSent(MapperOf(BatchOf(l)))' <=> HasSent(MapperOf(BatchOf(l)))
        BY <1>b, <2>4, <3>2
      <4>. QED
        BY <1>a, <2>5, <2>7, <3>2, <4>1
    <3>. QED
      BY <3>1, <3>2
  <2>. QED
    BY <2>7, <2>8
<1>2. CASE \A m \in Mappers : ~Sends(m, Reducer, Share(m))
  <2>1. \A m \in Mappers : HasSent(m)' <=> HasSent(m)
    BY <1>0, <1>2, HasSentMoves DEF NextStage, Output
  <2>2. MailSame(Reducer) \/ (MessageDone(Reducer) /\ CountWords(Reducer))
    <3>1. ASSUME NEW k \in 1..FullBatches, BatchSent(k)
          PROVE  MailSame(Reducer)
      BY <1>0, <3>1, MapperOfFacts DEF BatchSent, Rest, MailSame
    <3>. QED
      BY <1>0, <1>2, <3>1, MailMoves
  <2>3. CountsOnce(Reducer)' /\ Received(Reducer)' = Received(Reducer)
    BY <1>a, <2>2, OnceKept, OnceCounted
  <2>4. \A l \in 1..Lines : Has(Received(Reducer), l)' <=> Has(Received(Reducer), l)
    BY <2>3 DEF Has
  <2>5. \A l \in 1..Lines : HasSent(MapperOf(BatchOf(l)))' <=> HasSent(MapperOf(BatchOf(l)))
    BY <1>b, <2>1
  <2>. QED
    BY <1>a, <2>3, <2>4, <2>5
<1>. QED
  BY <1>1, <1>2

LEMMA WriterMailStep ==
  ASSUME MapReduceInv, MapReduceNext
  PROVE  Received(Writer)' = IF HasSent(Reducer)' THEN <<Whole>> ELSE <<>>
<1>. USE DEF MapReduceInv
<1>0. /\ Writer \in Pipeline /\ Writer # Parser /\ Writer # Reducer /\ Writer \notin Mappers
      /\ Reducer \in Pipeline /\ mail \in [Pipeline -> Seq(Counts)]
      /\ handled[Writer] \in Seq(Counts) /\ mail[Writer] \in Seq(Counts)
  BY ActorFacts DEF MapReduceTypeOK
<1>a. Received(Writer) = IF HasSent(Reducer) THEN <<Whole>> ELSE <<>>
  BY DEF DictionarySound
<1>b. NextStage(Reducer) = Writer /\ Output(Reducer) = Whole
  BY DEF NextStage, Output
<1>1. CASE Sends(Reducer, Writer, Whole)
  <2>1. /\ handled'[Writer] = handled[Writer] /\ mail'[Writer] = Append(mail[Writer], Whole)
        /\ phase' = phase /\ phase[Reducer] = "completing"
        /\ calls[Completed(Reducer)] = <<Schedule(Writer, Whole), CompleteCall(Writer)>>
        /\ calls'[Completed(Reducer)] = <<CompleteCall(Writer)>>
    BY <1>0, <1>1, CompletedChange DEF Sends, Rest
  <2>2. ~HasSent(Reducer) /\ HasSent(Reducer)'
    <3>1. /\ Head(calls[Completed(Reducer)]).op = "schedule"
          /\ Head(calls'[Completed(Reducer)]).op = "complete"
      BY <2>1 DEF Schedule, CompleteCall, NewCall
    <3>. QED
      BY <2>1, <3>1 DEF HasSent
  <2>. DEFINE h == handled[Writer]
              q == mail[Writer]
  <2>3. h \in Seq(Counts) /\ q \in Seq(Counts) /\ h \o q = <<>>
    BY <1>0, <1>a, <2>2 DEF Received
  <2>4. Received(Writer)' = h \o Append(q, Whole)
    BY <2>1 DEF Received
  <2>. HIDE DEF h, q
  <2>5. h \o Append(q, Whole) = Append(h \o q, Whole)
    BY <2>3, CountsFacts, QueueAlgebra
  <2>6. Append(<<>>, Whole) = <<Whole>>
    OBVIOUS
  <2>. QED
    BY <2>2, <2>3, <2>4, <2>5, <2>6
<1>2. CASE ~Sends(Reducer, Writer, Whole)
  <2>1. HasSent(Reducer)' <=> HasSent(Reducer)
    BY <1>2, <1>b, HasSentMoves
  <2>2. Received(Writer)' = Received(Writer)
    <3>1. MailSame(Writer) \/ MessageDone(Writer)
      <4>1. ASSUME NEW k \in 1..FullBatches, BatchSent(k)
            PROVE  MailSame(Writer)
        BY <1>0, <4>1, MapperOfFacts DEF BatchSent, Rest, MailSame
      <4>. QED
        BY <1>0, <1>2, <4>1, MailMoves
    <3>2. CASE MailSame(Writer)
      BY <3>2 DEF MailSame, Received
    <3>3. CASE MessageDone(Writer)
      <4>1. mail[Writer] # <<>>
        BY <1>0, <3>3 DEF MessageDone, PhaseSound, PhaseFits
      <4>2. /\ handled'[Writer] = Append(handled[Writer], Head(mail[Writer]))
            /\ mail'[Writer] = Tail(mail[Writer])
        BY <1>0, <3>3 DEF MessageDone, MapReduceTypeOK
      <4>. DEFINE h == handled[Writer]
                  q == mail[Writer]
      <4>3. h \in Seq(Counts) /\ q \in Seq(Counts) /\ q # <<>>
        BY <1>0, <4>1
      <4>4. Received(Writer)' = Append(h, Head(q)) \o Tail(q) /\ Received(Writer) = h \o q
        BY <4>2 DEF Received
      <4>. HIDE DEF h, q
      <4>5. Append(h, Head(q)) \o Tail(q) = h \o q
        BY <4>3, TailFacts, QueueAlgebra
      <4>. QED
        BY <4>4, <4>5
    <3>. QED
      BY <3>1, <3>2, <3>3
  <2>. QED
    BY <1>a, <2>1, <2>2
<1>. QED
  BY <1>1, <1>2

LEMMA DictionarySoundStep ==
  ASSUME MapReduceInv, MapReduceNext
  PROVE  DictionarySound'
BY MapperMailStep, ReducerMailStep, WriterMailStep DEF DictionarySound

-----------------------------------------------------------------------------
LEMMA InitMapReduce == MapReduceInit => MapReduceInv
<1>. SUFFICES ASSUME MapReduceInit PROVE MapReduceInv
  OBVIOUS
<1>1. /\ mail = [a \in Pipeline |-> <<>>] /\ handled = [a \in Pipeline |-> <<>>]
      /\ phase = [a \in Pipeline |-> "started"] /\ busy = {}
      /\ calls = [t \in Threads |-> IF t = Main THEN Run ELSE <<>>]
      /\ dictionary = [a \in Mappers \cup {Reducer} |-> [l \in 1..Lines |-> 0]]
      /\ completedCallsRequired = HardwareThreads
  BY DEF MapReduceInit, PolicyInit
<1>2. /\ calls[Main] = Run
      /\ \A a \in Pipeline : calls[Handler(a)] = <<>> /\ calls[Completed(a)] = <<>>
  BY <1>1, ThreadFacts
<1>3. /\ Parser \in Pipeline /\ Reducer \in Pipeline /\ Writer \in Pipeline
      /\ Mappers \subseteq Pipeline
  BY ActorFacts
<1>4. \A a \in Pipeline : ~HasCompleted(a) /\ ~HasSent(a)
  BY <1>1 DEF HasCompleted, HasSent
<1>5. MapReduceTypeOK
  <2>1. calls \in [Threads -> Seq(CallRecord)]
    BY <1>1, RunFacts
  <2>2. [l \in 1..Lines |-> 0] \in Counts
    BY DEF Counts
  <2>. QED
    BY <1>1, <2>1, <2>2, MapReduceAssumption DEF MapReduceTypeOK
<1>6. MainSound
  BY <1>1, <1>2, <1>3 DEF MainSound, BeforeComplete
<1>7. ParserSound
  <2>1. /\ handled[Parser] = <<>> /\ mail[Parser] = <<>> /\ phase[Parser] = "started"
        /\ calls[Main] = Run /\ calls[Main] # Tail(Tail(Run)) /\ calls[Handler(Parser)] = <<>>
    BY <1>1, <1>2, <1>3, RunsDiffer
  <2>2. Len(<<>>) = 0 /\ 0 <= FullBatches
    BY FullBatchesFacts
  <2>. QED
    BY <2>1, <2>2 DEF ParserSound
<1>8. PhaseSound
  BY <1>1, <1>2 DEF PhaseSound, PhaseFits
<1>9. StagesSound
  <2>1. \A a \in Pipeline : phase[a] = "started" /\ calls[Completed(a)] = <<>>
    BY <1>1, <1>2
  <2>2. \A m \in Mappers : MapperTold(m)
    BY <1>3, <2>1 DEF MapperTold
  <2>3. /\ \A m \in Mappers : CompletedFits(m, Reducer, Share(m))
        /\ CompletedFits(Reducer, Writer, Whole)
    BY <1>3, <2>1 DEF CompletedFits
  <2>4. Len(calls[Completed(Parser)]) = 0
    BY <1>3, <2>1
  <2>. QED
    BY <2>2, <2>3, <2>4 DEF StagesSound
<1>10. ReducerSound
  <2>1. NotCompleted = Mappers
    BY <1>3, <1>4 DEF NotCompleted
  <2>. QED
    BY <1>1, <1>3, <1>4, <2>1, MappersFinite DEF ReducerSound
<1>11. DictionarySound
  <2>1. \A a \in Pipeline : Received(a) = <<>> /\ handled[a] = <<>>
    <3>1. <<>> \o <<>> = <<>>
      BY ConcatEmptySeq
    <3>. QED
      BY <1>1, <3>1 DEF Received
  <2>2. \A l : ~Has(<<>>, l)
    BY DEF Has
  <2>3. BatchesSent = 0
    BY <1>1, <1>3 DEF BatchesSent
  <2>4. \A l \in 1..Lines : ~(BatchOf(l) <= 0) /\ MapperOf(BatchOf(l)) \in Mappers
    BY BatchFacts, MapperOfFacts
  <2>5. \A a \in Mappers \cup {Reducer} : CountsOnce(a)
    <3>. TAKE a \in Mappers \cup {Reducer}
    <3>1. a \in Pipeline /\ dictionary[a] = [l \in 1..Lines |-> 0]
      BY <1>1, <1>3
    <3>2. Received(a) = <<>> /\ handled[a] = <<>>
      BY <2>1, <3>1
    <3>3. Len(<<>>) = 0 /\ <<>> \in Seq([1..Lines -> {0, 1}])
      OBVIOUS
    <3>4. dictionary[a] = [l \in 1..Lines |-> IF Has(handled[a], l) THEN 1 ELSE 0]
      BY <2>2, <3>1, <3>2
    <3>. QED
      BY <3>2, <3>3, <3>4 DEF CountsOnce
  <2>. QED
    BY <1>3, <1>4, <2>1, <2>2, <2>3, <2>4, <2>5 DEF DictionarySound
<1>. QED
  BY <1>5, <1>6, <1>7, <1>8, <1>9, <1>10, <1>11 DEF MapReduceInv

LEMMA MapReduceStutters ==
  ASSUME MapReduceInv, UNCHANGED mvars
  PROVE  MapReduceInv'
<1>. USE DEF MapReduceInv, mvars
<1>1. MapReduceTypeOK' /\ MainSound' /\ ParserSound'
  BY DEF MapReduceTypeOK, MainSound, ParserSound
<1>2. PhaseSound'
  BY DEF PhaseSound, PhaseFits
<1>3. StagesSound'
  BY DEF StagesSound, MapperTold, ToldBy, CompletedFits
<1>4. \A a : (HasCompleted(a)' <=> HasCompleted(a)) /\ (HasSent(a)' <=> HasSent(a))
  BY DEF HasCompleted, HasSent
<1>5. ReducerSound'
  <2>1. NotCompleted' = NotCompleted
    BY <1>4 DEF NotCompleted
  <2>. QED
    BY <1>4, <2>1 DEF ReducerSound, Awaits
<1>6. DictionarySound'
  <2>1. BatchesSent' = BatchesSent /\ \A a : Received(a)' = Received(a)
    BY DEF BatchesSent, Received
  <2>2. \A a : CountsOnce(a)' <=> CountsOnce(a)
    BY <2>1 DEF CountsOnce, Has
  <2>. QED
    BY <1>4, <2>1, <2>2 DEF DictionarySound, Has
<1>. QED
  BY <1>1, <1>2, <1>3, <1>5, <1>6

(* The pipeline keeps its invariant: who has calls to make, in which phase *)
(* that leaves the stages, and what has come to each of them.              *)
THEOREM MapReduceInvariant == MapReduceSafeSpec => []MapReduceInv
<1>1. MapReduceInv /\ [MapReduceNext]_mvars => MapReduceInv'
  <2>1. ASSUME MapReduceInv, MapReduceNext PROVE MapReduceInv'
    BY <2>1, MapReduceTypeStep, MainSoundStep, ParserSoundStep, PhaseSoundStep, StagesSoundStep,
       ReducerSoundStep, DictionarySoundStep DEF MapReduceInv
  <2>. QED
    BY <2>1, MapReduceStutters
<1>. QED
  BY <1>1, InitMapReduce, PTL DEF MapReduceSafeSpec

(* Every line of every full batch is written once, for every book, batch   *)
(* size and number of mappers.                                             *)
THEOREM MapReduceCountsOnce == MapReduceSafeSpec => []CountedOnce
<1>1. MapReduceInv => CountedOnce
  BY MapReduceInvIsSafe
<1>. QED
  BY <1>1, MapReduceInvariant, PTL

(* An actor that Run has destroyed is complete, runs nothing, has nothing  *)
(* in its queue, and nobody is still to call it: the raw pointers that the *)
(* stages keep do not dangle.                                              *)
THEOREM MapReduceDestroysDone == MapReduceSafeSpec => []DestroyedIsDone
<1>1. MapReduceInv => DestroyedIsDone
  BY MapReduceInvIsSafe
<1>. QED
  BY <1>1, MapReduceInvariant, PTL

-----------------------------------------------------------------------------
USE DEF control, task, input, user, actor

LEMMA QueueIsFirst == Queue \in Blocks /\ First = Queue /\ Blocks = {Queue}
BY ActorAssumption, FlowAssumption DEF Queue

(* What the handler is given is a message.                                 *)
LEMMA MessageFacts ==
  ASSUME TaskInv, ppc[Queue] = "transform"
  PROVE  Message \in Items /\ ToSet(FollowUp[Message]) \subseteq Items
<1>1. inHand[Queue] \in Seq(Items) /\ inHand[Queue] # <<>>
  BY QueueIsFirst DEF TaskInv, TypeOK, TaskSound, TaskFits
<1>2. Message \in Items
  BY <1>1, TailFacts DEF Message
<1>3. FollowUp[Message] = <<>> \/ \E m \in Items : FollowUp[Message] = <<m>>
  BY <1>2, ActorAssumption
<1>. QED
  BY <1>2, <1>3 DEF ToSet

(* What a step of an actor is to its queue.                                *)
LEMMA ActorStepOfFlow ==
  ASSUME TaskInv, ActorNext
  PROVE  Next \/ Destroy \/ UNCHANGED vars
<1>. DEFINE Goal == Next \/ Destroy \/ UNCHANGED vars
<1>0. ~terminated
  BY DEF ActorNext
<1>1. CASE CreateSimpleActor \/ CreateReplyActor
  BY <1>0, <1>1 DEF CreateSimpleActor, CreateReplyActor, Construct, Next
<1>2. ASSUME NEW m \in Items, Tell(m) \/ Ask(m) PROVE Goal
  BY <1>0, <1>2 DEF Tell, Ask, Send, Next
<1>3. CASE ProcessMessage
  <2>1. CASE SendFollowUp
    BY <1>0, <2>1, MessageFacts DEF SendFollowUp, Handling, Next
  <2>2. CASE Returns \/ ThrowsAtAsker \/ ThrowsAtQueue
    BY <1>0, <2>2, QueueIsFirst
    DEF Returns, ThrowsAtAsker, ThrowsAtQueue, ProcessingStep, Next
  <2>3. CASE TestToken(Queue) \/ TakeBegin(Queue) \/ TakeEnd(Queue) \/ Passed(Queue)
    BY <1>0, <2>3, QueueIsFirst DEF ProcessingStep, Next
  <2>. QED
    BY <1>3, <2>1, <2>2, <2>3 DEF ProcessMessage
<1>4. CASE Complete
  BY <1>0, <1>4 DEF Complete, Next
<1>5. CASE DestroyWait \/ DestroyEnd
  BY <1>5 DEF DestroyWait, DestroyEnd
<1>6. ASSUME NEW c \in Callers, CompleteStep(c) PROVE Goal
  BY <1>0, <1>6 DEF CompleteStep, Next
<1>. QED
  BY <1>1, <1>2, <1>3, <1>4, <1>5, <1>6 DEF ActorNext

-----------------------------------------------------------------------------
(* The destructor finds nobody of its own thread in a call.                *)
LEMMA DestroyKeepsTaskInv ==
  ASSUME TaskInv, Destroy
  PROVE  TaskInv'
<1>. DEFINE f == Call(Queue, FALSE)
<1>0. /\ TypeOK /\ InOrder /\ StartSound /\ TaskSound /\ OfferSound /\ StackSound /\ LockSound
      /\ User \in Callers /\ Queue \in Blocks /\ First = Queue
  BY QueueIsFirst DEF TaskInv, Callers
<1>1. /\ stack \in [Callers -> Seq(Frame)] /\ f \in Frame
      /\ f.block = Queue /\ f.phase = "lock" /\ f.todo = <<>> /\ ~f.exceptional
  BY <1>0, CallInFrame, EmptySeq DEF TypeOK, Call
<1>2. UNCHANGED <<control, task, input, processed, upc, promised, terminated>>
  BY DEF Destroy
<1>3. stack' = [stack EXCEPT ![User] = <<f>>]
  BY DEF Destroy
<1>. HIDE DEF f
<1>4. /\ stack' \in [Callers -> Seq(Frame)] /\ stack'[User] = <<f>> /\ Len(<<f>>) = 1
      /\ \A c \in Callers : c # User => stack'[c] = stack[c]
  BY <1>0, <1>1, <1>3
<1>5. TypeOK'
  BY <1>0, <1>2, <1>4 DEF TypeOK, Destroy
<1>6. InOrder' /\ StartSound' /\ TaskSound' /\ OfferSound'
  BY <1>0, <1>2 DEF InOrder, Pending, StartSound, TaskSound, TaskFits, OfferSound, OfferFits
<1>7. StackSound'
  <2>. SUFFICES ASSUME NEW c \in Callers, NEW n \in 1..Len(stack'[c]) PROVE CallFits(c, n)'
    BY DEF StackSound
  <2>1. CASE c = User
    <3>0. stack'[c] = <<f>> /\ <<f>>[1] = f
      BY <1>4, <2>1
    <3>1. Len(stack'[c]) = 1
      BY <1>4, <2>1
    <3>2. n = 1
      BY <3>1
    <3>3. stack'[c][n] = f
      BY <3>0, <3>2
    <3>4. c \notin Blocks
      BY <2>1, FlowAssumption
    <3>5. IsInjective(<<>>) /\ ToSet(<<>>) = {}
      BY EmptySeq DEF ToSet, IsInjective
    <3>. QED
      BY <1>0, <1>1, <3>1, <3>2, <3>3, <3>4, <3>5 DEF CallFits
  <2>2. CASE c # User
    <3>1. stack'[c] = stack[c] /\ CallFits(c, n)
      BY <1>0, <1>4, <2>2 DEF StackSound
    <3>. QED
      BY <1>2, <2>2, <3>1 DEF CallFits, Failed
  <2>. QED
    BY <2>1, <2>2
<1>8. LockSound'
  <2>1. \A c \in Callers : \A n \in 1..Len(stack'[c]) :
          stack'[c][n].phase # "lock" => stack'[c] = stack[c]
    BY <1>1, <1>4
  <2>2. LockSound
    BY <1>0
  <2>. QED
    BY <2>1, <2>2 DEF LockSound
<1>. QED
  BY <1>5, <1>6, <1>7, <1>8 DEF TaskInv

LEMMA TaskInvStep ==
  ASSUME TaskInv, ActorNext
  PROVE  TaskInv'
<1>1. CASE Next
  BY <1>1, TypeOKStep, InOrderStep, StartSoundStep, TaskSoundStep, OfferSoundStep,
     StackSoundStep, LockSoundStep DEF TaskInv
<1>2. CASE Destroy
  BY <1>2, DestroyKeepsTaskInv
<1>3. CASE UNCHANGED vars
  BY <1>3, TaskStutters
<1>. QED
  BY <1>1, <1>2, <1>3, ActorStepOfFlow

-----------------------------------------------------------------------------
(* What a step of the queue may do to its state and to its messages.       *)
CallsKeep(c) ==
  /\ UNCHANGED <<accepted, processed, upc>>
  /\ state'[Queue] = "Created" <=> state[Queue] = "Created"

LEMMA CallStepKeeps ==
  ASSUME TaskInv, NEW c \in Callers, CallStep(c)
  PROVE  CallsKeep(c)
<1>0. TypeOK /\ StackSound
  BY DEF TaskInv
<1>1. CASE Enter(c)
  <2>1. Top(c).block \in Blocks
    BY <1>0, <1>1, TopFacts DEF Enter
  <2>. QED
    BY <1>0, <1>1, <2>1, QueueIsFirst DEF Enter, EnterWhen, CallsKeep, TypeOK
<1>2. CASE WaitProcessing(c)
  <2>0. /\ Top(c).block \in Blocks /\ Top(c).phase = "wait"
        /\ Top(c) = stack[c][Len(stack[c])] /\ Len(stack[c]) \in 1..Len(stack[c])
    BY <1>0, <1>2, TopFacts DEF WaitProcessing
  <2>1. Top(c).block \in Blocks /\ state[Top(c).block] = "Stopping"
    BY <1>0, <2>0 DEF StackSound, CallFits
  <2>. QED
    BY <1>0, <1>2, <2>1, QueueIsFirst DEF WaitProcessing, Conclude, CallsKeep, TypeOK
<1>3. CASE CancelProcessing(c) \/ WakeProcessing(c) \/ NotifyNext(c) \/ Leave(c) \/ Terminate(c)
  BY <1>3 DEF CancelProcessing, WakeProcessing, NotifyNext, Leave, Terminate, CallsKeep
<1>. QED
  BY <1>1, <1>2, <1>3 DEF CallStep

(* A step of an actor: it is created, a message comes, the handler returns *)
(* or throws at the asker, or nothing happens to messages and answers.     *)
Arrives(m) == (CheckStarted(m) \/ Add(m)) /\ UNCHANGED actor
Idles == /\ UNCHANGED <<kind, memory, reply, accepted, processed, upc>>
         /\ state'[Queue] = "Created" <=> state[Queue] = "Created"

LEMMA ActorCases ==
  ASSUME TaskInv, ActorTypeOK, ActorNext
  PROVE  \/ Construct("simple") \/ Construct("reply")
         \/ \E m \in Items : Arrives(m)
         \/ Returns \/ ThrowsAtAsker
         \/ Idles
<1>1. ASSUME NEW m \in Items, Tell(m) \/ Ask(m) PROVE Arrives(m)
  BY <1>1 DEF Tell, Ask, Send, Arrives
<1>2. CASE SendFollowUp
  BY <1>2, MessageFacts DEF SendFollowUp, Handling, Arrives
<1>3. CASE ThrowsAtQueue
  BY <1>3 DEF ThrowsAtQueue, TransformFails, Idles
<1>4. CASE /\ TestToken(Queue) \/ TakeBegin(Queue) \/ TakeEnd(Queue) \/ Passed(Queue)
           /\ UNCHANGED actor
  BY <1>4 DEF TestToken, TakeBegin, TakeEnd, Passed, Idles
<1>5. CASE Complete \/ Destroy \/ DestroyWait \/ DestroyEnd
  BY <1>5 DEF Complete, UserComplete, Destroy, DestroyWait, DestroyEnd, vars, Idles
<1>6. ASSUME NEW c \in Callers, CompleteStep(c) PROVE Idles
  BY <1>6, CallStepKeeps DEF CompleteStep, CallsKeep, Idles
<1>. QED
  BY <1>1, <1>2, <1>3, <1>4, <1>5, <1>6
  DEF ActorNext, ProcessMessage, CreateSimpleActor, CreateReplyActor

LEMMA ActorTypeOKStep ==
  ASSUME TaskInv, ActorTypeOK, ActorNext
  PROVE  ActorTypeOK'
<1>1. ASSUME Handling, NEW s \in {"value", "error"},
             Promise([is |-> s, seen |-> memory])
      PROVE  reply' \in [Items -> [is : {"none", "value", "error"}, seen : Seq(Items)]]
  <2>1. [is |-> s, seen |-> memory] \in [is : {"none", "value", "error"}, seen : Seq(Items)]
    BY DEF ActorTypeOK
  <2>. QED
    BY <1>1, <2>1 DEF Promise, ActorTypeOK
<1>2. CASE Construct("simple") \/ Construct("reply")
  BY <1>2 DEF Construct, ActorTypeOK
<1>3. ASSUME NEW m \in Items, Arrives(m) PROVE ActorTypeOK'
  BY <1>3 DEF Arrives, ActorTypeOK
<1>4. CASE Returns
  <2>1. Append(memory, Message) \in Seq(Items)
    BY <1>4, MessageFacts DEF Returns, Handling, ActorTypeOK
  <2>. QED
    BY <1>1, <1>4, <2>1 DEF Returns, ActorTypeOK
<1>5. CASE ThrowsAtAsker
  BY <1>1, <1>5 DEF ThrowsAtAsker, MayRaise, ActorTypeOK
<1>6. dtor' \in {"none", "completing", "waiting", "done"}
  BY DEF ActorTypeOK, ActorNext, CreateSimpleActor, CreateReplyActor, Construct, Tell, Ask,
         Send, ProcessMessage, SendFollowUp, Returns, ThrowsAtAsker, ThrowsAtQueue, Complete,
         Destroy, DestroyWait, DestroyEnd, CompleteStep
<1>7. CASE Idles
  BY <1>6, <1>7 DEF Idles, ActorTypeOK
<1>. QED
  BY <1>2, <1>3, <1>4, <1>5, <1>7, ActorCases

LEMMA KindSoundStep ==
  ASSUME TaskInv, ActorTypeOK, KindSound, ActorNext
  PROVE  KindSound'
<1>1. ASSUME NEW k \in {"simple", "reply"}, Construct(k) PROVE KindSound'
  BY <1>1, QueueIsFirst DEF Construct, Start, KindSound
<1>2. ASSUME NEW m \in Items, Arrives(m) PROVE KindSound'
  BY <1>2 DEF Arrives, CheckStarted, Add, KindSound
<1>3. ASSUME Returns \/ ThrowsAtAsker PROVE KindSound'
  <2>1. ppc[Queue] = "transform" /\ UNCHANGED <<state, kind>>
    BY <1>3 DEF Returns, ThrowsAtAsker, MayRaise, Handling, Transform
  <2>2. state[Queue] # "Created"
    BY <2>1, QueueIsFirst DEF TaskInv, StartSound
  <2>. QED
    BY <2>1, <2>2 DEF KindSound
<1>4. CASE Idles
  BY <1>4 DEF Idles, KindSound
<1>. QED
  BY <1>1, <1>2, <1>3, <1>4, ActorCases

LEMMA InjectiveAppend ==
  ASSUME NEW S, NEW s \in Seq(S), IsInjective(s), NEW x \in S, \A n \in 1..Len(s) : s[n] # x
  PROVE  IsInjective(Append(s, x))
<1>1. /\ Len(s) \in Nat /\ Len(Append(s, x)) = Len(s) + 1
      /\ Append(s, x) \in Seq(S)
      /\ \A n \in 1..Len(s) : Append(s, x)[n] = s[n]
      /\ Append(s, x)[Len(s) + 1] = x
  BY AppendProperties, LenProperties
<1>2. \A m, n \in 1..Len(s) : s[m] = s[n] => m = n
  BY SetOf
<1>3. \A m, n \in 1..Len(s) + 1 : Append(s, x)[m] = Append(s, x)[n] => m = n
  <2>1. \A n \in 1..Len(s) + 1 : n \in 1..Len(s) \/ n = Len(s) + 1
    BY <1>1
  <2>. QED
    BY <1>1, <1>2, <2>1
<1>. QED
  BY <1>1, <1>3, SetOf

LEMMA AcceptedOnceStep ==
  ASSUME TaskInv, ActorTypeOK, AcceptedOnce, ActorNext
  PROVE  AcceptedOnce'
<1>. DEFINE all == accepted[Queue]
<1>0. /\ upc \in [Items -> {"idle", "checked", "accepted", "threw"}] /\ all \in Seq(Items)
      /\ accepted \in [Blocks -> Seq(Items)]
      /\ Len(all) \in Nat /\ \A n \in 1..Len(all) : all[n] \in Items
  BY QueueIsFirst, ElementOfSeq, LenProperties DEF TaskInv, TypeOK
<1>1. ASSUME UNCHANGED <<accepted, upc>> PROVE AcceptedOnce'
  BY <1>1 DEF AcceptedOnce
<1>2. ASSUME NEW m \in Items, CheckStarted(m) PROVE AcceptedOnce'
  <2>1. upc[m] = "idle" /\ UNCHANGED accepted
        /\ \A i \in Items : i # m => upc'[i] = upc[i]
    BY <1>0, <1>2 DEF CheckStarted
  <2>. QED
    BY <1>0, <2>1 DEF AcceptedOnce
<1>3. ASSUME NEW m \in Items, Add(m) PROVE AcceptedOnce'
  <2>1. /\ upc[m] = "checked" /\ upc' = [upc EXCEPT ![m] = "accepted"]
        /\ accepted'[Queue] = Append(all, m)
    BY <1>0, <1>3, QueueIsFirst DEF Add, AddTo
  <2>2. \A n \in 1..Len(all) : all[n] # m
    BY <2>1 DEF AcceptedOnce
  <2>3. IsInjective(Append(all, m))
    <3>1. IsInjective(all)
      BY DEF AcceptedOnce
    <3>. HIDE DEF all
    <3>. QED
      BY <1>0, <2>2, <3>1, InjectiveAppend
  <2>4. /\ Len(Append(all, m)) = Len(all) + 1
        /\ \A n \in 1..Len(all) + 1 :
             Append(all, m)[n] = IF n <= Len(all) THEN all[n] ELSE m
    BY <1>0, AppendProperties
  <2>. HIDE DEF all
  <2>5. \A n \in 1..Len(Append(all, m)) : upc'[Append(all, m)[n]] = "accepted"
    <3>. SUFFICES ASSUME NEW n \in 1..Len(all) + 1 PROVE upc'[Append(all, m)[n]] = "accepted"
      BY <2>4
    <3>1. n <= Len(all) => n \in 1..Len(all) /\ upc[all[n]] = "accepted"
      BY <1>0 DEF AcceptedOnce, all
    <3>. QED
      BY <1>0, <2>1, <2>4, <3>1
  <2>. QED
    BY <2>1, <2>3, <2>5 DEF AcceptedOnce
<1>4. CASE Construct("simple") \/ Construct("reply") \/ Returns \/ ThrowsAtAsker \/ Idles
  BY <1>1, <1>4 DEF Construct, Start, Returns, ThrowsAtAsker, Transform, Idles
<1>. QED
  BY <1>2, <1>3, <1>4, ActorCases DEF Arrives

-----------------------------------------------------------------------------
(* The message in hand was not processed before.                           *)
LEMMA MessageIsNew ==
  ASSUME TaskInv, AcceptedOnce, ppc[Queue] = "transform"
  PROVE  \A n \in 1..Len(processed[Queue]) : processed[Queue][n] # Message
<1>. DEFINE p == processed[Queue]
            h == inHand[Queue]
            q == queue[Queue]
            all == accepted[Queue]
<1>1. p \in Seq(Items) /\ h \in Seq(Items) /\ q \in Seq(Items) /\ all \in Seq(Items)
      /\ h # <<>>
  BY QueueIsFirst DEF TaskInv, TypeOK, TaskSound, TaskFits
<1>2. all = p \o h \o q
  BY QueueIsFirst DEF TaskInv, InOrder, Pending
<1>3. Message = Head(h)
  BY DEF Message
<1>4. IsInjective(all)
  BY DEF AcceptedOnce
<1>. HIDE DEF p, h, q, all
<1>5. Len(p) \in Nat /\ Len(h) \in Nat \ {0} /\ Len(q) \in Nat /\ Message = h[1]
  BY <1>1, <1>3, TailFacts
<1>6. p \o h \in Seq(Items) /\ Len(p \o h) = Len(p) + Len(h)
      /\ \A n \in 1..Len(p) : (p \o h)[n] = p[n]
      /\ (p \o h)[Len(p) + 1] = h[1]
  BY <1>1, <1>5, ConcatProperties
<1>7. Len(all) = Len(p) + Len(h) + Len(q)
      /\ \A n \in 1..Len(p) + Len(h) : all[n] = (p \o h)[n]
  BY <1>1, <1>2, <1>5, <1>6, ConcatProperties
<1>8. \A m, n \in 1..Len(all) : all[m] = all[n] => m = n
  BY <1>1, <1>4, SetOf
<1>9. ASSUME NEW n \in 1..Len(p) PROVE p[n] # Message
  <2>1. /\ n \in 1..Len(all) /\ Len(p) + 1 \in 1..Len(all) /\ n # Len(p) + 1
        /\ n \in 1..Len(p) + Len(h) /\ Len(p) + 1 \in 1..Len(p) + Len(h)
    BY <1>5, <1>7
  <2>2. all[n] = p[n] /\ all[Len(p) + 1] = Message
    BY <1>5, <1>6, <1>7, <2>1
  <2>. QED
    BY <1>8, <2>1, <2>2
<1>. QED
  BY <1>9 DEF p

LEMMA AnswerSoundStep ==
  ASSUME TaskInv, ActorTypeOK, KindSound, AcceptedOnce, AnswerSound, ActorNext
  PROVE  AnswerSound'
<1>. DEFINE done == processed[Queue]
            m == Message
<1>0. done \in Seq(Items) /\ Len(done) \in Nat
      /\ \A n \in 1..Len(done) : done[n] \in Items
  BY QueueIsFirst, LenProperties, ElementOfSeq DEF TaskInv, TypeOK
<1>1. CASE Construct("simple")
  BY <1>1 DEF Construct, Start, KindSound, AnswerSound
<1>2. CASE Construct("reply")
  <2>1. /\ done = <<>> /\ memory = <<>> /\ \A i \in Items : reply[i].is = "none"
    BY <1>2 DEF Construct, KindSound, AnswerSound
  <2>2. UNCHANGED <<memory, reply, processed>> /\ kind' = "reply"
    BY <1>2 DEF Construct, Start
  <2>3. Len(<<>>) = 0
    OBVIOUS
  <2>. QED
    BY <2>1, <2>2, <2>3 DEF AnswerSound, StateBefore
<1>3. CASE UNCHANGED <<kind, memory, reply, processed>>
  BY <1>3 DEF AnswerSound, StateBefore, StateAfter
<1>4. CASE Returns \/ ThrowsAtAsker
  <2>1. /\ ppc[Queue] = "transform" /\ kind' = kind
        /\ processed' = [processed EXCEPT ![Queue] = Append(done, m)]
    BY <1>4 DEF Returns, ThrowsAtAsker, MayRaise, Handling, Transform, Message
  <2>2. m \in Items /\ \A n \in 1..Len(done) : done[n] # m
    BY <2>1, MessageFacts, MessageIsNew
  <2>3. CASE kind # "reply"
    BY <1>4, <2>1, <2>3 DEF Returns, ThrowsAtAsker, Promise, AnswerSound
  <2>4. CASE kind = "reply"
    <3>. DEFINE s == IF Returns THEN "value" ELSE "error"
                after == StateBefore(done, Len(done) + 1)
    <3>1. processed'[Queue] = Append(done, m)
      BY <2>1, QueueIsFirst DEF TaskInv, TypeOK
    <3>2. /\ Len(Append(done, m)) = Len(done) + 1
          /\ \A n \in 1..Len(done) : Append(done, m)[n] = done[n]
          /\ Append(done, m)[Len(done) + 1] = m
      BY <1>0, <2>2, AppendProperties
    <3>. DEFINE next == Append(done, m)
    <3>3. \E r \in {"value", "error"} :
            /\ reply' = [reply EXCEPT ![m] = [is |-> r, seen |-> memory]]
            /\ memory' = IF r = "value" THEN Append(memory, m) ELSE memory
      BY <1>4, <2>4 DEF Returns, ThrowsAtAsker, Promise
    <3>4. PICK r \in {"value", "error"} :
            /\ reply' = [reply EXCEPT ![m] = [is |-> r, seen |-> memory]]
            /\ memory' = IF r = "value" THEN Append(memory, m) ELSE memory
      BY <3>3
    <3>5. /\ reply'[m] = [is |-> r, seen |-> memory]
          /\ \A i \in Items : i # m => reply'[i] = reply[i]
      BY <2>2, <3>4 DEF ActorTypeOK
    <3>6. /\ \A i \in Items : reply[i].is # "none" <=> \E n \in 1..Len(done) : done[n] = i
          /\ \A n \in 1..Len(done) : reply[done[n]].seen = StateBefore(done, n)
          /\ memory = StateBefore(done, Len(done) + 1)
      BY <2>4 DEF AnswerSound
    <3>0. done' = next
      BY <3>1
    <3>. HIDE DEF done, m, next
    <3>7. \A n \in 1..Len(done) + 1 : n \in 1..Len(done) \/ n = Len(done) + 1
      BY <1>0
    <3>8. \A i \in Items : reply'[i].is # "none" <=> \E n \in 1..Len(done) + 1 : next[n] = i
      <4>1. ASSUME NEW i \in Items, i # m
            PROVE  (\E n \in 1..Len(done) + 1 : next[n] = i) <=> \E n \in 1..Len(done) : done[n] = i
        BY <1>0, <3>2, <3>7, <4>1 DEF next
      <4>2. \E n \in 1..Len(done) + 1 : next[n] = m
        BY <1>0, <3>2 DEF next
      <4>3. reply'[m].is # "none"
        BY <3>5
      <4>. QED
        BY <3>5, <3>6, <4>1, <4>2, <4>3
    <3>9. ASSUME NEW n \in 1..Len(done) + 1
          PROVE  StateBefore(done, n)' = StateBefore(done, n)
      <4>1. CASE n = 1
        BY <4>1 DEF StateBefore
      <4>2. CASE n # 1
        <5>1. n - 1 \in 1..Len(done)
          BY <1>0, <4>2
        <5>2. done'[n - 1] = done[n - 1] /\ reply'[done[n - 1]] = reply[done[n - 1]]
          BY <1>0, <2>2, <3>0, <3>2, <3>5, <5>1 DEF next
        <5>. QED
          BY <4>2, <5>2 DEF StateBefore, StateAfter
      <4>. QED
        BY <4>1, <4>2
    <3>10. Len(done') = Len(done) + 1 /\ done'[Len(done) + 1] = m
           /\ \A n \in 1..Len(done) : done'[n] = done[n]
      BY <3>0, <3>2 DEF next
    <3>11. \A n \in 1..Len(done) + 1 : reply'[done'[n]].seen = StateBefore(done, n)'
      <4>1. ASSUME NEW n \in 1..Len(done) PROVE reply'[done'[n]].seen = StateBefore(done, n)
        BY <1>0, <2>2, <3>5, <3>6, <3>10
      <4>2. reply'[done'[Len(done) + 1]].seen = StateBefore(done, Len(done) + 1)
        BY <3>5, <3>6, <3>10
      <4>. QED
        BY <1>0, <3>7, <3>9, <4>1, <4>2
    <3>12. memory' = StateBefore(done, Len(done) + 1)'
      <4>1. Len(done') + 1 # 1 /\ done'[Len(done') + 1 - 1] = m
        BY <1>0, <3>10
      <4>2. StateBefore(done, Len(done) + 1)' =
              IF reply'[m].is = "value" THEN Append(reply'[m].seen, m) ELSE reply'[m].seen
        BY <4>1 DEF StateBefore, StateAfter
      <4>. QED
        BY <3>4, <3>5, <4>2
    <3>13. /\ \A i \in Items : reply'[i].is # "none" <=> \E n \in 1..Len(done') : done'[n] = i
           /\ \A n \in 1..Len(done') : reply'[done'[n]].seen = StateBefore(done, n)'
      BY <3>0, <3>8, <3>10, <3>11
    <3>. QED
      BY <2>1, <2>4, <3>12, <3>13 DEF AnswerSound, done
  <2>. QED
    BY <2>3, <2>4
<1>. QED
  BY <1>1, <1>2, <1>3, <1>4, ActorCases DEF Arrives, CheckStarted, Add, Idles

-----------------------------------------------------------------------------
LEMMA InitActor == ActorInit => ActorInv
<1>. SUFFICES ASSUME ActorInit PROVE ActorInv
  OBVIOUS
<1>0. Init /\ TaskInv
  BY InitFlow DEF ActorInit, FlowInv
<1>1. processed[Queue] = <<>> /\ accepted[Queue] = <<>> /\ state[Queue] = "Created"
  BY <1>0, QueueIsFirst DEF Init
<1>2. <<>> \in Seq(Items) /\ Len(<<>>) = 0 /\ IsInjective(<<>>)
  BY EmptySeq DEF IsInjective
<1>3. ActorTypeOK
  BY <1>2 DEF ActorInit, ActorTypeOK, NoReply
<1>4. KindSound /\ AcceptedOnce /\ AnswerSound
  BY <1>1, <1>2 DEF ActorInit, KindSound, AcceptedOnce, AnswerSound, NoReply
<1>. QED
  BY <1>0, <1>3, <1>4 DEF ActorInv

LEMMA ActorStutters ==
  ASSUME ActorInv, UNCHANGED avars
  PROVE  ActorInv'
<1>1. TaskInv'
  BY TaskStutters DEF avars, ActorInv
<1>2. UNCHANGED <<kind, memory, reply, dtor, state, processed, accepted, upc>>
  BY DEF avars, vars
<1>3. ActorTypeOK' /\ KindSound'
  BY <1>2 DEF ActorInv, ActorTypeOK, KindSound
<1>4. AcceptedOnce' /\ AnswerSound'
  BY <1>2 DEF ActorInv, AcceptedOnce, AnswerSound, StateBefore, StateAfter
<1>. QED
  BY <1>1, <1>3, <1>4 DEF ActorInv

(* The invariant of an actor, for every handler.                           *)
THEOREM ActorInvariant == ActorSafeSpec => []ActorInv
<1>1. ASSUME ActorInv, ActorNext PROVE ActorInv'
  BY <1>1, TaskInvStep, ActorTypeOKStep, KindSoundStep, AcceptedOnceStep, AnswerSoundStep
  DEF ActorInv
<1>2. ActorInv /\ [ActorNext]_avars => ActorInv'
  BY <1>1, ActorStutters
<1>. QED
  BY InitActor, <1>2, PTL DEF ActorSafeSpec

(* The answers are what one message after the other makes of them, in the  *)
(* order in which the messages were accepted, whoever asks at the same     *)
(* time and whatever fails.                                                *)
THEOREM ActorAnswersFollowOrder == ActorSafeSpec => []AnswersFollowOrder
<1>1. ASSUME ActorInv, NEW m \in Items, reply[m].is # "none"
      PROVE  \E n \in 1..Len(accepted[Queue]) :
               /\ accepted[Queue][n] = m /\ reply[m].seen = StateBefore(accepted[Queue], n)
               /\ n > 1 => reply[accepted[Queue][n - 1]].is # "none"
  <2>. DEFINE p == processed[Queue]
              h == Pending(Queue)
              q == queue[Queue]
              r == h \o q
              all == accepted[Queue]
  <2>1. p \in Seq(Items) /\ h \in Seq(Items) /\ q \in Seq(Items)
    <3>1. inHand[Queue] \in Seq(Items) /\ (ppc[Queue] = "offer" => inHand[Queue] # <<>>)
          /\ (ppc[Queue] = "add" => inHand[Queue] # <<>>)
      BY <1>1, QueueIsFirst DEF ActorInv, TaskInv, TypeOK, TaskSound, TaskFits
    <3>. QED
      BY <1>1, <3>1, QueueIsFirst, TailFacts DEF Pending, ActorInv, TaskInv, TypeOK
  <2>2. all = p \o r /\ r \in Seq(Items)
    <3>1. all = p \o h \o q
      BY <1>1, QueueIsFirst DEF ActorInv, TaskInv, InOrder
    <3>. HIDE DEF p, h, q, all
    <3>2. (p \o h) \o q = p \o (h \o q)
      BY <2>1, ConcatAssociative
    <3>3. r \in Seq(Items)
      BY <2>1, ConcatProperties
    <3>. QED
      BY <3>1, <3>2, <3>3
  <2>3. /\ \A i \in Items : reply[i].is # "none" <=> \E n \in 1..Len(p) : p[n] = i
        /\ \A n \in 1..Len(p) : reply[p[n]].seen = StateBefore(p, n)
    BY <1>1 DEF ActorInv, AnswerSound
  <2>. HIDE DEF p, h, q, r, all
  <2>4. /\ Len(p) \in Nat /\ Len(r) \in Nat /\ Len(all) = Len(p) + Len(r)
        /\ \A n \in 1..Len(p) : p[n] \in Items /\ all[n] = p[n]
    BY <2>1, <2>2, ConcatProperties, ElementOfSeq, LenProperties
  <2>5. PICK n \in 1..Len(p) : p[n] = m
    BY <1>1, <2>3
  <2>6. n \in 1..Len(all) /\ all[n] = m
    BY <2>4, <2>5
  <2>7. n = 1 \/ n - 1 \in 1..Len(p)
    BY <2>4
  <2>8. StateBefore(all, n) = StateBefore(p, n)
    BY <2>4, <2>7 DEF StateBefore
  <2>9. n > 1 => reply[all[n - 1]].is # "none"
    BY <2>3, <2>4, <2>7
  <2>. QED
    BY <2>3, <2>5, <2>6, <2>8, <2>9 DEF all
<1>2. ActorInv => AnswersFollowOrder
  BY <1>1 DEF AnswersFollowOrder
<1>. QED
  BY ActorInvariant, <1>2, PTL

=============================================================================
