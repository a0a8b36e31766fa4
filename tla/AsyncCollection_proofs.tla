----------------------- MODULE AsyncCollection_proofs -----------------------
(***************************************************************************)
(* For any number of items and takers: permits and items agree, a taker    *)
(* fails only for an item that TryTakeAll took, and items are taken in the *)
(* order in which they were added.                                         *)
(***************************************************************************)
EXTENDS AsyncCollection, FiniteSetTheorems, SequenceTheorems, TLAPS

USE DEF semaphore

(* An element of a sequence without w is an element of the sequence, other *)
(* than w, and none is there twice that was not there twice before.        *)
LEMMA WithoutFacts ==
  ASSUME NEW S, NEW s \in Seq(S), NEW w,
         \A m, n \in 1..Len(s) : s[m] = s[n] => m = n
  PROVE  LET r == Semaphore!Without(s, w)
         IN  /\ r \in Seq(S)
             /\ \A n \in 1..Len(r) : r[n] # w /\ \E k \in 1..Len(s) : r[n] = s[k]
             /\ \A m, n \in 1..Len(r) : r[m] = r[n] => m = n
<1>. DEFINE r == Semaphore!Without(s, w)
<1>0. Len(s) \in Nat
  BY LenProperties
<1>1. CASE ~Semaphore!Stands(s, w)
  BY <1>1 DEF Semaphore!Without, Semaphore!Stands
<1>2. CASE Semaphore!Stands(s, w)
  <2>. DEFINE p == Semaphore!Place(s, w)
              a == SubSeq(s, 1, p - 1)
              b == SubSeq(s, p + 1, Len(s))
  <2>1. p \in 1..Len(s) /\ s[p] = w
    BY <1>2 DEF Semaphore!Stands, Semaphore!Place
  <2>2. r = a \o b
    BY <1>2 DEF Semaphore!Without
  <2>. HIDE DEF p
  <2>3. /\ a \in Seq(S) /\ Len(a) = p - 1
        /\ \A n \in 1..(p - 1) : a[n] = s[n]
    BY <1>0, <2>1, SubSeqProperties
  <2>4. /\ b \in Seq(S) /\ Len(b) = Len(s) - p
        /\ \A n \in 1..(Len(s) - p) : b[n] = s[n + p]
    BY <1>0, <2>1, SubSeqProperties
  <2>. HIDE DEF a, b, r
  <2>5. /\ r \in Seq(S) /\ Len(r) = Len(s) - 1
        /\ \A n \in 1..(Len(s) - 1) : r[n] = IF n <= p - 1 THEN a[n] ELSE b[n - (p - 1)]
    <3>1. /\ r \in Seq(S) /\ Len(r) = Len(a) + Len(b)
          /\ \A n \in 1..(Len(a) + Len(b)) :
               r[n] = IF n <= Len(a) THEN a[n] ELSE b[n - Len(a)]
      <4>1. a \in Seq(S) /\ b \in Seq(S)
        BY <2>3, <2>4
      <4>2. /\ a \o b \in Seq(S) /\ Len(a \o b) = Len(a) + Len(b)
            /\ \A n \in 1..(Len(a) + Len(b)) :
                 (a \o b)[n] = IF n <= Len(a) THEN a[n] ELSE b[n - Len(a)]
        BY <4>1, ConcatProperties
      <4>. QED
        BY <2>2, <4>2
    <3>2. Len(a) + Len(b) = Len(s) - 1
      BY <1>0, <2>1, <2>3, <2>4
    <3>. QED
      BY <2>3, <3>1, <3>2
  <2>6. \A n \in 1..(Len(s) - 1) : r[n] = IF n < p THEN s[n] ELSE s[n + 1]
    BY <1>0, <2>1, <2>3, <2>4, <2>5
  <2>7. \A n \in 1..Len(r) : r[n] # w /\ \E k \in 1..Len(s) : r[n] = s[k]
    <3>. SUFFICES ASSUME NEW n \in 1..Len(r)
                  PROVE  r[n] # w /\ \E k \in 1..Len(s) : r[n] = s[k]
      OBVIOUS
    <3>1. n \in 1..(Len(s) - 1) /\ n \in 1..Len(s) /\ n + 1 \in 1..Len(s)
      BY <1>0, <2>5
    <3>2. CASE n < p
      BY <2>1, <2>6, <3>1, <3>2
    <3>3. CASE ~(n < p)
      <4>1. r[n] = s[n + 1] /\ n + 1 # p
        BY <2>1, <2>6, <3>1, <3>3
      <4>. QED
        BY <2>1, <3>1, <4>1
    <3>. QED
      BY <3>2, <3>3
  <2>8. \A m, n \in 1..Len(r) : r[m] = r[n] => m = n
    <3>1. \A n \in 1..Len(r) : /\ n \in 1..(Len(s) - 1) /\ n \in 1..Len(s)
                               /\ n + 1 \in 1..Len(s)
      BY <1>0, <2>5
    <3>. QED
      BY <2>1, <2>6, <3>1
  <2>. QED
    BY <2>5, <2>7, <2>8 DEF r
<1>. QED
  BY <1>1, <1>2

-----------------------------------------------------------------------------
(* The takers: who stands in line, and who is answered.                    *)

Answered == \A t \in Takers : outcome[t] # {} => request[t] \in {"granted", "canceled"}
InLine == /\ line \in Seq(Takers)
          /\ \A n \in 1..Len(line) : request[line[n]] = "waiting"
          /\ \A m, n \in 1..Len(line) : line[m] = line[n] => m = n
Requests == [Takers -> {"none", "waiting", "granted", "canceled"}]

LEMMA AcquireLine ==
  ASSUME InLine, Answered, request \in Requests, permits \in 0..MaxCount,
         NEW t \in Takers, Semaphore!Acquire(t), outcome' = outcome
  PROVE  /\ InLine' /\ Answered' /\ request' \in Requests /\ permits' \in 0..MaxCount
         /\ permits \in Nat /\ permits' = permits - 1
         /\ t \notin OnTheWay /\ OnTheWay' = OnTheWay \cup {t}
<1>. USE CollectionAssumption
<1>1. /\ request[t] = "none" /\ request' = [request EXCEPT ![t] = "granted"]
      /\ line' = line /\ permits > 0 /\ permits' = permits - 1
  BY DEF Semaphore!Acquire
<1>2. permits' \in 0..MaxCount /\ permits \in Nat
  BY <1>1
<1>3. outcome[t] = {}
  BY <1>1 DEF Answered
<1>4. request' \in Requests /\ \A s \in Takers : s # t => request'[s] = request[s]
  BY <1>1 DEF Requests
<1>5. request'[t] = "granted"
  BY <1>1 DEF Requests
<1>6. InLine'
  <2>1. \A n \in 1..Len(line) : line[n] \in Takers /\ line[n] # t
    BY <1>1, ElementOfSeq DEF InLine
  <2>. QED
    BY <1>1, <1>4, <2>1 DEF InLine
<1>7. OnTheWay' = OnTheWay \cup {t} /\ t \notin OnTheWay
  BY <1>1, <1>3, <1>4, <1>5 DEF OnTheWay
<1>8. Answered'
  BY <1>4, <1>5 DEF Answered
<1>. QED
  BY <1>1, <1>2, <1>4, <1>6, <1>7, <1>8

LEMMA JoinLine ==
  ASSUME InLine, Answered, request \in Requests,
         NEW t \in Takers, Semaphore!Join(t), outcome' = outcome
  PROVE  /\ InLine' /\ Answered' /\ request' \in Requests /\ permits' = permits
         /\ OnTheWay' = OnTheWay
<1>1. /\ request[t] = "none" /\ request' = [request EXCEPT ![t] = "waiting"]
      /\ line' = Append(line, t) /\ permits' = permits
  BY DEF Semaphore!Join
<1>2. /\ request' \in Requests /\ request'[t] = "waiting"
      /\ \A s \in Takers : s # t => request'[s] = request[s]
  BY <1>1 DEF Requests
<1>3. OnTheWay' = OnTheWay
  BY <1>1, <1>2 DEF OnTheWay
<1>4. Answered'
  BY <1>1, <1>2 DEF Answered
<1>5. /\ line' \in Seq(Takers) /\ Len(line) \in Nat /\ Len(line') = Len(line) + 1
      /\ line'[Len(line) + 1] = t
      /\ \A n \in 1..Len(line) : line'[n] = line[n] /\ line[n] \in Takers
  BY <1>1, AppendProperties, ElementOfSeq DEF InLine
<1>6. \A n \in 1..Len(line) : request[line[n]] = "waiting" /\ line[n] # t
  BY <1>1 DEF InLine
<1>7. \A n \in 1..Len(line') : request'[line'[n]] = "waiting"
  BY <1>2, <1>5, <1>6
<1>8. \A m, n \in 1..Len(line') : line'[m] = line'[n] => m = n
  BY <1>5, <1>6 DEF InLine
<1>. QED
  BY <1>1, <1>2, <1>3, <1>4, <1>5, <1>7, <1>8 DEF InLine

LEMMA AbandonLine ==
  ASSUME InLine, Answered, request \in Requests,
         NEW t \in Takers, Semaphore!Abandon(t), outcome' = outcome
  PROVE  /\ InLine' /\ Answered' /\ request' \in Requests /\ permits' = permits
         /\ OnTheWay' = OnTheWay
<1>1. /\ request[t] \in {"none", "waiting"}
      /\ request' = [request EXCEPT ![t] = "canceled"]
      /\ line' = Semaphore!Without(line, t) /\ permits' = permits
  BY DEF Semaphore!Abandon
<1>2. /\ request' \in Requests /\ request'[t] = "canceled"
      /\ \A s \in Takers : s # t => request'[s] = request[s]
  BY <1>1 DEF Requests
<1>3. OnTheWay' = OnTheWay
  BY <1>1, <1>2 DEF OnTheWay
<1>4. Answered'
  BY <1>1, <1>2 DEF Answered
<1>5. /\ line' \in Seq(Takers)
      /\ \A n \in 1..Len(line') : line'[n] # t /\ \E k \in 1..Len(line) : line'[n] = line[k]
      /\ \A m, n \in 1..Len(line') : line'[m] = line'[n] => m = n
  BY <1>1, WithoutFacts DEF InLine
<1>6. \A n \in 1..Len(line') : request'[line'[n]] = "waiting"
  BY <1>2, <1>5, ElementOfSeq DEF InLine
<1>. QED
  BY <1>1, <1>2, <1>3, <1>4, <1>5, <1>6 DEF InLine

LEMMA ReleaseToFirstLine ==
  ASSUME InLine, Answered, request \in Requests,
         Semaphore!ReleaseToFirst, outcome' = outcome
  PROVE  /\ InLine' /\ Answered' /\ request' \in Requests /\ permits' = permits
         /\ \E t \in Takers : t \notin OnTheWay /\ OnTheWay' = OnTheWay \cup {t}
<1>. DEFINE t == Head(line)
<1>1. /\ line # <<>> /\ request' = [request EXCEPT ![t] = "granted"]
      /\ line' = Tail(line) /\ permits' = permits
  BY DEF Semaphore!ReleaseToFirst
<1>2. /\ Len(line) \in Nat /\ t \in Takers /\ t = line[1] /\ 1 \in 1..Len(line)
      /\ line' \in Seq(Takers) /\ Len(line') = Len(line) - 1
      /\ \A n \in 1..Len(line') : line'[n] = line[n+1] /\ n + 1 \in 1..Len(line)
  BY <1>1, HeadTailProperties, EmptySeq DEF InLine
<1>. HIDE DEF t
<1>3. /\ request[t] = "waiting" /\ request' \in Requests /\ request'[t] = "granted"
      /\ \A s \in Takers : s # t => request'[s] = request[s]
  BY <1>1, <1>2 DEF Requests, InLine
<1>4. outcome[t] = {}
  BY <1>2, <1>3 DEF Answered
<1>5. t \notin OnTheWay /\ OnTheWay' = OnTheWay \cup {t}
  BY <1>2, <1>3, <1>4 DEF OnTheWay
<1>6. Answered'
  BY <1>2, <1>3 DEF Answered
<1>7. \A n \in 1..Len(line') : line'[n] # t /\ line'[n] \in Takers
  BY <1>2, ElementOfSeq DEF InLine
<1>8. \A n \in 1..Len(line') : request'[line'[n]] = "waiting"
  BY <1>2, <1>3, <1>7 DEF InLine
<1>9. \A m, n \in 1..Len(line') : line'[m] = line'[n] => m = n
  BY <1>2 DEF InLine
<1>. QED
  BY <1>1, <1>2, <1>3, <1>5, <1>6, <1>8, <1>9 DEF InLine

-----------------------------------------------------------------------------
(* The invariant.                                                          *)

LEMMA LineIs == LineSound /\ TypeOK => InLine /\ Answered /\ request \in Requests
BY DEF LineSound, TypeOK, InLine, Answered, Requests

LEMMA Finite ==
  ASSUME TypeOK
  PROVE  /\ IsFiniteSet(Unreleased) /\ Cardinality(Unreleased) \in Nat
         /\ IsFiniteSet(OnTheWay) /\ Cardinality(OnTheWay) \in Nat
         /\ IsFiniteSet(Failures) /\ Cardinality(Failures) \in Nat
         /\ IsFiniteSet(drained) /\ Cardinality(drained) \in Nat
         /\ Len(queue) \in Nat /\ permits \in Nat
<1>1. Unreleased \in SUBSET Items /\ OnTheWay \in SUBSET Takers
      /\ Failures \in SUBSET Takers /\ drained \in SUBSET Items
  BY DEF TypeOK, Unreleased, OnTheWay, Failures
<1>2. Len(queue) \in Nat /\ permits \in Nat
  BY CollectionAssumption, LenProperties DEF TypeOK
<1>. QED
  BY <1>1, <1>2, CollectionAssumption, FS_Subset, FS_CardinalityType

LEMMA OneMore ==
  ASSUME NEW q \in Nat, NEW d \in Nat, NEW p \in Nat, NEW w \in Nat,
         NEW u \in Nat, NEW f \in Nat, q + d = p + w + u + f
  PROVE  (q + 1) + d = p + w + (u + 1) + f
  OBVIOUS

LEMMA PushCollectionInv ==
  ASSUME CollectionInv, NEW i \in Items, Push(i)
  PROVE  CollectionInv'
<1>. USE DEF CollectionInv, TypeOK
<1>1. /\ apc[i] = "idle" /\ apc' = [apc EXCEPT ![i] = "pushed"]
      /\ queue' = Append(queue, i) /\ added' = Append(added, i)
      /\ UNCHANGED <<semaphore, outcome, removed, drained>>
  BY DEF Push
<1>2. /\ queue' \in Seq(Items) /\ added' \in Seq(Items) /\ Len(queue) \in Nat
      /\ Len(queue') = Len(queue) + 1 /\ queue'[Len(queue) + 1] = i
      /\ \A n \in 1..Len(queue) : queue'[n] = queue[n] /\ queue[n] \in Items
  BY <1>1, AppendProperties, ElementOfSeq
<1>3. apc'[i] = "pushed" /\ \A j \in Items : j # i => apc'[j] = apc[j]
  BY <1>1
<1>4. TypeOK'
  BY <1>1, <1>2
<1>5. LineSound'
  BY <1>1 DEF LineSound
<1>6. /\ \A n \in 1..Len(queue) : queue[n] # i
      /\ i \notin drained /\ \A t \in Takers : i \notin outcome[t]
  BY <1>1 DEF TakenOnce
<1>7. \A m, n \in 1..Len(queue') : queue'[m] = queue'[n] => m = n
  <2>1. \A m, n \in 1..Len(queue) : queue[m] = queue[n] => m = n
    BY DEF TakenOnce
  <2>2. \A n \in 1..Len(queue') : n \in 1..Len(queue) \/ n = Len(queue) + 1
    BY <1>2
  <2>. QED
    BY <1>2, <1>6, <2>1, <2>2
<1>8. \A n \in 1..Len(queue') : /\ apc'[queue'[n]] # "idle"
                               /\ queue'[n] \notin drained
                               /\ \A t \in Takers : queue'[n] \notin outcome[t]
  BY <1>2, <1>3, <1>6 DEF TakenOnce
<1>9. TakenOnce'
  BY <1>1, <1>3, <1>7, <1>8 DEF TakenOnce
<1>10. Unreleased' = Unreleased \cup {i} /\ i \notin Unreleased
  BY <1>1, <1>3 DEF Unreleased
<1>11. Cardinality(Unreleased)' = Cardinality(Unreleased) + 1
  BY <1>10, Finite, FS_AddElement
<1>12. OnTheWay' = OnTheWay /\ Failures' = Failures
  BY <1>1 DEF OnTheWay, Failures
<1>13. CountsItems'
  <2>1. /\ Cardinality(Unreleased) \in Nat /\ Cardinality(OnTheWay) \in Nat
        /\ Cardinality(Failures) \in Nat /\ Cardinality(drained) \in Nat
    BY Finite
  <2>2. /\ Len(queue') = Len(queue) + 1 /\ Len(queue) \in Nat
        /\ permits' = permits /\ drained' = drained
    BY <1>1, <1>2
  <2>3. permits \in Nat
    BY CollectionAssumption
  <2>4. Len(queue) + Cardinality(drained) =
          permits + Cardinality(OnTheWay) + Cardinality(Unreleased)
                  + Cardinality(Failures)
    BY DEF CountsItems
  <2>5. /\ Cardinality(OnTheWay') = Cardinality(OnTheWay)
        /\ Cardinality(Failures') = Cardinality(Failures)
        /\ Cardinality(drained') = Cardinality(drained)
        /\ Cardinality(Unreleased') = Cardinality(Unreleased) + 1
    BY <1>11, <1>12, <2>2
  <2>. HIDE DEF CollectionInv, TypeOK
  <2>6. (Len(queue) + 1) + Cardinality(drained) =
          permits + Cardinality(OnTheWay) + (Cardinality(Unreleased) + 1)
                  + Cardinality(Failures)
    <3>. DEFINE q == Len(queue)
                d == Cardinality(drained)
                w == Cardinality(OnTheWay)
                u == Cardinality(Unreleased)
                f == Cardinality(Failures)
    <3>1. q \in Nat /\ d \in Nat /\ w \in Nat /\ u \in Nat /\ f \in Nat
      BY <2>1, <2>2
    <3>2. q + d = permits + w + u + f
      BY <2>4
    <3>. HIDE DEF q, d, w, u, f
    <3>3. (q + 1) + d = permits + w + (u + 1) + f
      BY <2>3, <3>1, <3>2, OneMore
    <3>. QED
      BY <3>3 DEF q, d, w, u, f
  <2>7. Len(queue') + Cardinality(drained') =
          permits' + Cardinality(OnTheWay') + Cardinality(Unreleased')
                   + Cardinality(Failures')
    BY <2>2, <2>5, <2>6
  <2>. QED
    BY <2>7 DEF CountsItems
<1>. QED
  BY <1>4, <1>5, <1>9, <1>13

LEMMA ReleaseCollectionInv ==
  ASSUME CollectionInv, NEW i \in Items, Release(i)
  PROVE  CollectionInv'
<1>. USE DEF CollectionInv
<1>1. /\ apc[i] = "pushed" /\ apc' = [apc EXCEPT ![i] = "done"]
      /\ UNCHANGED <<queue, outcome, added, removed, drained, canceled, closed>>
  BY DEF Release, Semaphore!ReleaseToFirst, Semaphore!ReleaseToNobody
<1>2. /\ Unreleased' = Unreleased \ {i} /\ i \in Unreleased /\ Failures' = Failures
      /\ \A j \in Items : apc[j] # "idle" => apc'[j] # "idle"
      /\ apc' \in [Items -> {"idle", "pushed", "done"}]
  BY <1>1 DEF TypeOK, Unreleased, Failures
<1>3. Cardinality(Unreleased)' = Cardinality(Unreleased) - 1
  BY <1>2, Finite, FS_RemoveElement
<1>4. TakenOnce'
  BY <1>1, <1>2, ElementOfSeq DEF TakenOnce, TypeOK
<1>5. CASE Semaphore!ReleaseToFirst
  <2>1. /\ InLine' /\ Answered' /\ request' \in Requests /\ permits' = permits
        /\ \E t \in Takers : t \notin OnTheWay /\ OnTheWay' = OnTheWay \cup {t}
    BY <1>1, <1>5, LineIs, ReleaseToFirstLine
  <2>2. Cardinality(OnTheWay)' = Cardinality(OnTheWay) + 1
    BY <2>1, Finite, FS_AddElement
  <2>3. TypeOK' /\ LineSound'
    BY <1>1, <1>2, <2>1 DEF TypeOK, InLine, Answered, Requests, LineSound
  <2>4. CountsItems'
    BY <1>1, <1>2, <1>3, <2>1, <2>2, Finite DEF CountsItems
  <2>. QED
    BY <1>4, <2>3, <2>4
<1>6. CASE Semaphore!ReleaseToNobody
  <2>1. permits < MaxCount /\ permits' = permits + 1 /\ UNCHANGED <<line, request>>
    BY <1>6 DEF Semaphore!ReleaseToNobody
  <2>2. permits' \in 0..MaxCount
    BY <2>1, CollectionAssumption DEF TypeOK
  <2>3. TypeOK' /\ LineSound'
    BY <1>1, <1>2, <2>1, <2>2 DEF TypeOK, LineSound
  <2>4. OnTheWay' = OnTheWay
    BY <1>1, <2>1 DEF OnTheWay
  <2>5. CountsItems'
    BY <1>1, <1>2, <1>3, <2>1, <2>4, Finite DEF CountsItems
  <2>. QED
    BY <1>4, <2>3, <2>5
<1>. QED
  BY <1>5, <1>6 DEF Release

LEMMA TakeBeginCollectionInv ==
  ASSUME CollectionInv, NEW t \in Takers, TakeBegin(t) \/ TakeCanceled(t)
  PROVE  CollectionInv'
<1>. USE DEF CollectionInv
<1>1. UNCHANGED <<queue, apc, outcome, added, removed, drained, canceled, closed>>
  BY DEF TakeBegin, TakeCanceled, Semaphore!Acquire, Semaphore!Join, Semaphore!Abandon
<1>2. Unreleased' = Unreleased /\ Failures' = Failures /\ TakenOnce'
  BY <1>1 DEF Unreleased, Failures, TakenOnce
<1>3. permits \in 0..MaxCount
  BY DEF TypeOK
<1>4. CASE Semaphore!Acquire(t)
  <2>1. /\ InLine' /\ Answered' /\ request' \in Requests /\ permits' \in 0..MaxCount
        /\ permits' = permits - 1 /\ permits \in Nat
        /\ t \notin OnTheWay /\ OnTheWay' = OnTheWay \cup {t}
    BY <1>1, <1>3, <1>4, LineIs, AcquireLine
  <2>2. Cardinality(OnTheWay)' = Cardinality(OnTheWay) + 1
    BY <2>1, Finite, FS_AddElement
  <2>3. TypeOK' /\ LineSound'
    BY <1>1, <2>1 DEF TypeOK, InLine, Answered, Requests, LineSound
  <2>4. CountsItems'
    BY <1>1, <1>2, <2>1, <2>2, Finite DEF CountsItems
  <2>. QED
    BY <1>2, <2>3, <2>4
<1>5. CASE Semaphore!Join(t) \/ Semaphore!Abandon(t)
  <2>1. /\ InLine' /\ Answered' /\ request' \in Requests /\ permits' = permits
        /\ OnTheWay' = OnTheWay
    BY <1>1, <1>5, LineIs, JoinLine, AbandonLine
  <2>2. TypeOK' /\ LineSound'
    BY <1>1, <2>1 DEF TypeOK, InLine, Answered, Requests, LineSound
  <2>3. CountsItems'
    BY <1>1, <1>2, <2>1 DEF CountsItems
  <2>. QED
    BY <1>2, <2>2, <2>3
<1>. QED
  BY <1>4, <1>5 DEF TakeBegin, TakeCanceled

LEMMA TakeEndCollectionInv ==
  ASSUME CollectionInv, NEW t \in Takers, TakeEnd(t)
  PROVE  CollectionInv'
<1>. USE DEF CollectionInv
<1>1. /\ request[t] = "granted" /\ outcome[t] = {}
      /\ UNCHANGED <<semaphore, apc, added, drained>>
  BY DEF TakeEnd
<1>2. Unreleased' = Unreleased
  BY <1>1 DEF Unreleased
<1>3. ASSUME NEW x \in Items \cup {Failure, Canceled},
             outcome' = [outcome EXCEPT ![t] = {x}]
      PROVE  /\ OnTheWay' = OnTheWay \ {t}
             /\ Cardinality(OnTheWay)' = Cardinality(OnTheWay) - 1
             /\ LineSound'
             /\ outcome' \in [Takers -> SUBSET (Items \cup {Failure, Canceled})]
             /\ outcome'[t] = {x} /\ \A s \in Takers : s # t => outcome'[s] = outcome[s]
  <2>1. outcome'[t] = {x} /\ \A s \in Takers : s # t => outcome'[s] = outcome[s]
    BY <1>3 DEF TypeOK
  <2>2. outcome' \in [Takers -> SUBSET (Items \cup {Failure, Canceled})]
    BY <1>3 DEF TypeOK
  <2>3. OnTheWay' = OnTheWay \ {t} /\ t \in OnTheWay
    BY <1>1, <2>1 DEF OnTheWay
  <2>4. LineSound'
    BY <1>1, <2>1 DEF LineSound
  <2>. QED
    BY <2>1, <2>2, <2>3, <2>4, Finite, FS_RemoveElement
<1>4. CASE queue = <<>>
  <2>1. outcome' = [outcome EXCEPT ![t] = {Failure}] /\ UNCHANGED <<queue, removed>>
    BY <1>4 DEF TakeEnd
  <2>2. /\ Cardinality(OnTheWay)' = Cardinality(OnTheWay) - 1 /\ LineSound'
        /\ outcome' \in [Takers -> SUBSET (Items \cup {Failure, Canceled})]
        /\ outcome'[t] = {Failure} /\ \A s \in Takers : s # t => outcome'[s] = outcome[s]
    BY <1>3, <2>1
  <2>3. Failures' = Failures \cup {t} /\ t \notin Failures
    BY <1>1, <2>2 DEF Failures
  <2>4. Cardinality(Failures)' = Cardinality(Failures) + 1
    BY <2>3, Finite, FS_AddElement
  <2>5. CountsItems'
    BY <1>1, <1>2, <2>1, <2>2, <2>4, Finite DEF CountsItems
  <2>6. TypeOK'
    BY <1>1, <2>1, <2>2 DEF TypeOK
  <2>7. \A i \in Items, s \in Takers : i \in outcome'[s] => i \in outcome[s]
    BY <2>2, ThrownAssumption
  <2>8. TakenOnce'
    <3>1. \A n \in 1..Len(queue) : queue[n] \in Items
      BY ElementOfSeq DEF TypeOK
    <3>2. drained \subseteq Items
      BY DEF TypeOK
    <3>. QED
      BY <1>1, <2>1, <2>7, <3>1, <3>2 DEF TakenOnce
  <2>. QED
    BY <2>2, <2>5, <2>6, <2>8
<1>5. CASE queue # <<>>
  <2>. DEFINE h == Head(queue)
  <2>1. /\ outcome' = [outcome EXCEPT ![t] = {h}] /\ queue' = Tail(queue)
        /\ removed' = Append(removed, h)
    BY <1>5 DEF TakeEnd
  <2>2. /\ h \in Items /\ h = queue[1] /\ 1 \in 1..Len(queue) /\ queue' \in Seq(Items)
        /\ Len(queue) \in Nat /\ Len(queue') = Len(queue) - 1
        /\ \A n \in 1..Len(queue') : queue'[n] = queue[n+1] /\ n + 1 \in 1..Len(queue)
    BY <1>5, <2>1, HeadTailProperties, EmptySeq DEF TypeOK
  <2>. HIDE DEF h
  <2>3. /\ Cardinality(OnTheWay)' = Cardinality(OnTheWay) - 1 /\ LineSound'
        /\ outcome' \in [Takers -> SUBSET (Items \cup {Failure, Canceled})]
        /\ outcome'[t] = {h} /\ \A s \in Takers : s # t => outcome'[s] = outcome[s]
    BY <1>3, <2>1, <2>2
  <2>4. Failures' = Failures
    BY <1>1, <2>2, <2>3, ThrownAssumption DEF Failures
  <2>5. CountsItems'
    <3>1. /\ Cardinality(Unreleased) \in Nat /\ Cardinality(OnTheWay) \in Nat
          /\ Cardinality(Failures) \in Nat /\ Cardinality(drained) \in Nat
          /\ permits \in Nat
      BY Finite
    <3>2. /\ Len(queue') = Len(queue) - 1 /\ Len(queue) \in Nat
          /\ permits' = permits /\ drained' = drained
      BY <1>1, <2>2
    <3>3. /\ Cardinality(OnTheWay)' = Cardinality(OnTheWay) - 1
          /\ Cardinality(Unreleased)' = Cardinality(Unreleased)
          /\ Cardinality(Failures)' = Cardinality(Failures)
      BY <1>2, <2>3, <2>4
    <3>4. Len(queue) + Cardinality(drained) =
            permits + Cardinality(OnTheWay) + Cardinality(Unreleased)
                    + Cardinality(Failures)
      BY DEF CountsItems
    <3>. DEFINE d == Cardinality(drained)
                w == Cardinality(OnTheWay)
                u == Cardinality(Unreleased)
                f == Cardinality(Failures)
    <3>5. /\ Len(queue) \in Nat /\ permits \in Nat
          /\ d \in Nat /\ w \in Nat /\ u \in Nat /\ f \in Nat
          /\ Len(queue) + d = permits + w + u + f
      BY <3>1, <3>2, <3>4
    <3>6. CountsItems' <=> (Len(queue) - 1) + d = permits + (w - 1) + u + f
      BY <3>2, <3>3 DEF CountsItems
    <3>. HIDE DEF d, w, u, f
    <3>. QED
      BY <3>5, <3>6
  <2>6. TypeOK'
    BY <1>1, <2>1, <2>2, <2>3 DEF TypeOK
  <2>7. /\ \A n \in 1..Len(queue') : queue'[n] # h
        /\ apc[h] # "idle" /\ h \notin drained /\ \A s \in Takers : h \notin outcome[s]
    <3>1. ASSUME NEW n \in 1..Len(queue') PROVE queue'[n] # h
      <4>1. queue'[n] = queue[n+1] /\ n + 1 \in 1..Len(queue) /\ n + 1 # 1
        BY <2>2
      <4>. QED
        BY <2>2, <4>1 DEF TakenOnce
    <3>2. apc[h] # "idle" /\ h \notin drained /\ \A s \in Takers : h \notin outcome[s]
      BY <2>2 DEF TakenOnce
    <3>. QED
      BY <3>1, <3>2
  <2>8. /\ \A m, n \in 1..Len(queue') : queue'[m] = queue'[n] => m = n
        /\ \A n \in 1..Len(queue') : /\ apc[queue'[n]] # "idle"
                                     /\ queue'[n] \notin drained
                                     /\ \A s \in Takers : queue'[n] \notin outcome[s]
    BY <2>2 DEF TakenOnce
  <2>9. \A s \in Takers : \A x : x \in outcome'[s] => x \in outcome[s] \/ (s = t /\ x = h)
    BY <2>3
  <2>10. \A s \in Takers : \A i \in outcome'[s] \cap Items :
           apc[i] # "idle" /\ \A u \in Takers : i \in outcome'[u] => u = s
    BY <2>7, <2>9 DEF TakenOnce
  <2>11. TakenOnce'
    BY <1>1, <2>7, <2>8, <2>9, <2>10 DEF TakenOnce
  <2>. QED
    BY <2>3, <2>5, <2>6, <2>11
<1>. QED
  BY <1>4, <1>5

LEMMA TakeThrowCollectionInv ==
  ASSUME CollectionInv, NEW t \in Takers, TakeThrow(t)
  PROVE  CollectionInv'
<1>. USE DEF CollectionInv
<1>1. /\ request[t] = "canceled" /\ outcome[t] = {}
      /\ outcome' = [outcome EXCEPT ![t] = {Canceled}]
      /\ UNCHANGED <<semaphore, queue, apc, added, removed, drained>>
  BY DEF TakeThrow
<1>2. /\ outcome' \in [Takers -> SUBSET (Items \cup {Failure, Canceled})]
      /\ outcome'[t] = {Canceled} /\ \A s \in Takers : s # t => outcome'[s] = outcome[s]
  BY <1>1 DEF TypeOK
<1>3. TypeOK'
  BY <1>1, <1>2 DEF TypeOK
<1>4. LineSound'
  BY <1>1, <1>2 DEF LineSound
<1>5. OnTheWay' = OnTheWay /\ Unreleased' = Unreleased
  BY <1>1, <1>2 DEF OnTheWay, Unreleased
<1>6. Failures' = Failures
  BY <1>1, <1>2 DEF Failures, Failure, Canceled
<1>7. CountsItems'
  BY <1>1, <1>5, <1>6 DEF CountsItems
<1>8. TakenOnce'
  <2>1. \A i \in Items, s \in Takers : i \in outcome'[s] => i \in outcome[s]
    BY <1>2, ThrownAssumption
  <2>2. \A n \in 1..Len(queue) : queue[n] \in Items
    BY ElementOfSeq DEF TypeOK
  <2>3. drained \subseteq Items
    BY DEF TypeOK
  <2>. QED
    BY <1>1, <2>1, <2>2, <2>3 DEF TakenOnce
<1>. QED
  BY <1>3, <1>4, <1>7, <1>8

LEMMA TryTakeAllCollectionInv ==
  ASSUME CollectionInv, TryTakeAll
  PROVE  CollectionInv'
<1>. USE DEF CollectionInv
<1>. DEFINE S == {queue[n] : n \in 1..Len(queue)}
<1>1. /\ drained' = drained \cup S /\ queue' = <<>>
      /\ removed' = removed \o queue
      /\ UNCHANGED <<semaphore, apc, outcome, added>>
  BY DEF TryTakeAll
<1>2. queue \in Seq(Items) /\ Len(queue) \in Nat
      /\ \A n \in 1..Len(queue) : queue[n] \in Items
  BY ElementOfSeq, LenProperties DEF TypeOK
<1>3. \A m, n \in 1..Len(queue) : queue[m] = queue[n] => m = n
  BY DEF TakenOnce
<1>4. IsFiniteSet(S) /\ Cardinality(S) = Len(queue)
  <2>. DEFINE f == [n \in 1..Len(queue) |-> queue[n]]
  <2>1. f \in Bijection(1..Len(queue), S)
    BY <1>3 DEF Bijection, Injection, Surjection, IsInjective
  <2>2. ExistsBijection(1..Len(queue), S)
    BY <2>1 DEF ExistsBijection
  <2>3. IsFiniteSet(1..Len(queue)) /\ Cardinality(1..Len(queue)) = Len(queue)
    <3>1. 1 \in Int /\ Len(queue) \in Int /\ Len(queue) \in Nat
      BY <1>2
    <3>2. /\ IsFiniteSet(1..Len(queue))
          /\ Cardinality(1..Len(queue)) = IF 1 > Len(queue) THEN 0 ELSE Len(queue) - 1 + 1
      BY <3>1, FS_Interval, Zenon
    <3>. QED
      BY <3>1, <3>2
  <2>. QED
    BY <1>2, <2>2, <2>3, FS_Bijection
<1>5. S \cap drained = {}
  BY DEF TakenOnce
<1>. HIDE DEF S
<1>6. Cardinality(drained)' = Cardinality(drained) + Len(queue)
  <2>1. Cardinality(drained \cup S) = Cardinality(drained) + Cardinality(S) - Cardinality(drained \cap S)
    BY <1>4, Finite, FS_Union
  <2>2. Cardinality(drained \cap S) = 0
    <3>1. drained \cap S = {}
      BY <1>5
    <3>. QED
      BY <3>1, FS_EmptySet
  <2>. QED
    BY <1>1, <1>2, <1>4, <2>1, <2>2, Finite
<1>7. queue' \in Seq(Items) /\ Len(queue') = 0
  BY <1>1
<1>8. UNCHANGED <<OnTheWay, Unreleased, Failures>>
  BY <1>1 DEF OnTheWay, Unreleased, Failures
<1>9. CountsItems'
  BY <1>1, <1>2, <1>6, <1>7, <1>8, Finite DEF CountsItems
<1>10. TypeOK'
  <2>1. removed' \in Seq(Items)
    BY <1>1, <1>2, ConcatProperties DEF TypeOK
  <2>2. S \subseteq Items
    BY <1>2 DEF S
  <2>. QED
    BY <1>1, <1>7, <2>1, <2>2 DEF TypeOK
<1>11. LineSound'
  BY <1>1 DEF LineSound
<1>12. TakenOnce'
  <2>1. \A i \in S : apc[i] # "idle" /\ \A t \in Takers : i \notin outcome[t]
    BY DEF S, TakenOnce
  <2>. QED
    BY <1>1, <1>7, <2>1 DEF TakenOnce
<1>. QED
  BY <1>9, <1>10, <1>11, <1>12

LEMMA NextCollectionInv == CollectionInv /\ [Next]_vars => CollectionInv'
<1>. SUFFICES ASSUME CollectionInv, [Next]_vars PROVE CollectionInv'
  OBVIOUS
<1>1. CASE UNCHANGED vars
  <2>. USE <1>1 DEF vars, CollectionInv
  <2>1. UNCHANGED <<OnTheWay, Unreleased, Failures>>
    BY DEF OnTheWay, Unreleased, Failures
  <2>2. CountsItems'
    BY <2>1 DEF CountsItems
  <2>3. TypeOK' /\ LineSound' /\ TakenOnce'
    BY DEF TypeOK, LineSound, TakenOnce
  <2>. QED
    BY <2>2, <2>3
<1>2. CASE Cancel
  <2>. USE <1>2 DEF Cancel, Semaphore!Cancel, CollectionInv
  <2>1. UNCHANGED <<OnTheWay, Unreleased, Failures>>
    BY DEF OnTheWay, Unreleased, Failures
  <2>2. CountsItems'
    BY <2>1 DEF CountsItems
  <2>3. TypeOK' /\ LineSound' /\ TakenOnce'
    BY DEF TypeOK, LineSound, TakenOnce
  <2>. QED
    BY <2>2, <2>3
<1>. QED
  BY <1>1, <1>2, PushCollectionInv, ReleaseCollectionInv, TakeBeginCollectionInv,
     TakeEndCollectionInv, TakeThrowCollectionInv, TryTakeAllCollectionInv
  DEF Next, TakeStep

LEMMA InitCollectionInv == Init => CollectionInv
<1>. SUFFICES ASSUME Init PROVE CollectionInv
  OBVIOUS
<1>. USE DEF Init, Semaphore!Init
<1>1. <<>> \in Seq(Items) /\ <<>> \in Seq(Takers) /\ Len(<<>>) = 0
  OBVIOUS
<1>2. 0 \in 0..MaxCount
  BY CollectionAssumption
<1>3. TypeOK
  BY <1>1, <1>2 DEF TypeOK
<1>4. LineSound /\ TakenOnce
  BY <1>1 DEF LineSound, TakenOnce
<1>5. OnTheWay = {} /\ Unreleased = {} /\ Failures = {}
  BY DEF OnTheWay, Unreleased, Failures
<1>6. CountsItems
  BY <1>1, <1>5, FS_EmptySet DEF CountsItems
<1>. QED
  BY <1>3, <1>4, <1>6 DEF CollectionInv

(* Every item stands for a permit, and is taken once.                      *)
THEOREM CollectionInvariant == SafeSpec => []CollectionInv
BY InitCollectionInv, NextCollectionInv, PTL DEF SafeSpec

-----------------------------------------------------------------------------
LEMMA NextTakeNeverFails ==
  CollectionInv /\ TakeNeverFails /\ [Next]_vars => TakeNeverFails'
<1>. SUFFICES ASSUME CollectionInv, TakeNeverFails, [Next]_vars PROVE TakeNeverFails'
  OBVIOUS
<1>1. CASE UNCHANGED <<outcome, drained>>
  BY <1>1 DEF TakeNeverFails, Failures
<1>2. ASSUME NEW t \in Takers, TakeEnd(t), queue = <<>> PROVE TakeNeverFails'
  <2>1. t \in OnTheWay
    BY <1>2 DEF TakeEnd, OnTheWay
  <2>2. OnTheWay # {}
    BY <2>1
  <2>3. Cardinality(OnTheWay) # 0 /\ TypeOK
    BY <2>2, Finite, FS_EmptySet DEF CollectionInv
  <2>4. Len(queue) = 0
    BY <1>2
  <2>5. Cardinality(Failures) < Cardinality(drained)
    BY <2>3, <2>4, Finite DEF CollectionInv, CountsItems
  <2>6. Failures' = Failures \cup {t} /\ drained' = drained
    BY <1>2, <2>3 DEF TakeEnd, Failures, TypeOK
  <2>7. IsFiniteSet(Failures) /\ Cardinality(Failures) \in Nat
        /\ Cardinality(drained) \in Nat
    BY <2>3, Finite
  <2>8. Cardinality(Failures \cup {t}) <= Cardinality(Failures) + 1
    <3>1. Cardinality(Failures \cup {t}) =
            IF t \in Failures THEN Cardinality(Failures) ELSE Cardinality(Failures) + 1
      BY <2>7, FS_AddElement
    <3>. QED
      BY <2>7, <3>1
  <2>9. Cardinality(Failures \cup {t}) \in Nat
    BY <2>7, FS_AddElement, FS_CardinalityType
  <2>10. Cardinality(Failures \cup {t}) <= Cardinality(drained)
    BY <2>5, <2>7, <2>8, <2>9
  <2>. QED
    BY <2>6, <2>10 DEF TakeNeverFails
<1>3. ASSUME NEW t \in Takers, TakeEnd(t), queue # <<>> PROVE TakeNeverFails'
  <2>1. Head(queue) \in Items
    BY <1>3, HeadTailProperties DEF CollectionInv, TypeOK
  <2>2. /\ outcome' = [outcome EXCEPT ![t] = {Head(queue)}] /\ outcome[t] = {}
        /\ drained' = drained
    BY <1>3 DEF TakeEnd
  <2>3. Failure \notin {Head(queue)}
    BY <2>1, ThrownAssumption
  <2>4. outcome'[t] = {Head(queue)} /\ \A s \in Takers : s # t => outcome'[s] = outcome[s]
    BY <2>2 DEF CollectionInv, TypeOK
  <2>5. \A s \in Takers : Failure \in outcome'[s] <=> Failure \in outcome[s]
    BY <2>2, <2>3, <2>4
  <2>6. Failures' = Failures
    BY <2>5 DEF Failures
  <2>. QED
    BY <2>2, <2>6 DEF TakeNeverFails
<1>4. ASSUME NEW t \in Takers, TakeThrow(t) PROVE TakeNeverFails'
  <2>1. Failures' = Failures /\ drained' = drained
    BY <1>4 DEF TakeThrow, Failures, Failure, Canceled, CollectionInv, TypeOK
  <2>. QED
    BY <2>1 DEF TakeNeverFails
<1>5. CASE TryTakeAll
  <2>1. Failures' = Failures /\ drained \subseteq drained'
    BY <1>5 DEF TryTakeAll, Failures
  <2>2. TypeOK /\ TypeOK'
    BY <1>5, TryTakeAllCollectionInv DEF CollectionInv
  <2>3. IsFiniteSet(drained') /\ Cardinality(drained') \in Nat
    BY <2>2, CollectionAssumption, FS_Subset, FS_CardinalityType DEF TypeOK
  <2>4. Cardinality(drained) <= Cardinality(drained')
    BY <2>1, <2>3, FS_Subset
  <2>. QED
    BY <2>1, <2>2, <2>3, <2>4, Finite DEF TakeNeverFails
<1>. QED
  BY <1>1, <1>2, <1>3, <1>4, <1>5
  DEF Next, vars, TakeStep, Push, Release, TakeBegin, TakeCanceled, Cancel

(* A taker that is granted a permit fails to find an item at most once for *)
(* each item that TryTakeAll took.                                         *)
THEOREM TakeFailsForDrainedOnly == SafeSpec => []TakeNeverFails
<1>1. Init => TakeNeverFails
  <2>. SUFFICES ASSUME Init PROVE TakeNeverFails
    OBVIOUS
  <2>1. Failures = {} /\ drained = {}
    BY DEF Init, Failures
  <2>. QED
    BY <2>1, FS_EmptySet DEF TakeNeverFails
<1>. QED
  BY <1>1, CollectionInvariant, NextTakeNeverFails, PTL DEF SafeSpec

-----------------------------------------------------------------------------
LEMMA NextInOrder == CollectionInv /\ InOrder /\ [Next]_vars => InOrder'
<1>. SUFFICES ASSUME CollectionInv, InOrder, [Next]_vars PROVE InOrder'
  OBVIOUS
<1>. USE DEF CollectionInv, TypeOK, InOrder
<1>1. CASE UNCHANGED <<added, removed, queue>>
  BY <1>1
<1>2. ASSUME NEW i \in Items, Push(i) PROVE InOrder'
  <2>1. <<i>> \in Seq(Items) /\ removed \o queue \in Seq(Items)
    OBVIOUS
  <2>2. Append(removed \o queue, i) = (removed \o queue) \o <<i>>
    BY <2>1, AppendIsConcat
  <2>3. Append(queue, i) = queue \o <<i>>
    BY AppendIsConcat
  <2>4. (removed \o queue) \o <<i>> = removed \o (queue \o <<i>>)
    BY <2>1, ConcatAssociative
  <2>. QED
    BY <1>2, <2>2, <2>3, <2>4 DEF Push
<1>3. ASSUME NEW t \in Takers, TakeEnd(t), queue # <<>> PROVE InOrder'
  <2>1. queue \in Seq(Items) /\ removed \in Seq(Items)
    OBVIOUS
  <2>2. Append(removed, Head(queue)) \o Tail(queue) = removed \o queue
    BY <1>3, <2>1
  <2>. QED
    BY <1>3, <2>2 DEF TakeEnd
<1>4. CASE TryTakeAll
  <2>1. removed \o queue \in Seq(Items)
    OBVIOUS
  <2>2. (removed \o queue) \o <<>> = removed \o queue
    BY <2>1, ConcatEmptySeq
  <2>. QED
    BY <1>4, <2>2 DEF TryTakeAll
<1>. QED
  BY <1>1, <1>2, <1>3, <1>4
  DEF Next, vars, TakeStep, TakeEnd, TakeThrow, Release, TakeBegin, TakeCanceled, Cancel

(* Items are taken in the order in which they were added, and none is lost.*)
THEOREM ItemsInOrder == SafeSpec => []InOrder
<1>1. Init => InOrder
  BY DEF Init, InOrder
<1>. QED
  BY <1>1, CollectionInvariant, NextInOrder, PTL DEF SafeSpec
=============================================================================
