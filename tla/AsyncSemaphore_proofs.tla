------------------------ MODULE AsyncSemaphore_proofs ------------------------
(***************************************************************************)
(* For any number of waiters and of permits: where the semaphore's waiters *)
(* are, that no permit is idle while somebody waits, that permits are      *)
(* conserved, and that the semaphore implements the safety part of its     *)
(* contract, whose line is the subsequence of the live requests.           *)
(***************************************************************************)
EXTENDS AsyncSemaphore, FiniteSetTheorems, SequenceTheorems, TLAPS

USE DEF source, rest

(* The head of the line, and what is left of it.                           *)
LEMMA PopFacts ==
  ASSUME SemInv, waiters # <<>>, waiters' = Tail(waiters)
  PROVE  /\ Head(waiters) \in Waiters
         /\ InLine(Head(waiters))
         /\ waiters' \in Seq(Waiters)
         /\ \A w : InLine(w)' => InLine(w) /\ w # Head(waiters)
         /\ \A w : InLine(w) => InLine(w)' \/ w = Head(waiters)
         /\ \A i, j \in 1..Len(waiters') : waiters'[i] = waiters'[j] => i = j
<1>. waiters \in Seq(Waiters) /\ Len(waiters) \in Nat
  BY DEF SemInv, TypeOK
<1>1. /\ Head(waiters) \in Waiters
      /\ Head(waiters) = waiters[1]
      /\ waiters' \in Seq(Waiters)
      /\ Len(waiters') = Len(waiters) - 1
      /\ \A i \in 1..Len(waiters') : waiters'[i] = waiters[i+1]
  BY HeadTailProperties
<1>2. 1 \in 1..Len(waiters)
  BY EmptySeq
<1>3. \A i, j \in 1..Len(waiters) : waiters[i] = waiters[j] => i = j
  BY DEF SemInv, LineSound
<1>4. InLine(Head(waiters))
  BY <1>1, <1>2 DEF InLine
<1>5. ASSUME NEW w, InLine(w)' PROVE InLine(w) /\ w # Head(waiters)
  <2>1. PICK i \in 1..Len(waiters') : waiters'[i] = w
    BY <1>5 DEF InLine
  <2>2. i + 1 \in 1..Len(waiters) /\ i + 1 # 1 /\ waiters[i+1] = w
    BY <1>1, <2>1
  <2>. QED
    BY <1>1, <1>2, <1>3, <2>2 DEF InLine
<1>6. ASSUME NEW w, InLine(w), w # Head(waiters) PROVE InLine(w)'
  <2>1. PICK i \in 1..Len(waiters) : waiters[i] = w
    BY <1>6 DEF InLine
  <2>2. i # 1
    BY <1>1, <1>6, <2>1
  <2>3. i - 1 \in 1..Len(waiters') /\ waiters'[i-1] = waiters[i]
    BY <1>1, <2>1, <2>2
  <2>. QED
    BY <2>1, <2>3 DEF InLine
<1>7. \A i, j \in 1..Len(waiters') : waiters'[i] = waiters'[j] => i = j
  <2>1. \A i \in 1..Len(waiters') : i + 1 \in 1..Len(waiters)
    BY <1>1
  <2>. QED
    BY <1>1, <1>3, <2>1
<1>. QED
  BY <1>1, <1>4, <1>5, <1>6, <1>7

LEMMA InitSemInv == Init => SemInv
<1>. SUFFICES ASSUME Init PROVE SemInv
  OBVIOUS
<1>1. waiters = <<>> /\ <<>> \in Seq(Waiters) /\ Len(<<>>) = 0
  BY DEF Init
<1>2. TypeOK
  <2>1. Source!ContractTypeOK
    BY DEF Init, Source!Init, Source!ContractTypeOK, Source!Status
  <2>2. count \in 0..MaxCount /\ releases \in 0..ReleaseBound
    BY SemaphoreAssumption DEF Init
  <2>. QED
    BY <1>1, <2>1, <2>2 DEF Init, TypeOK
<1>3. LineSound /\ CountSound
  BY <1>1 DEF Init, LineSound, CountSound, InLine
<1>4. TokenSound
  BY DEF Init, Source!Init, TokenSound
<1>. QED
  BY <1>2, <1>3, <1>4 DEF SemInv

-----------------------------------------------------------------------------
(* WaitAsync.                                                              *)

LEMMA WaitCompletedSemInv ==
  ASSUME SemInv, NEW w \in Waiters, WaitCompleted(w)
  PROVE  SemInv'
<1>1. TypeOK'
  <2>1. count' \in 0..MaxCount
    BY SemaphoreAssumption DEF WaitCompleted, SemInv, TypeOK
  <2>. QED
    BY <2>1 DEF WaitCompleted, SemInv, TypeOK, Source!ContractTypeOK
<1>2. LineSound'
  BY DEF WaitCompleted, SemInv, TypeOK, LineSound, InLine
<1>3. CountSound'
  BY DEF WaitCompleted, SemInv, TypeOK, CountSound, LockFree
<1>4. TokenSound'
  BY DEF WaitCompleted, SemInv, TokenSound
<1>. QED
  BY <1>1, <1>2, <1>3, <1>4 DEF SemInv

LEMMA WaitRegisterSemInv ==
  ASSUME SemInv, NEW w \in Waiters, WaitRegister(w)
  PROVE  SemInv'
<1>. USE DEF WaitRegister, SemInv, TypeOK
<1>1. TypeOK'
  <2>1. Source!ContractTypeOK'
    BY DEF Source!ContractTypeOK, Source!Status, Source!Register
  <2>2. task' \in [Waiters -> {"none", "pending", "granted", "canceled"}]
    OBVIOUS
  <2>. QED
    BY <2>1, <2>2
<1>2. LineSound'
  <2>1. \A v \in Waiters : v # w => task'[v] = task[v] /\ pc'[v] = pc[v]
    OBVIOUS
  <2>2. pc'[w] = "registering" /\ task'[w] \in {"pending", "canceled"}
    OBVIOUS
  <2>3. mode' = "idle" /\ count' = 0 /\ waiters' = waiters
    BY DEF LockFree
  <2>4. ~InLine(w)
    BY DEF LineSound
  <2>. QED
    BY <2>1, <2>2, <2>3, <2>4 DEF LineSound, InLine, LockFree
<1>3. CountSound'
  BY DEF CountSound
<1>4. TokenSound'
  BY DEF TokenSound, Source!Register, Source!ContractTypeOK
<1>. QED
  BY <1>1, <1>2, <1>3, <1>4

LEMMA WaitEnqueueSemInv ==
  ASSUME SemInv, NEW w \in Waiters, WaitEnqueue(w)
  PROVE  SemInv'
<1>. USE DEF WaitEnqueue, SemInv, TypeOK
<1>1. /\ waiters' \in Seq(Waiters)
      /\ Len(waiters') = Len(waiters) + 1
      /\ \A i \in 1..Len(waiters) : waiters'[i] = waiters[i]
      /\ waiters'[Len(waiters) + 1] = w
      /\ Len(waiters) \in Nat
  BY AppendProperties
<1>2. TypeOK'
  BY <1>1 DEF Source!ContractTypeOK
<1>3. ~InLine(w) /\ count = 0 /\ mode = "idle"
  BY DEF LineSound
<1>4. \A v : InLine(v)' <=> InLine(v) \/ v = w
  BY <1>1 DEF InLine
<1>5. LineSound'
  <2>1. \A i, j \in 1..Len(waiters') : waiters'[i] = waiters'[j] => i = j
    BY <1>1, <1>3 DEF LineSound, InLine
  <2>. QED
    BY <1>3, <1>4, <2>1 DEF LineSound
<1>6. CountSound'
  BY <1>3 DEF CountSound
<1>7. TokenSound'
  BY DEF TokenSound
<1>. QED
  BY <1>2, <1>5, <1>6, <1>7

-----------------------------------------------------------------------------
(* Release.                                                                *)

LEMMA ReleaseCountOnlySemInv ==
  ASSUME SemInv, ReleaseCountOnly
  PROVE  SemInv'
<1>. USE DEF ReleaseCountOnly, SemInv, TypeOK, LockFree
<1>1. TypeOK'
  BY SemaphoreAssumption DEF Source!ContractTypeOK
<1>2. LineSound' /\ CountSound' /\ TokenSound'
  BY DEF LineSound, CountSound, InLine, TokenSound
<1>. QED
  BY <1>1, <1>2

LEMMA ReleaseBeginSemInv ==
  ASSUME SemInv, ReleaseBegin
  PROVE  SemInv'
<1>. USE DEF ReleaseBegin, SemInv, TypeOK, LockFree
<1>1. TypeOK'
  <2>1. releases' \in 0..ReleaseBound
    BY SemaphoreAssumption
  <2>. QED
    BY <2>1 DEF Source!ContractTypeOK
<1>2. LineSound' /\ CountSound' /\ TokenSound'
  BY SemaphoreAssumption DEF LineSound, CountSound, InLine, TokenSound
<1>. QED
  BY <1>1, <1>2

(* What Release and Dispose have in common: the head of the line is popped *)
(* and its task completed, if it is still pending.                         *)
LEMMA PopSemInv ==
  ASSUME SemInv, waiters # <<>>, mode \in {"release", "dispose"},
         waiters' = Tail(waiters), popped' = {Head(waiters)},
         NEW o \in {"granted", "canceled"}, TrySet(Head(waiters), o),
         waiterReleased' \in BOOLEAN,
         UNCHANGED <<count, pc, mode, releases, source>>
  PROVE  SemInv'
<1>. DEFINE h == Head(waiters)
<1>. HIDE DEF h
<1>. USE DEF SemInv, TypeOK
<1>1. /\ h \in Waiters /\ InLine(h) /\ waiters' \in Seq(Waiters)
      /\ \A w : InLine(w)' => InLine(w) /\ w # h
      /\ \A w : InLine(w) => InLine(w)' \/ w = h
      /\ \A i, j \in 1..Len(waiters') : waiters'[i] = waiters'[j] => i = j
  BY PopFacts DEF h
<1>2. task' = [task EXCEPT ![h] = IF @ = "pending" THEN o ELSE @] /\ popped' = {h}
  BY DEF h, TrySet
<1>3. TypeOK'
  BY <1>1, <1>2 DEF Source!ContractTypeOK
<1>4. LineSound'
  <2>1. task'[h] # "pending" /\ (task'[h] = "none" <=> task[h] = "none")
    BY <1>1, <1>2
  <2>2. \A w \in Waiters : w # h => task'[w] = task[w]
    BY <1>1, <1>2
  <2>. QED
    BY <1>1, <2>1, <2>2 DEF LineSound
<1>5. CountSound' /\ TokenSound'
  BY DEF CountSound, TokenSound
<1>. QED
  BY <1>3, <1>4, <1>5

LEMMA UnregisterSemInv ==
  ASSUME SemInv, Unregister
  PROVE  SemInv'
<1>. USE DEF Unregister, SemInv, TypeOK
<1>1. Source!ContractTypeOK'
  BY DEF Source!ContractTypeOK, Source!Status, Source!Dispose
<1>2. TypeOK'
  BY <1>1
<1>3. LineSound' /\ CountSound' /\ TokenSound'
  BY DEF LineSound, CountSound, InLine, TokenSound, Source!Dispose, Source!ContractTypeOK
<1>. QED
  BY <1>2, <1>3

LEMMA ReleaseEndSemInv ==
  ASSUME SemInv, ReleaseEnd
  PROVE  SemInv'
<1>. USE DEF ReleaseEnd, SemInv, TypeOK
<1>1. count = 0 /\ MaxCount > 0
  BY DEF CountSound
<1>2. TypeOK'
  BY <1>1, SemaphoreAssumption DEF Source!ContractTypeOK
<1>3. LineSound' /\ CountSound' /\ TokenSound'
  BY <1>1 DEF LineSound, CountSound, InLine, TokenSound
<1>. QED
  BY <1>2, <1>3

-----------------------------------------------------------------------------
(* The destructor and the token.                                           *)

LEMMA DisposeSemInv ==
  ASSUME SemInv, DisposeBegin \/ DisposeEnd
  PROVE  SemInv'
<1>. USE DEF DisposeBegin, DisposeEnd, SemInv, TypeOK, LockFree
<1>1. TypeOK'
  BY DEF Source!ContractTypeOK
<1>2. LineSound' /\ CountSound' /\ TokenSound'
  BY DEF LineSound, CountSound, InLine, TokenSound
<1>. QED
  BY <1>1, <1>2

LEMMA TokenSemInv ==
  ASSUME SemInv, TokenCancel \/ TokenTake \/ \E w \in Waiters : TokenFire(w)
  PROVE  SemInv'
<1>. USE DEF SemInv, TypeOK
<1>1. Source!ContractTypeOK'
  BY DEF TokenCancel, TokenTake, TokenFire, Source!ContractTypeOK, Source!Status,
         Source!Cancel, Source!Take, Source!Fire
<1>2. UNCHANGED rest
  BY DEF TokenCancel, TokenTake, TokenFire
<1>3. /\ task' \in [Waiters -> {"none", "pending", "granted", "canceled"}]
      /\ \A w \in Waiters : task'[w] = task[w]
                             \/ (task[w] = "pending" /\ task'[w] = "canceled")
  BY DEF TokenCancel, TokenTake, TokenFire, TrySet
<1>4. TypeOK'
  BY <1>1, <1>2, <1>3
<1>5. LineSound'
  BY <1>2, <1>3 DEF LineSound, InLine
<1>6. CountSound'
  BY <1>2 DEF CountSound
<1>7. TokenSound'
  BY DEF TokenSound, TokenCancel, TokenTake, TokenFire, Source!Cancel, Source!Take,
         Source!Fire, Source!ContractTypeOK
<1>. QED
  BY <1>4, <1>5, <1>6, <1>7

-----------------------------------------------------------------------------
LEMMA NextSemInv == SemInv /\ [Next]_vars => SemInv'
<1>. SUFFICES ASSUME SemInv, [Next]_vars PROVE SemInv'
  OBVIOUS
<1>1. CASE UNCHANGED vars
  BY <1>1 DEF vars, SemInv, TypeOK, Source!ContractTypeOK, LineSound, CountSound, InLine,
              TokenSound
<1>2. CASE ReleasePop
  <2>1. (task[Head(waiters)] = "pending") \in BOOLEAN
    OBVIOUS
  <2>. QED
    BY <1>2, <2>1, PopSemInv DEF ReleasePop
<1>3. CASE DisposePop
  BY <1>3, PopSemInv DEF DisposePop, SemInv, TypeOK
<1>. QED
  BY <1>1, <1>2, <1>3, WaitCompletedSemInv, WaitRegisterSemInv, WaitEnqueueSemInv,
     ReleaseCountOnlySemInv, ReleaseBeginSemInv, UnregisterSemInv, ReleaseEndSemInv,
     DisposeSemInv, TokenSemInv
  DEF Next, WalkStep

(* Where the waiters are, and how the count stands to them.                *)
THEOREM SemaphoreInvariant == SafeSpec => []SemInv
BY InitSemInv, NextSemInv, PTL DEF SafeSpec

(* Nobody waits while there is a permit.                                   *)
THEOREM NoPermitIsIdle == SafeSpec => []NoIdlePermit
<1>1. SemInv => NoIdlePermit
  <2>. SUFFICES ASSUME SemInv, count > 0, NEW w \in Waiters PROVE task[w] # "pending"
    BY DEF NoIdlePermit
  <2>1. waiters = <<>> /\ pc[w] # "registering"
    BY DEF SemInv, LineSound, CountSound
  <2>2. ~InLine(w)
    BY <2>1 DEF InLine
  <2>. QED
    BY <2>1, <2>2 DEF SemInv, LineSound
<1>. QED
  BY <1>1, SemaphoreInvariant, PTL

-----------------------------------------------------------------------------
(* Permits.  A step that grants w adds one to the tasks granted; every     *)
(* other step leaves them alone, for no task that is granted changes.      *)

LEMMA GrantedFinite == IsFiniteSet(Granted) /\ Cardinality(Granted) \in Nat
BY SemaphoreAssumption, FS_Subset, FS_CardinalityType DEF Granted

LEMMA GrantsOne ==
  ASSUME NEW w \in Waiters, task[w] # "granted", task'[w] = "granted",
         \A v \in Waiters : v # w => task'[v] = task[v]
  PROVE  Cardinality(Granted)' = Cardinality(Granted) + 1
<1>1. Granted' = Granted \cup {w} /\ w \notin Granted
  BY DEF Granted
<1>. QED
  BY <1>1, GrantedFinite, FS_AddElement

LEMMA GrantsNobody ==
  ASSUME \A v \in Waiters : task'[v] = "granted" <=> task[v] = "granted"
  PROVE  Cardinality(Granted)' = Cardinality(Granted)
<1>1. Granted' = Granted
  BY DEF Granted
<1>. QED
  BY <1>1

LEMMA NextPermitsConserved ==
  SemInv /\ PermitsConserved /\ [Next]_vars => PermitsConserved'
<1>. SUFFICES ASSUME SemInv, PermitsConserved, [Next]_vars PROVE PermitsConserved'
  OBVIOUS
<1>. USE DEF SemInv, TypeOK, PermitsConserved, Owed
<1>0. /\ Cardinality(Granted) \in Nat /\ count \in Nat /\ releases \in Nat
      /\ InitialCount \in Nat
  BY GrantedFinite, SemaphoreAssumption
<1>1. CASE UNCHANGED vars
  BY <1>1 DEF vars, Granted
<1>2. ASSUME NEW w \in Waiters, WaitCompleted(w) PROVE PermitsConserved'
  <2>1. task[w] = "none" /\ mode = "idle"
    BY <1>2 DEF WaitCompleted, LineSound, LockFree
  <2>2. Cardinality(Granted)' = Cardinality(Granted) + 1
    BY <1>2, <2>1, GrantsOne DEF WaitCompleted
  <2>. QED
    BY <1>0, <1>2, <2>1, <2>2 DEF WaitCompleted
<1>3. ASSUME NEW w \in Waiters, WaitRegister(w) PROVE PermitsConserved'
  <2>1. task[w] = "none"
    BY <1>3 DEF WaitRegister, LineSound
  <2>2. Cardinality(Granted)' = Cardinality(Granted)
    BY <1>3, <2>1, GrantsNobody DEF WaitRegister
  <2>. QED
    BY <1>3, <2>2 DEF WaitRegister
<1>4. ASSUME NEW w \in Waiters, WaitEnqueue(w) PROVE PermitsConserved'
  BY <1>4 DEF WaitEnqueue, Granted
<1>5. CASE ReleaseCountOnly \/ ReleaseBegin
  <2>1. Cardinality(Granted)' = Cardinality(Granted) /\ mode = "idle"
    BY <1>5 DEF ReleaseCountOnly, ReleaseBegin, Granted, LockFree
  <2>2. CASE ReleaseCountOnly
    BY <1>0, <2>1, <2>2 DEF ReleaseCountOnly
  <2>3. CASE ReleaseBegin
    BY <1>0, <2>1, <2>3 DEF ReleaseBegin
  <2>. QED
    BY <1>5, <2>2, <2>3
<1>6. CASE ReleasePop
  <2>. DEFINE h == Head(waiters)
  <2>1. h \in Waiters
    BY <1>6, PopFacts DEF ReleasePop
  <2>. HIDE DEF h
  <2>2. /\ task' = [task EXCEPT ![h] = IF @ = "pending" THEN "granted" ELSE @]
        /\ waiterReleased' = (task[h] = "pending")
        /\ mode = "release" /\ ~waiterReleased
        /\ UNCHANGED <<count, mode, releases>>
    BY <1>6 DEF ReleasePop, TrySet, h
  <2>3. CASE task[h] = "pending"
    <3>1. Cardinality(Granted)' = Cardinality(Granted) + 1
      BY <2>1, <2>2, <2>3, GrantsOne
    <3>2. waiterReleased'
      BY <2>2, <2>3
    <3>3. Owed = 1 /\ Owed' = 0
      BY <2>2, <3>2
    <3>. QED
      BY <1>0, <2>2, <3>1, <3>3
  <2>4. CASE task[h] # "pending"
    <3>1. Cardinality(Granted)' = Cardinality(Granted)
      BY <2>1, <2>2, <2>4, GrantsNobody
    <3>2. ~waiterReleased'
      BY <2>2, <2>4
    <3>. QED
      BY <2>2, <3>1, <3>2
  <2>. QED
    BY <2>3, <2>4
<1>7. CASE Unregister \/ DisposeBegin \/ DisposeEnd
  <2>1. Cardinality(Granted)' = Cardinality(Granted)
    BY <1>7 DEF Unregister, DisposeBegin, DisposeEnd, Granted
  <2>. QED
    BY <1>7, <2>1 DEF Unregister, DisposeBegin, DisposeEnd, LockFree
<1>8. CASE ReleaseEnd
  <2>1. Cardinality(Granted)' = Cardinality(Granted)
    BY <1>8 DEF ReleaseEnd, Granted
  <2>. QED
    BY <1>0, <1>8, <2>1 DEF ReleaseEnd
<1>9. CASE DisposePop
  <2>1. Head(waiters) \in Waiters
    BY <1>9, PopFacts DEF DisposePop
  <2>2. Cardinality(Granted)' = Cardinality(Granted)
    BY <1>9, <2>1, GrantsNobody DEF DisposePop, TrySet
  <2>. QED
    BY <1>9, <2>2 DEF DisposePop
<1>10. CASE TokenCancel \/ TokenTake \/ \E w \in Waiters : TokenFire(w)
  <2>1. Cardinality(Granted)' = Cardinality(Granted)
    BY <1>10, GrantsNobody DEF TokenCancel, TokenTake, TokenFire, TrySet
  <2>. QED
    BY <1>10, <2>1 DEF TokenCancel, TokenTake, TokenFire
<1>. QED
  BY <1>1, <1>2, <1>3, <1>4, <1>5, <1>6, <1>7, <1>8, <1>9, <1>10 DEF Next, WalkStep

(* No permit is lost or made up, however cancellations race releases.      *)
THEOREM PermitsAreConserved == SafeSpec => []PermitsConserved
<1>1. Init => PermitsConserved
  <2>. SUFFICES ASSUME Init PROVE PermitsConserved
    OBVIOUS
  <2>1. Granted = {}
    BY DEF Init, Granted
  <2>. QED
    BY <2>1, FS_EmptySet, SemaphoreAssumption DEF Init, PermitsConserved, Owed
<1>. QED
  BY <1>1, SemaphoreInvariant, NextPermitsConserved, PTL DEF SafeSpec

-----------------------------------------------------------------------------
(* The line of the contract: the subsequence of those in _waiters that are *)
(* pending.  It is determined by any increasing enumeration of the places  *)
(* where they are; how the line changes is shown by giving the enumeration *)
(* of its places after the step.                                           *)

Enumerates(p, k, P) ==
  /\ p \in [1..k -> P]
  /\ \A m, n \in 1..k : m < n => p[m] < p[n]
  /\ \A i \in P : \E n \in 1..k : p[n] = i

LEMMA EnumeratedOnly ==
  ASSUME NEW s, Len(s) \in Nat, NEW A, NEW k \in Nat, NEW p,
         Enumerates(p, k, Positions(s, A))
  PROVE  Only(s, A) = [n \in 1..k |-> s[p[n]]]
<1>. DEFINE P == Positions(s, A)
<1>1. \A i \in P : i \in Nat
  BY DEF Positions
<1>. HIDE DEF P
<1>2. /\ p \in [1..k -> P]
      /\ \A m, n \in 1..k : m < n => p[m] < p[n]
      /\ \A i \in P : \E n \in 1..k : p[n] = i
  BY DEF Enumerates, P
<1>3. \A n \in 1..k : p[n] \in P /\ p[n] \in Nat
  BY <1>1, <1>2
<1>4. Cardinality(P) = k
  <2>1. p \in Bijection(1..k, P)
    <3>1. \A m, n \in 1..k : p[m] = p[n] => m = n
      BY <1>2, <1>3
    <3>2. p \in Injection(1..k, P)
      BY <1>2, <3>1 DEF Injection, IsInjective
    <3>3. p \in Surjection(1..k, P)
      BY <1>2 DEF Surjection
    <3>. QED
      BY <3>2, <3>3 DEF Bijection
  <2>. QED
    BY <2>1, FS_CountingElements DEF ExistsBijection
<1>5. ASSUME NEW n \in 1..k PROVE Rank(P, p[n]) = n
  <2>. DEFINE B == {m \in P : m <= p[n]}
              q == [m \in 1..n |-> p[m]]
  <2>1. \A m \in 1..n : p[m] \in B
    <3>. TAKE m \in 1..n
    <3>1. m \in 1..k /\ (m < n \/ m = n)
      OBVIOUS
    <3>. QED
      BY <1>2, <1>3, <3>1
  <2>2. \A i \in B : \E m \in 1..n : p[m] = i
    <3>. TAKE i \in B
    <3>1. PICK m \in 1..k : p[m] = i
      BY <1>2
    <3>2. m <= n
      BY <1>2, <1>3, <3>1
    <3>. QED
      BY <3>1, <3>2
  <2>. HIDE DEF B
  <2>3. q \in Injection(1..n, B)
    <3>1. \A i, j \in 1..n : q[i] = q[j] => i = j
      BY <1>2, <1>3
    <3>. QED
      BY <2>1, <3>1 DEF Injection, IsInjective
  <2>4. q \in Surjection(1..n, B)
    BY <2>1, <2>2 DEF Surjection
  <2>5. Cardinality(B) = n
    BY <2>3, <2>4, FS_CountingElements DEF ExistsBijection, Bijection
  <2>. QED
    BY <2>5 DEF Rank, B
<1>6. \A n \in 1..k : (CHOOSE m \in P : Rank(P, m) = n) = p[n]
  <2>. TAKE n \in 1..k
  <2>1. \A m \in P : Rank(P, m) = n => m = p[n]
    <3>. TAKE m \in P
    <3>1. PICK j \in 1..k : p[j] = m
      BY <1>2
    <3>. QED
      BY <1>5, <3>1
  <2>. QED
    BY <1>3, <1>5, <2>1
<1>7. Only(s, A) = [n \in 1..Cardinality(P) |-> s[CHOOSE m \in P : Rank(P, m) = n]]
  BY DEF Only, P
<1>. QED
  BY <1>4, <1>6, <1>7

LEMMA EnumerationExists ==
  ASSUME NEW N \in Nat, NEW P \in SUBSET (1..N)
  PROVE  Cardinality(P) \in Nat /\ \E p : Enumerates(p, Cardinality(P), P)
<1>. DEFINE k == Cardinality(P)
            r == [m \in P |-> Rank(P, m)]
<1>1. IsFiniteSet(P) /\ k \in Nat
  <2>1. IsFiniteSet(1..N)
    BY FS_Interval
  <2>. QED
    BY <2>1, FS_Subset, FS_CardinalityType
<1>2. \A i \in P : i \in Nat
  OBVIOUS
<1>3. ASSUME NEW i \in P, NEW j \in P, i < j PROVE r[i] < r[j]
  <2>. DEFINE B == {m \in P : m <= i}
              C == {m \in P : m <= j}
  <2>1. B \subseteq C /\ C \subseteq P /\ j \in C /\ j \notin B
    <3>1. i \in Nat /\ j \in Nat
      BY <1>2
    <3>2. \A m \in P : m <= i => m <= j
      BY <1>2, <1>3, <3>1
    <3>3. j <= j /\ ~(j <= i)
      BY <1>3, <3>1
    <3>. QED
      BY <3>2, <3>3
  <2>2. r[i] = Cardinality(B) /\ r[j] = Cardinality(C)
    BY DEF Rank
  <2>. HIDE DEF B, C, r
  <2>3. IsFiniteSet(C)
    BY <1>1, <2>1, FS_Subset
  <2>4. Cardinality(B) <= Cardinality(C) /\ Cardinality(C) # Cardinality(B) /\ Cardinality(B) \in Nat
     /\ Cardinality(C) \in Nat
    BY <2>1, <2>3, FS_Subset, FS_CardinalityType
  <2>. QED
    BY <2>2, <2>4
<1>4. \A i \in P : r[i] \in 1..k
  <2>. TAKE i \in P
  <2>. DEFINE B == {m \in P : m <= i}
  <2>1. B \subseteq P /\ i \in B
    BY <1>2
  <2>2. r[i] = Cardinality(B)
    BY DEF Rank
  <2>. HIDE DEF B, r
  <2>3. IsFiniteSet(B) /\ Cardinality(B) <= k /\ Cardinality(B) \in Nat
    BY <1>1, <2>1, FS_Subset, FS_CardinalityType
  <2>4. Cardinality(B) # 0
    BY <2>1, <2>3, FS_EmptySet
  <2>. QED
    BY <1>1, <2>2, <2>3, <2>4
<1>5. r \in Injection(P, 1..k)
  <2>1. \A i, j \in P : r[i] = r[j] => i = j
    <3>1. \A i \in P : r[i] \in Int
      BY <1>1, <1>4
    <3>. HIDE DEF r
    <3>. QED
      BY <1>2, <1>3, <3>1
  <2>. QED
    BY <1>4, <2>1 DEF Injection, IsInjective
<1>6. r \in Surjection(P, 1..k)
  <2>1. IsFiniteSet(1..k) /\ Cardinality(1..k) = k
    BY <1>1, FS_Interval
  <2>. HIDE DEF r, k
  <2>. QED
    BY <1>5, <2>1, FS_Injection DEF k
<1>7. \A n \in 1..k : \E m \in P : r[m] = n
  BY <1>6 DEF Surjection
<1>. DEFINE p == [n \in 1..k |-> CHOOSE m \in P : r[m] = n]
<1>. HIDE DEF r, k
<1>8. \A n \in 1..k : p[n] \in P /\ r[p[n]] = n
  BY <1>7
<1>9. p \in [1..k -> P]
  BY <1>8
<1>. HIDE DEF p
<1>10. \A m, n \in 1..k : m < n => p[m] < p[n]
  <2>. SUFFICES ASSUME NEW m \in 1..k, NEW n \in 1..k, m < n PROVE p[m] < p[n]
    OBVIOUS
  <2>1. /\ p[m] \in P /\ p[n] \in P /\ p[m] \in Nat /\ p[n] \in Nat
        /\ r[p[m]] = m /\ r[p[n]] = n
    BY <1>2, <1>8
  <2>2. ~(p[n] < p[m]) /\ p[n] # p[m]
    BY <1>1, <1>3, <2>1
  <2>. QED
    BY <2>1, <2>2
<1>11. \A i \in P : \E n \in 1..k : p[n] = i
  <2>. TAKE i \in P
  <2>1. r[i] \in 1..k /\ p[r[i]] \in P /\ r[p[r[i]]] = r[i]
    BY <1>4, <1>8
  <2>2. p[r[i]] = i
    BY <1>5, <2>1 DEF Injection, IsInjective
  <2>. QED
    BY <2>1, <2>2
<1>. QED
  BY <1>1, <1>9, <1>10, <1>11 DEF Enumerates, k

LEMMA OnlyIs ==
  ASSUME NEW s, Len(s) \in Nat, NEW A
  PROVE  \E k \in Nat : \E p : /\ Enumerates(p, k, Positions(s, A))
                               /\ Only(s, A) = [n \in 1..k |-> s[p[n]]]
<1>. DEFINE P == Positions(s, A)
<1>1. P \in SUBSET (1..Len(s))
  BY DEF Positions
<1>. HIDE DEF P
<1>2. Cardinality(P) \in Nat /\ \E p : Enumerates(p, Cardinality(P), P)
  BY <1>1, EnumerationExists
<1>. QED
  BY <1>2, EnumeratedOnly DEF P

LEMMA OnlySame ==
  ASSUME NEW s, NEW A, NEW B, \A n \in 1..Len(s) : s[n] \in A <=> s[n] \in B
  PROVE  Only(s, A) = Only(s, B)
<1>1. Positions(s, A) = Positions(s, B)
  BY DEF Positions
<1>. QED
  BY <1>1 DEF Only

LEMMA OnlySeq ==
  ASSUME NEW S, NEW s \in Seq(S), NEW A
  PROVE  /\ Only(s, A) \in Seq(S)
         /\ Len(Only(s, A)) \in Nat
         /\ \A n \in 1..Len(Only(s, A)) :
              \E i \in 1..Len(s) : Only(s, A)[n] = s[i] /\ s[i] \in A
         /\ \A i \in 1..Len(s) : s[i] \in A =>
              \E n \in 1..Len(Only(s, A)) : Only(s, A)[n] = s[i]
<1>1. Len(s) \in Nat /\ \A n \in 1..Len(s) : s[n] \in S
  BY ElementOfSeq
<1>k. PICK k \in Nat : \E p : /\ Enumerates(p, k, Positions(s, A))
                              /\ Only(s, A) = [n \in 1..k |-> s[p[n]]]
  BY <1>1, OnlyIs
<1>2. PICK p : /\ Enumerates(p, k, Positions(s, A))
               /\ Only(s, A) = [n \in 1..k |-> s[p[n]]]
  BY <1>k
<1>3. \A n \in 1..k : p[n] \in 1..Len(s) /\ s[p[n]] \in A
  BY <1>2 DEF Enumerates, Positions
<1>4. Only(s, A) \in Seq(S) /\ Len(Only(s, A)) = k
  <2>1. \A n \in 1..k : s[p[n]] \in S
    BY <1>1, <1>3
  <2>2. Only(s, A) \in [1..k -> S]
    BY <1>2, <2>1
  <2>. QED
    BY <1>2, <2>2, IsASeq, LenProperties
<1>5. \A i \in 1..Len(s) : s[i] \in A => \E n \in 1..k : p[n] = i
  BY <1>2 DEF Enumerates, Positions
<1>6. \A n \in 1..k : Only(s, A)[n] = s[p[n]]
  BY <1>2
<1>7. \A n \in 1..k : \E i \in 1..Len(s) : Only(s, A)[n] = s[i] /\ s[i] \in A
  BY <1>3, <1>6
<1>8. \A i \in 1..Len(s) : s[i] \in A => \E n \in 1..k : Only(s, A)[n] = s[i]
  BY <1>5, <1>6
<1>. QED
  BY <1>4, <1>7, <1>8

LEMMA OnlyAppend ==
  ASSUME NEW S, NEW s \in Seq(S), NEW w \in S, NEW A
  PROVE  Only(Append(s, w), A) = IF w \in A THEN Append(Only(s, A), w) ELSE Only(s, A)
<1>. DEFINE N == Len(s)
            a == Append(s, w)
<1>1. N \in Nat
  BY LenProperties
<1>2. Len(a) = N + 1 /\ a[N + 1] = w /\ \A n \in 1..N : a[n] = s[n]
  BY AppendProperties
<1>k. PICK k \in Nat : \E p : /\ Enumerates(p, k, Positions(s, A))
                              /\ Only(s, A) = [n \in 1..k |-> s[p[n]]]
  BY <1>1, OnlyIs
<1>3. PICK p : /\ Enumerates(p, k, Positions(s, A))
               /\ Only(s, A) = [n \in 1..k |-> s[p[n]]]
  BY <1>k
<1>. HIDE DEF a, N
<1>4. \A n \in 1..k : p[n] \in 1..N /\ p[n] \in Int /\ s[p[n]] \in A
  BY <1>1, <1>3 DEF Enumerates, Positions, N
<1>5. /\ \A m, n \in 1..k : m < n => p[m] < p[n]
      /\ \A i \in 1..N : s[i] \in A => \E n \in 1..k : p[n] = i
  BY <1>3 DEF Enumerates, Positions, N
<1>6. CASE w \notin A
  <2>1. Positions(a, A) = Positions(s, A)
    BY <1>1, <1>2, <1>6 DEF Positions, N
  <2>2. Only(a, A) = [n \in 1..k |-> a[p[n]]]
    BY <1>1, <1>2, <1>3, <2>1, EnumeratedOnly
  <2>. QED
    BY <1>2, <1>3, <1>4, <1>6, <2>2 DEF a
<1>7. CASE w \in A
  <2>. DEFINE q == [n \in 1..(k+1) |-> IF n = k + 1 THEN N + 1 ELSE p[n]]
  <2>1. Enumerates(q, k + 1, Positions(a, A))
    <3>1. \A n \in 1..(k+1) : q[n] \in 1..(N+1) /\ a[q[n]] \in A
      BY <1>1, <1>2, <1>4, <1>7
    <3>2. q \in [1..(k+1) -> Positions(a, A)]
      BY <1>2, <3>1 DEF Positions
    <3>3. \A m, n \in 1..(k+1) : m < n => q[m] < q[n]
      BY <1>1, <1>4, <1>5
    <3>4. \A i \in 1..(N+1) : a[i] \in A => \E n \in 1..(k+1) : q[n] = i
      <4>. SUFFICES ASSUME NEW i \in 1..(N+1), a[i] \in A
                    PROVE  \E n \in 1..(k+1) : q[n] = i
        OBVIOUS
      <4>1. CASE i = N + 1
        <5>1. k + 1 \in 1..(k+1) /\ q[k+1] = N + 1
          OBVIOUS
        <5>. QED
          BY <4>1, <5>1
      <4>2. CASE i # N + 1
        <5>1. i \in 1..N /\ s[i] \in A
          BY <1>1, <1>2, <4>2
        <5>2. PICK n \in 1..k : p[n] = i
          BY <1>5, <5>1
        <5>3. n \in 1..(k+1) /\ q[n] = i
          BY <5>2
        <5>. QED
          BY <5>3
      <4>. QED
        BY <4>1, <4>2
    <3>. QED
      BY <1>2, <3>2, <3>3, <3>4 DEF Enumerates, Positions
  <2>2. Only(a, A) = [n \in 1..(k+1) |-> a[q[n]]]
    BY <1>1, <1>2, <2>1, EnumeratedOnly
  <2>3. \A n \in 1..(k+1) : a[q[n]] = IF n = k + 1 THEN w ELSE s[p[n]]
    BY <1>1, <1>2, <1>4
  <2>4. Append(Only(s, A), w) = [n \in 1..(k+1) |-> IF n = k + 1 THEN w ELSE s[p[n]]]
    <3>1. Only(s, A) \in Seq(S) /\ Len(Only(s, A)) = k
      BY <1>3, OnlySeq, LenProperties
    <3>. QED
      BY <1>3, <3>1, AppendProperties
  <2>. QED
    BY <1>7, <2>2, <2>3, <2>4 DEF a
<1>. QED
  BY <1>6, <1>7


LEMMA OnlyTail ==
  ASSUME NEW S, NEW s \in Seq(S), s # <<>>, NEW A
  PROVE  /\ Head(s) \in A => /\ Only(s, A) # <<>>
                             /\ Head(Only(s, A)) = Head(s)
                             /\ Only(Tail(s), A) = Tail(Only(s, A))
         /\ Head(s) \notin A => Only(Tail(s), A) = Only(s, A)
<1>. DEFINE N == Len(s)
            t == Tail(s)
<1>1. N \in Nat \ {0} /\ Head(s) = s[1]
  BY EmptySeq
<1>2. Len(t) = N - 1 /\ \A n \in 1..(N-1) : t[n] = s[n+1]
  BY HeadTailProperties
<1>k. PICK k \in Nat : \E p : /\ Enumerates(p, k, Positions(s, A))
                              /\ Only(s, A) = [n \in 1..k |-> s[p[n]]]
  BY <1>1, OnlyIs
<1>3. PICK p : /\ Enumerates(p, k, Positions(s, A))
               /\ Only(s, A) = [n \in 1..k |-> s[p[n]]]
  BY <1>k
<1>. HIDE DEF t, N
<1>4. \A n \in 1..k : p[n] \in 1..N /\ p[n] \in Int /\ s[p[n]] \in A
  BY <1>1, <1>3 DEF Enumerates, Positions, N
<1>5. /\ \A m, n \in 1..k : m < n => p[m] < p[n]
      /\ \A i \in 1..N : s[i] \in A => \E n \in 1..k : p[n] = i
  BY <1>3 DEF Enumerates, Positions, N
<1>6. Only(s, A) \in Seq(S) /\ Len(Only(s, A)) = k
  BY <1>3, OnlySeq, LenProperties
<1>7. CASE Head(s) \notin A
  <2>. DEFINE q == [n \in 1..k |-> p[n] - 1]
  <2>1. \A n \in 1..k : q[n] \in 1..(N-1) /\ t[q[n]] = s[p[n]]
    <3>. TAKE n \in 1..k
    <3>1. p[n] # 1
      BY <1>1, <1>4, <1>7
    <3>2. p[n] - 1 \in 1..(N-1)
      BY <1>1, <1>4, <3>1
    <3>. QED
      BY <1>2, <1>4, <3>2
  <2>2. Enumerates(q, k, Positions(t, A))
    <3>1. q \in [1..k -> Positions(t, A)]
      BY <1>2, <1>4, <2>1 DEF Positions
    <3>2. \A m, n \in 1..k : m < n => q[m] < q[n]
      BY <1>4, <1>5
    <3>3. \A i \in 1..(N-1) : t[i] \in A => \E n \in 1..k : q[n] = i
      <4>. SUFFICES ASSUME NEW i \in 1..(N-1), t[i] \in A
                    PROVE  \E n \in 1..k : q[n] = i
        OBVIOUS
      <4>1. i + 1 \in 1..N /\ s[i+1] \in A
        BY <1>1, <1>2
      <4>2. PICK n \in 1..k : p[n] = i + 1
        BY <1>5, <4>1
      <4>. QED
        BY <4>2
    <3>. QED
      BY <1>2, <3>1, <3>2, <3>3 DEF Enumerates, Positions
  <2>3. Only(t, A) = [n \in 1..k |-> t[q[n]]]
    BY <1>1, <1>2, <2>2, EnumeratedOnly
  <2>. QED
    BY <1>3, <1>7, <2>1, <2>3 DEF t
<1>8. CASE Head(s) \in A
  <2>1. PICK j \in 1..k : p[j] = 1
    BY <1>1, <1>5, <1>8
  <2>2. j = 1
    <3>1. 1 \in 1..k /\ ~(p[1] < 1)
      BY <1>4
    <3>2. ~(1 < j)
      BY <1>5, <2>1, <3>1
    <3>. QED
      BY <3>2
  <2>3. Only(s, A) # <<>> /\ Only(s, A)[1] = s[1]
    BY <1>3, <1>6, <2>1, <2>2, EmptySeq
  <2>4. Head(Only(s, A)) = Head(s)
    BY <1>1, <1>6, <2>3
  <2>. DEFINE q == [n \in 1..(k-1) |-> p[n+1] - 1]
  <2>5. k - 1 \in Nat /\ \A n \in 1..(k-1) : n + 1 \in 1..k
    BY <2>1
  <2>6. \A n \in 1..(k-1) : q[n] \in 1..(N-1) /\ t[q[n]] = s[p[n+1]]
    <3>. TAKE n \in 1..(k-1)
    <3>1. 1 \in 1..k /\ n + 1 \in 1..k /\ 1 < n + 1
      BY <2>5
    <3>2. p[n+1] > 1 /\ p[n+1] \in 1..N
      BY <1>4, <1>5, <2>1, <2>2, <3>1
    <3>3. p[n+1] - 1 \in 1..(N-1)
      BY <1>1, <3>2
    <3>. QED
      BY <1>2, <3>2, <3>3
  <2>7. Enumerates(q, k - 1, Positions(t, A))
    <3>1. \A n \in 1..(k-1) : t[q[n]] \in A
      BY <1>4, <2>5, <2>6
    <3>2. q \in [1..(k-1) -> Positions(t, A)]
      BY <1>2, <2>6, <3>1 DEF Positions
    <3>3. \A m, n \in 1..(k-1) : m < n => q[m] < q[n]
      <4>. SUFFICES ASSUME NEW m \in 1..(k-1), NEW n \in 1..(k-1), m < n
                    PROVE  q[m] < q[n]
        OBVIOUS
      <4>1. p[m+1] < p[n+1] /\ p[m+1] \in Int /\ p[n+1] \in Int
        BY <1>4, <1>5, <2>5
      <4>. QED
        BY <4>1
    <3>4. \A i \in 1..(N-1) : t[i] \in A => \E n \in 1..(k-1) : q[n] = i
      <4>. SUFFICES ASSUME NEW i \in 1..(N-1), t[i] \in A
                    PROVE  \E n \in 1..(k-1) : q[n] = i
        OBVIOUS
      <4>1. i + 1 \in 1..N /\ s[i+1] \in A
        BY <1>1, <1>2
      <4>2. PICK n \in 1..k : p[n] = i + 1
        BY <1>5, <4>1
      <4>3. n # 1
        BY <2>1, <2>2, <4>2
      <4>4. n - 1 \in 1..(k-1) /\ q[n-1] = i
        BY <4>2, <4>3
      <4>. QED
        BY <4>4
    <3>. QED
      BY <1>2, <3>2, <3>3, <3>4 DEF Enumerates, Positions
  <2>8. Only(t, A) = [n \in 1..(k-1) |-> t[q[n]]]
    <3>1. Len(t) \in Nat
      BY <1>1, <1>2
    <3>. HIDE DEF q
    <3>. QED
      BY <2>5, <2>7, <3>1, EnumeratedOnly
  <2>9. Tail(Only(s, A)) = [n \in 1..(k-1) |-> s[p[n+1]]]
    <3>1. /\ Tail(Only(s, A)) \in Seq(S) /\ Len(Tail(Only(s, A))) = k - 1
          /\ \A n \in 1..(k-1) : Tail(Only(s, A))[n] = Only(s, A)[n+1]
      BY <1>6, <2>3, HeadTailProperties
    <3>2. \A n \in 1..(k-1) : Only(s, A)[n+1] = s[p[n+1]]
      BY <1>3, <2>5
    <3>. QED
      BY <3>1, <3>2, LenProperties
  <2>. QED
    BY <1>8, <2>3, <2>4, <2>6, <2>8, <2>9 DEF t
<1>. QED
  BY <1>7, <1>8


LEMMA OnlyRemove ==
  ASSUME NEW S, NEW s \in Seq(S), NEW A,
         \A i, j \in 1..Len(s) : s[i] = s[j] => i = j,
         NEW w
  PROVE  Only(s, A \ {w}) = Contract!Without(Only(s, A), w)
<1>. DEFINE N == Len(s)
            L == Only(s, A)
            B == A \ {w}
<1>1. N \in Nat
  BY LenProperties
<1>k. PICK k \in Nat : \E p : /\ Enumerates(p, k, Positions(s, A))
                              /\ L = [n \in 1..k |-> s[p[n]]]
  BY <1>1, OnlyIs
<1>3. PICK p : /\ Enumerates(p, k, Positions(s, A))
               /\ L = [n \in 1..k |-> s[p[n]]]
  BY <1>k
<1>4. \A n \in 1..k : p[n] \in 1..N /\ p[n] \in Int /\ s[p[n]] \in A
  BY <1>1, <1>3 DEF Enumerates, Positions
<1>5. /\ \A m, n \in 1..k : m < n => p[m] < p[n]
      /\ \A i \in 1..N : s[i] \in A => \E n \in 1..k : p[n] = i
  BY <1>3 DEF Enumerates, Positions
<1>6. L \in Seq(S) /\ Len(L) = k /\ \A n \in 1..k : L[n] = s[p[n]] /\ s[p[n]] \in S
  <2>1. L \in Seq(S) /\ Len(L) = k
    BY <1>3, OnlySeq, LenProperties
  <2>2. \A n \in 1..k : s[p[n]] \in S
    BY <1>4, ElementOfSeq
  <2>. QED
    BY <1>3, <2>1, <2>2
<1>. HIDE DEF L, N
<1>7. CASE ~Contract!Stands(L, w)
  <2>1. \A n \in 1..N : s[n] \in A <=> s[n] \in B
    <3>. SUFFICES ASSUME NEW i \in 1..N, s[i] = w PROVE s[i] \notin A
      OBVIOUS
    <3>1. ASSUME s[i] \in A PROVE FALSE
      <4>1. PICK n \in 1..k : p[n] = i
        BY <1>5, <3>1
      <4>2. L[n] = w
        BY <1>6, <4>1
      <4>. QED
        BY <1>6, <1>7, <4>2 DEF Contract!Stands
    <3>. QED
      BY <3>1
  <2>. HIDE DEF B
  <2>2. Only(s, B) = L
    BY <2>1, OnlySame DEF L, N
  <2>. QED
    BY <1>7, <2>2 DEF Contract!Without, B, L
<1>8. CASE Contract!Stands(L, w)
  <2>. DEFINE j == Contract!Place(L, w)
  <2>1. j \in 1..k /\ L[j] = w
    BY <1>6, <1>8 DEF Contract!Place, Contract!Stands
  <2>. HIDE DEF j
  <2>2. s[p[j]] = w
    BY <1>6, <2>1
  <2>3. \A n \in 1..k : s[p[n]] = w => n = j
    <3>. SUFFICES ASSUME NEW n \in 1..k, s[p[n]] = w PROVE n = j
      OBVIOUS
    <3>1. p[n] = p[j]
      BY <1>4, <2>1, <2>2 DEF N
    <3>2. ~(p[n] < p[j]) /\ ~(p[j] < p[n])
      BY <1>4, <2>1, <3>1
    <3>3. ~(n < j) /\ ~(j < n)
      BY <1>5, <2>1, <3>2
    <3>. QED
      BY <2>1, <3>3
  <2>. DEFINE f == [n \in 1..(k-1) |-> IF n < j THEN n ELSE n + 1]
              q == [n \in 1..(k-1) |-> p[f[n]]]
  <2>4. /\ k - 1 \in Nat
        /\ \A n \in 1..(k-1) : f[n] \in 1..k /\ f[n] # j
        /\ \A m, n \in 1..(k-1) : m < n => f[m] < f[n]
        /\ \A n \in 1..k : n # j => \E m \in 1..(k-1) : f[m] = n
    <3>1. k - 1 \in Nat
      BY <2>1
    <3>2. \A n \in 1..(k-1) : f[n] \in 1..k /\ f[n] # j
      BY <2>1
    <3>3. \A m, n \in 1..(k-1) : m < n => f[m] < f[n]
      BY <2>1
    <3>4. ASSUME NEW n \in 1..k, n # j PROVE \E m \in 1..(k-1) : f[m] = n
      <4>1. CASE n < j
        <5>1. n \in 1..(k-1) /\ f[n] = n
          BY <2>1, <4>1
        <5>. QED
          BY <5>1
      <4>2. CASE n > j
        <5>1. n - 1 \in 1..(k-1) /\ f[n-1] = n
          BY <2>1, <4>2
        <5>. QED
          BY <5>1
      <4>. QED
        BY <2>1, <3>4, <4>1, <4>2
    <3>. QED
      BY <3>1, <3>2, <3>3, <3>4
  <2>. HIDE DEF f
  <2>5. Enumerates(q, k - 1, Positions(s, B))
    <3>1. \A n \in 1..(k-1) : q[n] \in Positions(s, B)
      <4>. TAKE n \in 1..(k-1)
      <4>1. f[n] \in 1..k /\ s[p[f[n]]] # w
        BY <2>3, <2>4
      <4>. QED
        BY <1>4, <4>1 DEF Positions, N
    <3>2. q \in [1..(k-1) -> Positions(s, B)]
      BY <3>1
    <3>3. \A m, n \in 1..(k-1) : m < n => q[m] < q[n]
      BY <1>5, <2>4
    <3>4. \A i \in Positions(s, B) : \E n \in 1..(k-1) : q[n] = i
      <4>. TAKE i \in Positions(s, B)
      <4>1. i \in 1..N /\ s[i] \in A /\ s[i] # w
        BY DEF Positions, N
      <4>2. PICK n \in 1..k : p[n] = i
        BY <1>5, <4>1
      <4>3. n # j
        BY <2>2, <4>1, <4>2
      <4>4. PICK m \in 1..(k-1) : f[m] = n
        BY <2>4, <4>3
      <4>. QED
        BY <4>2, <4>4
    <3>. QED
      BY <3>2, <3>3, <3>4 DEF Enumerates
  <2>6. Only(s, B) = [n \in 1..(k-1) |-> s[q[n]]]
    <3>. HIDE DEF q, B
    <3>. QED
      BY <1>1, <2>4, <2>5, EnumeratedOnly DEF N
  <2>7. Only(s, B) = [n \in 1..(k-1) |-> L[f[n]]]
    <3>1. \A n \in 1..(k-1) : s[q[n]] = L[f[n]]
      BY <1>6, <2>4
    <3>. HIDE DEF q, B
    <3>. QED
      BY <2>6, <3>1
  <2>. DEFINE u == SubSeq(L, 1, j - 1)
              v == SubSeq(L, j + 1, k)
  <2>8. /\ u \in Seq(S) /\ Len(u) = j - 1
        /\ \A i \in 1..(j-1) : u[i] = L[i]
    <3>1. \A i \in 1..(j-1) : L[i] \in S
      BY <1>6, <2>1
    <3>. HIDE DEF u
    <3>2. /\ u \in Seq(S) /\ Len(u) = IF 1 <= j - 1 THEN (j - 1) - 1 + 1 ELSE 0
          /\ \A i \in 1..((j-1)-1+1) : u[i] = L[1+i-1]
      BY <2>1, <3>1, SubSeqProperties DEF u
    <3>. QED
      BY <2>1, <3>2
  <2>9. /\ v \in Seq(S) /\ Len(v) = k - j
        /\ \A i \in 1..(k-j) : v[i] = L[i+j]
    <3>1. \A i \in (j+1)..k : L[i] \in S
      BY <1>6, <2>1
    <3>. HIDE DEF v
    <3>2. /\ v \in Seq(S) /\ Len(v) = IF j + 1 <= k THEN k - (j + 1) + 1 ELSE 0
          /\ \A i \in 1..(k-(j+1)+1) : v[i] = L[(j+1)+i-1]
      BY <2>1, <3>1, SubSeqProperties DEF v
    <3>. QED
      BY <2>1, <3>2
  <2>. HIDE DEF u, v
  <2>10. /\ u \o v \in Seq(S) /\ Len(u \o v) = k - 1
         /\ \A i \in 1..(k-1) : (u \o v)[i] = IF i <= j - 1 THEN u[i] ELSE v[i - (j - 1)]
    <3>1. Len(u) + Len(v) = k - 1
      BY <2>1, <2>8, <2>9
    <3>2. /\ u \o v \in Seq(S) /\ Len(u \o v) = Len(u) + Len(v)
          /\ \A i \in 1..(Len(u) + Len(v)) :
               (u \o v)[i] = IF i <= Len(u) THEN u[i] ELSE v[i - Len(u)]
      <4>1. u \in Seq(S) /\ v \in Seq(S)
        BY <2>8, <2>9
      <4>. QED
        BY <4>1, ConcatProperties
    <3>. QED
      BY <2>8, <3>1, <3>2
  <2>11. \A i \in 1..(k-1) : (u \o v)[i] = L[f[i]]
    <3>. TAKE i \in 1..(k-1)
    <3>1. CASE i <= j - 1
      BY <2>1, <2>8, <2>10, <3>1 DEF f
    <3>2. CASE ~(i <= j - 1)
      <4>1. i - (j - 1) \in 1..(k-j) /\ i - (j-1) + j = i + 1
        BY <2>1, <3>2
      <4>2. f[i] = i + 1
        BY <2>1, <3>2 DEF f
      <4>. QED
        BY <2>9, <2>10, <3>2, <4>1, <4>2
    <3>. QED
      BY <3>1, <3>2
  <2>12. u \o v = [n \in 1..(k-1) |-> L[f[n]]]
    <3>1. u \o v \in [1..(k-1) -> S]
      BY <2>10, LenProperties
    <3>. QED
      BY <2>11, <3>1
  <2>. QED
    BY <1>6, <1>8, <2>7, <2>12 DEF Contract!Without, u, v, j, L
<1>. QED
  BY <1>7, <1>8

LEMMA LineFacts ==
  ASSUME SemInv
  PROVE  /\ waiters \in Seq(Waiters) /\ Len(waiters) \in Nat
         /\ \A n \in 1..Len(waiters) : waiters[n] \in Waiters
         /\ Line \in Seq(Waiters)
         /\ \A w \in Waiters : Contract!Stands(Line, w) => InLine(w) /\ task[w] = "pending"
         /\ waiters = <<>> => Line = <<>>
<1>1. waiters \in Seq(Waiters) /\ Len(waiters) \in Nat
  BY DEF SemInv, TypeOK
<1>2. /\ Line \in Seq(Waiters) /\ Len(Line) \in Nat
      /\ \A n \in 1..Len(Line) :
           \E i \in 1..Len(waiters) : Line[n] = waiters[i] /\ waiters[i] \in Pending
  BY <1>1, OnlySeq DEF Line
<1>3. ASSUME NEW w \in Waiters, Contract!Stands(Line, w)
      PROVE  InLine(w) /\ task[w] = "pending"
  BY <1>2, <1>3 DEF Contract!Stands, InLine, Pending
<1>4. ASSUME waiters = <<>> PROVE Line = <<>>
  <2>1. Len(waiters) = 0
    BY <1>4, EmptySeq
  <2>2. Len(Line) = 0
    BY <1>2, <2>1
  <2>. QED
    BY <1>2, <2>2, EmptySeq
<1>5. \A n \in 1..Len(waiters) : waiters[n] \in Waiters
  BY <1>1, ElementOfSeq
<1>. QED
  BY <1>1, <1>2, <1>3, <1>4, <1>5

(* A step that makes nobody in line pending, or not.                       *)
LEMMA LineStays ==
  ASSUME SemInv, UNCHANGED waiters,
         \A w \in Waiters : InLine(w) => (task'[w] = "pending" <=> task[w] = "pending")
  PROVE  UNCHANGED Line
<1>1. \A n \in 1..Len(waiters) : waiters[n] \in Pending <=> waiters[n] \in Pending'
  BY LineFacts DEF Pending, InLine
<1>. HIDE DEF Pending
<1>2. Only(waiters, Pending) = Only(waiters, Pending')
  BY <1>1, OnlySame
<1>. QED
  BY <1>2 DEF Line

(* A request that is canceled where it stands.                             *)
LEMMA LineLoses ==
  ASSUME SemInv, UNCHANGED waiters, NEW w \in Waiters,
         task' = [task EXCEPT ![w] = "canceled"]
  PROVE  Line' = Contract!Without(Line, w)
<1>1. Pending' = Pending \ {w}
  BY DEF Pending, SemInv, TypeOK
<1>2. Only(waiters, Pending \ {w}) = Contract!Without(Only(waiters, Pending), w)
  <2>1. waiters \in Seq(Waiters)
    BY LineFacts
  <2>2. \A i, j \in 1..Len(waiters) : waiters[i] = waiters[j] => i = j
    BY DEF SemInv, LineSound
  <2>. QED
    BY <2>1, <2>2, OnlyRemove
<1>. QED
  BY <1>1, <1>2 DEF Line

(* Release and Dispose pop the head of _waiters.                           *)
LEMMA LinePops ==
  ASSUME SemInv, waiters # <<>>, waiters' = Tail(waiters),
         NEW o \in {"granted", "canceled"}, TrySet(Head(waiters), o)
  PROVE  /\ Head(waiters) \in Waiters
         /\ task[Head(waiters)] = "pending" =>
              /\ Line # <<>> /\ Head(Line) = Head(waiters)
              /\ Line' = Tail(Line)
              /\ Line' = Contract!Without(Line, Head(waiters))
         /\ task[Head(waiters)] # "pending" => UNCHANGED Line
<1>. DEFINE h == Head(waiters)
            A == Pending \ {h}
<1>1. waiters \in Seq(Waiters) /\ waiters # <<>>
  BY LineFacts
<1>2. /\ h \in Waiters
      /\ \A i \in 1..Len(Tail(waiters)) : Tail(waiters)[i] # h
  BY PopFacts DEF InLine
<1>3. Pending' = A
  BY <1>2 DEF Pending, TrySet, SemInv, TypeOK
<1>4. Line' = Only(Tail(waiters), A)
  BY <1>3 DEF Line
<1>5. h \in Pending <=> task[h] = "pending"
  BY <1>2 DEF Pending
<1>6. \A i, j \in 1..Len(waiters) : waiters[i] = waiters[j] => i = j
  BY DEF SemInv, LineSound
<1>. HIDE DEF h
<1>7. Only(Tail(waiters), A) = Only(Tail(waiters), Pending)
  <2>1. \A n \in 1..Len(Tail(waiters)) :
          Tail(waiters)[n] \in A <=> Tail(waiters)[n] \in Pending
    BY <1>2
  <2>. HIDE DEF A
  <2>. QED
    BY <2>1, OnlySame
<1>8. /\ h \in Pending => /\ Line # <<>> /\ Head(Line) = h
                          /\ Only(Tail(waiters), Pending) = Tail(Line)
      /\ h \notin Pending => Only(Tail(waiters), Pending) = Line
  BY <1>1, OnlyTail DEF Line, h
<1>9. Only(Tail(waiters), A) = Only(waiters, A)
  <2>1. h \notin A
    OBVIOUS
  <2>. HIDE DEF A
  <2>. QED
    BY <1>1, <2>1, OnlyTail DEF h
<1>10. Only(waiters, A) = Contract!Without(Line, h)
  BY <1>1, <1>6, OnlyRemove DEF Line
<1>. QED
  BY <1>2, <1>4, <1>5, <1>7, <1>8, <1>9, <1>10 DEF h

-----------------------------------------------------------------------------
(* The semaphore implements its contract: the steps of WaitAsync ...       *)

LEMMA WaitCompletedRefines ==
  ASSUME SemInv, NEW w \in Waiters, WaitCompleted(w)
  PROVE  Contract!Acquire(w)
<1>. USE DEF WaitCompleted, SemInv, TypeOK
<1>1. task[w] = "none" /\ ~InLine(w)
  BY DEF LineSound
<1>2. UNCHANGED Line
  BY <1>1, LineStays
<1>3. Request[w] = "none" /\ Request' = [Request EXCEPT ![w] = "granted"]
  BY <1>1 DEF Request
<1>4. UNCHANGED Closed
  BY DEF Closed
<1>. QED
  BY <1>2, <1>3, <1>4 DEF Contract!Acquire

LEMMA WaitRegisterRefines ==
  ASSUME SemInv, NEW w \in Waiters, WaitRegister(w)
  PROVE  Contract!Abandon(w) \/ UNCHANGED Contract!svars
<1>. USE DEF WaitRegister, SemInv, TypeOK
<1>1. task[w] = "none" /\ ~InLine(w)
  BY DEF LineSound
<1>2. UNCHANGED Line
  BY <1>1, LineStays
<1>3. UNCHANGED <<count, canceled, Closed>>
  BY DEF Closed, Source!Register
<1>4. CASE w \in Cancelable /\ canceled
  <2>1. Request[w] = "none" /\ Request' = [Request EXCEPT ![w] = "canceled"]
    BY <1>1, <1>4 DEF Request
  <2>2. Line' = Contract!Without(Line, w)
    BY <1>1, <1>2, LineFacts DEF Contract!Without
  <2>. QED
    BY <1>3, <1>4, <2>1, <2>2 DEF Contract!Abandon
<1>5. CASE ~(w \in Cancelable /\ canceled)
  <2>1. task' = [task EXCEPT ![w] = "pending"]
    BY <1>5
  <2>2. UNCHANGED Request
    BY <1>1, <2>1 DEF Request
  <2>. QED
    BY <1>2, <1>3, <2>2 DEF Contract!svars
<1>. QED
  BY <1>4, <1>5

LEMMA WaitEnqueueRefines ==
  ASSUME SemInv, NEW w \in Waiters, WaitEnqueue(w)
  PROVE  Contract!Join(w) \/ UNCHANGED Contract!svars
<1>. USE DEF WaitEnqueue, SemInv, TypeOK
<1>1. count = 0 /\ task[w] # "none"
  BY DEF LineSound
<1>2. UNCHANGED <<count, canceled, Closed>>
  BY DEF Closed
<1>3. Pending' = Pending /\ (w \in Pending <=> task[w] = "pending")
  BY DEF Pending
<1>4. Line' = IF w \in Pending THEN Append(Line, w) ELSE Line
  <2>1. Only(Append(waiters, w), Pending) =
          IF w \in Pending THEN Append(Only(waiters, Pending), w)
                           ELSE Only(waiters, Pending)
    BY OnlyAppend
  <2>. QED
    BY <1>3, <2>1 DEF Line
<1>5. CASE task[w] = "pending"
  <2>1. Request[w] = "none" /\ Request' = [Request EXCEPT ![w] = "waiting"]
    BY <1>5 DEF Request
  <2>. QED
    BY <1>1, <1>2, <1>3, <1>4, <1>5, <2>1 DEF Contract!Join
<1>6. CASE task[w] # "pending"
  <2>1. UNCHANGED Request
    BY <1>6 DEF Request
  <2>. QED
    BY <1>2, <1>3, <1>4, <1>6, <2>1 DEF Contract!svars
<1>. QED
  BY <1>5, <1>6

(* ... of Release ...                                                      *)

LEMMA ReleaseCountOnlyRefines ==
  ASSUME SemInv, ReleaseCountOnly
  PROVE  Contract!ReleaseToNobody
<1>1. Line = <<>> /\ UNCHANGED <<Line, Request, Closed>>
  BY LineFacts, LineStays DEF ReleaseCountOnly, Request, Closed
<1>. QED
  BY <1>1 DEF ReleaseCountOnly, Contract!ReleaseToNobody

LEMMA ReleasePopRefines ==
  ASSUME SemInv, ReleasePop
  PROVE  Contract!ReleaseToFirst \/ UNCHANGED Contract!svars
<1>. DEFINE h == Head(waiters)
<1>. USE DEF SemInv, TypeOK
<1>1. /\ h \in Waiters
      /\ task[h] = "pending" => Line # <<>> /\ Head(Line) = h /\ Line' = Tail(Line)
      /\ task[h] # "pending" => UNCHANGED Line
  BY LinePops DEF ReleasePop
<1>2. task' = [task EXCEPT ![h] = IF @ = "pending" THEN "granted" ELSE @]
  BY DEF ReleasePop, TrySet
<1>3. UNCHANGED <<count, pc, canceled, Closed>>
  BY DEF ReleasePop, Closed
<1>. HIDE DEF h
<1>4. CASE task[h] = "pending"
  <2>1. Request' = [Request EXCEPT ![h] = "granted"]
    BY <1>1, <1>2, <1>3, <1>4 DEF Request
  <2>. QED
    BY <1>1, <1>3, <1>4, <2>1 DEF Contract!ReleaseToFirst
<1>5. CASE task[h] # "pending"
  <2>1. UNCHANGED Request
    BY <1>1, <1>2, <1>3, <1>5 DEF Request
  <2>. QED
    BY <1>1, <1>3, <1>5, <2>1 DEF Contract!svars
<1>. QED
  BY <1>4, <1>5

LEMMA ReleaseEndRefines ==
  ASSUME SemInv, ReleaseEnd
  PROVE  Contract!ReleaseToNobody \/ UNCHANGED Contract!svars
<1>1. UNCHANGED <<Line, Request, Closed, canceled>>
  BY LineStays DEF ReleaseEnd, Request, Closed
<1>2. CASE waiterReleased
  BY <1>1, <1>2 DEF ReleaseEnd, Contract!svars
<1>3. CASE ~waiterReleased
  <2>1. Line = <<>>
    BY <1>3, LineFacts DEF ReleaseEnd
  <2>2. count < MaxCount
    BY SemaphoreAssumption DEF ReleaseEnd, SemInv, CountSound
  <2>. QED
    BY <1>1, <1>3, <2>1, <2>2 DEF ReleaseEnd, Contract!ReleaseToNobody
<1>. QED
  BY <1>2, <1>3

(* ... of the destructor and of the token.                                 *)

LEMMA DisposePopRefines ==
  ASSUME SemInv, DisposePop
  PROVE  (\E w \in Waiters : Contract!Abandon(w)) \/ UNCHANGED Contract!svars
<1>. DEFINE h == Head(waiters)
<1>. USE DEF SemInv, TypeOK
<1>1. /\ h \in Waiters
      /\ task[h] = "pending" => Line' = Contract!Without(Line, h)
      /\ task[h] # "pending" => UNCHANGED Line
  BY LinePops DEF DisposePop
<1>2. task' = [task EXCEPT ![h] = IF @ = "pending" THEN "canceled" ELSE @]
  BY DEF DisposePop, TrySet
<1>3. UNCHANGED <<count, pc, canceled, Closed>> /\ Closed
  BY DEF DisposePop, Closed
<1>4. pc[h] = "done"
  <2>1. InLine(h)
    BY PopFacts DEF DisposePop
  <2>. QED
    BY <1>1, <2>1 DEF LineSound
<1>. HIDE DEF h
<1>5. CASE task[h] = "pending"
  <2>1. Request[h] = "waiting" /\ Request' = [Request EXCEPT ![h] = "canceled"]
    BY <1>1, <1>2, <1>3, <1>4, <1>5 DEF Request
  <2>. QED
    BY <1>1, <1>3, <1>5, <2>1 DEF Contract!Abandon
<1>6. CASE task[h] # "pending"
  <2>1. UNCHANGED Request
    BY <1>1, <1>2, <1>3, <1>6 DEF Request
  <2>. QED
    BY <1>1, <1>3, <1>6, <2>1 DEF Contract!svars
<1>. QED
  BY <1>5, <1>6

LEMMA TokenFireRefines ==
  ASSUME SemInv, NEW w \in Waiters, TokenFire(w)
  PROVE  Contract!Abandon(w) \/ UNCHANGED Contract!svars
<1>. USE DEF SemInv, TypeOK, TokenFire
<1>1. canceled /\ w \in Cancelable
  BY DEF TokenSound, Source!Fire
<1>2. task' = [task EXCEPT ![w] = IF @ = "pending" THEN "canceled" ELSE @]
  BY DEF TrySet
<1>3. UNCHANGED <<count, waiters, pc, canceled, Closed>>
  BY DEF Source!Fire, Closed
<1>4. CASE task[w] = "pending"
  <2>1. task' = [task EXCEPT ![w] = "canceled"]
    BY <1>2, <1>4
  <2>2. Request' = [Request EXCEPT ![w] = "canceled"]
    BY <1>3, <2>1 DEF Request
  <2>3. Request[w] = "waiting" \/ (Request[w] = "none" /\ count = 0)
    BY <1>4 DEF Request, LineSound
  <2>4. Line' = Contract!Without(Line, w)
    BY <1>3, <2>1, LineLoses
  <2>. QED
    BY <1>1, <1>3, <2>2, <2>3, <2>4 DEF Contract!Abandon
<1>5. CASE task[w] # "pending"
  <2>1. UNCHANGED task
    BY <1>2, <1>5
  <2>2. UNCHANGED <<Line, Request>>
    BY <1>3, <2>1, LineStays DEF Request
  <2>. QED
    BY <1>3, <2>2 DEF Contract!svars
<1>. QED
  BY <1>4, <1>5

(* The steps that the contract does not see.                               *)
LEMMA SilentRefines ==
  ASSUME SemInv,
         ReleaseBegin \/ Unregister \/ DisposeEnd \/ TokenTake \/ UNCHANGED vars
  PROVE  UNCHANGED Contract!svars
<1>1. UNCHANGED <<count, waiters, task, pc>>
  BY DEF ReleaseBegin, Unregister, DisposeEnd, TokenTake, vars
<1>2. UNCHANGED <<Line, Request>>
  BY <1>1, LineStays DEF Request
<1>3. UNCHANGED <<canceled, Closed>>
  BY DEF ReleaseBegin, Unregister, DisposeEnd, TokenTake, vars, Closed, LockFree,
         Source!Dispose, Source!Take
<1>. QED
  BY <1>1, <1>2, <1>3 DEF Contract!svars

LEMMA CloseOrCancelRefines ==
  ASSUME SemInv, DisposeBegin \/ TokenCancel
  PROVE  Contract!Close \/ Contract!Cancel
<1>1. UNCHANGED <<count, waiters, task, pc>>
  BY DEF DisposeBegin, TokenCancel
<1>2. UNCHANGED <<Line, Request>>
  BY <1>1, LineStays DEF Request
<1>3. CASE DisposeBegin
  BY <1>1, <1>2, <1>3 DEF DisposeBegin, Closed, Contract!Close
<1>4. CASE TokenCancel
  BY <1>1, <1>2, <1>4 DEF TokenCancel, Source!Cancel, Closed, Contract!Cancel
<1>. QED
  BY <1>3, <1>4

(* Whatever cancellations race releases, and whoever is in _waiters still: *)
(* what a caller sees is the contract's semaphore, permits going to the    *)
(* live requests in the order they came.                                   *)
THEOREM SemaphoreRefinesContract == SafeSpec => Contract!SafeSpec
<1>1. Init => Contract!Init
  <2>. SUFFICES ASSUME Init PROVE Contract!Init
    OBVIOUS
  <2>1. Line = <<>>
    BY InitSemInv, LineFacts DEF Init
  <2>2. Request = [w \in Waiters |-> "none"]
    BY DEF Init, Request
  <2>. QED
    BY <2>1, <2>2 DEF Init, Closed, Source!Init, Contract!Init
<1>2. SemInv /\ [Next]_vars => [Contract!Next]_Contract!svars
  <2>. SUFFICES ASSUME SemInv, [Next]_vars PROVE [Contract!Next]_Contract!svars
    OBVIOUS
  <2>1. ASSUME NEW w \in Waiters,
               \/ WaitCompleted(w) \/ WaitRegister(w) \/ WaitEnqueue(w) \/ TokenFire(w)
        PROVE  [Contract!Next]_Contract!svars
    BY <2>1, WaitCompletedRefines, WaitRegisterRefines, WaitEnqueueRefines,
       TokenFireRefines DEF Contract!Next
  <2>2. CASE ReleaseCountOnly \/ ReleasePop \/ ReleaseEnd \/ DisposePop
    BY <2>2, ReleaseCountOnlyRefines, ReleasePopRefines, ReleaseEndRefines,
       DisposePopRefines DEF Contract!Next
  <2>3. CASE ReleaseBegin \/ Unregister \/ DisposeEnd \/ TokenTake \/ UNCHANGED vars
    BY <2>3, SilentRefines
  <2>4. CASE DisposeBegin \/ TokenCancel
    BY <2>4, CloseOrCancelRefines DEF Contract!Next
  <2>. QED
    BY <2>1, <2>2, <2>3, <2>4 DEF Next, WalkStep
<1>. QED
  BY <1>1, <1>2, InitSemInv, NextSemInv, PTL DEF SafeSpec, Contract!SafeSpec
=============================================================================
