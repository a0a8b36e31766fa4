------------------------ MODULE AsyncPrimitives_proofs ------------------------
(***************************************************************************)
(* Proofs about the cancellation source and the mutex.                     *)
(*                                                                         *)
(* For every set of callbacks and of cancelers: the invariant of the       *)
(* shared state, that no callback is lost, and that the shared state       *)
(* implements the safety part of the cancellation contract.                *)
(*                                                                         *)
(* For any number of callers and guards: the permit and the guards agree,  *)
(* and one caller at most is between its lock and its unlock, unless       *)
(* somebody has moved from a guard that was not live.                      *)
(***************************************************************************)
EXTENDS CtsSharedState, AsyncMutex, SequenceTheorems, TLAPS

(* The invariant is spelled out by its parts throughout.                   *)
USE DEF CtsInv

LEMMA CtsInitInv == CtsInit => CtsInv
<1>. SUFFICES ASSUME CtsInit PROVE CtsInv
  OBVIOUS
<1>1. CtsTypeOK
  BY DEF CtsInit, CtsTypeOK
<1>2. HolderUnique /\ PairsSound /\ IdsSound
  BY DEF CtsInit, HolderUnique, PairsSound, IdsSound, HoldsMutex
<1>3. CallsSound /\ CancelSound
  BY DEF CtsInit, CallsSound, CancelSound, Active
<1>. QED
  BY <1>1, <1>2, <1>3

LEMMA RegisterInertCtsInv ==
  ASSUME CtsInv, NEW r \in Callbacks, RegisterInert(r)
  PROVE  CtsInv'
<1>1. CtsTypeOK'
  BY DEF RegisterInert, CtsTypeOK
<1>2. HolderUnique'
  BY DEF RegisterInert, CtsTypeOK, HolderUnique, HoldsMutex
<1>3. PairsSound'
  BY DEF RegisterInert, CtsTypeOK, PairsSound, Taken, Pairs
<1>4. IdsSound'
  BY DEF RegisterInert, IdsSound
<1>5. CallsSound'
  BY DEF RegisterInert, CtsTypeOK, CallsSound, InList, Taken
<1>6. CancelSound'
  BY DEF RegisterInert, CtsTypeOK, CancelSound, Active
<1>. QED
  BY <1>1, <1>2, <1>3, <1>4, <1>5, <1>6

LEMMA RegisterLockCtsInv ==
  ASSUME CtsInv, NEW r \in Callbacks, RegisterLock(r)
  PROVE  CtsInv'
<1>1. CtsTypeOK'
  BY DEF RegisterLock, CtsTypeOK
<1>2. HolderUnique'
  BY DEF RegisterLock, CtsTypeOK, HolderUnique, HoldsMutex, MutexFree
<1>3. PairsSound'
  BY DEF RegisterLock, CtsTypeOK, PairsSound, Taken, Pairs
<1>4. IdsSound'
  BY DEF RegisterLock, IdsSound
<1>5. CallsSound'
  BY DEF RegisterLock, CtsTypeOK, CallsSound, InList, Taken
<1>6. CancelSound'
  BY DEF RegisterLock, CtsTypeOK, CancelSound, Active
<1>. QED
  BY <1>1, <1>2, <1>3, <1>4, <1>5, <1>6

LEMMA RegisterCheckCtsInv ==
  ASSUME CtsInv, NEW r \in Callbacks, RegisterCheck(r)
  PROVE  CtsInv'
<1>1. CtsTypeOK'
  BY DEF RegisterCheck, CtsTypeOK
<1>2. HolderUnique'
  BY DEF RegisterCheck, CtsTypeOK, HolderUnique, HoldsMutex
<1>3. PairsSound'
  BY DEF RegisterCheck, CtsTypeOK, PairsSound, Taken, Pairs
<1>4. IdsSound'
  BY DEF RegisterCheck, IdsSound
<1>5. CallsSound'
  BY DEF RegisterCheck, CtsTypeOK, CallsSound, InList, Taken
<1>6. CancelSound'
  BY DEF RegisterCheck, CtsTypeOK, CancelSound, Active
<1>. QED
  BY <1>1, <1>2, <1>3, <1>4, <1>5, <1>6

LEMMA RegisterInlineCtsInv ==
  ASSUME CtsInv, NEW r \in Callbacks, RegisterInline(r)
  PROVE  CtsInv'
<1>1. CtsTypeOK'
  BY DEF RegisterInline, CtsTypeOK
<1>2. HolderUnique'
  BY DEF RegisterInline, CtsTypeOK, HolderUnique, HoldsMutex
<1>3. PairsSound'
  BY DEF RegisterInline, CtsTypeOK, PairsSound, Taken, Pairs
<1>4. IdsSound'
  BY DEF RegisterInline, IdsSound
<1>5. CallsSound'
  BY DEF RegisterInline, CtsTypeOK, CallsSound, InList, Taken
<1>6. CancelSound'
  BY DEF RegisterInline, CtsTypeOK, CancelSound, Active
<1>. QED
  BY <1>1, <1>2, <1>3, <1>4, <1>5, <1>6

LEMMA RegisterPushCtsInv ==
  ASSUME CtsInv, NEW r \in Callbacks, RegisterPush(r)
  PROVE  CtsInv'
<1>1. CtsTypeOK'
  BY DEF RegisterPush, CtsTypeOK, Pairs
<1>2. HolderUnique'
  BY DEF RegisterPush, CtsTypeOK, HolderUnique, HoldsMutex
<1>3. PairsSound'
  BY DEF RegisterPush, CtsTypeOK, PairsSound, CallsSound, Taken, Pairs
<1>4. IdsSound'
  BY DEF RegisterPush, CtsTypeOK, IdsSound
<1>5. CallsSound'
  <2>. DEFINE p == [id |-> counter + 1, action |-> r]
  <2>0. p \in cancelActions' /\ p.action = r
    BY DEF RegisterPush
  <2>. HIDE DEF p
  <2>1. InList(r)'
    BY <2>0 DEF InList
  <2>2. \A q \in Callbacks : /\ InList(q) => InList(q)'
                             /\ Taken(q) => Taken(q)'
    BY DEF RegisterPush, InList, Taken
  <2>3. /\ runs' = runs /\ isCanceled' = isCanceled /\ disposed' = disposed
        /\ pc[r] = "push" /\ r \notin Inert
        /\ pc' = [pc EXCEPT ![r] = "done"]
        /\ disposer' = [disposer EXCEPT ![r] = counter + 1]
    BY DEF RegisterPush, CallsSound
  <2>4. \A q \in Callbacks : q # r => pc'[q] = pc[q] /\ disposer'[q] = disposer[q]
    BY <2>3 DEF CtsTypeOK
  <2>5. pc'[r] = "done" /\ runs[r] = 0
    BY <2>3 DEF CtsTypeOK, CallsSound
  <2>. QED
    BY <2>1, <2>2, <2>3, <2>4, <2>5 DEF CallsSound
<1>6. CancelSound'
  BY DEF RegisterPush, CtsTypeOK, HolderUnique, HoldsMutex, CancelSound, Active
<1>. QED
  BY <1>1, <1>2, <1>3, <1>4, <1>5, <1>6

LEMMA DisposeCtsInv ==
  ASSUME CtsInv, NEW r \in Callbacks, Dispose(r)
  PROVE  CtsInv'
<1>1. CtsTypeOK'
  BY DEF Dispose, RemoveCancellation, CtsTypeOK
<1>2. HolderUnique'
  BY DEF Dispose, HolderUnique, HoldsMutex
<1>3. PairsSound'
  BY DEF Dispose, RemoveCancellation, CtsTypeOK, PairsSound, Taken
<1>4. IdsSound'
  BY DEF Dispose, IdsSound
<1>5. CallsSound'
  <2>1. \A q \in Callbacks : InList(q) =>
          \/ InList(q)'
          \/ q = r /\ disposer[q] # 0
    <3>. SUFFICES ASSUME NEW q \in Callbacks, NEW p \in cancelActions, p.action = q,
                         p.id = disposer[r]
                  PROVE  q = r /\ disposer[q] # 0
      BY DEF Dispose, RemoveCancellation, InList
    <3>1. disposer[q] = disposer[r] /\ p.id \in Nat
      BY DEF PairsSound, CtsTypeOK, Pairs
    <3>2. disposer[q] # 0
      BY <3>1 DEF PairsSound
    <3>. QED
      BY <3>1, <3>2 DEF IdsSound
  <2>2. \A q \in Callbacks : Taken(q)' <=> Taken(q)
    BY DEF Dispose, Taken
  <2>3. UNCHANGED <<isCanceled, pc, disposer, runs>> /\ disposed' = disposed \cup {r}
        /\ pc[r] = "done"
    BY DEF Dispose
  <2>. QED
    BY <2>1, <2>2, <2>3 DEF CallsSound
<1>6. CancelSound'
  BY DEF Dispose, RemoveCancellation, CancelSound, Active
<1>. QED
  BY <1>1, <1>2, <1>3, <1>4, <1>5, <1>6

LEMMA CancelExchangeCtsInv ==
  ASSUME CtsInv, NEW c \in Cancelers, CancelExchange(c)
  PROVE  CtsInv'
<1>1. CtsTypeOK'
  BY DEF CancelExchange, CtsTypeOK
<1>2. HolderUnique'
  BY DEF CancelExchange, HolderUnique, HoldsMutex
<1>3. PairsSound'
  BY DEF CancelExchange, CtsTypeOK, PairsSound, Taken
<1>4. IdsSound'
  BY DEF CancelExchange, IdsSound
<1>5. CallsSound'
  BY DEF CancelExchange, CallsSound, InList, Taken
<1>6. CancelSound'
  BY DEF CancelExchange, CtsTypeOK, CancelSound, Active
<1>. QED
  BY <1>1, <1>2, <1>3, <1>4, <1>5, <1>6

LEMMA CancelSwapCtsInv ==
  ASSUME CtsInv, NEW c \in Cancelers, CancelSwap(c)
  PROVE  CtsInv'
<1>1. CtsTypeOK'
  BY DEF CancelSwap, CtsTypeOK
<1>2. HolderUnique'
  BY DEF CancelSwap, HolderUnique, HoldsMutex
<1>3. PairsSound'
  BY DEF CancelSwap, CtsTypeOK, PairsSound, Taken
<1>4. IdsSound'
  BY DEF CancelSwap, IdsSound
<1>5. CallsSound'
  BY DEF CancelSwap, CtsTypeOK, PairsSound, CallsSound, InList, Taken
<1>6. CancelSound'
  BY DEF CancelSwap, CtsTypeOK, CancelSound, Active, MutexFree, HoldsMutex
<1>. QED
  BY <1>1, <1>2, <1>3, <1>4, <1>5, <1>6

LEMMA CancelRunCtsInv ==
  ASSUME CtsInv, NEW c \in Cancelers, CancelRun(c)
  PROVE  CtsInv'
<1>. PICK p \in local[c] :
       /\ \A q \in local[c] : p.id <= q.id
       /\ runs' = [runs EXCEPT ![p.action] = @ + 1]
       /\ local' = [local EXCEPT ![c] = @ \ {p}]
  BY DEF CancelRun, EscapesRunCancelAction
<1>. cpc[c] = "running" /\ UNCHANGED <<isCanceled, cancelActions, counter, pc, cpc,
                                       disposer, disposed>>
  BY DEF CancelRun
<1>0. p.action \in Callbacks /\ p.id \in Nat /\ runs[p.action] = 0
  BY DEF CtsTypeOK, Pairs, PairsSound
<1>1. CtsTypeOK'
  BY <1>0 DEF CtsTypeOK
<1>2. HolderUnique'
  BY DEF HolderUnique, HoldsMutex
<1>3. PairsSound'
  <2>1. \A q \in cancelActions : q.action # p.action
    BY DEF PairsSound, Taken
  <2>2. \A d \in Cancelers : \A q \in local'[d] : q \in local[d] /\ q.action # p.action
    <3>. SUFFICES ASSUME NEW d \in Cancelers, NEW q \in local'[d]
                  PROVE  q \in local[d] /\ q.action # p.action
      OBVIOUS
    <3>1. q \in local[d] /\ (d = c => q # p)
      BY DEF CtsTypeOK
    <3>2. d = c
      BY <3>1 DEF PairsSound, CancelSound, Active
    <3>3. q.action = p.action => q.id = p.id
      BY <3>1 DEF PairsSound
    <3>4. q.action = p.action => q = p
      BY <3>1, <3>3 DEF CtsTypeOK, Pairs
    <3>. QED
      BY <3>1, <3>2, <3>4
  <2>. QED
    BY <1>0, <2>1, <2>2 DEF CtsTypeOK, PairsSound, Taken, Pairs
<1>4. IdsSound'
  BY DEF IdsSound
<1>5. CallsSound'
  <2>1. isCanceled
    BY DEF CancelSound
  <2>2. \A r \in Callbacks : Taken(r) /\ r # p.action => Taken(r)'
    BY DEF Taken, CtsTypeOK
  <2>3. pc[p.action] = "done" /\ p.action \notin Inert
    BY <1>0 DEF PairsSound, CallsSound
  <2>. QED
    BY <1>0, <2>1, <2>2, <2>3 DEF CtsTypeOK, CallsSound, InList
<1>6. CancelSound'
  BY DEF CancelSound, Active
<1>. QED
  BY <1>1, <1>2, <1>3, <1>4, <1>5, <1>6

LEMMA CancelReturnCtsInv ==
  ASSUME CtsInv, NEW c \in Cancelers, CancelReturn(c)
  PROVE  CtsInv'
<1>1. CtsTypeOK'
  BY DEF CancelReturn, CtsTypeOK
<1>2. HolderUnique'
  BY DEF CancelReturn, HolderUnique, HoldsMutex
<1>3. PairsSound'
  BY DEF CancelReturn, CtsTypeOK, PairsSound, Taken
<1>4. IdsSound'
  BY DEF CancelReturn, IdsSound
<1>5. CallsSound'
  BY DEF CancelReturn, CallsSound, InList, Taken
<1>6. CancelSound'
  BY DEF CancelReturn, CtsTypeOK, CancelSound, Active
<1>. QED
  BY <1>1, <1>2, <1>3, <1>4, <1>5, <1>6

LEMMA NextCtsInv == CtsInv /\ [CtsNext]_ctsVars => CtsInv'
<1>. SUFFICES ASSUME CtsInv, [CtsNext]_ctsVars PROVE CtsInv'
  OBVIOUS
<1>1. CASE UNCHANGED ctsVars
  BY <1>1 DEF ctsVars, CtsTypeOK, HolderUnique, PairsSound, IdsSound, CallsSound,
              CancelSound, HoldsMutex, InList, Taken, Active
<1>2. CASE CtsNext
  BY <1>2, RegisterInertCtsInv, RegisterLockCtsInv, RegisterCheckCtsInv,
     RegisterInlineCtsInv, RegisterPushCtsInv, DisposeCtsInv, CancelExchangeCtsInv,
     CancelSwapCtsInv, CancelRunCtsInv, CancelReturnCtsInv
     DEF CtsNext, RegisterStep, CancelStep
<1>. QED
  BY <1>1, <1>2

(* The shared state keeps its types and its invariant.                     *)
THEOREM CtsInvariant == CtsSafeSpec => []CtsInv
BY CtsInitInv, NextCtsInv, PTL DEF CtsSafeSpec

(* No callback is lost in the race of Register with Cancel.                *)
THEOREM NoCallbackIsLost == CtsSafeSpec => []NoCallbackLost
<1>1. CtsInv => NoCallbackLost
  <2>. SUFFICES ASSUME CtsInv, isCanceled, \A c \in Cancelers : ~Active(c),
                       NEW r \in Callbacks \ Inert,
                       pc[r] = "done", r \notin disposed
                PROVE  runs[r] = 1
    BY DEF NoCallbackLost
  <2>1. cancelActions = {}
    BY DEF CancelSound, Active
  <2>2. ~InList(r)
    BY <2>1 DEF InList
  <2>3. ~Taken(r)
    BY DEF Taken, PairsSound, Active
  <2>. QED
    BY <2>2, <2>3 DEF CallsSound
<1>. QED
  BY <1>1, CtsInvariant, PTL

-----------------------------------------------------------------------------
(* Refinement.  Each step of the shared state is the step of the contract  *)
(* named in its lemma, or leaves the contract's state alone.               *)

StatusMap == [r \in Callbacks |-> StatusOf(r)]

LEMMA SameStatus ==
  ASSUME isCanceled' = isCanceled,
         \A q \in Callbacks : StatusOf(q)' = StatusOf(q)
  PROVE  UNCHANGED Contract!cvars
BY DEF Contract!cvars

LEMMA OneStatus ==
  ASSUME NEW r \in Callbacks, NEW s,
         StatusOf(r)' = s,
         \A q \in Callbacks \ {r} : StatusOf(q)' = StatusOf(q)
  PROVE  StatusMap' = [StatusMap EXCEPT ![r] = s]
BY DEF StatusMap

(* A step that moves nobody's pair, call, disposer or count moves nobody's *)
(* status, whatever it does to the other callback r.                       *)
LEMMA OthersKeepStatus ==
  ASSUME NEW r,
         UNCHANGED <<cancelActions, local>>,
         \A q \in Callbacks \ {r} :
           /\ runs'[q] = runs[q] /\ disposer'[q] = disposer[q]
           /\ pc'[q] = "push" <=> pc[q] = "push"
           /\ q \in disposed' <=> q \in disposed
  PROVE  \A q \in Callbacks \ {r} : StatusOf(q)' = StatusOf(q)
BY DEF StatusOf, InList, Taken

(* A callback still on its way through Register is in no collection.       *)
LEMMA NotYetStored ==
  ASSUME CtsInv, NEW r \in Callbacks, pc[r] # "done"
  PROVE  ~InList(r) /\ ~Taken(r) /\ runs[r] = 0 /\ disposer[r] = 0
BY DEF PairsSound, CallsSound, InList, Taken

LEMMA RegisterInertRefines ==
  ASSUME CtsInv, NEW r \in Callbacks, RegisterInert(r)
  PROVE  UNCHANGED Contract!cvars
<1>1. StatusOf(r) = "none"
  BY NotYetStored DEF RegisterInert, StatusOf
<1>2. StatusOf(r)' = "none"
  BY NotYetStored DEF RegisterInert, StatusOf, CtsTypeOK, InList, Taken
<1>3. \A q \in Callbacks \ {r} : StatusOf(q)' = StatusOf(q)
  BY OthersKeepStatus DEF RegisterInert, CtsTypeOK
<1>. QED
  BY <1>1, <1>2, <1>3, SameStatus DEF RegisterInert

LEMMA RegisterLockRefines ==
  ASSUME CtsInv, NEW r \in Callbacks, RegisterLock(r)
  PROVE  UNCHANGED Contract!cvars
<1>1. StatusOf(r) = "none"
  BY NotYetStored DEF RegisterLock, StatusOf
<1>2. StatusOf(r)' = "none"
  BY NotYetStored DEF RegisterLock, StatusOf, CtsTypeOK, InList, Taken
<1>3. \A q \in Callbacks \ {r} : StatusOf(q)' = StatusOf(q)
  BY OthersKeepStatus DEF RegisterLock, CtsTypeOK
<1>. QED
  BY <1>1, <1>2, <1>3, SameStatus DEF RegisterLock

LEMMA RegisterCheckRefines ==
  ASSUME CtsInv, NEW r \in Callbacks, RegisterCheck(r)
  PROVE  Contract!Register(r) \/ UNCHANGED Contract!cvars
<1>1. StatusOf(r) = "none"
  BY NotYetStored DEF RegisterCheck, StatusOf
<1>2. StatusOf(r)' = IF isCanceled THEN "none" ELSE "armed"
  BY NotYetStored DEF RegisterCheck, StatusOf, CtsTypeOK, InList, Taken
<1>3. \A q \in Callbacks \ {r} : StatusOf(q)' = StatusOf(q)
  BY OthersKeepStatus DEF RegisterCheck, CtsTypeOK
<1>4. isCanceled' = isCanceled
  BY DEF RegisterCheck
<1>5. CASE isCanceled
  BY <1>1, <1>2, <1>3, <1>4, <1>5, SameStatus
<1>6. CASE ~isCanceled
  BY <1>1, <1>2, <1>3, <1>4, <1>6, OneStatus DEF Contract!Register, StatusMap
<1>. QED
  BY <1>5, <1>6

LEMMA RegisterInlineRefines ==
  ASSUME CtsInv, NEW r \in Callbacks, RegisterInline(r)
  PROVE  Contract!Register(r)
<1>1. StatusOf(r) = "none" /\ isCanceled
  BY NotYetStored DEF RegisterInline, StatusOf, CallsSound
<1>2. StatusOf(r)' = "fired"
  BY NotYetStored DEF RegisterInline, StatusOf, CtsTypeOK
<1>3. \A q \in Callbacks \ {r} : StatusOf(q)' = StatusOf(q)
  BY OthersKeepStatus DEF RegisterInline, CtsTypeOK
<1>4. isCanceled' = isCanceled
  BY DEF RegisterInline
<1>. QED
  BY <1>1, <1>2, <1>3, <1>4, OneStatus DEF Contract!Register, StatusMap

LEMMA RegisterPushRefines ==
  ASSUME CtsInv, NEW r \in Callbacks, RegisterPush(r)
  PROVE  UNCHANGED Contract!cvars
<1>. DEFINE p == [id |-> counter + 1, action |-> r]
<1>1. p.action = r /\ cancelActions' = cancelActions \cup {p}
  BY DEF RegisterPush
<1>. HIDE DEF p
<1>2. \A q \in Callbacks : InList(q)' <=> InList(q) \/ q = r
  BY <1>1 DEF InList
<1>3. \A q \in Callbacks : Taken(q)' <=> Taken(q)
  BY DEF RegisterPush, Taken
<1>4. /\ pc[r] = "push" /\ runs[r] = 0
      /\ UNCHANGED <<runs, disposed, isCanceled>>
      /\ \A q \in Callbacks \ {r} : pc'[q] = pc[q] /\ disposer'[q] = disposer[q]
  BY NotYetStored DEF RegisterPush, CtsTypeOK
<1>5. \A q \in Callbacks : StatusOf(q)' = StatusOf(q)
  BY <1>2, <1>3, <1>4 DEF StatusOf
<1>. QED
  BY <1>4, <1>5, SameStatus

LEMMA DisposeRefines ==
  ASSUME CtsInv, NEW r \in Callbacks, Dispose(r)
  PROVE  Contract!Dispose(r) \/ UNCHANGED Contract!cvars
<1>1. \A p \in cancelActions : p.id = disposer[r] <=> p.action = r
  BY DEF PairsSound, IdsSound, CtsTypeOK, Pairs
<1>2. \A q \in Callbacks : InList(q)' <=> InList(q) /\ q # r
  BY <1>1 DEF Dispose, RemoveCancellation, InList
<1>3. \A q \in Callbacks : Taken(q)' <=> Taken(q)
  BY DEF Dispose, Taken
<1>4. /\ pc[r] = "done" /\ disposed' = disposed \cup {r}
      /\ UNCHANGED <<runs, isCanceled, pc, disposer>>
  BY DEF Dispose
<1>5. \A q \in Callbacks \ {r} : StatusOf(q)' = StatusOf(q)
  BY <1>2, <1>3, <1>4 DEF StatusOf
<1>6. CASE InList(r)
  <2>1. disposer[r] # 0 /\ runs[r] = 0 /\ ~Taken(r)
    BY <1>6 DEF InList, PairsSound
  <2>2. StatusOf(r) = "armed" /\ StatusOf(r)' = "disposed"
    BY <1>2, <1>3, <1>4, <1>6, <2>1 DEF StatusOf
  <2>. QED
    BY <1>4, <1>5, <2>2, OneStatus DEF Contract!Dispose, StatusMap
<1>7. CASE ~InList(r)
  <2>1. StatusOf(r)' = StatusOf(r)
    BY <1>2, <1>3, <1>4, <1>7 DEF StatusOf, CallsSound, CtsTypeOK
  <2>. QED
    BY <1>4, <1>5, <2>1, SameStatus
<1>. QED
  BY <1>6, <1>7

LEMMA CancelExchangeRefines ==
  ASSUME CtsInv, NEW c \in Cancelers, CancelExchange(c)
  PROVE  Contract!Cancel \/ UNCHANGED Contract!cvars
<1>1. \A q \in Callbacks : StatusOf(q)' = StatusOf(q)
  BY DEF CancelExchange, StatusOf, InList, Taken
<1>2. StatusMap' = StatusMap
  BY <1>1 DEF StatusMap
<1>3. isCanceled' = TRUE
  BY DEF CancelExchange
<1>. QED
  BY <1>2, <1>3 DEF Contract!Cancel, Contract!cvars, StatusMap, CtsTypeOK

LEMMA CancelSwapRefines ==
  ASSUME CtsInv, NEW c \in Cancelers, CancelSwap(c)
  PROVE  Contract!Take \/ UNCHANGED Contract!cvars
<1>1. isCanceled /\ local[c] = {} /\ \A q \in Callbacks : pc[q] # "push"
  BY DEF CancelSwap, CancelSound, PairsSound, MutexFree, HoldsMutex
<1>2. \A q \in Callbacks : ~InList(q)'
  BY DEF CancelSwap, InList
<1>3. \A q \in Callbacks : Taken(q)' <=> Taken(q) \/ InList(q)
  BY <1>1 DEF CancelSwap, Taken, InList, CtsTypeOK
<1>4. UNCHANGED <<runs, isCanceled, pc, disposer, disposed>>
  BY DEF CancelSwap
<1>5. \A q \in Callbacks :
        StatusOf(q)' = IF StatusOf(q) = "armed" THEN "taken" ELSE StatusOf(q)
  BY <1>1, <1>2, <1>3, <1>4 DEF StatusOf
<1>6. CASE \E q \in Callbacks : StatusOf(q) = "armed"
  BY <1>1, <1>4, <1>5, <1>6 DEF Contract!Take
<1>7. CASE \A q \in Callbacks : StatusOf(q) # "armed"
  BY <1>4, <1>5, <1>7, SameStatus
<1>. QED
  BY <1>6, <1>7

LEMMA CancelRunRefines ==
  ASSUME CtsInv, NEW c \in Cancelers, CancelRun(c)
  PROVE  \E r \in Callbacks : Contract!Fire(r)
<1>. PICK p \in local[c] :
       /\ \A q \in local[c] : p.id <= q.id
       /\ runs' = [runs EXCEPT ![p.action] = @ + 1]
       /\ local' = [local EXCEPT ![c] = @ \ {p}]
  BY DEF CancelRun, EscapesRunCancelAction
<1>. DEFINE r == p.action
<1>1. /\ r \in Callbacks /\ runs[r] = 0 /\ pc[r] = "done" /\ Taken(r)
      /\ UNCHANGED <<isCanceled, cancelActions, pc, disposer, disposed>>
  BY DEF CancelRun, CtsTypeOK, Pairs, PairsSound, Taken
<1>2. ~InList(r)
  BY <1>1 DEF InList, PairsSound
<1>3. StatusOf(r) = "taken" /\ StatusOf(r)' = "fired"
  BY <1>1, <1>2 DEF StatusOf, CtsTypeOK
<1>4. \A q \in Callbacks \ {r} : Taken(q)' <=> Taken(q)
  BY DEF Taken, CtsTypeOK
<1>5. \A q \in Callbacks \ {r} : InList(q)' <=> InList(q)
  BY <1>1 DEF InList
<1>6. \A q \in Callbacks \ {r} : StatusOf(q)' = StatusOf(q)
  BY <1>1, <1>4, <1>5 DEF StatusOf, CtsTypeOK
<1>7. StatusMap' = [StatusMap EXCEPT ![r] = "fired"]
  BY <1>1, <1>3, <1>6, OneStatus
<1>. QED
  BY <1>1, <1>3, <1>7 DEF Contract!Fire, StatusMap

LEMMA CancelReturnRefines ==
  ASSUME CtsInv, NEW c \in Cancelers, CancelReturn(c)
  PROVE  UNCHANGED Contract!cvars
<1>1. \A q \in Callbacks : StatusOf(q)' = StatusOf(q)
  BY DEF CancelReturn, StatusOf, InList, Taken
<1>. QED
  BY <1>1, SameStatus DEF CancelReturn

(* The shared state implements the safety part of the contract: every      *)
(* callback goes through its life in the order the contract gives.         *)
THEOREM CtsRefinesContract == CtsSafeSpec => Contract!SafeSpec
<1>1. CtsInit => Contract!Init
  <2>. SUFFICES ASSUME CtsInit PROVE Contract!Init
    OBVIOUS
  <2>1. \A q \in Callbacks : StatusOf(q) = "none"
    BY DEF CtsInit, StatusOf, InList, Taken
  <2>. QED
    BY <2>1 DEF CtsInit, Contract!Init
<1>2. CtsInv /\ [CtsNext]_ctsVars => [Contract!Next]_Contract!cvars
  <2>. SUFFICES ASSUME CtsInv, [CtsNext]_ctsVars PROVE [Contract!Next]_Contract!cvars
    OBVIOUS
  <2>1. CASE UNCHANGED ctsVars
    <3>1. \A q \in Callbacks : StatusOf(q)' = StatusOf(q)
      BY <2>1 DEF ctsVars, StatusOf, InList, Taken
    <3>. QED
      BY <2>1, <3>1, SameStatus DEF ctsVars
  <2>2. ASSUME NEW r \in Callbacks,
               RegisterInert(r) \/ RegisterLock(r) \/ RegisterStep(r) \/ Dispose(r)
        PROVE  [Contract!Next]_Contract!cvars
    BY <2>2, RegisterInertRefines, RegisterLockRefines, RegisterCheckRefines,
       RegisterInlineRefines, RegisterPushRefines, DisposeRefines
       DEF RegisterStep, Contract!Next
  <2>3. ASSUME NEW c \in Cancelers, CancelExchange(c) \/ CancelStep(c)
        PROVE  [Contract!Next]_Contract!cvars
    BY <2>3, CancelExchangeRefines, CancelSwapRefines, CancelRunRefines,
       CancelReturnRefines DEF CancelStep, Contract!Next
  <2>. QED
    BY <2>1, <2>2, <2>3 DEF CtsNext
<1>. QED
  BY <1>1, <1>2, CtsInitInv, NextCtsInv, PTL DEF CtsSafeSpec, Contract!SafeSpec

-----------------------------------------------------------------------------
(* The mutex.                                                              *)
USE DEF semaphore, Constructed, Usable, Awaited

Agree == OneOwner /\ GuardsSound /\ LineSound

LEMMA InitMutexInv == Init => MutexInv
<1>. SUFFICES ASSUME Init PROVE MutexInv
  OBVIOUS
<1>1. line = <<>> /\ <<>> \in Seq(Calls) /\ Len(<<>>) = 0
  BY DEF Init, Semaphore!Init
<1>2. TypeOK
  BY <1>1 DEF Init, Semaphore!Init, TypeOK
<1>3. OneOwner /\ GuardsSound /\ LineSound
  BY <1>1 DEF Init, Semaphore!Init, OneOwner, Owning, GuardsSound, LineSound
<1>. QED
  BY <1>2, <1>3 DEF MutexInv

-----------------------------------------------------------------------------
(* The types hold whatever guards are moved from.                          *)

LEMMA ReleaseType ==
  ASSUME TypeOK, Semaphore!ReleaseToFirst \/ Semaphore!ReleaseToNobody
  PROVE  /\ permits' \in {0, 1}
         /\ line' \in Seq(Calls)
         /\ request' \in [Calls -> {"none", "waiting", "granted"}]
         /\ UNCHANGED <<canceled, closed>>
<1>1. CASE Semaphore!ReleaseToFirst
  BY <1>1 DEF TypeOK, Semaphore!ReleaseToFirst
<1>2. CASE Semaphore!ReleaseToNobody
  BY <1>2 DEF TypeOK, Semaphore!ReleaseToNobody
<1>. QED
  BY <1>1, <1>2

LEMMA NextType ==
  ASSUME TypeOK, Next
  PROVE  TypeOK'
<1>1. ASSUME NEW c \in Calls, NEW g \in Guards, Lock(c, g) PROVE TypeOK'
  <2>1. Append(line, c) \in Seq(Calls)
    BY DEF TypeOK
  <2>2. CASE Semaphore!Acquire(c)
    BY <1>1, <2>2 DEF Lock, TypeOK, Semaphore!Acquire
  <2>3. CASE Semaphore!Join(c)
    BY <1>1, <2>1, <2>3 DEF Lock, TypeOK, Semaphore!Join
  <2>. QED
    BY <1>1, <2>2, <2>3 DEF Lock
<1>2. ASSUME NEW c \in Calls, Resume(c) PROVE TypeOK'
  BY <1>2 DEF Resume, TypeOK
<1>3. ASSUME NEW g \in Guards, NEW h \in Guards, Move(g, h) PROVE TypeOK'
  BY <1>3 DEF Move, TypeOK
<1>4. ASSUME NEW g \in Guards, Unlock(g) \/ Destroy(g) PROVE TypeOK'
  <2>1. /\ UNCHANGED <<lockTask, awaited, revived>> /\ live' = live \ {g}
        /\ destroyed' \in SUBSET Guards /\ unlocked' \in SUBSET Calls
    BY <1>4 DEF Unlock, Destroy, UnlockNow, TypeOK
  <2>2. UNCHANGED semaphore \/ Semaphore!ReleaseToFirst \/ Semaphore!ReleaseToNobody
    BY <1>4 DEF Unlock, Destroy, UnlockNow
  <2>. QED
    BY <2>1, <2>2, ReleaseType DEF TypeOK
<1>5. ASSUME NEW g \in Guards, UnlockFull(g) PROVE TypeOK'
  BY <1>5 DEF UnlockFull, TypeOK
<1>. QED
  BY <1>1, <1>2, <1>3, <1>4, <1>5 DEF Next

-----------------------------------------------------------------------------
(* The agreement of guards and permit.                                     *)

LEMMA LockAgree ==
  ASSUME TypeOK, Agree, NEW c \in Calls, NEW g \in Guards, Lock(c, g)
  PROVE  Agree'
<1>. USE DEF Agree, TypeOK
<1>1. /\ request[c] = "none" /\ g \notin live /\ lockTask[g] = {}
      /\ lockTask' = [lockTask EXCEPT ![g] = {c}] /\ live' = live \cup {g}
      /\ UNCHANGED <<destroyed, awaited, unlocked>>
  <2>1. lockTask[g] = {} /\ lockTask' = [lockTask EXCEPT ![g] = {c}]
        /\ live' = live \cup {g} /\ UNCHANGED <<destroyed, awaited, unlocked>>
    BY DEF Lock
  <2>2. request[c] = "none"
    BY DEF Lock, Semaphore!Acquire, Semaphore!Join
  <2>. QED
    BY <2>1, <2>2 DEF GuardsSound
<1>2. c \notin unlocked
  BY <1>1 DEF GuardsSound
<1>3. /\ request' \in [Calls -> {"none", "waiting", "granted"}] /\ request'[c] # "none"
      /\ \A d \in Calls : d # c => request'[d] = request[d]
  BY DEF Lock, Semaphore!Acquire, Semaphore!Join
<1>4. GuardsSound'
  <2>1. lockTask'[g] = {c} /\ \A h \in live : h # g /\ lockTask'[h] = lockTask[h]
    BY <1>1
  <2>2. \A h \in live : lockTask[h] # {c}
    <3>. TAKE h \in live
    <3>1. PICK d \in Calls : lockTask[h] = {d} /\ request[d] # "none"
      BY DEF GuardsSound
    <3>. QED
      BY <1>1, <3>1
  <2>3. ASSUME NEW h \in live' PROVE \E d \in Calls :
          lockTask'[h] = {d} /\ d \notin unlocked' /\ request'[d] # "none"
    <3>1. CASE h = g
      BY <1>1, <1>2, <1>3, <2>1, <3>1
    <3>2. CASE h # g
      BY <1>1, <1>3, <2>1, <3>2 DEF GuardsSound
    <3>. QED
      BY <3>1, <3>2
  <2>4. \A h, k \in live' : lockTask'[h] = lockTask'[k] => h = k
    BY <1>1, <2>1, <2>2 DEF GuardsSound
  <2>5. \A d \in Calls : request'[d] # "none" /\ d \notin unlocked' =>
          \E h \in live' : lockTask'[h] = {d}
    BY <1>1, <1>3, <2>1 DEF GuardsSound
  <2>6. \A d \in awaited' \cup unlocked' : request'[d] = "granted"
    BY <1>1, <1>3 DEF GuardsSound
  <2>. QED
    BY <2>3, <2>4, <2>5, <2>6 DEF GuardsSound
<1>5. CASE Semaphore!Acquire(c)
  <2>1. permits = 1 /\ permits' = 0 /\ request'[c] = "granted" /\ line' = line
    BY <1>5 DEF Semaphore!Acquire
  <2>2. Owning = {} /\ line = <<>>
    BY <2>1 DEF OneOwner, LineSound
  <2>3. Owning' = {g}
    BY <1>1, <1>3, <2>1, <2>2 DEF Owning, GuardsSound
  <2>4. OneOwner'
    BY <2>1, <2>3 DEF OneOwner
  <2>5. LineSound'
    BY <2>1, <2>2 DEF LineSound
  <2>. QED
    BY <1>4, <2>4, <2>5
<1>6. CASE Semaphore!Join(c)
  <2>1. permits = 0 /\ permits' = 0 /\ request'[c] = "waiting" /\ line' = Append(line, c)
    BY <1>6 DEF Semaphore!Join
  <2>2. Owning' = Owning
    BY <1>1, <1>3, <2>1 DEF Owning, GuardsSound
  <2>3. OneOwner'
    BY <2>1, <2>2 DEF OneOwner
  <2>4. /\ Len(line) \in Nat /\ Len(line') = Len(line) + 1 /\ line'[Len(line) + 1] = c
        /\ \A n \in 1..Len(line) : line'[n] = line[n] /\ line[n] \in Calls
    BY <2>1, AppendProperties, ElementOfSeq
  <2>5. \A n \in 1..Len(line) : request[line[n]] = "waiting" /\ line[n] # c
    BY <1>1 DEF LineSound
  <2>6. \A n \in 1..Len(line') : request'[line'[n]] = "waiting"
    BY <1>3, <2>1, <2>4, <2>5
  <2>7. \A m, n \in 1..Len(line') : line'[m] = line'[n] => m = n
    BY <2>4, <2>5 DEF LineSound
  <2>8. LineSound'
    BY <2>1, <2>6, <2>7 DEF LineSound
  <2>. QED
    BY <1>4, <2>3, <2>8
<1>. QED
  BY <1>5, <1>6 DEF Lock

LEMMA ResumeAgree ==
  ASSUME TypeOK, Agree, NEW c \in Calls, Resume(c)
  PROVE  Agree'
<1>. /\ UNCHANGED <<semaphore, lockTask, live, unlocked>>
     /\ awaited' = awaited \cup {c} /\ request[c] = "granted"
  BY DEF Resume
<1>1. Owning' = Owning
  BY DEF Owning
<1>2. OneOwner'
  BY <1>1 DEF Agree, OneOwner
<1>3. GuardsSound'
  <2>1. \A d \in awaited' \cup unlocked' : request'[d] = "granted"
    BY DEF Agree, GuardsSound
  <2>. QED
    BY <2>1 DEF Agree, GuardsSound
<1>4. LineSound'
  BY DEF Agree, LineSound
<1>. QED
  BY <1>2, <1>3, <1>4 DEF Agree

LEMMA MoveAgree ==
  ASSUME TypeOK, Agree, NEW g \in Guards, NEW h \in Guards, Move(g, h), ~revived'
  PROVE  Agree'
<1>. USE DEF Agree, TypeOK
<1>1. /\ g \in live /\ h \notin live /\ g # h
      /\ lockTask' = [lockTask EXCEPT ![h] = lockTask[g]]
      /\ live' = (live \ {g}) \cup {h}
      /\ UNCHANGED <<semaphore, awaited, unlocked>>
  BY DEF Move, GuardsSound
<1>2. GuardsSound'
  <2>1. lockTask'[h] = lockTask[g] /\ \A k \in live : k # h /\ lockTask'[k] = lockTask[k]
    BY <1>1
  <2>2. ASSUME NEW k \in live'
        PROVE  \E d \in Calls :
                 lockTask'[k] = {d} /\ d \notin unlocked' /\ request'[d] # "none"
    <3>1. unlocked' = unlocked /\ request' = request
      BY <1>1
    <3>2. PICK j \in live : lockTask'[k] = lockTask[j]
      BY <1>1, <2>1
    <3>3. PICK d \in Calls : lockTask[j] = {d} /\ d \notin unlocked /\ request[d] # "none"
      BY DEF GuardsSound
    <3>. QED
      BY <3>1, <3>2, <3>3
  <2>3. \A j, k \in live' : lockTask'[j] = lockTask'[k] => j = k
    BY <1>1, <2>1 DEF GuardsSound
  <2>4. \A d \in Calls : request'[d] # "none" /\ d \notin unlocked' =>
          \E k \in live' : lockTask'[k] = {d}
    <3>. SUFFICES ASSUME NEW d \in Calls, request[d] # "none", d \notin unlocked
                  PROVE  \E k \in live' : lockTask'[k] = {d}
      BY <1>1
    <3>1. PICK k \in live : lockTask[k] = {d}
      BY DEF GuardsSound
    <3>2. CASE k = g
      BY <1>1, <2>1, <3>1, <3>2
    <3>3. CASE k # g
      BY <1>1, <2>1, <3>1, <3>3
    <3>. QED
      BY <3>2, <3>3
  <2>. QED
    BY <1>1, <2>2, <2>3, <2>4 DEF GuardsSound
<1>3. Owning' = IF g \in Owning THEN (Owning \ {g}) \cup {h} ELSE Owning
  BY <1>1 DEF Owning
<1>4. OneOwner'
  BY <1>1, <1>3 DEF OneOwner
<1>5. LineSound'
  BY <1>1 DEF LineSound
<1>. QED
  BY <1>2, <1>4, <1>5

(* A live guard whose call was awaited is the owner.                       *)
LEMMA AwaitedOwns ==
  ASSUME TypeOK, Agree, NEW g \in live, Awaited(g)
  PROVE  permits = 0 /\ Owning = {g}
<1>1. g \in Owning
  BY DEF Agree, GuardsSound, Owning
<1>. QED
  BY <1>1 DEF Agree, OneOwner, TypeOK

LEMMA LiveOnce ==
  ASSUME Agree, NEW g \in live, NEW h \in live, lockTask[g] = lockTask[h]
  PROVE  g = h
BY DEF Agree, GuardsSound

LEMMA UnlockNowAgree ==
  ASSUME TypeOK, Agree, NEW g \in Guards, Awaited(g), UnlockNow(g),
         UNCHANGED <<lockTask, awaited>>
  PROVE  Agree'
<1>. USE DEF Agree, TypeOK
<1>1. CASE g \notin live
  <2>1. live' = live /\ UNCHANGED <<permits, line, request, unlocked>>
    BY <1>1 DEF UnlockNow, semaphore
  <2>2. Owning' = Owning
    BY <2>1 DEF Owning
  <2>3. OneOwner'
    BY <2>1, <2>2 DEF OneOwner
  <2>4. GuardsSound'
    BY <2>1 DEF GuardsSound
  <2>. QED
    BY <2>1, <2>3, <2>4 DEF LineSound
<1>2. CASE g \in live
  <2>1. permits = 0 /\ Owning = {g}
    BY <1>2, AwaitedOwns
  <2>2. live' = live \ {g} /\ unlocked' = unlocked \cup lockTask[g]
    BY <1>2 DEF UnlockNow
  <2>3. PICK c \in Calls : lockTask[g] = {c} /\ request[c] = "granted"
    BY <1>2, <2>1 DEF GuardsSound, Owning
  <2>4. \A h \in live' : h \notin Owning /\ lockTask[h] # {c}
    BY <1>2, <2>1, <2>2, <2>3 DEF GuardsSound
  <2>5. CASE Semaphore!ReleaseToNobody
    <3>1. permits' = 1 /\ line = <<>> /\ UNCHANGED <<line, request>>
      BY <2>1, <2>5 DEF Semaphore!ReleaseToNobody
    <3>2. GuardsSound'
      <4>1. \A k \in live' : k \in live /\ k # g /\ lockTask[k] # {c}
        BY <2>2, <2>4
      <4>2. \A k \in live' : \E e \in Calls :
              lockTask'[k] = {e} /\ e \notin unlocked' /\ request'[e] # "none"
        BY <2>2, <2>3, <3>1, <4>1 DEF GuardsSound
      <4>3. \A j, k \in live' : lockTask'[j] = lockTask'[k] => j = k
        BY <4>1 DEF GuardsSound
      <4>4. \A e \in Calls : request'[e] # "none" /\ e \notin unlocked' =>
              \E k \in live' : lockTask'[k] = {e}
        BY <2>2, <2>3, <3>1 DEF GuardsSound
      <4>5. \A e \in awaited' \cup unlocked' : request'[e] = "granted"
        BY <2>2, <2>3, <3>1 DEF GuardsSound
      <4>. QED
        BY <4>2, <4>3, <4>4, <4>5 DEF GuardsSound
    <3>3. Owning' = {}
      BY <2>2, <2>4, <3>1 DEF Owning
    <3>. QED
      BY <3>1, <3>2, <3>3 DEF OneOwner, LineSound
  <2>6. CASE Semaphore!ReleaseToFirst
    <3>. DEFINE d == Head(line)
    <3>1. /\ line # <<>> /\ line' = Tail(line) /\ permits' = 0
          /\ request' = [request EXCEPT ![d] = "granted"]
      BY <2>1, <2>6 DEF Semaphore!ReleaseToFirst
    <3>2. /\ Len(line) \in Nat /\ Len(line') = Len(line) - 1
          /\ d = line[1] /\ d \in Calls /\ 1 \in 1..Len(line)
          /\ \A n \in 1..Len(line') : line'[n] = line[n+1] /\ n + 1 \in 1..Len(line)
      BY <3>1, HeadTailProperties, EmptySeq
    <3>. HIDE DEF d
    <3>3. /\ request[d] = "waiting" /\ d # c /\ request'[d] = "granted"
          /\ \A e \in Calls : e # d => request'[e] = request[e]
      BY <2>3, <3>1, <3>2 DEF LineSound
    <3>4. GuardsSound'
      <4>1. /\ \A k \in live' : k \in live /\ lockTask'[k] = lockTask[k]
            /\ unlocked' = unlocked \cup {c} /\ awaited' = awaited
            /\ \A e \in Calls : request'[e] = "none" <=> request[e] = "none"
        BY <2>2, <2>3, <3>3
      <4>2. \A k \in live' : \E e \in Calls :
              lockTask'[k] = {e} /\ e \notin unlocked' /\ request'[e] # "none"
        BY <2>4, <4>1 DEF GuardsSound
      <4>3. \A j, k \in live' : lockTask'[j] = lockTask'[k] => j = k
        BY <4>1 DEF GuardsSound
      <4>4. \A e \in Calls : request'[e] # "none" /\ e \notin unlocked' =>
              \E k \in live' : lockTask'[k] = {e}
        BY <2>2, <2>3, <4>1 DEF GuardsSound
      <4>5. \A e \in awaited' \cup unlocked' : request'[e] = "granted"
        BY <2>3, <3>3, <4>1 DEF GuardsSound
      <4>. QED
        BY <4>2, <4>3, <4>4, <4>5 DEF GuardsSound
    <3>5. PICK h \in live : lockTask[h] = {d}
      BY <3>2, <3>3 DEF GuardsSound
    <3>6. h # g /\ h \in Guards
      BY <2>3, <3>3, <3>5
    <3>7. Owning' = {h}
      <4>1. h \in Owning'
        BY <2>2, <3>3, <3>5, <3>6 DEF Owning
      <4>2. ASSUME NEW k \in Owning' PROVE k = h
        <5>1. k \in live' /\ k \in live /\ k \notin Owning
          BY <2>2, <2>4 DEF Owning
        <5>2. PICK e \in Calls : lockTask[k] = {e} /\ request[e] # "granted"
          BY <5>1 DEF Owning, GuardsSound
        <5>3. request'[e] = "granted"
          BY <5>2 DEF Owning
        <5>4. e = d
          BY <3>3, <5>2, <5>3
        <5>. QED
          BY <3>5, <5>1, <5>2, <5>4, LiveOnce
      <4>. QED
        BY <4>1, <4>2
    <3>8. LineSound'
      <4>1. \A n \in 1..Len(line') : line'[n] # d /\ line'[n] \in Calls
        <5>. TAKE n \in 1..Len(line')
        <5>1. line'[n] = line[n + 1] /\ n + 1 \in 1..Len(line) /\ n + 1 # 1
          BY <3>2
        <5>2. line[n + 1] \in Calls
          BY <5>1, ElementOfSeq
        <5>3. line[n + 1] # line[1]
          BY <3>2, <5>1 DEF LineSound
        <5>. QED
          BY <3>2, <5>1, <5>2, <5>3
      <4>2. \A m, n \in 1..Len(line') : line'[m] = line'[n] => m = n
        BY <3>2 DEF LineSound
      <4>. QED
        BY <3>1, <3>2, <3>3, <4>1, <4>2 DEF LineSound
    <3>. QED
      BY <3>1, <3>4, <3>6, <3>7, <3>8 DEF OneOwner
  <2>. QED
    BY <1>2, <2>5, <2>6 DEF UnlockNow
<1>. QED
  BY <1>1, <1>2

-----------------------------------------------------------------------------
LEMMA NextMutexInv == MutexInv /\ [Next]_vars => MutexInv'
<1>. SUFFICES ASSUME MutexInv, [Next]_vars PROVE MutexInv'
  OBVIOUS
<1>1. CASE UNCHANGED vars
  <2>1. TypeOK' /\ revived' = revived /\ Owning' = Owning
    BY <1>1 DEF vars, MutexInv, TypeOK, Owning
  <2>2. OneOwner => OneOwner'
    BY <1>1, <2>1 DEF vars, OneOwner
  <2>3. GuardsSound => GuardsSound'
    <3>1. UNCHANGED <<live, lockTask, unlocked, request, awaited>>
      BY <1>1 DEF vars
    <3>. QED
      BY <3>1 DEF GuardsSound
  <2>4. LineSound => LineSound'
    BY <1>1 DEF vars, LineSound
  <2>. QED
    BY <2>1, <2>2, <2>3, <2>4 DEF MutexInv
<1>2. CASE Next
  <2>1. TypeOK /\ TypeOK'
    BY <1>2, NextType DEF MutexInv
  <2>2. revived => revived'
    BY <1>2 DEF Next, Lock, Resume, Move, Unlock, UnlockFull, Destroy
  <2>3. ASSUME ~revived' PROVE Agree'
    <3>1. Agree
      BY <2>2, <2>3 DEF MutexInv, Agree
    <3>2. ASSUME NEW g \in Guards, Unlock(g) \/ Destroy(g) PROVE Agree'
      BY <2>1, <3>1, <3>2, UnlockNowAgree DEF Unlock, Destroy
    <3>3. ASSUME NEW g \in Guards, UnlockFull(g) PROVE FALSE
      BY <2>1, <3>1, <3>3, AwaitedOwns DEF UnlockFull
    <3>. QED
      BY <1>2, <2>1, <2>3, <3>1, <3>2, <3>3, LockAgree, ResumeAgree, MoveAgree DEF Next
  <2>. QED
    BY <2>1, <2>3 DEF MutexInv, Agree
<1>. QED
  BY <1>1, <1>2

(* The guards and the permit agree.                                        *)
THEOREM MutexInvariant == SafeSpec => []MutexInv
BY InitMutexInv, NextMutexInv, PTL DEF SafeSpec

(* One caller at most is between its lock and its unlock.                  *)
THEOREM OneCallerInside == SafeSpec => []MutualExclusion
<1>1. MutexInv => MutualExclusion
  <2>. SUFFICES ASSUME MutexInv, ~revived, NEW c \in Critical, NEW d \in Critical
                PROVE  c = d
    BY DEF MutualExclusion
  <2>. USE DEF MutexInv, TypeOK, Critical
  <2>1. PICK g \in live : lockTask[g] = {c} /\ request[c] = "granted"
    BY DEF GuardsSound
  <2>2. PICK h \in live : lockTask[h] = {d} /\ request[d] = "granted"
    BY DEF GuardsSound
  <2>3. g \in Owning /\ h \in Owning
    BY <2>1, <2>2 DEF Owning
  <2>. QED
    BY <2>1, <2>2, <2>3 DEF OneOwner
<1>. QED
  BY <1>1, MutexInvariant, PTL

=============================================================================
