--------------------------- MODULE CtsSharedState ---------------------------
(***************************************************************************)
(* The state shared by a CancellationTokenSource and its tokens            *)
(* (Detail/AsyncPrimitives/CtsSharedState.cpp).                            *)
(*                                                                         *)
(* Each callback of Callbacks is registered at most once, by a thread of   *)
(* its own, and its registration may be disposed by any thread once        *)
(* Register has returned it.  Each thread of Cancelers calls Cancel at     *)
(* most once.  _isCanceled is atomic and is changed without the mutex;     *)
(* _cancelActions is only touched under _cancelActionsMutex.  A critical   *)
(* section that reads the flag is split around that read, the others are   *)
(* one step, taken when the mutex is free.                                 *)
(*                                                                         *)
(* _cancelActions is a vector of <id, action> pairs in the order of their  *)
(* ids; here it is the set of those pairs, run in that order.              *)
(***************************************************************************)
EXTENDS Integers

CONSTANTS
  Callbacks,   (* one per call of CancellationToken::Register              *)
  Cancelers,   (* the threads that call CancellationTokenSource::Cancel    *)
  Inert,       (* callbacks registered with CancellationToken::None(), or  *)
               (* whose std::function is empty: their Register is a no-op  *)
  Throwing     (* callbacks that end in an exception                       *)

ASSUME CallbacksAssumption == Inert \subseteq Callbacks /\ Throwing \subseteq Callbacks

VARIABLES
  isCanceled,     (* _isCanceled                                           *)
  cancelActions,  (* _cancelActions                                        *)
  counter,        (* _cancellationActionCounter                            *)
  local,          (* local[c]: cancelActionCollection of RunCancelActions  *)
  pc,             (* pc[r]: how far the call of Register for r has come    *)
  cpc,            (* cpc[c]: how far the call of Cancel by c has come      *)
  disposer,       (* disposer[r]: the id _disposeAction removes, 0 if none *)
  runs,           (* runs[r]: how often the callback has been called       *)
  disposed        (* the registrations on which Dispose was called         *)

ctsVars == <<isCanceled, cancelActions, counter, local, pc, cpc, disposer,
             runs, disposed>>

Pairs == [id : Nat, action : Callbacks]

(* The types of the variables; ids are natural numbers, 0 for "no id".     *)
CtsTypeOK ==
  /\ isCanceled \in BOOLEAN
  /\ cancelActions \in SUBSET Pairs
  /\ counter \in Nat
  /\ local \in [Cancelers -> SUBSET Pairs]
  /\ pc \in [Callbacks -> {"idle", "check", "inline", "push", "done"}]
  /\ cpc \in [Cancelers -> {"idle", "swap", "running", "returned"}]
  /\ disposer \in [Callbacks -> Nat]
  /\ runs \in [Callbacks -> Nat]
  /\ disposed \in SUBSET Callbacks

CtsInit ==
  /\ isCanceled = FALSE
  /\ cancelActions = {}
  /\ counter = 0
  /\ local = [c \in Cancelers |-> {}]
  /\ pc = [r \in Callbacks |-> "idle"]
  /\ cpc = [c \in Cancelers |-> "idle"]
  /\ disposer = [r \in Callbacks |-> 0]
  /\ runs = [r \in Callbacks |-> 0]
  /\ disposed = {}

-----------------------------------------------------------------------------
(* Register.  The thread registering r holds the mutex from the check of   *)
(* the flag until the pair is stored or the action has run.                *)

HoldsMutex(r) == pc[r] \in {"check", "inline", "push"}
MutexFree == \A r \in Callbacks : ~HoldsMutex(r)

RegisterInert(r) ==
  /\ r \in Inert
  /\ pc[r] = "idle"
  /\ pc' = [pc EXCEPT ![r] = "done"]
  /\ UNCHANGED <<isCanceled, cancelActions, counter, local, cpc, disposer,
                 runs, disposed>>

RegisterLock(r) ==
  /\ r \notin Inert
  /\ pc[r] = "idle"
  /\ MutexFree
  /\ pc' = [pc EXCEPT ![r] = "check"]
  /\ UNCHANGED <<isCanceled, cancelActions, counter, local, cpc, disposer,
                 runs, disposed>>

RegisterCheckIgnoringCancel(r) ==
  /\ pc[r] = "check"
  /\ pc' = [pc EXCEPT ![r] = "push"]
  /\ UNCHANGED <<isCanceled, cancelActions, counter, local, cpc, disposer,
                 runs, disposed>>

RegisterCheck(r) ==
  /\ pc[r] = "check"
  /\ pc' = [pc EXCEPT ![r] = IF isCanceled THEN "inline" ELSE "push"]
  /\ UNCHANGED <<isCanceled, cancelActions, counter, local, cpc, disposer,
                 runs, disposed>>

(* The action runs under the mutex and the disposer returned is a no-op.   *)
RegisterInline(r) ==
  /\ pc[r] = "inline"
  /\ runs' = [runs EXCEPT ![r] = @ + 1]
  /\ pc' = [pc EXCEPT ![r] = "done"]
  /\ UNCHANGED <<isCanceled, cancelActions, counter, local, cpc, disposer,
                 disposed>>

RegisterPush(r) ==
  /\ pc[r] = "push"
  /\ cancelActions' = cancelActions \cup {[id |-> counter + 1, action |-> r]}
  /\ counter' = counter + 1
  /\ disposer' = [disposer EXCEPT ![r] = counter + 1]
  /\ pc' = [pc EXCEPT ![r] = "done"]
  /\ UNCHANGED <<isCanceled, local, cpc, runs, disposed>>

-----------------------------------------------------------------------------
RemoveCancellation(id) == {p \in cancelActions : p.id # id}

(* CancellationRegistration::Dispose: runs the disposer, which removes the *)
(* pair with its id, or nothing.  It may be called any number of times.    *)
Dispose(r) ==
  /\ pc[r] = "done"
  /\ disposer[r] # 0 => MutexFree
  /\ cancelActions' = RemoveCancellation(disposer[r])
  /\ disposed' = disposed \cup {r}
  /\ UNCHANGED <<isCanceled, counter, local, pc, cpc, disposer, runs>>

-----------------------------------------------------------------------------
(* Cancel (NotifyCanceled): the first caller moves the actions into a      *)
(* collection of its own under the mutex and calls them without it; every  *)
(* other caller returns at once.                                           *)

ExchangeAlwaysWins(c) ==
  /\ cpc[c] = "idle"
  /\ isCanceled' = TRUE
  /\ cpc' = [cpc EXCEPT ![c] = "swap"]
  /\ UNCHANGED <<cancelActions, counter, local, pc, disposer, runs, disposed>>

CancelExchange(c) ==
  /\ cpc[c] = "idle"
  /\ isCanceled' = TRUE
  /\ cpc' = [cpc EXCEPT ![c] = IF isCanceled THEN "returned" ELSE "swap"]
  /\ UNCHANGED <<cancelActions, counter, local, pc, disposer, runs, disposed>>

CancelSwap(c) ==
  /\ cpc[c] = "swap"
  /\ MutexFree
  /\ local' = [local EXCEPT ![c] = cancelActions]
  /\ cancelActions' = {}
  /\ cpc' = [cpc EXCEPT ![c] = "running"]
  /\ UNCHANGED <<isCanceled, counter, pc, disposer, runs, disposed>>

(* RunCancelAction catches everything, so no callback ends the loop.       *)
ThrowingEscapes(r) == r \in Throwing
EscapesRunCancelAction(r) == FALSE

CancelRun(c) ==
  /\ cpc[c] = "running"
  /\ \E p \in local[c] :
       /\ \A q \in local[c] : p.id <= q.id
       /\ runs' = [runs EXCEPT ![p.action] = @ + 1]
       /\ local' = [local EXCEPT ![c] =
                      IF EscapesRunCancelAction(p.action) THEN {} ELSE @ \ {p}]
  /\ UNCHANGED <<isCanceled, cancelActions, counter, pc, cpc, disposer,
                 disposed>>

CancelReturn(c) ==
  /\ cpc[c] = "running"
  /\ local[c] = {}
  /\ cpc' = [cpc EXCEPT ![c] = "returned"]
  /\ UNCHANGED <<isCanceled, cancelActions, counter, local, pc, disposer,
                 runs, disposed>>

-----------------------------------------------------------------------------
(* The steps a thread goes on to take once it has entered a call.          *)
RegisterStep(r) == RegisterCheck(r) \/ RegisterInline(r) \/ RegisterPush(r)
CancelStep(c) == CancelSwap(c) \/ CancelRun(c) \/ CancelReturn(c)

CtsNext ==
  \/ \E r \in Callbacks : \/ RegisterInert(r) \/ RegisterLock(r)
                          \/ RegisterStep(r) \/ Dispose(r)
  \/ \E c \in Cancelers : CancelExchange(c) \/ CancelStep(c)

CtsSafeSpec == CtsInit /\ [][CtsNext]_ctsVars

(* A thread that has entered a call is scheduled; nobody has to call.      *)
CtsFairness == /\ \A r \in Callbacks : WF_ctsVars(RegisterStep(r))
               /\ \A c \in Cancelers : WF_ctsVars(CancelStep(c))

CtsSpec == CtsSafeSpec /\ CtsFairness

-----------------------------------------------------------------------------
Active(c) == cpc[c] \in {"swap", "running"}
InList(r) == \E p \in cancelActions : p.action = r
Taken(r) == \E c \in Cancelers : \E p \in local[c] : p.action = r

(* When the Cancel call that set the flag has returned, every callback     *)
(* that was registered, before or while it ran, and not disposed has been  *)
(* called, exactly once: the race of Register with Cancel loses none.      *)
NoCallbackLost ==
  isCanceled /\ (\A c \in Cancelers : ~Active(c)) =>
    \A r \in Callbacks \ Inert :
      pc[r] = "done" /\ r \notin disposed => runs[r] = 1

(* The mutex protects the list, and the actions in flight are accounted    *)
(* for: the inductive strengthening of NoCallbackLost.                     *)
HolderUnique ==
  \A r, s \in Callbacks : HoldsMutex(r) /\ HoldsMutex(s) => r = s

PairsSound ==
  /\ \A p \in cancelActions :
       /\ pc[p.action] = "done"
       /\ p.id # 0 /\ disposer[p.action] = p.id
       /\ runs[p.action] = 0
       /\ ~Taken(p.action)
  /\ \A c \in Cancelers : \A p \in local[c] :
       /\ pc[p.action] = "done"
       /\ p.id # 0 /\ disposer[p.action] = p.id
       /\ runs[p.action] = 0
       /\ cpc[c] = "running"

IdsSound ==
  /\ \A r \in Callbacks : disposer[r] <= counter
  /\ \A r, s \in Callbacks : disposer[r] = disposer[s] /\ disposer[r] # 0 => r = s

CallsSound ==
  \A r \in Callbacks :
    /\ pc[r] # "done" => runs[r] = 0 /\ disposer[r] = 0 /\ r \notin disposed
    /\ pc[r] = "inline" => isCanceled
    /\ runs[r] \in {0, 1}
    /\ runs[r] = 1 => isCanceled
    /\ r \in Inert => pc[r] \in {"idle", "done"} /\ disposer[r] = 0 /\ runs[r] = 0
    /\ pc[r] = "done" /\ runs[r] = 0 /\ r \notin Inert =>
         \/ disposer[r] # 0 /\ r \in disposed
         \/ InList(r)
         \/ Taken(r)

CancelSound ==
  /\ \A c, d \in Cancelers : Active(c) /\ Active(d) => c = d
  /\ ~isCanceled => \A c \in Cancelers : cpc[c] = "idle"
  /\ isCanceled =>
       \/ \E c \in Cancelers : cpc[c] = "swap"
       \/ cancelActions = {} /\ \A r \in Callbacks : pc[r] # "push"

(* The types and the parts together are one inductive invariant.           *)
CtsInv == CtsTypeOK /\ HolderUnique /\ PairsSound /\ IdsSound /\ CallsSound /\ CancelSound

-----------------------------------------------------------------------------
(* The status of a callback in the contract.  Register takes effect when   *)
(* it reads the flag.                                                      *)
StatusOf(r) ==
  IF runs[r] > 0 THEN "fired"
  ELSE IF pc[r] = "push" \/ InList(r) THEN "armed"
  ELSE IF Taken(r) THEN "taken"
  ELSE IF disposer[r] # 0 /\ r \in disposed THEN "disposed"
  ELSE "none"

Contract == INSTANCE CancellationContract
              WITH canceled <- isCanceled,
                   status <- [r \in Callbacks |-> StatusOf(r)]

(* The shared state implements the contract: callbacks fire exactly once,  *)
(* a registration disposed before the actions are taken never fires, one   *)
(* disposed later still does, and every action taken eventually fires,     *)
(* whichever callbacks throw.                                              *)
ImplementsContract == Contract!Spec
=============================================================================
