----------------------------- MODULE AsyncMutex -----------------------------
(***************************************************************************)
(* AsyncMutex and its AsyncLockGuard (AsyncPrimitives/AsyncMutex.cpp): a   *)
(* semaphore of one permit, seen through its contract, and guard objects   *)
(* that own a call of Lock and release the semaphore once.                 *)
(*                                                                         *)
(* The callers are assumed to await a guard before they let go of it       *)
(* (AsyncLockGuard does not check that).                                   *)
(***************************************************************************)
EXTENDS Integers, Sequences, FiniteSets

CONSTANTS Calls,    (* the calls of AsyncMutex::Lock                       *)
          Guards    (* AsyncLockGuard objects                              *)

VARIABLES permits, line, request, canceled, closed,   (* _asyncSemaphore   *)
          lockTask,   (* lockTask[g]: the call whose task is in _lockTask, *)
                      (* {} for a guard that is not constructed            *)
          live,       (* the guards whose _lockTaskPtr is not null         *)
          destroyed,  (* the guards whose destructor has run               *)
          awaited,    (* the calls whose caller has resumed with the lock  *)
          unlocked,   (* the calls whose lock has been let go              *)
          revived     (* somebody has moved from a guard that was not live *)

semaphore == <<permits, line, request, canceled, closed>>
vars == <<semaphore, lockTask, live, destroyed, awaited, unlocked, revived>>

Semaphore == INSTANCE SemaphoreContract
               WITH Waiters <- Calls, Cancelable <- {},
                    MaxCount <- 1, InitialCount <- 1

(* The types of the variables; the semaphore has one permit at most.       *)
TypeOK ==
  /\ permits \in {0, 1}
  /\ line \in Seq(Calls)
  /\ request \in [Calls -> {"none", "waiting", "granted"}]
  /\ ~canceled /\ ~closed
  /\ lockTask \in [Guards -> SUBSET Calls]
  /\ live \in SUBSET Guards
  /\ destroyed \in SUBSET Guards
  /\ awaited \in SUBSET Calls
  /\ unlocked \in SUBSET Calls
  /\ revived \in BOOLEAN

Init == /\ Semaphore!Init
        /\ lockTask = [g \in Guards |-> {}]
        /\ live = {}
        /\ destroyed = {}
        /\ awaited = {}
        /\ unlocked = {}
        /\ revived = FALSE

Constructed(g) == lockTask[g] # {}
Usable(g) == Constructed(g) /\ g \notin destroyed
Critical == awaited \ unlocked

(* Lock: WaitAsync, and a guard made of the task it returns.               *)
Lock(c, g) ==
  /\ ~Constructed(g)
  /\ Semaphore!Acquire(c) \/ Semaphore!Join(c)
  /\ lockTask' = [lockTask EXCEPT ![g] = {c}]
  /\ live' = live \cup {g}
  /\ UNCHANGED <<destroyed, awaited, unlocked, revived>>

(* co_await on the guard: the caller goes on when the task completes.      *)
Resume(c) ==
  /\ \E g \in live : c \in lockTask[g]
  /\ c \notin awaited
  /\ request[c] = "granted"
  /\ awaited' = awaited \cup {c}
  /\ UNCHANGED <<semaphore, lockTask, live, destroyed, unlocked, revived>>

MoveKeepingSource(from, to) ==
  /\ Usable(from)
  /\ ~Constructed(to)
  /\ lockTask' = [lockTask EXCEPT ![to] = lockTask[from]]
  /\ live' = live \cup {to}
  /\ revived' = (revived \/ from \notin live)
  /\ UNCHANGED <<semaphore, destroyed, awaited, unlocked>>

(* The move constructor: the new guard always points to its task, the old  *)
(* one no longer does.                                                     *)
Move(from, to) ==
  /\ Usable(from)
  /\ ~Constructed(to)
  /\ lockTask' = [lockTask EXCEPT ![to] = lockTask[from]]
  /\ live' = (live \ {from}) \cup {to}
  /\ revived' = (revived \/ from \notin live)
  /\ UNCHANGED <<semaphore, destroyed, awaited, unlocked>>

(* unlockNow: the first to take the pointer releases the semaphore.        *)
UnlockNow(g) ==
  /\ live' = live \ {g}
  /\ IF g \in live
       THEN /\ Semaphore!ReleaseToFirst \/ Semaphore!ReleaseToNobody
            /\ unlocked' = unlocked \cup lockTask[g]
       ELSE UNCHANGED <<semaphore, unlocked>>

Awaited(g) == lockTask[g] \subseteq awaited

(* Unlock of the guard, or AsyncMutex::Unlock of it; a guard that is not   *)
(* live throws logic_error instead.                                        *)
Unlock(g) ==
  /\ Usable(g)
  /\ g \in live
  /\ Awaited(g)
  /\ UnlockNow(g)
  /\ UNCHANGED <<lockTask, destroyed, awaited, revived>>

(* An Unlock that finds the semaphore full: Release throws, after the      *)
(* guard has given up its pointer.                                         *)
UnlockFull(g) ==
  /\ Usable(g)
  /\ g \in live
  /\ Awaited(g)
  /\ permits = 1
  /\ live' = live \ {g}
  /\ UNCHANGED <<semaphore, lockTask, destroyed, awaited, unlocked, revived>>

DestroyWithoutUnlock(g) ==
  /\ Usable(g)
  /\ Awaited(g)
  /\ live' = live \ {g}
  /\ unlocked' = IF g \in live THEN unlocked \cup lockTask[g] ELSE unlocked
  /\ destroyed' = destroyed \cup {g}
  /\ UNCHANGED <<semaphore, lockTask, awaited, revived>>

(* The destructor.  (One that finds the semaphore full lets an exception   *)
(* escape and the program ends: it has no step.)                           *)
Destroy(g) ==
  /\ Usable(g)
  /\ Awaited(g)
  /\ UnlockNow(g)
  /\ destroyed' = destroyed \cup {g}
  /\ UNCHANGED <<lockTask, awaited, revived>>

Next == \/ \E c \in Calls : Resume(c) \/ \E g \in Guards : Lock(c, g)
        \/ \E g, h \in Guards : Move(g, h)
        \/ \E g \in Guards : Unlock(g) \/ UnlockFull(g) \/ Destroy(g)

SafeSpec == Init /\ [][Next]_vars

(* A caller that gets the lock goes on, and its guard goes out of scope.   *)
Fairness == /\ \A c \in Calls : WF_vars(Resume(c))
            /\ \A g \in Guards : WF_vars(Destroy(g))

Spec == SafeSpec /\ Fairness

-----------------------------------------------------------------------------
(* At most one caller is between its lock and its unlock, as long as       *)
(* nobody moves from a guard that was unlocked or moved from: the new      *)
(* guard would be live, and unlock the mutex of another caller.            *)
MutualExclusion == revived \/ \A c, d \in Critical : c = d

(* The permit is free, or owed by exactly one live guard: so no unlock     *)
(* finds the semaphore full (the destructor would terminate the program),  *)
(* and none is missing.                                                    *)
Owning == {g \in live : \A c \in lockTask[g] : request[c] = "granted"}

OneOwner == /\ permits = 1 => Owning = {}
            /\ permits = 0 => \E g \in Guards : Owning = {g}

(* Every call of Lock that was not unlocked has one live guard, and a live *)
(* guard has one such call.                                                *)
GuardsSound ==
  /\ \A g \in live : \E c \in Calls :
       lockTask[g] = {c} /\ c \notin unlocked /\ request[c] # "none"
  /\ \A g, h \in live : lockTask[g] = lockTask[h] => g = h
  /\ \A c \in Calls : request[c] # "none" /\ c \notin unlocked =>
       \E g \in live : lockTask[g] = {c}
  /\ \A c \in awaited \cup unlocked : request[c] = "granted"

LineSound ==
  /\ \A n \in 1..Len(line) : request[line[n]] = "waiting"
  /\ \A m, n \in 1..Len(line) : line[m] = line[n] => m = n
  /\ permits = 1 => line = <<>>

(* The types, and, on the same condition, that the guards and the permit   *)
(* agree: the inductive invariant behind MutualExclusion.                  *)
MutexInv == TypeOK /\ (revived \/ (OneOwner /\ GuardsSound /\ LineSound))

(* Who waits for the lock gets it, whatever guards are moved from.         *)
LockGranted == \A c \in Calls : request[c] = "waiting" ~> request[c] = "granted"
=============================================================================
