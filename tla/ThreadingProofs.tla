-------------------------- MODULE ThreadingProofs --------------------------
(***************************************************************************)
(* The invariants of Threading, for any set of threads.                    *)
(***************************************************************************)
EXTENDS Threading, TLAPS

(* A thread has not obtained the mutex before its lock, so that a lock     *)
(* that fails leaves it without; and what was never started holds nothing. *)
NotYetObtained ==
    \A t \in Thread : pc[t] \in {"none", "wait_to_obtain", "lock"} => ~obtained[t]

Inv == TypeOK /\ HoldsUntilRelease /\ DataHandedOver /\ NotYetObtained

(* Every step of the caller and of threadfunc preserves the invariant.     *)
LEMMA InvStep == Inv /\ [Next]_vars => Inv'
<1> SUFFICES ASSUME Inv, [Next]_vars PROVE Inv'
  OBVIOUS
<1> USE ThreadingAssumption DEF Inv, TypeOK, HoldsUntilRelease, UnlockedUnheld, DataHandedOver,
        NotYetObtained
<1>1. CASE CallerLocks
  BY <1>1 DEF CallerLocks
<1>2. CASE CallerUnlocks
  BY <1>2 DEF CallerUnlocks, Released
<1>3. ASSUME NEW t \in Thread, Start(t) PROVE Inv'
  BY <1>3 DEF Start, Goto
<1>4. ASSUME NEW t \in Thread, StartFails(t) PROVE Inv'
  BY <1>4 DEF StartFails
<1>5. ASSUME NEW t \in Thread, Join(t) PROVE Inv'
  BY <1>5 DEF Join, Goto
<1>6. ASSUME NEW t \in Thread, WaitToObtain(t) PROVE Inv'
  BY <1>6 DEF WaitToObtain, Goto
<1>7. ASSUME NEW t \in Thread, Lock(t) PROVE Inv'
  BY <1>7 DEF Lock, Goto
<1>8. ASSUME NEW t \in Thread, LockFails(t) PROVE Inv'
  BY <1>8 DEF LockFails, Goto
<1>9. ASSUME NEW t \in Thread, Unlock(t) PROVE Inv'
  BY <1>9 DEF Unlock, Released, Goto
<1>10. ASSUME NEW t \in Thread, Complete(t) PROVE Inv'
  BY <1>10 DEF Complete, Goto
<1>11. CASE UNCHANGED vars
  BY <1>11 DEF vars
<1> QED
  BY <1>1, <1>2, <1>3, <1>4, <1>5, <1>6, <1>7, <1>8, <1>9, <1>10, <1>11
     DEF Next, Threadfunc

(* The invariant holds in every reachable state.                           *)
THEOREM ThreadingInvariance == Spec => []Inv
<1>1. Init => Inv
  BY ThreadingAssumption DEF Init, Inv, TypeOK, HoldsUntilRelease, DataHandedOver, NotYetObtained
<1> QED
  BY <1>1, InvStep, PTL DEF Spec

(* Every variable of the example keeps its type, for any number of         *)
(* threads: the mutex is always free, the caller's or one thread's.        *)
THEOREM ThreadingTypeCorrect == Spec => []TypeOK
BY ThreadingInvariance, PTL DEF Inv

(* A thread or caller that obtained the mutex keeps it until its own       *)
(* unlock, for any number of threads; only the unlock of a thread whose    *)
(* lock failed can take it away.                                           *)
THEOREM HoldsUntilReleaseHolds == Spec => []HoldsUntilRelease
BY ThreadingInvariance, PTL DEF Inv

(* thread_data passes from the thread to the joiner, for any number of     *)
(* threads: no use after free, no second free, one leak.                   *)
THEOREM DataHandedOverHolds == Spec => []DataHandedOver
BY ThreadingInvariance, PTL DEF Inv
=============================================================================
