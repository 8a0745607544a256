----------------------------- MODULE Threading -----------------------------
(***************************************************************************)
(* examples/threading: start_thread_obtaining_mutex and the threads it     *)
(* starts (threadfunc), with the caller that threading.h describes, which  *)
(* joins each thread and frees the thread_data it returns, and may use the *)
(* mutex itself.                                                           *)
(*                                                                         *)
(* External, modelled from how the code uses it: malloc, pthread_create    *)
(* and the mutex, which the caller chooses.  Its lock can fail, as the     *)
(* code expects, and then the thread unlocks what it does not hold.  A     *)
(* default mutex is released by that, whoever holds it; an error-checking  *)
(* one refuses.                                                            *)
(***************************************************************************)
EXTENDS Integers

CONSTANTS
    Thread,  \* the threads the caller starts
    CALLER,  \* the caller as a holder of the mutex
    NULL

ASSUME ThreadingAssumption == CALLER \notin Thread /\ NULL \notin Thread \cup {CALLER}

VARIABLES
    mutex,                    \* its holder, or NULL
    caller_locked,            \* the caller is between its lock and its unlock
    pc,                       \* where each thread is
    data,                     \* its thread_data: "none", "live", "leaked" or "freed"
    obtained,                 \* it got the mutex
    thread_complete_success   \* the field of its thread_data

vars == <<mutex, caller_locked, pc, data, obtained, thread_complete_success>>

Init ==
    /\ mutex = NULL
    /\ caller_locked = FALSE
    /\ pc = [t \in Thread |-> "none"]
    /\ data = [t \in Thread |-> "none"]
    /\ obtained = [t \in Thread |-> FALSE]
    /\ thread_complete_success = [t \in Thread |-> FALSE]

Goto(t, label) == pc' = [pc EXCEPT ![t] = label]

(* pthread_mutex_unlock by u, which may not be the holder.                 *)
Released(u) == mutex' \in IF mutex = u THEN {NULL} ELSE {NULL, mutex}
-----------------------------------------------------------------------------
(* The caller.                                                             *)

(* start_thread_obtaining_mutex returns true as soon as the thread exists. *)
Start(t) ==
    /\ pc[t] = "none" /\ data[t] = "none"
    /\ data' = [data EXCEPT ![t] = "live"]
    /\ thread_complete_success' = [thread_complete_success EXCEPT ![t] = FALSE]
    /\ Goto(t, "wait_to_obtain")
    /\ UNCHANGED <<caller_locked, mutex, obtained>>

(* pthread_create fails: the thread_data stays behind.  (If malloc fails,  *)
(* nothing changes.)                                                       *)
StartFails(t) ==
    /\ pc[t] = "none" /\ data[t] = "none"
    /\ data' = [data EXCEPT ![t] = "leaked"]
    /\ UNCHANGED <<caller_locked, mutex, pc, obtained, thread_complete_success>>

(* pthread_join and free of what the thread returned.                      *)
Join(t) ==
    /\ pc[t] = "exit"
    /\ data' = [data EXCEPT ![t] = "freed"]
    /\ Goto(t, "joined")
    /\ UNCHANGED <<caller_locked, mutex, obtained, thread_complete_success>>

CallerLocks ==
    /\ ~caller_locked
    /\ mutex = NULL
    /\ mutex' = CALLER
    /\ caller_locked' = TRUE
    /\ UNCHANGED <<pc, data, obtained, thread_complete_success>>

CallerUnlocks ==
    /\ caller_locked
    /\ Released(CALLER)
    /\ caller_locked' = FALSE
    /\ UNCHANGED <<pc, data, obtained, thread_complete_success>>
-----------------------------------------------------------------------------
(* threadfunc.                                                             *)

(* The first usleep ends.                                                  *)
WaitToObtain(t) ==
    /\ pc[t] = "wait_to_obtain"
    /\ Goto(t, "lock")
    /\ UNCHANGED <<caller_locked, mutex, data, obtained, thread_complete_success>>

Lock(t) ==
    /\ pc[t] = "lock"
    /\ mutex = NULL
    /\ mutex' = t
    /\ obtained' = [obtained EXCEPT ![t] = TRUE]
    /\ Goto(t, "wait_to_release")
    /\ UNCHANGED <<caller_locked, data, thread_complete_success>>

(* pthread_mutex_lock fails: that is logged, and the thread goes on.       *)
LockFails(t) ==
    /\ pc[t] = "lock"
    /\ Goto(t, "wait_to_release")
    /\ UNCHANGED <<caller_locked, mutex, data, obtained, thread_complete_success>>

(* A mutant of Unlock: it is left out.                                     *)
Unlock_Not(t) ==
    /\ pc[t] = "wait_to_release"
    /\ Goto(t, "complete")
    /\ UNCHANGED <<caller_locked, mutex, data, obtained, thread_complete_success>>

(* The second usleep ends and the mutex is unlocked, whether the lock has  *)
(* succeeded or not.                                                       *)
Unlock(t) ==
    /\ pc[t] = "wait_to_release"
    /\ Released(t)
    /\ Goto(t, "complete")
    /\ UNCHANGED <<caller_locked, data, obtained, thread_complete_success>>

(* Mutants of Complete: the mutex is unlocked a second time; the thread    *)
(* frees its thread_data and returns it.                                   *)
Complete_UnlocksAgain(t) ==
    /\ pc[t] = "complete"
    /\ Released(t)
    /\ thread_complete_success' = [thread_complete_success EXCEPT ![t] = TRUE]
    /\ Goto(t, "exit")
    /\ UNCHANGED <<caller_locked, data, obtained>>

Complete_Frees(t) ==
    /\ pc[t] = "complete"
    /\ data' = [data EXCEPT ![t] = "freed"]
    /\ Goto(t, "exit")
    /\ UNCHANGED <<caller_locked, mutex, obtained, thread_complete_success>>

(* thread_complete_success is set and the thread_data returned.            *)
Complete(t) ==
    /\ pc[t] = "complete"
    /\ thread_complete_success' = [thread_complete_success EXCEPT ![t] = TRUE]
    /\ Goto(t, "exit")
    /\ UNCHANGED <<caller_locked, mutex, data, obtained>>

Threadfunc(t) == WaitToObtain(t) \/ Lock(t) \/ LockFails(t) \/ Unlock(t) \/ Complete(t)

Next == \/ CallerLocks \/ CallerUnlocks
        \/ \E t \in Thread : Start(t) \/ StartFails(t) \/ Join(t) \/ Threadfunc(t)

Spec == Init /\ [][Next]_vars

(* Threads run, sleeps end, the caller does not keep the mutex for ever,   *)
(* and a thread that waits for it gets it if it is free again and again.   *)
Fairness ==
    /\ WF_vars(CallerUnlocks)
    /\ \A t \in Thread : /\ WF_vars(WaitToObtain(t))
                         /\ SF_vars(Lock(t))
                         /\ WF_vars(Unlock(t))
                         /\ WF_vars(Complete(t))

FairSpec == Spec /\ Fairness
-----------------------------------------------------------------------------
(* Properties.                                                             *)

(* The types of the state; a thread that holds the mutex is in its second  *)
(* sleep, and the caller between its two calls.                            *)
TypeOK ==
    /\ mutex \in {CALLER, NULL} \cup {t \in Thread : pc[t] = "wait_to_release"}
    /\ caller_locked \in BOOLEAN
    /\ mutex = CALLER => caller_locked
    /\ pc \in [Thread -> {"none", "wait_to_obtain", "lock", "wait_to_release",
                          "complete", "exit", "joined"}]
    /\ data \in [Thread -> {"none", "live", "leaked", "freed"}]
    /\ obtained \in [Thread -> BOOLEAN]
    /\ thread_complete_success \in [Thread -> BOOLEAN]

(* A thread that has unlocked a mutex it did not obtain.                   *)
UnlockedUnheld(t) == pc[t] \in {"complete", "exit", "joined"} /\ ~obtained[t]

(* Unless some thread whose lock failed has unlocked, a thread or caller   *)
(* that obtained the mutex keeps it until its own unlock: every thread     *)
(* unlocks once, after its lock, and at no other's expense.                *)
HoldsUntilRelease ==
    (\E u \in Thread : UnlockedUnheld(u)) \/
        /\ \A t \in Thread : pc[t] = "wait_to_release" /\ obtained[t] => mutex = t
        /\ caller_locked => mutex = CALLER

(* The thread_data belongs to the thread until it returns it, and then to  *)
(* the joiner; only a failed pthread_create leaves one to nobody.          *)
DataHandedOver ==
    \A t \in Thread : /\ pc[t] \notin {"none", "joined"} <=> data[t] = "live"
                      /\ data[t] = "leaked" => pc[t] = "none"

(* Every started thread comes to its end, whatever the others and the      *)
(* caller do with the mutex.                                               *)
EveryThreadFinishes ==
    \A t \in Thread : pc[t] = "wait_to_obtain" ~> pc[t] \in {"exit", "joined"}
=============================================================================
