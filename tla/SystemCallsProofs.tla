------------------------- MODULE SystemCallsProofs -------------------------
(***************************************************************************)
(* The invariants of SystemCalls, for any number of calls.                 *)
(***************************************************************************)
EXTENDS SystemCalls, TLAPS

(* The current call has not returned; a call that has not begun has left   *)
(* no trace.                                                               *)
CallShape ==
    /\ \A i \in Call : i > k => child[i] = "none" /\ result[i] = "none" /\ i \notin fds
    /\ pc # "idle" => /\ k \in Call
                      /\ result[k] = "none"
                      /\ pc = "system" <=> function[k] = "do_system"
    /\ pc \in {"system", "open", "fork"} => child[k] = "none"
    /\ pc \in {"system", "open"} => k \notin fds

(* fork copies an empty buffer, because fflush has run.                    *)
NothingCopied ==
    /\ pc \in {"open", "fork"} => buffered = 0
    /\ \A i \in Call : copied[i] = 0

(* The child is redirected before it executes the command.                 *)
Redirected ==
    \A i \in Call : child[i] = "redirected" => stdout[i] = "file" /\ i \notin childFds[i]

Inv == /\ TypeOK /\ CallShape /\ NothingCopied /\ Redirected
       /\ ExecResultTrue /\ PrintedOnce /\ CommandRedirected /\ OutputClosed

(* The invariant holds before the first call.                              *)
LEMMA InvInit == Init => Inv
BY CallsAssumption DEF Init, Call, Inv, TypeOK, CallShape, NothingCopied, Redirected,
   ExecResultTrue, PrintedOnce, CommandRedirected, OutputClosed

(* Every step of the caller preserves it.                                  *)
LEMMA CallerStep == Inv /\ Caller => Inv'
<1> SUFFICES ASSUME Inv, Caller PROVE Inv'
  OBVIOUS
<1> USE CallsAssumption DEF Call, Function, Inv, TypeOK, CallShape, NothingCopied, Redirected,
        ExecResultTrue, PrintedOnce, CommandRedirected, OutputClosed
<1> USE DEF callerIO, childVars, Begin, Return, Flush, CloseOutput
<1>1. CASE PrintText
  BY <1>1 DEF PrintText
<1>2. CASE CallSystem
  BY <1>2 DEF CallSystem
<1>3. CASE System
  <2>1. CASE Return("false") /\ UNCHANGED child
    BY <1>3, <2>1 DEF System
  <2>2. ASSUME NEW end \in {"exit_0", "exit_1", "signal"}, Return("true"),
               child' = [child EXCEPT ![k] = end]
        PROVE  Inv'
    BY <1>3, <2>2 DEF System
  <2> QED
    BY <1>3, <2>1, <2>2 DEF System
<1>4. CASE CallExec
  BY <1>4 DEF CallExec
<1>5. CASE CallRedirect
  BY <1>5 DEF CallRedirect
<1>6. CASE OpenOutput
  <2>1. CASE fds' = fds \cup {k} /\ pc' = "fork"
    BY <1>6, <2>1 DEF OpenOutput
  <2>2. CASE pc' = "aborted" /\ UNCHANGED fds
    BY <1>6, <2>2 DEF OpenOutput
  <2> QED
    BY <1>6, <2>1, <2>2 DEF OpenOutput
<1>7. CASE Fork
  BY <1>7 DEF Fork
<1>8. CASE ForkFails
  BY <1>8 DEF ForkFails
<1>9. CASE Wait
  BY <1>9 DEF Wait, Waited, Ended
<1>10. CASE WaitFails
  BY <1>10 DEF WaitFails
<1> QED
  BY <1>1, <1>2, <1>3, <1>4, <1>5, <1>6, <1>7, <1>8, <1>9, <1>10 DEF Caller

(* Every step of a child preserves it.                                     *)
LEMMA ChildStep ==
    ASSUME NEW i \in Call, Inv, Redirect(i) \/ Exec(i) \/ ExecFails(i) \/ CommandEnds(i)
    PROVE  Inv'
<1> USE CallsAssumption DEF Call, Function, Inv, TypeOK, CallShape, NothingCopied, Redirected,
        ExecResultTrue, PrintedOnce, CommandRedirected, OutputClosed, callerIO, ReadyToExec
<1>1. CASE Redirect(i)
  <2>1. CASE child' = [child EXCEPT ![i] = "signal"]
    BY <1>1, <2>1 DEF Redirect
  <2>2. CASE child' = [child EXCEPT ![i] = "redirected"]
    <3>1. /\ stdout' = [stdout EXCEPT ![i] = "file"]
          /\ childFds' = [childFds EXCEPT ![i] = childFds[i] \ {i}]
          /\ UNCHANGED <<pc, k, function, result, fds, printed, buffered, terminal, copied, file>>
      BY <1>1, <2>2 DEF Redirect
    <3>2. child[i] = "forked"
      BY <1>1 DEF Redirect
    <3>3. TypeOK'
      BY <2>2, <3>1
    <3>4. CallShape' /\ NothingCopied' /\ PrintedOnce' /\ ExecResultTrue' /\ OutputClosed'
      BY <2>2, <3>1, <3>2
    <3>5. Redirected' /\ CommandRedirected'
      BY <2>2, <3>1, <3>2
    <3> QED
      BY <3>3, <3>4, <3>5
  <2> QED
    BY <1>1, <2>1, <2>2 DEF Redirect
<1>2. CASE Exec(i)
  BY <1>2 DEF Exec
<1>3. CASE ExecFails(i)
  <2>1. /\ child[i] \in {"forked", "redirected"}
        /\ child' = [child EXCEPT ![i] = "exit_1"]
        /\ copied' = [copied EXCEPT ![i] = 0]
        /\ UNCHANGED <<pc, k, function, result, fds, printed, buffered, childFds, stdout>>
    BY <1>3 DEF ExecFails
  <2>2. UNCHANGED <<terminal, file>>
    <3>1. copied[i] = 0 /\ terminal \in Nat /\ file \in Nat
      OBVIOUS
    <3> QED
      BY <1>3, <3>1 DEF ExecFails
  <2> QED
    BY <2>1, <2>2
<1>4. CASE CommandEnds(i)
  BY <1>4 DEF CommandEnds
<1> QED
  BY <1>1, <1>2, <1>3, <1>4

(* The invariant holds in every reachable state.                           *)
THEOREM SystemCallsInvariance == Spec => []Inv
<1>1. Inv /\ UNCHANGED vars => Inv'
  BY DEF vars, callerIO, childVars, Inv, TypeOK, CallShape, NothingCopied, Redirected,
     ExecResultTrue, PrintedOnce, CommandRedirected, OutputClosed
<1>2. Inv /\ [Next]_vars => Inv'
  BY <1>1, CallerStep, ChildStep DEF Next
<1> QED
  BY InvInit, <1>2, PTL DEF Spec

(* Every variable of the caller and of its children keeps its type, for    *)
(* any number of calls.                                                    *)
THEOREM SystemCallsTypeCorrect == Spec => []TypeOK
BY SystemCallsInvariance, PTL DEF Inv

(* A result of true is that of the call's own command, for any number of   *)
(* calls and of children that earlier calls left behind.                   *)
THEOREM ExecResultTrueHolds == Spec => []ExecResultTrue
BY SystemCallsInvariance, PTL DEF Inv

(* What the caller printed comes out once, on its own stdout.              *)
THEOREM PrintedOnceHolds == Spec => []PrintedOnce
BY SystemCallsInvariance, PTL DEF Inv

(* A redirected command never runs with the caller's stdout.               *)
THEOREM CommandRedirectedHolds == Spec => []CommandRedirected
BY SystemCallsInvariance, PTL DEF Inv

(* Only a failed fork leaves an outputfile open.                           *)
THEOREM OutputClosedHolds == Spec => []OutputClosed
BY SystemCallsInvariance, PTL DEF Inv
=============================================================================
