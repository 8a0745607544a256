---------------------------- MODULE SystemCalls ----------------------------
(***************************************************************************)
(* do_system, do_exec and do_exec_redirect of examples/systemcalls: one    *)
(* process makes a sequence of calls, each of which forks a child that     *)
(* executes a command.  Call k's child is child k.  Output is counted in   *)
(* texts: the caller may print one text through stdio before each call.    *)
(*                                                                         *)
(* External, modelled from how the code uses it: fork copies descriptors   *)
(* and stdio buffers; exit flushes stdio, abort and exec do not; waitpid   *)
(* may be interrupted; system forks, executes a shell and waits.           *)
(***************************************************************************)
EXTENDS Integers, FiniteSets

CONSTANTS
    MaxCalls,   \* the calls the process makes
    Used        \* the functions it uses

ASSUME CallsAssumption == MaxCalls \in Nat

Call == 1 .. MaxCalls
Function == {"do_system", "do_exec", "do_exec_redirect"}

VARIABLES
    pc,        \* where the caller is
    k,         \* the current call
    function,  \* the function of each call
    result,    \* what each call returned
    child,     \* each child: where it is or how it ended
    fds,       \* calls whose outputfile the caller has open
    childFds,  \* the same in each child
    stdout,    \* what descriptor 1 of each child is
    printed,   \* texts the caller has printed
    buffered,  \* those in its stdio buffer
    copied,    \* texts in each child's copy of it
    terminal,  \* texts that have come out on the caller's stdout
    file       \* texts that have come out in an outputfile

callerIO == <<buffered, terminal>>
childVars == <<child, childFds, stdout, copied>>
vars == <<pc, k, function, result, fds, printed, callerIO, childVars, file>>

Init ==
    /\ pc = "idle"
    /\ k = 0
    /\ function = [i \in Call |-> "none"]
    /\ result = [i \in Call |-> "none"]
    /\ child = [i \in Call |-> "none"]
    /\ fds = {}
    /\ childFds = [i \in Call |-> {}]
    /\ stdout = [i \in Call |-> "terminal"]
    /\ printed = 0
    /\ buffered = 0
    /\ copied = [i \in Call |-> 0]
    /\ terminal = 0
    /\ file = 0
-----------------------------------------------------------------------------
(* The caller.                                                             *)

(* printf of a text, to a stdout that is not a terminal: it stays in the   *)
(* buffer.  At most one text is printed before each call.                  *)
PrintText ==
    /\ pc = "idle"
    /\ k < MaxCalls
    /\ printed <= k
    /\ printed' = printed + 1
    /\ buffered' = buffered + 1
    /\ UNCHANGED <<pc, k, function, result, fds, terminal, childVars, file>>

Begin(f, label) ==
    /\ pc = "idle"
    /\ k < MaxCalls
    /\ f \in Used
    /\ k' = k + 1
    /\ function' = [function EXCEPT ![k + 1] = f]
    /\ pc' = label

(* A mutant of Return: the function ends without a value.                  *)
Return_Nothing(value) ==
    /\ pc' = "idle"
    /\ UNCHANGED result

Return(value) ==
    /\ pc' = "idle"
    /\ result' = [result EXCEPT ![k] = value]

(* A mutant of Flush: fflush(stdout) is left out.                          *)
Flush_Not == UNCHANGED callerIO

(* fflush(stdout).                                                         *)
Flush ==
    /\ terminal' = terminal + buffered
    /\ buffered' = 0

CallSystem ==
    /\ Begin("do_system", "system")
    /\ UNCHANGED <<result, fds, printed, callerIO, childVars, file>>

(* The command ran and ended in some way, and system returned its status,  *)
(* or system returned -1.                                                  *)
System ==
    /\ pc = "system"
    /\ \/ \E end \in {"exit_0", "exit_1", "signal"} :
             /\ child' = [child EXCEPT ![k] = end]
             /\ Return("true")
       \/ Return("false") /\ UNCHANGED child
    /\ UNCHANGED <<k, function, fds, printed, callerIO, childFds, stdout, copied, file>>

CallExec ==
    /\ Begin("do_exec", "fork")
    /\ Flush
    /\ UNCHANGED <<result, fds, printed, childVars, file>>

CallRedirect ==
    /\ Begin("do_exec_redirect", "open")
    /\ Flush
    /\ UNCHANGED <<result, fds, printed, childVars, file>>

(* open of the outputfile; a failure aborts the whole process.             *)
OpenOutput ==
    /\ pc = "open"
    /\ \/ fds' = fds \cup {k} /\ pc' = "fork"
       \/ pc' = "aborted" /\ UNCHANGED fds
    /\ UNCHANGED <<k, function, result, printed, callerIO, childVars, file>>

Fork ==
    /\ pc = "fork"
    /\ child' = [child EXCEPT ![k] = "forked"]
    /\ childFds' = [childFds EXCEPT ![k] = fds]
    /\ copied' = [copied EXCEPT ![k] = buffered]
    /\ pc' = "wait"
    /\ UNCHANGED <<k, function, result, fds, printed, callerIO, stdout, file>>

(* fork fails: the function returns, and the outputfile stays open.        *)
ForkFails ==
    /\ pc = "fork"
    /\ Return("false")
    /\ UNCHANGED <<k, function, fds, printed, callerIO, childVars, file>>

Ended(i) == child[i] \in {"exit_0", "exit_1", "signal"}

(* A mutant of Waited: waitpid(-1) takes any child that has ended.         *)
Waited_Any == {i \in 1 .. k : function[i] # "do_system" /\ Ended(i)}

(* The child waitpid(pid) reports, once it has ended.                      *)
Waited == {i \in {k} : Ended(i)}

(* A mutant of CloseOutput: only a successful call closes.                 *)
CloseOutput_OnSuccess == fds' = IF result'[k] = "true" THEN fds \ {k} ELSE fds

(* The caller's close(fd), before it looks at what waitpid returned.       *)
CloseOutput == fds' = fds \ {k}

(* waitpid, and the test of WIFEXITED and WEXITSTATUS.                     *)
Wait ==
    /\ pc = "wait"
    /\ \E i \in Waited : Return(IF child[i] = "exit_0" THEN "true" ELSE "false")
    /\ CloseOutput
    /\ UNCHANGED <<k, function, printed, callerIO, childVars, file>>

(* waitpid returns -1, interrupted by a signal: the child is left alone.   *)
WaitFails ==
    /\ pc = "wait"
    /\ Return("false")
    /\ CloseOutput
    /\ UNCHANGED <<k, function, printed, callerIO, childVars, file>>

Caller ==
    \/ PrintText \/ CallSystem \/ System \/ CallExec \/ CallRedirect \/ OpenOutput
    \/ Fork \/ ForkFails \/ Wait \/ WaitFails
-----------------------------------------------------------------------------
(* The child of call i.                                                    *)

(* A mutant of Redirect: the result of dup2 is not checked.                *)
Redirect_Unchecked(i) ==
    /\ child[i] = "forked"
    /\ function[i] = "do_exec_redirect"
    /\ stdout' \in {stdout, [stdout EXCEPT ![i] = "file"]}
    /\ childFds' = [childFds EXCEPT ![i] = @ \ {i}]
    /\ child' = [child EXCEPT ![i] = "redirected"]
    /\ UNCHANGED <<pc, k, function, result, fds, printed, callerIO, copied, file>>

(* dup2 and close; if dup2 fails the child aborts.                         *)
Redirect(i) ==
    /\ child[i] = "forked"
    /\ function[i] = "do_exec_redirect"
    /\ \/ /\ stdout' = [stdout EXCEPT ![i] = "file"]
          /\ childFds' = [childFds EXCEPT ![i] = @ \ {i}]
          /\ child' = [child EXCEPT ![i] = "redirected"]
       \/ /\ child' = [child EXCEPT ![i] = "signal"]
          /\ UNCHANGED <<stdout, childFds>>
    /\ UNCHANGED <<pc, k, function, result, fds, printed, callerIO, copied, file>>

ReadyToExec(i) ==
    child[i] = IF function[i] = "do_exec_redirect" THEN "redirected" ELSE "forked"

(* execv or execvp replaces the child, and with it the copied buffer.      *)
Exec(i) ==
    /\ ReadyToExec(i)
    /\ child' = [child EXCEPT ![i] = "running"]
    /\ copied' = [copied EXCEPT ![i] = 0]
    /\ UNCHANGED <<pc, k, function, result, fds, printed, callerIO, childFds, stdout, file>>

(* It fails: exit(-1) flushes the copied buffer to the child's stdout.     *)
ExecFails(i) ==
    /\ ReadyToExec(i)
    /\ child' = [child EXCEPT ![i] = "exit_1"]
    /\ copied' = [copied EXCEPT ![i] = 0]
    /\ \/ stdout[i] = "terminal" /\ terminal' = terminal + copied[i] /\ UNCHANGED file
       \/ stdout[i] = "file" /\ file' = file + copied[i] /\ UNCHANGED terminal
    /\ UNCHANGED <<pc, k, function, result, fds, printed, buffered, childFds, stdout>>

CommandEnds(i) ==
    /\ child[i] = "running"
    /\ \E end \in {"exit_0", "exit_1", "signal"} : child' = [child EXCEPT ![i] = end]
    /\ UNCHANGED <<pc, k, function, result, fds, printed, callerIO, childFds, stdout, copied, file>>

Next == Caller \/ \E i \in Call : Redirect(i) \/ Exec(i) \/ ExecFails(i) \/ CommandEnds(i)

Spec == Init /\ [][Next]_vars
-----------------------------------------------------------------------------
(* Properties.                                                             *)

(* The types of the state; a call that has ended has returned a value.     *)
TypeOK ==
    /\ pc \in {"idle", "system", "open", "fork", "wait", "aborted"}
    /\ k \in 0 .. MaxCalls
    /\ function \in [Call -> Function \cup {"none"}]
    /\ result \in [Call -> {"none", "true", "false"}]
    /\ \A i \in 1 .. k : result[i] = "none" => i = k /\ pc # "idle"
    /\ child \in [Call -> {"none", "forked", "redirected", "running",
                            "exit_0", "exit_1", "signal"}]
    /\ fds \subseteq Call
    /\ childFds \in [Call -> SUBSET Call]
    /\ stdout \in [Call -> {"terminal", "file"}]
    /\ printed \in Nat /\ buffered \in Nat /\ terminal \in Nat /\ file \in Nat
    /\ copied \in [Call -> Nat]

(* do_exec and do_exec_redirect return true only if the command of that    *)
(* very call was executed and exited with 0, also when children of earlier *)
(* calls, whose waitpid was interrupted, end at any time.                  *)
ExecResultTrue ==
    \A i \in Call : function[i] # "do_system" /\ result[i] = "true" => child[i] = "exit_0"

(* What the caller printed before a call comes out once, and on its own    *)
(* stdout, although fork copies the stdio buffer and a child whose exec    *)
(* fails flushes its copy.                                                 *)
PrintedOnce == buffered + terminal = printed /\ file = 0

(* A command run by do_exec_redirect writes to the outputfile and has no   *)
(* other descriptor of it.                                                 *)
CommandRedirected ==
    \A i \in Call : child[i] = "running" /\ function[i] = "do_exec_redirect" =>
        stdout[i] = "file" /\ i \notin childFds[i]

(* An outputfile stays open in the caller only after a failed fork.        *)
OutputClosed ==
    \A i \in fds : (i = k /\ pc # "idle") \/ child[i] = "none"
=============================================================================
