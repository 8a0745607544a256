----------------------------- MODULE CommandLog -----------------------------
(***************************************************************************)
(* What /dev/aesdchar promises its writers, with no ring, no memory and no *)
(* lock: bytes are collected into a command until a write ends in a        *)
(* newline; the completed command is logged, and the log keeps the last N. *)
(* AesdChar implements this specification.                                 *)
(***************************************************************************)
EXTENDS Integers, Sequences

CONSTANTS
    N,        \* how many commands are kept
    NL,       \* the newline byte
    Payload   \* the byte sequences a caller may write

VARIABLES
    log,      \* the completed commands, oldest first
    partial   \* the bytes of the command that has no newline yet

vars == <<log, partial>>

(* A command is complete when its last byte is a newline; newlines inside  *)
(* one write do not end it.                                                *)
Complete(cmd) == cmd # <<>> /\ cmd[Len(cmd)] = NL

(* The log after one more command: the oldest goes once there are N.       *)
Logged(cmd) == IF Len(log) = N THEN Append(Tail(log), cmd) ELSE Append(log, cmd)

Init == log = <<>> /\ partial = <<>>

(* One write takes effect, all of it and at once.                          *)
Write(data) ==
    LET cmd == partial \o data
    IN  \/ /\ Complete(cmd)
           /\ log' = Logged(cmd)
           /\ partial' = <<>>
        \/ /\ ~Complete(cmd)
           /\ partial' = cmd
           /\ UNCHANGED log

(* The module is unloaded.                                                 *)
Reset == log' = <<>> /\ partial' = <<>>

Next == Reset \/ \E data \in Payload : Write(data)

Spec == Init /\ [][Next]_vars
=============================================================================
