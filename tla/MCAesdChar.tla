----------------------------- MODULE MCAesdChar -----------------------------
(* Instances of AesdChar and of its stream properties for TLC.             *)
EXTENDS AesdCharStream

CONSTANTS p1, p2, f1, f2, a, nl, m1, m2, m3, m4

Procs2 == {p1, p2}
Ptrs4 == {m1, m2, m3, m4}
Bytes2 == {a, nl}

(* Each process on a file of its own, as aesdsocket opens the device; or   *)
(* both on one file, as after a fork.                                      *)
Separate == {<<p1, f1>>, <<p2, f2>>}
Shared == {<<p1, f1>>, <<p2, f1>>}

(* Pieces and ends of commands, one that a faulting copy can cut short,    *)
(* and no bytes; commands of two lengths; a command and no bytes.          *)
Pieces == {<<>>, <<a>>, <<nl>>, <<a, nl>>}
Commands == {<<nl>>, <<a, nl>>}
Degenerate == {<<>>, <<nl>>}
None == {}

(* Seeks before, into and past the stream; a command the ring may have and *)
(* one it never has.                                                       *)
RelativeSeeks == {[whence |-> "SEEK_CUR", offset |-> -1],
                  [whence |-> "SEEK_END", offset |-> -1]}
OtherSeeks == {[whence |-> "SEEK_SET", offset |-> 1], [whence |-> "bad", offset |-> 0]}
SeekTos == [cmd : {"AESDCHAR_IOCSEEKTO"}, write_cmd : 1..2, write_cmd_offset : {1}]
BadCommand == [cmd : {"bad"}, write_cmd : {0}, write_cmd_offset : {0}]

Symmetric == Permutations(Ptrs4)
=============================================================================
