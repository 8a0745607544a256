--------------------------- MODULE AesdCharStream ---------------------------
(***************************************************************************)
(* What callers of the driver see of the log as a stream of bytes: the     *)
(* properties of AesdChar about reads, positions and seeks.  The stream is *)
(* the concatenation of the stored commands, which is what the comment on  *)
(* aesd_circular_buffer_find_entry_offset_for_fpos counts positions in.    *)
(***************************************************************************)
EXTENDS AesdChar, SequencesExt

Stream == FlattenSeq(Log)

(* The step of p's read that fixes its result.                             *)
ReadEnds(p) == pc[p] \in {"find", "copy_to"} /\ pc'[p] = "return"

ReadDelivers(p) ==
    LET data == ret'[p].data
    IN  /\ data = SubSeq(Stream, pos[p] + 1, pos[p] + Len(data))
        /\ ret'[p].val = 0 => req[p].count = 0 \/ pos[p] >= Len(Stream)
        /\ IF ret'[p].uncopied = 0
           THEN ret'[p].val = Len(data) /\ pos'[p] = pos[p] + Len(data)
           ELSE pos'[p] = pos[p]

(* A read delivers the bytes of the stream that start at its position,     *)
(* never from beyond an entry boundary it miscounted; it reports the end   *)
(* of file only at or past the end of the stream; it returns the number of *)
(* bytes delivered and moves its position by as many, or, when the copy    *)
(* faulted, keeps the position.                                            *)
ReadDeliversStream ==
    [][\A p \in Proc : ReadEnds(p) => ReadDelivers(p)]_vars

(* The step that fixes the result of p's llseek or ioctl.                  *)
SeekEnds(p) == pc[p] \in {"llseek", "ioctl", "sum"} /\ pc'[p] = "return"

SeekLands(p) ==
    LET arg == req[p].arg
        f   == filp[p]
        before(k) == Len(FlattenSeq(SubSeq(Log, 1, k)))
    IN  IF ret'[p].val < 0 THEN fpos'[f] = fpos[f]
        ELSE /\ fpos'[f] = ret'[p].val
             /\ req[p].op = "ioctl" =>
                   /\ arg.write_cmd < Len(Log)
                   /\ arg.write_cmd_offset < Len(Log[arg.write_cmd + 1])
                   /\ fpos'[f] = before(arg.write_cmd) + arg.write_cmd_offset
             /\ req[p].op = "llseek" =>
                   /\ arg.whence = "SEEK_SET" => fpos'[f] = arg.offset
                   /\ arg.whence = "SEEK_CUR" => fpos'[f] = fpos[f] + arg.offset
                   /\ arg.whence = "SEEK_END" => fpos'[f] = Len(Stream) + arg.offset

(* A successful AESDCHAR_IOCSEEKTO puts the file on the byte asked for:    *)
(* the write_cmd_offset-th of the write_cmd-th oldest command, which       *)
(* exists; a successful llseek counts from the start, from the position or *)
(* from the end of the stream; a failed seek leaves the position alone.    *)
SeeksLandOnBytes ==
    [][\A p \in Proc : SeekEnds(p) => SeekLands(p)]_vars

(* Only one process has a descriptor for f.                                *)
Private(f) == \A p, q \in Proc : <<p, f>> \in Uses /\ <<q, f>> \in Uses => p = q

(* How far a returning call is to have moved its file: a read whose copy   *)
(* did not fault by the bytes it delivered, any other call not at all.     *)
Advance(p) ==
    IF req[p].op = "read" /\ ret[p].uncopied = 0 THEN Len(ret[p].data) ELSE 0

ReturnMoves(p) == fpos'[filp[p]] = fpos[filp[p]] + Advance(p)

(* The kernel's copy of f_pos is taken before the mutex and stored back    *)
(* after it.  For a file one process uses, nothing is lost by that: a      *)
(* returning read moves f_pos by exactly the bytes it delivered, unless    *)
(* its copy faulted, and a returning write leaves it where it was.         *)
PrivatePositionKept ==
    [][\A p \in Proc : pc[p] = "return" /\ pc'[p] = "user" /\ Private(filp[p]) =>
          ReturnMoves(p)]_vars
=============================================================================
