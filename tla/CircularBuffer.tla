--------------------------- MODULE CircularBuffer ---------------------------
(***************************************************************************)
(* The ring of the most recent write commands:                             *)
(* aesd-char-driver/aesd-circular-buffer.{h,c}.  A ring is the value of a  *)
(* struct aesd_circular_buffer; this module has no state of its own.  The  *)
(* two loops over a ring (the search for a file position, and the sum of   *)
(* entry sizes that main.c writes out twice) are given by their loop       *)
(* bodies, so that the driver can run them one iteration per step and a    *)
(* pure check can run them to their end.                                   *)
(***************************************************************************)
EXTENDS Integers, Sequences

CONSTANTS
    N,     \* AESDCHAR_MAX_WRITE_OPERATIONS_SUPPORTED, 10 in the source
    NULL   \* the null pointer

(* in_offs and out_offs are uint8_t: in_offs + 1 must not wrap before the  *)
(* comparison with N, or `full' would never be set.                        *)
ASSUME NAssumption == N \in 1..255

Slots == 0..(N - 1)

(* A struct aesd_buffer_entry.  memset(0) makes every one the null entry.  *)
NullEntry == [buffptr |-> NULL, size |-> 0]

(* aesd_circular_buffer_init *)
EmptyRing == [entry    |-> [i \in Slots |-> NullEntry],
              in_offs  |-> 0,
              out_offs |-> 0,
              full     |-> FALSE]

(* Mutants of AddEntry: the wrap test is off by one; a full ring keeps its *)
(* out_offs.                                                               *)
AddEntry_WrapsLate(r, e) ==
    LET wraps == r.in_offs + 1 > N
        in    == IF wraps THEN 0 ELSE r.in_offs + 1
    IN  [entry    |-> [r.entry EXCEPT ![r.in_offs] = e],
         in_offs  |-> in,
         out_offs |-> IF r.full \/ wraps THEN in ELSE r.out_offs,
         full     |-> r.full \/ wraps]

AddEntry_KeepsOut(r, e) ==
    LET wraps == r.in_offs + 1 >= N
    IN  [entry    |-> [r.entry EXCEPT ![r.in_offs] = e],
         in_offs  |-> IF wraps THEN 0 ELSE r.in_offs + 1,
         out_offs |-> r.out_offs,
         full     |-> r.full \/ wraps]

(* aesd_circular_buffer_add_entry: store at in_offs, advance it, set full  *)
(* when it comes back to slot 0, and once full drag out_offs along.        *)
AddEntry(r, e) ==
    LET wraps == r.in_offs + 1 >= N
        in    == IF wraps THEN 0 ELSE r.in_offs + 1
        full  == r.full \/ wraps
    IN  [entry    |-> [r.entry EXCEPT ![r.in_offs] = e],
         in_offs  |-> in,
         out_offs |-> IF full THEN in ELSE r.out_offs,
         full     |-> full]

(* The number of stored entries, as aesd_llseek and aesd_unlocked_ioctl    *)
(* both work it out.                                                       *)
NumEntries(r) ==
    LET diff == r.in_offs - r.out_offs
    IN  IF r.full THEN N ELSE IF diff < 0 THEN diff + N ELSE diff

(* ++current_index with the wrap to 0, in both summing loops.              *)
NextIndex(i) == IF i + 1 >= N THEN 0 ELSE i + 1

-----------------------------------------------------------------------------
(***************************************************************************)
(* aesd_circular_buffer_find_entry_offset_for_fpos.  The loop's state is   *)
(* remaining_offset and current_out_offs_offset; status says how the       *)
(* iteration ended.  current_out_offs_offset is a size_t: `-1 * out_offs'  *)
(* stores 2^64 - out_offs, and out_offs + current_out_offs_offset wraps    *)
(* back below N, so its signed value stands for it here.                   *)
(***************************************************************************)
FindStart(char_offset) ==
    [remaining |-> char_offset, cur |-> 0, status |-> "loop"]

(* The slot the iteration looks at.                                        *)
FindSlot(r, s) == r.out_offs + s.cur

(* Mutants of FindIterate: an offset equal to the entry's size counts as   *)
(* inside it; the search ends at the last slot instead of going on at 0.   *)
FindIterate_Inclusive(r, s) ==
    LET e      == r.entry[FindSlot(r, s)]
        passed == e.buffptr # NULL /\ s.remaining > e.size
        next   == IF r.out_offs + s.cur + 1 >= N THEN -r.out_offs ELSE s.cur + 1
    IN  [remaining |-> IF passed THEN s.remaining - e.size ELSE s.remaining,
         cur       |-> IF passed THEN next ELSE s.cur,
         status    |-> IF e.buffptr = NULL THEN "null"
                       ELSE IF ~passed THEN "found"
                       ELSE IF next = 0 THEN "null" ELSE "loop"]

FindIterate_NoWrap(r, s) ==
    LET e      == r.entry[FindSlot(r, s)]
        passed == e.buffptr # NULL /\ s.remaining >= e.size
    IN  [remaining |-> IF passed THEN s.remaining - e.size ELSE s.remaining,
         cur       |-> IF passed THEN s.cur + 1 ELSE s.cur,
         status    |-> IF e.buffptr = NULL THEN "null"
                       ELSE IF ~passed THEN "found"
                       ELSE IF r.out_offs + s.cur + 1 >= N THEN "null" ELSE "loop"]

FindIterate(r, s) ==
    LET e      == r.entry[FindSlot(r, s)]
        passed == e.buffptr # NULL /\ s.remaining >= e.size
        next   == IF r.out_offs + s.cur + 1 >= N THEN -r.out_offs ELSE s.cur + 1
    IN  [remaining |-> IF passed THEN s.remaining - e.size ELSE s.remaining,
         cur       |-> IF passed THEN next ELSE s.cur,
         status    |-> IF e.buffptr = NULL THEN "null"
                       ELSE IF ~passed THEN "found"
                       ELSE IF next = 0 THEN "null" ELSE "loop"]

(***************************************************************************)
(* The summing loop of aesd_llseek (over all entries) and of               *)
(* aesd_unlocked_ioctl (over the write_cmd entries before the one sought): *)
(* `left' iterations remain, `sum' is buffer_size or newpos.               *)
(***************************************************************************)
SumStart(r, n) == [left |-> n, index |-> r.out_offs, sum |-> 0]

(* A mutant of SumIterate: the index is advanced before the size is added. *)
SumIterate_AdvancesFirst(r, s) ==
    [left  |-> s.left - 1,
     index |-> NextIndex(s.index),
     sum   |-> s.sum + r.entry[NextIndex(s.index)].size]

SumIterate(r, s) ==
    [left  |-> s.left - 1,
     index |-> NextIndex(s.index),
     sum   |-> s.sum + r.entry[s.index].size]
=============================================================================
