------------------------------ MODULE RingCheck ------------------------------
(***************************************************************************)
(* The pure algorithms of CircularBuffer against reference definitions, at *)
(* the capacity the source compiles with.  Entries of every small size are *)
(* added one after the other; `recent' is the reference: the last N added, *)
(* oldest first.  In every ring reached, every file position is searched   *)
(* and every prefix of the entries is summed.                              *)
(***************************************************************************)
EXTENDS CircularBuffer, SequencesExt

CONSTANT MaxSize   \* largest entry size added

ASSUME MaxSizeAssumption == MaxSize \in Nat \ {0}

(* Slots serve as addresses: N are enough for the stored entries.          *)
ASSUME NullAssumption == NULL \notin Slots

VARIABLES
    ring,     \* the struct aesd_circular_buffer
    recent,   \* reference: the last N entries added, oldest first
    serial    \* stands for the address of the next entry's memory

vars == <<ring, recent, serial>>

Init == /\ ring = EmptyRing
        /\ recent = <<>>
        /\ serial = 0

(* The caller of add_entry owns the memory; here each stored entry has an  *)
(* address no other stored entry has.                                      *)
Add(size) ==
    LET e    == [buffptr |-> serial, size |-> size]
        more == Append(recent, e)
    IN  /\ ring' = AddEntry(ring, e)
        /\ recent' = IF Len(more) > N THEN Tail(more) ELSE more
        /\ serial' = (serial + 1) % N

Next == \E size \in 1..MaxSize : Add(size)

Spec == Init /\ [][Next]_vars
-----------------------------------------------------------------------------
(* The two loops, run from their start to their end: a search looks at no  *)
(* more than N entries (one that did would be seen as not ended), and a    *)
(* sum at as many as it was told to.                                       *)
FindOn(r, s) == IF s.status = "loop" THEN FindIterate(r, s) ELSE s

FindLoop(r, start) ==
    LET after[i \in 0..N] == IF i = 0 THEN start ELSE FindOn(r, after[i - 1])
    IN  after[N]

SumLoop(r, start) ==
    LET after[i \in 0..start.left] == IF i = 0 THEN start ELSE SumIterate(r, after[i - 1])
    IN  after[start.left]

(* Reference for a position: "the zero referenced character index if all   *)
(* buffer strings were concatenated end to end".  Byte o of the entry at   *)
(* address a is the pair <<a, o>>.                                         *)
Bytes ==
    [i \in DOMAIN recent |-> [b \in 1..recent[i].size |-> <<recent[i].buffptr, b - 1>>]]

Concatenation == FlattenSeq(Bytes)

(* Where the first k entries end in it.                                    *)
EndOf(k) == Len(FlattenSeq(SubSeq(Bytes, 1, k)))
-----------------------------------------------------------------------------
(* The two offsets stay inside the array and entries keep their sizes; an  *)
(* off-by-one at the wrap stores outside it.                               *)
TypeOK ==
    /\ ring \in [entry    : [Slots -> [buffptr : {NULL} \cup Slots, size : 0..MaxSize]],
                 in_offs  : Slots,
                 out_offs : Slots,
                 full     : BOOLEAN]
    /\ recent \in Seq([buffptr : Slots, size : 1..MaxSize])
    /\ serial \in Slots

(* Read from out_offs for NumEntries entries, the ring holds exactly the   *)
(* most recent N entries in the order they were added, through any number  *)
(* of wraps of in_offs.                                                    *)
HoldsMostRecent ==
    /\ NumEntries(ring) = Len(recent)
    /\ \A i \in 1..Len(recent) :
           ring.entry[(ring.out_offs + i - 1) % N] = recent[i]

(* The search returns, for every file position, the byte of the            *)
(* concatenation at that position, and NULL at and beyond its end: also    *)
(* when the scan has to pass from the last slot to slot 0.                 *)
FindMatchesConcatenation ==
    \A pos \in 0..(N * MaxSize + 1) :
        LET s == FindLoop(ring, FindStart(pos))
        IN  IF pos < Len(Concatenation)
            THEN /\ s.status = "found"
                 /\ <<ring.entry[FindSlot(ring, s)].buffptr, s.remaining>>
                        = Concatenation[pos + 1]
            ELSE s.status = "null"

(* The sum over the first k entries is where entry k starts in the         *)
(* concatenation, and the index the loop leaves is that entry's slot.      *)
SumsMatchConcatenation ==
    \A k \in 0..NumEntries(ring) :
        LET s == SumLoop(ring, SumStart(ring, k))
        IN  /\ s.sum = EndOf(k)
            /\ k < NumEntries(ring) => ring.entry[s.index] = recent[k + 1]
=============================================================================
