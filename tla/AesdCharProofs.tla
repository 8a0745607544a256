--------------------------- MODULE AesdCharProofs ---------------------------
(***************************************************************************)
(* Proofs about AesdChar, for every number of processes, files, addresses  *)
(* and payloads, and every capacity N.                                     *)
(***************************************************************************)
EXTENDS AesdChar, SequenceTheorems, TLAPS

-----------------------------------------------------------------------------
(* The inductive invariant.                                                *)

ReadReq   == [op : {"read"}, count : ReadCount]
WriteReq  == [op : {"write"}, data : Payload]
LlseekReq == [op : {"llseek"}, arg : Seek]
IoctlReq  == [op : {"ioctl"}, arg : SeekTo]

(* Where a call is tells what it was called with and what its loop holds.  *)
Calls ==
    \A p \in Proc :
        /\ pc[p] # "user" => req[p] \in Request
        /\ pc[p] \in {"find", "copy_to"} => req[p] \in ReadReq /\ loop[p] \in FindState
        /\ pc[p] \in {"kmalloc", "copy_from", "append"} => req[p] \in WriteReq
        /\ pc[p] = "llseek" => req[p] \in LlseekReq
        /\ pc[p] = "ioctl" => req[p] \in IoctlReq
        /\ pc[p] = "sum" => /\ req[p] \in LlseekReq \cup IoctlReq /\ loop[p] \in SumState
                            /\ req[p].op = "llseek" => req[p].arg.whence = "SEEK_END"

(* A call is made on an open file, and files are open only while the       *)
(* module is loaded.                                                       *)
Files ==
    /\ opened # {} => Live
    /\ \A p \in Proc : InCall(p) => filp[p] \in opened

(* The search stays inside the array.                                      *)
Searching ==
    \A p \in Proc : pc[p] \in {"find", "copy_to"} => FindSlot(ring, loop[p]) \in Slots

(* The occupied slots are those below in_offs, or all of them.             *)
Occupied(i) == ring.full \/ i < ring.in_offs

(* An entry that owns memory, with all its bytes there.                    *)
Holds(e) == /\ e.buffptr \in Ptr
            /\ heap[e.buffptr] # Freed
            /\ e.size <= Len(heap[e.buffptr])

RingShape ==
    Live => /\ ring.out_offs = IF ring.full THEN ring.in_offs ELSE 0
            /\ \A i \in Slots : IF Occupied(i)
                                THEN Holds(ring.entry[i]) /\ ring.entry[i].size > 0
                                ELSE ring.entry[i] = NullEntry

(* The current entry has memory for its bytes; ZERO_SIZE_PTR and NULL      *)
(* stand for no bytes.  Once the copy from user space is complete, the     *)
(* caller's bytes follow them.                                             *)
Current ==
    /\ Live => \/ Holds(current_entry)
               \/ /\ current_entry.buffptr \in {NULL, ZERO_SIZE_PTR}
                  /\ current_entry.size = 0
    /\ \A p \in Proc :
           /\ pc[p] \in {"copy_from", "append"} =>
                 \/ current_entry.buffptr \in Ptr
                 \/ Len(req[p].data) = 0
           /\ pc[p] = "append" /\ current_entry.buffptr \in Ptr =>
                 /\ current_entry.size + Len(req[p].data) <= Len(heap[current_entry.buffptr])
                 /\ heap[current_entry.buffptr] =
                       SubSeq(heap[current_entry.buffptr], 1, current_entry.size)
                           \o req[p].data

Inv == /\ TypeOK
       /\ Calls
       /\ Files
       /\ Searching
       /\ LockDiscipline
       /\ RingShape
       /\ Current
       /\ HeapExact
       /\ ReadSafe
-----------------------------------------------------------------------------
(* The first state satisfies the invariant.                                *)
LEMMA InitInv == Init => Inv
<1> SUFFICES ASSUME Init PROVE Inv
  OBVIOUS
<1> USE NAssumption, ConstantsAssumption
<1>1. TypeOK
  BY DEF Init, TypeOK, EmptyRing, NullEntry, NoReturn, Value, Slots, Entry, Critical
<1>2. Calls /\ Searching /\ ReadSafe
  BY DEF Init, Calls, Searching, ReadSafe
<1>3. Files
  BY DEF Init, Files, InCall
<1>4. LockDiscipline
  BY DEF Init, LockDiscipline, Critical
<1>5. RingShape /\ Current /\ HeapExact
  BY DEF Init, RingShape, Current, HeapExact, Live
<1> QED
  BY <1>1, <1>2, <1>3, <1>4, <1>5 DEF Inv

(* Loading and unloading.                                                  *)

(* Allocating the device numbers touches nothing else.                     *)
LEMMA RegisterRegionInv == Inv /\ RegisterRegion => Inv'
<1> SUFFICES ASSUME Inv, RegisterRegion PROVE Inv'
  OBVIOUS
<1> USE DEF RegisterRegion, devVars, callVars
<1>1. TypeOK'
  BY DEF Inv, TypeOK
<1>2. Calls' /\ Searching'
  BY DEF Inv, Calls, Searching
<1>3. Files'
  BY DEF Inv, Files, InCall, Live
<1>4. LockDiscipline' /\ ReadSafe'
  BY DEF Inv, LockDiscipline, ReadSafe, NewEntry
<1>5. RingShape' /\ Current'
  BY DEF Inv, RingShape, Current, Live
<1>6. HeapExact'
  BY DEF Inv, HeapExact, Live
<1> QED
  BY <1>1, <1>2, <1>3, <1>4, <1>5, <1>6 DEF Inv

(* Setting the device up clears a device nobody uses.                      *)
LEMMA SetupCdevInv == Inv /\ SetupCdev => Inv'
<1> SUFFICES ASSUME Inv, SetupCdev PROVE Inv'
  OBVIOUS
<1> USE NAssumption, ConstantsAssumption DEF SetupCdev, devVars, callVars
<1>0. \A p \in Proc : ~InCall(p)
  BY DEF Inv, Files, Live
<1>1. TypeOK'
  <2>1. EmptyRing \in [entry : [Slots -> Entry], in_offs : Slots, out_offs : Slots, full : BOOLEAN]
    BY DEF EmptyRing, NullEntry, Slots, Entry
  <2>2. NullEntry \in Entry
    BY DEF NullEntry, Entry
  <2> QED
    BY <2>1, <2>2 DEF Inv, TypeOK
<1>2. Calls'
  BY <1>0 DEF Inv, Calls, InCall
<1>2a. Searching'
  BY <1>0 DEF Searching, InCall
<1>2b. ReadSafe'
  BY <1>0 DEF ReadSafe, InCall
<1>3. Files'
  BY <1>0 DEF Inv, Files, InCall, Live
<1>4. LockDiscipline'
  BY <1>0 DEF Inv, LockDiscipline, Critical, InCall
<1>5. RingShape'
  BY DEF RingShape, Occupied, EmptyRing, Slots
<1>6. Current'
  BY <1>0 DEF Inv, Current, NullEntry, InCall
<1>7. HeapExact'
  BY DEF Inv, HeapExact, Live, OwnedBy, Owners, EmptyRing, NullEntry, Slots
<1> QED
  BY <1>1, <1>2, <1>2a, <1>2b, <1>3, <1>4, <1>5, <1>6, <1>7 DEF Inv

(* Unloading frees all memory while no call is under way.                  *)
LEMMA CleanupInv == Inv /\ Cleanup => Inv'
<1> SUFFICES ASSUME Inv, Cleanup PROVE Inv'
  OBVIOUS
<1> USE NAssumption, ConstantsAssumption DEF Cleanup, devVars, callVars
<1>0. \A p \in Proc : ~InCall(p)
  BY DEF Inv, Files
<1>1. TypeOK'
  BY DEF Inv, TypeOK
<1>2. Calls' /\ Searching' /\ ReadSafe'
  BY <1>0 DEF Inv, Calls, Searching, ReadSafe, InCall
<1>3. Files'
  BY <1>0 DEF Inv, Files, InCall
<1>4. LockDiscipline'
  BY DEF Inv, LockDiscipline
<1>5. RingShape'
  BY DEF RingShape, Live
<1>6. Current'
  BY <1>0 DEF Current, InCall, Live
<1>7. HeapExact'
  <2>1. ASSUME NEW q \in Ptr, heap[q] # Freed PROVE q \in CleanupFrees
    <3>1. PICK o \in Owners : OwnedBy(o) = q
      BY <2>1 DEF Inv, HeapExact
    <3>2. o = N \/ o \in Slots
      BY <3>1 DEF Owners, Slots
    <3> QED
      BY <3>1, <3>2 DEF CleanupFrees, OwnedBy, Slots
  <2> QED
    BY <2>1 DEF HeapExact, Live
<1> QED
  BY <1>1, <1>2, <1>3, <1>4, <1>5, <1>6, <1>7 DEF Inv

(* Opening, closing, entering and leaving a call.                          *)

(* Opening a file starts it at position 0.                                 *)
LEMMA OpenInv == ASSUME Inv, NEW f \in File, Open(f) PROVE Inv'
<1> USE DEF Open, devVars, callVars
<1>1. TypeOK'
  BY DEF Inv, TypeOK
<1>2. Calls' /\ Searching' /\ LockDiscipline' /\ ReadSafe'
  BY DEF Inv, Calls, Searching, LockDiscipline, ReadSafe, NewEntry
<1>3. Files'
  BY DEF Inv, Files, InCall, Live
<1>4. RingShape' /\ Current' /\ HeapExact'
  BY DEF Inv, RingShape, Current, HeapExact, Live, OwnedBy, Holds, Occupied
<1> QED
  BY <1>1, <1>2, <1>3, <1>4 DEF Inv

(* Closing a file takes it from no call that is under way.                 *)
LEMMA ReleaseInv == ASSUME Inv, NEW f \in File, Release(f) PROVE Inv'
<1> USE DEF Release, devVars, callVars
<1>1. TypeOK'
  BY DEF Inv, TypeOK
<1>2. Calls' /\ Searching' /\ LockDiscipline' /\ ReadSafe'
  BY DEF Inv, Calls, Searching, LockDiscipline, ReadSafe, NewEntry
<1>3. Files'
  BY DEF Inv, Files, InCall, Live
<1>4. RingShape' /\ Current' /\ HeapExact'
  BY DEF Inv, RingShape, Current, HeapExact, Live, OwnedBy, Holds, Occupied
<1> QED
  BY <1>1, <1>2, <1>3, <1>4 DEF Inv

(* Entering a call keeps the invariant: the request fits the label.        *)
LEMMA EnterInv ==
  ASSUME Inv, NEW p \in Proc, NEW f \in File, NEW r \in Request, Enter(p, f, r)
  PROVE  Inv'
<1> USE ConstantsAssumption DEF Enter, devVars, callVars
<1>1. TypeOK'
  BY DEF Inv, TypeOK
<1>2. Calls'
  BY DEF Inv, Calls, TypeOK
<1>3. Searching'
  BY DEF Inv, Searching, TypeOK
<1>3a. ReadSafe'
  BY DEF Inv, ReadSafe, NewEntry, TypeOK
<1>4. Files'
  BY DEF Inv, Files, InCall, Live, TypeOK
<1>5. LockDiscipline'
  BY DEF Inv, LockDiscipline, Critical, TypeOK
<1>6. RingShape' /\ HeapExact'
  BY DEF Inv, RingShape, HeapExact, Live, OwnedBy, Holds, Occupied
<1>7. Current'
  BY DEF Inv, Current, Live, Holds, TypeOK
<1> QED
  BY <1>1, <1>2, <1>3, <1>3a, <1>4, <1>5, <1>6, <1>7 DEF Inv

(* Returning stores back a position that is not negative.                  *)
LEMMA ReturnInv == ASSUME Inv, NEW p \in Proc, Return(p) PROVE Inv'
<1> USE ConstantsAssumption DEF Return, devVars, callVars
<1>0. NoReturn \in [val : Int, data : Seq(Byte), uncopied : Nat]
  BY DEF NoReturn, Value
<1>1. TypeOK'
  BY <1>0 DEF Inv, TypeOK
<1>2. Calls'
  BY DEF Inv, Calls, TypeOK
<1>3. Searching' /\ ReadSafe'
  BY DEF Inv, Searching, ReadSafe, NewEntry, TypeOK
<1>4. Files'
  BY DEF Inv, Files, InCall, Live, TypeOK
<1>5. LockDiscipline'
  BY DEF Inv, LockDiscipline, Critical, TypeOK
<1>6. RingShape' /\ HeapExact'
  BY DEF Inv, RingShape, HeapExact, Live, OwnedBy, Holds, Occupied
<1>7. Current'
  BY DEF Inv, Current, Live, Holds, TypeOK
<1> QED
  BY <1>1, <1>2, <1>3, <1>4, <1>5, <1>6, <1>7 DEF Inv

(* device_mutex.                                                           *)

(* The search starts inside the array.                                     *)
LEMMA FindStartInside ==
  ASSUME NEW r, r.out_offs \in Slots, NEW n \in Nat
  PROVE  FindStart(n) \in FindState /\ FindSlot(r, FindStart(n)) \in Slots
<1>1. r.out_offs + 0 \in Slots /\ 0 \in (1 - N)..(N - 1)
  BY NAssumption DEF Slots
<1> QED
  BY <1>1 DEF FindStart, FindState, FindSlot

(* Taking a free mutex leaves one process in a handler.                    *)
LEMMA LockInv == ASSUME Inv, NEW p \in Proc, Lock(p) PROVE Inv'
<1> USE NAssumption, ConstantsAssumption DEF Lock, devVars, callVars
<1>1. /\ pc[p] = "lock" /\ mutex = NULL /\ req[p] \in Request
      /\ ring.out_offs \in Slots /\ pos[p] \in Nat
  BY DEF Inv, Calls, TypeOK
<1>2. /\ pc'[p] \in {"find", "kmalloc", "llseek", "ioctl"}
      /\ pc'[p] = "find" => req[p] \in ReadReq /\ loop'[p] = FindStart(pos[p])
      /\ pc'[p] = "kmalloc" => req[p] \in WriteReq
      /\ pc'[p] = "llseek" => req[p] \in LlseekReq
      /\ pc'[p] = "ioctl" => req[p] \in IoctlReq
      /\ loop'[p] \in {NULL, FindStart(pos[p])}
  <2>1. CASE req[p] \in ReadReq
    BY <2>1, <1>1 DEF Inv, TypeOK, FirstStep, ReadReq
  <2>2. CASE req[p] \in WriteReq
    BY <2>2, <1>1 DEF Inv, TypeOK, FirstStep, WriteReq
  <2>3. CASE req[p] \in LlseekReq
    BY <2>3, <1>1 DEF Inv, TypeOK, FirstStep, LlseekReq
  <2>4. CASE req[p] \in IoctlReq
    BY <2>4, <1>1 DEF Inv, TypeOK, FirstStep, IoctlReq
  <2> QED
    BY <2>1, <2>2, <2>3, <2>4, <1>1 DEF Request, ReadReq, WriteReq, LlseekReq, IoctlReq
<1>3. FindStart(pos[p]) \in FindState /\ FindSlot(ring, FindStart(pos[p])) \in Slots
  BY <1>1, FindStartInside
<1>4. \A q \in Proc : pc[q] \notin Critical
  BY <1>1 DEF Inv, LockDiscipline
<1>5. \A q \in Proc : q # p => pc'[q] = pc[q] /\ loop'[q] = loop[q]
  BY DEF Inv, TypeOK
<1>6. TypeOK'
  BY <1>2, <1>3 DEF Inv, TypeOK, Critical
<1>7. Calls'
  BY <1>1, <1>2, <1>3, <1>5 DEF Inv, Calls
<1>8. Searching' /\ ReadSafe' /\ Current'
  BY <1>1, <1>2, <1>3, <1>4, <1>5 DEF Inv, Searching, ReadSafe, Current, Critical, Live, Holds
<1>9. Files'
  BY <1>1, <1>2, <1>5 DEF Inv, Files, InCall, Live
<1>10. LockDiscipline'
  BY <1>2, <1>4, <1>5 DEF LockDiscipline, Critical
<1>11. RingShape' /\ HeapExact'
  BY DEF Inv, RingShape, HeapExact, Live, OwnedBy, Holds, Occupied
<1> QED
  BY <1>6, <1>7, <1>8, <1>9, <1>10, <1>11 DEF Inv

(* An interrupted wait touches nothing the device has.                     *)
LEMMA InterruptedInv == ASSUME Inv, NEW p \in Proc, Interrupted(p) PROVE Inv'
<1> USE ConstantsAssumption DEF Interrupted, devVars, callVars
<1> DEFINE v == IF req[p].op \in {"read", "write"} THEN -EINTR ELSE -EINVAL
<1>1. TypeOK'
  <2>1. v \in Int
    BY DEF EINTR, EINVAL
  <2>2. ret' = [ret EXCEPT ![p] = Value(v)]
    OBVIOUS
  <2> HIDE DEF v
  <2>3. Value(v) \in [val : Int, data : Seq(Byte), uncopied : Nat]
    BY <2>1 DEF Value
  <2>4. ret' \in [Proc -> [val : Int, data : Seq(Byte), uncopied : Nat]]
    BY <2>2, <2>3 DEF Inv, TypeOK
  <2> QED
    BY <2>4 DEF Inv, TypeOK
<1>2. Calls'
  BY DEF Inv, Calls, TypeOK
<1>3. Searching'
  BY DEF Inv, Searching, TypeOK
<1>3a. ReadSafe'
  BY DEF Inv, ReadSafe, NewEntry, TypeOK
<1>4. Files'
  BY DEF Inv, Files, InCall, Live, TypeOK
<1>5. LockDiscipline'
  BY DEF Inv, LockDiscipline, Critical, TypeOK
<1>6. RingShape' /\ HeapExact'
  BY DEF Inv, RingShape, HeapExact, Live, OwnedBy, Holds, Occupied
<1>7. Current'
  BY DEF Inv, Current, Live, Holds, TypeOK
<1> QED
  BY <1>1, <1>2, <1>3, <1>3a, <1>4, <1>5, <1>6, <1>7 DEF Inv

(* Leaving a critical section that did not touch the device.               *)
Result == [val : Int, data : Seq(Byte), uncopied : Nat]

(* It keeps the invariant, whatever the result and the new position.       *)
LEMMA LeaveInv ==
  ASSUME Inv, NEW p \in Proc, NEW v \in Result, pc[p] \in Critical, Leave(p, v),
         UNCHANGED <<cdev, devVars, opened, req, filp>>,
         fpos' \in [File -> Nat], pos' \in [Proc -> Nat]
  PROVE  Inv'
<1> USE ConstantsAssumption DEF Leave, devVars
<1>1. TypeOK'
  BY DEF Inv, TypeOK, Result
<1>2. Calls'
  BY DEF Inv, Calls, TypeOK, Critical
<1>3. Searching'
  BY DEF Inv, Searching, TypeOK
<1>3a. ReadSafe'
  BY DEF Inv, ReadSafe, NewEntry, TypeOK
<1>4. Files'
  BY DEF Inv, Files, InCall, Live, TypeOK, Critical
<1>5. LockDiscipline'
  BY DEF Inv, LockDiscipline, Critical, TypeOK
<1>6. RingShape' /\ HeapExact'
  BY DEF Inv, RingShape, HeapExact, Live, OwnedBy, Holds, Occupied
<1>7. Current'
  BY DEF Inv, Current, Live, Holds, TypeOK
<1> QED
  BY <1>1, <1>2, <1>3, <1>3a, <1>4, <1>5, <1>6, <1>7 DEF Inv

(* aesd_read.                                                              *)

(* An iteration that goes on, or finds, stays inside the array.            *)
LEMMA FindIterateInside ==
  ASSUME NEW r, NEW s \in FindState,
         r.out_offs \in Slots, r.entry \in [Slots -> Entry], FindSlot(r, s) \in Slots,
         FindIterate(r, s).status # "null"
  PROVE  /\ FindIterate(r, s) \in FindState
         /\ FindSlot(r, FindIterate(r, s)) \in Slots
         /\ FindIterate(r, s).status = "found" =>
               /\ FindSlot(r, FindIterate(r, s)) = FindSlot(r, s)
               /\ r.entry[FindSlot(r, s)].buffptr # NULL
               /\ FindIterate(r, s).remaining < r.entry[FindSlot(r, s)].size
<1> DEFINE e == r.entry[FindSlot(r, s)]
           t == FindIterate(r, s)
<1>1. e.size \in Nat /\ s.remaining \in Nat /\ s.cur \in Int /\ r.out_offs \in 0..(N - 1)
  <2>1. e \in Entry
    OBVIOUS
  <2>2. s.cur \in (1 - N)..(N - 1) /\ s.remaining \in Nat
    BY DEF FindState
  <2> QED
    BY <2>1, <2>2, NAssumption DEF Entry, Slots
<1>2. e.buffptr # NULL
  BY DEF FindIterate
<1>3. CASE s.remaining >= e.size
  <2> DEFINE next == IF r.out_offs + s.cur + 1 >= N THEN -r.out_offs ELSE s.cur + 1
  <2>1. t = [remaining |-> s.remaining - e.size, cur |-> next, status |-> "loop"]
    BY <1>2, <1>3 DEF FindIterate
  <2>2. r.out_offs + s.cur \in 0..(N - 1)
    BY DEF FindSlot, Slots
  <2>3. next \in (1 - N)..(N - 1) /\ r.out_offs + next \in 0..(N - 1)
    BY <1>1, <2>2, NAssumption
  <2> QED
    BY <1>1, <1>3, <2>1, <2>3 DEF FindState, FindSlot, Slots
<1>4. CASE ~(s.remaining >= e.size)
  <2>1. t = [remaining |-> s.remaining, cur |-> s.cur, status |-> "found"]
    BY <1>2, <1>4 DEF FindIterate
  <2> QED
    BY <1>1, <1>2, <1>4, <2>1 DEF FindState, FindSlot
<1> QED
  BY <1>3, <1>4

(* An iteration of the search keeps the invariant.                         *)
LEMMA ReadFindInv == ASSUME Inv, NEW p \in Proc, ReadFind(p) PROVE Inv'
<1> DEFINE s == FindIterate(ring, loop[p])
<1> USE NAssumption, ConstantsAssumption DEF ReadFind, devVars, callVars
<1>1. /\ pc[p] = "find" /\ loop[p] \in FindState /\ req[p] \in ReadReq
      /\ FindSlot(ring, loop[p]) \in Slots
      /\ ring.out_offs \in Slots /\ ring.entry \in [Slots -> Entry]
  BY DEF Inv, Calls, Searching, TypeOK
<1>2. CASE s.status = "null"
  <2>1. Value(0) \in Result /\ pc[p] \in Critical
    BY <1>1 DEF Value, Result, Critical
  <2>2. Leave(p, Value(0))
    BY <1>2
  <2>3. fpos' \in [File -> Nat] /\ pos' \in [Proc -> Nat]
    BY DEF Inv, TypeOK
  <2> QED
    BY <2>1, <2>2, <2>3, LeaveInv
<1>3. CASE s.status # "null"
  <2>1. /\ pc' = [pc EXCEPT ![p] = IF s.status = "found" THEN "copy_to" ELSE "find"]
        /\ loop' = [loop EXCEPT ![p] = s]
        /\ UNCHANGED <<mutex, ret>>
    BY <1>3
  <2>2. s \in FindState /\ FindSlot(ring, s) \in Slots
    BY <1>1, <1>3, FindIterateInside
  <2>3. TypeOK'
    BY <2>1, <2>2 DEF Inv, TypeOK, Critical
  <2>4. Calls'
    BY <2>1, <2>2, <1>1 DEF Inv, Calls, TypeOK
  <2>5. Files'
    BY <2>1, <1>1 DEF Inv, Files, InCall, Live, TypeOK
  <2>6. Searching'
    BY <2>1, <2>2 DEF Inv, Searching, TypeOK
  <2>7. LockDiscipline'
    BY <2>1, <1>1 DEF Inv, LockDiscipline, Critical, TypeOK
  <2>8. RingShape' /\ HeapExact'
    BY DEF Inv, RingShape, HeapExact, Live, OwnedBy, Holds, Occupied
  <2>9. Current'
    <3>1. \A x \in Proc : pc'[x] \in {"copy_from", "append"} => pc[x] = pc'[x]
      BY <2>1 DEF Inv, TypeOK
    <3>2. UNCHANGED <<cdev, current_entry, heap, req>>
      OBVIOUS
    <3> QED
      BY <3>1, <3>2, Zenon DEF Inv, Current, Live, Holds
  <2>10. ReadSafe'
    <3>1. SUFFICES ASSUME pc'[p] = "copy_to"
                   PROVE  /\ ring.entry[FindSlot(ring, s)].buffptr \in Ptr
                          /\ heap[ring.entry[FindSlot(ring, s)].buffptr] # Freed
                          /\ s.remaining < ring.entry[FindSlot(ring, s)].size
                          /\ ring.entry[FindSlot(ring, s)].size
                                <= Len(heap[ring.entry[FindSlot(ring, s)].buffptr])
      BY <2>1, <2>2 DEF Inv, ReadSafe, NewEntry, TypeOK
    <3>2. s.status = "found"
      BY <2>1, <3>1 DEF Inv, TypeOK
    <3>3. /\ ring.entry[FindSlot(ring, s)].buffptr # NULL
          /\ s.remaining < ring.entry[FindSlot(ring, s)].size
      BY <3>2, <1>1, <1>3, FindIterateInside
    <3>4. Live
      BY <1>1 DEF Inv, Files, InCall
    <3> QED
      BY <3>3, <3>4, <2>2 DEF Inv, RingShape, Holds, NullEntry
  <2> QED
    BY <2>3, <2>4, <2>5, <2>6, <2>7, <2>8, <2>9, <2>10 DEF Inv
<1> QED
  BY <1>2, <1>3

(* num_chars stays inside the entry, and so inside its buffer.             *)
LEMMA ReadCopyInv == ASSUME Inv, NEW p \in Proc, ReadCopy(p) PROVE Inv'
<1> DEFINE e == NewEntry(p)
           b == heap[e.buffptr]
           k == loop[p].remaining
           n == NumChars(p)
<1> USE ConstantsAssumption
<1>1. /\ pc[p] = "copy_to" /\ loop[p] \in FindState /\ req[p] \in ReadReq
      /\ e.buffptr \in Ptr /\ b # Freed /\ k < e.size /\ e.size <= Len(b)
      /\ FindSlot(ring, loop[p]) \in Slots
  BY DEF Inv, Calls, ReadSafe, ReadCopy
<1>2. b \in Seq(Byte) /\ k \in Nat /\ e.size \in Nat
  <2>1. e \in Entry
    BY <1>1 DEF Inv, TypeOK, NewEntry
  <2> QED
    BY <1>1, <2>1 DEF Inv, TypeOK, Entry, FindState
<1>3. n \in Nat /\ k + n <= Len(b)
  <2>1. req[p].count \in Nat
    BY <1>1 DEF ReadReq
  <2>2. n = IF e.size - k > req[p].count THEN req[p].count ELSE e.size - k
    BY DEF NumChars
  <2>3. Len(b) \in Nat
    BY <1>2
  <2> QED
    BY <1>1, <1>2, <2>1, <2>2, <2>3
<1>4. ASSUME NEW m \in 0..n PROVE Chunk(p, m) \in Seq(Byte)
  <2>0. Len(b) \in Nat /\ \A i \in 1..Len(b) : b[i] \in Byte
    BY <1>2
  <2>1. \A i \in (k + 1)..(k + m) : b[i] \in Byte
    <3> HIDE DEF b, k, n
    <3> QED
      BY <2>0, <1>2, <1>3
  <2>2. k + 1 \in Int /\ k + m \in Int
    BY <1>2, <1>3
  <2>3. Chunk(p, m) = SubSeq(b, k + 1, k + m)
    BY DEF Chunk
  <2> HIDE DEF b, k
  <2> QED
    BY <2>1, <2>2, <2>3, SubSeqProperties
<1>5. pc[p] \in Critical
  BY <1>1 DEF Critical
<1>6. UNCHANGED <<cdev, devVars, opened, req, filp>> /\ fpos' \in [File -> Nat]
  BY DEF ReadCopy, devVars, Inv, TypeOK
<1>7. CASE /\ Leave(p, Copied(p, n, 0))
           /\ pos' = [pos EXCEPT ![p] = @ + n]
  <2>0. n - 0 \in 0..n
    BY <1>3
  <2>1. Copied(p, n, 0) \in Result
    BY <1>3, <1>4, <2>0 DEF Result, Copied
  <2>2. pos' \in [Proc -> Nat]
    BY <1>3, <1>7 DEF Inv, TypeOK
  <2> QED
    BY <1>5, <1>6, <1>7, <2>1, <2>2, LeaveInv
<1>8. ASSUME NEW err \in 1..n,
             Leave(p, Copied(p, err, err)), UNCHANGED pos
      PROVE  Inv'
  <2>0. n - err \in 0..n /\ err \in Nat
    BY <1>3
  <2>1. Copied(p, err, err) \in Result
    BY <1>4, <2>0 DEF Result, Copied
  <2>2. pos' \in [Proc -> Nat]
    BY <1>8 DEF Inv, TypeOK
  <2> QED
    BY <1>5, <1>6, <1>8, <2>1, <2>2, LeaveInv
<1> QED
  BY <1>7, <1>8 DEF ReadCopy

(* aesd_write.                                                             *)

(* A failed allocation changes nothing but the lock.                       *)
LEMMA WriteNoMemoryInv == ASSUME Inv, NEW p \in Proc, WriteNoMemory(p) PROVE Inv'
<1>1. Value(-ENOMEM) \in Result /\ pc[p] \in Critical
  BY DEF WriteNoMemory, Value, Result, ENOMEM, Critical
<1>2. /\ fpos' \in [File -> Nat] /\ pos' \in [Proc -> Nat] /\ Leave(p, Value(-ENOMEM))
      /\ UNCHANGED <<cdev, devVars, opened, req, filp>>
  BY DEF WriteNoMemory, devVars, callVars, Inv, TypeOK
<1> QED
  BY <1>1, <1>2, LeaveInv

(* In a write, the module is loaded and no other call is past its lock.    *)
LEMMA WriterAlone ==
  ASSUME Inv, NEW p \in Proc, pc[p] \in {"kmalloc", "copy_from", "append"}
  PROVE  /\ Live
         /\ mutex = p
         /\ \A q \in Proc : q # p => pc[q] \notin Critical
         /\ req[p] \in WriteReq
         /\ req[p].data \in Seq(Byte)
         /\ Len(req[p].data) \in Nat
<1>1. Live
  BY DEF Inv, Files, InCall
<1>2. mutex = p /\ \A q \in Proc : q # p => pc[q] \notin Critical
  BY DEF Inv, LockDiscipline, Critical
<1>3. req[p] \in WriteReq
  BY DEF Inv, Calls
<1>4. req[p].data \in Seq(Byte)
  BY <1>3, ConstantsAssumption DEF WriteReq
<1> QED
  BY <1>1, <1>2, <1>3, <1>4

(* The bytes of the current entry are its size in number.                  *)
LEMMA CurrentBytes ==
  ASSUME Inv, Live
  PROVE  /\ current_entry.size \in Nat
         /\ Bytes(current_entry) \in Seq(Byte)
         /\ Len(Bytes(current_entry)) = current_entry.size
<1> DEFINE e == current_entry
           b == heap[e.buffptr]
<1>1. e \in Entry
  BY DEF Inv, TypeOK
<1>2. e.size \in Nat
  BY <1>1 DEF Entry
<1>3. CASE Holds(e)
  <2>1. b \in Seq(Byte) /\ e.size <= Len(b)
    BY <1>3 DEF Holds, Inv, TypeOK
  <2>2. \A i \in 1..e.size : b[i] \in Byte
    BY <1>2, <2>1
  <2>3. Bytes(e) = SubSeq(b, 1, e.size)
    BY <1>3 DEF Bytes, Holds
  <2> HIDE DEF b
  <2>4. SubSeq(b, 1, e.size) \in Seq(Byte) /\ Len(SubSeq(b, 1, e.size)) = e.size
    BY <1>2, <2>2, SubSeqProperties
  <2> QED
    BY <1>2, <2>3, <2>4
<1>4. CASE e.buffptr \in {NULL, ZERO_SIZE_PTR} /\ e.size = 0
  BY <1>4, ConstantsAssumption DEF Bytes
<1> QED
  BY <1>3, <1>4 DEF Inv, Current

(* The owners are the slots and the current entry.                         *)
LEMMA OwnersAre ==
  /\ \A o \in Slots : o \in Owners /\ o # N /\ OwnedBy(o) = ring.entry[o].buffptr
  /\ N \in Owners /\ OwnedBy(N) = current_entry.buffptr
  /\ \A o \in Owners : o = N \/ o \in Slots
<1>1. \A o \in Slots : o \in Owners /\ o # N
  BY NAssumption DEF Owners, Slots
<1>2. N \in Owners /\ \A o \in Owners : o = N \/ o \in Slots
  BY NAssumption DEF Owners, Slots
<1> QED
  BY <1>1, <1>2 DEF OwnedBy

(* No slot shares memory with another or with the current entry.           *)
LEMMA OwnersApart ==
  ASSUME Inv, Live
  PROVE  /\ \A i \in Slots : ring.entry[i].buffptr \in Ptr =>
               ring.entry[i].buffptr # current_entry.buffptr
         /\ \A i, j \in Slots : ring.entry[i].buffptr \in Ptr /\ i # j =>
               ring.entry[i].buffptr # ring.entry[j].buffptr
<1>1. N \in Owners /\ OwnedBy(N) = current_entry.buffptr
  BY NAssumption DEF Owners, OwnedBy
<1>2. \A i \in Slots : i \in Owners /\ i # N /\ OwnedBy(i) = ring.entry[i].buffptr
  BY NAssumption DEF Owners, OwnedBy, Slots
<1>3. \A o1, o2 \in Owners : OwnedBy(o1) = OwnedBy(o2) /\ OwnedBy(o1) \in Ptr => o1 = o2
  BY DEF Inv, HeapExact
<1> QED
  BY <1>1, <1>2, <1>3

(* Moving the command to a new buffer keeps memory exact.                  *)
LEMMA WriteGrowInv == ASSUME Inv, NEW p \in Proc, WriteGrow(p) PROVE Inv'
<1> DEFINE e == current_entry
<1> USE NAssumption, ConstantsAssumption
<1>1. PICK q \in Kmalloc(e.size + Len(req[p].data)) :
         heap' = Moved(q) /\ current_entry' = [buffptr |-> q, size |-> e.size]
  BY DEF WriteGrow
<1>2. /\ pc[p] = "kmalloc" /\ pc' = [pc EXCEPT ![p] = "copy_from"]
      /\ UNCHANGED <<cdev, ring, mutex, opened, fpos, req, filp, pos, loop, ret>>
  BY DEF WriteGrow, callVars
<1>3. /\ Live /\ mutex = p /\ req[p] \in WriteReq /\ Len(req[p].data) \in Nat
      /\ \A r \in Proc : r # p => pc[r] \notin Critical
  BY <1>2, WriterAlone
<1>4. /\ e.size \in Nat /\ Bytes(e) \in Seq(Byte) /\ Len(Bytes(e)) = e.size
  BY <1>3, CurrentBytes
<1>5. \/ q \in Ptr /\ heap[q] = Freed
      \/ q = ZERO_SIZE_PTR /\ e.size = 0 /\ Len(req[p].data) = 0
  BY <1>3, <1>4 DEF Kmalloc
<1>6. \A x \in Ptr : heap'[x] = IF x = q THEN Bytes(e)
                                ELSE IF x = e.buffptr THEN Freed ELSE heap[x]
  BY <1>1 DEF Moved
<1>7. e.buffptr \in Ptr => heap[e.buffptr] # Freed /\ q # e.buffptr
  BY <1>3, <1>5 DEF Inv, Current, Holds
<1>8. Bytes(e) # Freed
  BY <1>4
<1>9. \A r \in Proc : r # p => pc'[r] = pc[r]
  BY <1>2 DEF Inv, TypeOK
<1>10. pc'[p] = "copy_from"
  BY <1>2 DEF Inv, TypeOK
<1>11. TypeOK'
  <2>1. heap' \in [Ptr -> Seq(Byte) \cup {Freed}]
    BY <1>1, <1>4 DEF Moved, Inv, TypeOK
  <2>2. current_entry' \in Entry
    BY <1>1, <1>4, <1>5 DEF Entry
  <2> QED
    BY <1>2, <2>1, <2>2 DEF Inv, TypeOK, Critical
<1>12. Calls'
  BY <1>2, <1>3, <1>9, <1>10 DEF Inv, Calls
<1>13. Files'
  BY <1>2, <1>9, <1>10 DEF Inv, Files, InCall, Live
<1>14. Searching' /\ ReadSafe'
  BY <1>3, <1>9, <1>10 DEF Searching, ReadSafe, Critical
<1>15. LockDiscipline'
  BY <1>2, <1>3, <1>9, <1>10 DEF LockDiscipline, Critical, Inv
<1>16. \A i \in Slots : ring.entry[i].buffptr \in Ptr => ring.entry[i].buffptr # e.buffptr
  BY <1>3, OwnersApart
<1>17. RingShape'
  <2>1. ASSUME NEW i \in Slots, Holds(ring.entry[i])
        PROVE  heap'[ring.entry[i].buffptr] = heap[ring.entry[i].buffptr]
    BY <2>1, <1>5, <1>6, <1>16 DEF Holds
  <2> QED
    BY <1>2, <1>3, <2>1 DEF Inv, RingShape, Live, Occupied, Holds
<1>18. Current'
  <2>1. (\/ Holds(e)
         \/ e.buffptr \in {NULL, ZERO_SIZE_PTR} /\ e.size = 0)'
    BY <1>1, <1>4, <1>5, <1>6, <1>8 DEF Holds
  <2>2. q \in Ptr \/ Len(req[p].data) = 0
    BY <1>5
  <2> QED
    BY <1>1, <1>2, <1>3, <1>9, <1>10, <2>1, <2>2 DEF Current, Critical
<1>19. HeapExact'
  <2>1. \A o \in Owners : OwnedBy(o)' = IF o = N THEN q ELSE OwnedBy(o)
    BY <1>1, <1>2 DEF OwnedBy
  <2>2. OwnedBy(N) = e.buffptr /\ N \in Owners
    BY DEF OwnedBy, Owners
  <2>3. /\ \A x \in Ptr : heap[x] # Freed <=> \E o \in Owners : OwnedBy(o) = x
        /\ \A o1, o2 \in Owners :
              OwnedBy(o1) = OwnedBy(o2) /\ OwnedBy(o1) \in Ptr => o1 = o2
    BY <1>3 DEF Inv, HeapExact
  <2>4. ASSUME NEW x \in Ptr
        PROVE  heap'[x] # Freed <=> \E o \in Owners : OwnedBy(o)' = x
    <3>1. CASE x = q
      BY <3>1, <1>6, <1>8, <2>1, <2>2
    <3>2. CASE x # q /\ x = e.buffptr
      <4>1. \A o \in Owners : OwnedBy(o) = x => o = N
        BY <3>2, <2>2, <2>3
      <4>2. \A o \in Owners : OwnedBy(o)' # x
        BY <3>2, <4>1, <2>1
      <4> QED
        BY <3>2, <4>2, <1>6
    <3>3. CASE x # q /\ x # e.buffptr
      <4>1. heap'[x] = heap[x]
        BY <3>3, <1>6
      <4>2. \A o \in Owners : OwnedBy(o)' = x <=> OwnedBy(o) = x
        <5> TAKE o \in Owners
        <5>1. CASE o = N
          BY <5>1, <3>3, <2>1, <2>2
        <5>2. CASE o # N
          BY <5>2, <2>1
        <5> QED
          BY <5>1, <5>2
      <4> HIDE DEF e
      <4> QED
        BY <4>1, <4>2, <2>3
    <3> QED
      BY <3>1, <3>2, <3>3
  <2>5. ASSUME NEW o1 \in Owners, NEW o2 \in Owners,
               OwnedBy(o1)' = OwnedBy(o2)', OwnedBy(o1)' \in Ptr
        PROVE  o1 = o2
    <3>1. \A o \in Owners : o # N => OwnedBy(o)' = OwnedBy(o)
      BY <2>1
    <3>2. q \in Ptr => \A o \in Owners : OwnedBy(o) # q
      BY <1>5, <2>3, ConstantsAssumption
    <3> QED
      BY <2>1, <2>3, <2>5, <3>1, <3>2
  <2> QED
    BY <1>2, <1>3, <2>4, <2>5 DEF HeapExact, Live, Owners
<1> QED
  BY <1>11, <1>12, <1>13, <1>14, <1>15, <1>17, <1>18, <1>19 DEF Inv

(* A copy into the current entry's buffer disturbs no other buffer.        *)
LEMMA CopyInFacts ==
  ASSUME Inv, NEW p \in Proc, pc[p] = "copy_from",
         NEW n \in 0..Len(req[p].data), heap' = CopyIn(p, n)
  PROVE  /\ heap' \in [Ptr -> Seq(Byte) \cup {Freed}]
         /\ \A x \in Ptr : heap'[x] # Freed <=> heap[x] # Freed
         /\ \A x \in Ptr : x # current_entry.buffptr => heap'[x] = heap[x]
         /\ current_entry.buffptr \in Ptr =>
               /\ Len(heap'[current_entry.buffptr]) = current_entry.size + n
               /\ heap'[current_entry.buffptr] =
                     Bytes(current_entry) \o SubSeq(req[p].data, 1, n)
               /\ SubSeq(heap'[current_entry.buffptr], 1, current_entry.size)
                     = Bytes(current_entry)
<1> DEFINE e == current_entry
           d == SubSeq(req[p].data, 1, n)
<1>1. Live /\ req[p].data \in Seq(Byte)
  BY WriterAlone
<1>2. e.size \in Nat /\ Bytes(e) \in Seq(Byte) /\ Len(Bytes(e)) = e.size
  BY <1>1, CurrentBytes
<1>3. d \in Seq(Byte) /\ Len(d) = n
  <2>1. \A i \in 1..n : req[p].data[i] \in Byte
    BY <1>1
  <2>2. n \in Int /\ n >= 0
    BY <1>1
  <2> QED
    BY <2>1, <2>2, SubSeqProperties
<1>4. Bytes(e) \o d \in Seq(Byte) /\ Len(Bytes(e) \o d) = e.size + n
  BY <1>2, <1>3, ConcatProperties
<1>5. heap \in [Ptr -> Seq(Byte) \cup {Freed}]
  BY DEF Inv, TypeOK
<1>8. SubSeq(Bytes(e) \o d, 1, e.size) = Bytes(e)
  <2> HIDE DEF d
  <2>1. SubSeq(Bytes(e) \o d, 1, e.size) = SubSeq(Bytes(e), 1, e.size)
    BY <1>2, <1>3, SubSeqOfConcat1
  <2>2. SubSeq(Bytes(e), 1, Len(Bytes(e))) = Bytes(e)
    BY <1>2, SubSeqFull
  <2> QED
    BY <1>2, <2>1, <2>2
<1>6. CASE e.buffptr \in Ptr
  <2>1. heap' = [heap EXCEPT ![e.buffptr] = Bytes(e) \o d]
    BY <1>6 DEF CopyIn
  <2>2. heap[e.buffptr] # Freed
    BY <1>1, <1>6, ConstantsAssumption DEF Inv, Current, Holds
  <2>3. Bytes(e) \o d # Freed
    BY <1>4, ConstantsAssumption
  <2>4. /\ heap'[e.buffptr] = Bytes(e) \o d
        /\ \A x \in Ptr : x # e.buffptr => heap'[x] = heap[x]
    BY <1>5, <1>6, <2>1
  <2>5. heap' \in [Ptr -> Seq(Byte) \cup {Freed}]
    BY <1>4, <1>5, <2>1
  <2> HIDE DEF d
  <2>6. \A x \in Ptr : heap'[x] # Freed <=> heap[x] # Freed
    BY <2>2, <2>3, <2>4
  <2> QED
    BY <1>4, <1>8, <2>4, <2>5, <2>6 DEF d
<1>7. CASE e.buffptr \notin Ptr
  BY <1>5, <1>7 DEF CopyIn
<1> QED
  BY <1>6, <1>7

(* So it keeps the ring, and the ownership of memory, as they were.        *)
LEMMA CopyInKeeps ==
  ASSUME Inv, NEW p \in Proc, pc[p] = "copy_from",
         NEW n \in 0..Len(req[p].data), heap' = CopyIn(p, n),
         UNCHANGED <<cdev, ring, current_entry>>
  PROVE  /\ RingShape' /\ HeapExact'
         /\ (\/ Holds(current_entry)
             \/ current_entry.buffptr \in {NULL, ZERO_SIZE_PTR} /\ current_entry.size = 0)'
<1> USE ConstantsAssumption
<1>1. Live /\ Len(req[p].data) \in Nat
  BY WriterAlone
<1>2. RingShape'
  <2>1. ASSUME NEW i \in Slots, Holds(ring.entry[i]) PROVE Holds(ring.entry[i])'
    <3>1. ring.entry[i].buffptr \in Ptr /\ ring.entry[i].buffptr # current_entry.buffptr
      BY <1>1, <2>1, OwnersApart DEF Holds
    <3>2. heap'[ring.entry[i].buffptr] = heap[ring.entry[i].buffptr]
      BY <3>1, CopyInFacts
    <3> QED
      BY <2>1, <3>2 DEF Holds
  <2> QED
    BY <1>1, <2>1 DEF Inv, RingShape, Live, Occupied
<1>3. HeapExact'
  <2>1. \A x \in Ptr : heap'[x] # Freed <=> heap[x] # Freed
    BY CopyInFacts
  <2>2. \A o \in Owners : OwnedBy(o)' = OwnedBy(o)
    BY DEF OwnedBy
  <2> QED
    BY <1>1, <2>1, <2>2 DEF Inv, HeapExact, Live
<1>4. (\/ Holds(current_entry)
       \/ current_entry.buffptr \in {NULL, ZERO_SIZE_PTR} /\ current_entry.size = 0)'
  <2>1. CASE Holds(current_entry)
    <3>1. heap'[current_entry.buffptr] # Freed
      BY <2>1, CopyInFacts DEF Holds
    <3>2. Len(heap'[current_entry.buffptr]) = current_entry.size + n
      BY <2>1, CopyInFacts DEF Holds
    <3>3. current_entry.size \in Nat /\ n \in Nat
      BY <1>1, CurrentBytes
    <3> QED
      BY <2>1, <3>1, <3>2, <3>3 DEF Holds
  <2> QED
    BY <1>1, <2>1 DEF Inv, Current
<1> QED
  BY <1>2, <1>3, <1>4

(* A complete copy from user space puts the bytes behind the old ones.     *)
LEMMA WriteCopyInv == ASSUME Inv, NEW p \in Proc, WriteCopy(p) PROVE Inv'
<1> DEFINE n == Len(req[p].data)
<1> USE ConstantsAssumption
<1>1. /\ pc[p] = "copy_from" /\ heap' = CopyIn(p, n) /\ pc' = [pc EXCEPT ![p] = "append"]
      /\ UNCHANGED <<cdev, ring, current_entry, mutex, opened, fpos, req, filp, pos, loop, ret>>
  BY DEF WriteCopy, callVars
<1>2. /\ Live /\ mutex = p /\ req[p] \in WriteReq /\ n \in Nat
      /\ \A r \in Proc : r # p => pc[r] \notin Critical
  BY <1>1, WriterAlone
<1>3. n \in 0..n
  BY <1>2
<1>4. /\ heap' \in [Ptr -> Seq(Byte) \cup {Freed}]
      /\ current_entry.buffptr \in Ptr =>
            /\ Len(heap'[current_entry.buffptr]) = current_entry.size + n
            /\ heap'[current_entry.buffptr] = Bytes(current_entry) \o SubSeq(req[p].data, 1, n)
            /\ SubSeq(heap'[current_entry.buffptr], 1, current_entry.size)
                  = Bytes(current_entry)
  <2> HIDE DEF n
  <2> QED
    BY <1>1, <1>3, CopyInFacts DEF n
<1>5. /\ RingShape' /\ HeapExact'
      /\ (\/ Holds(current_entry)
          \/ current_entry.buffptr \in {NULL, ZERO_SIZE_PTR} /\ current_entry.size = 0)'
  BY <1>1, <1>3, CopyInKeeps
<1>6. \A r \in Proc : r # p => pc'[r] = pc[r]
  BY <1>1 DEF Inv, TypeOK
<1>7. pc'[p] = "append"
  BY <1>1 DEF Inv, TypeOK
<1>8. TypeOK'
  BY <1>1, <1>4 DEF Inv, TypeOK, Critical
<1>9. Calls'
  BY <1>1, <1>2, <1>6, <1>7 DEF Inv, Calls
<1>10. Files'
  BY <1>1, <1>6, <1>7 DEF Inv, Files, InCall, Live
<1>11. Searching' /\ ReadSafe'
  BY <1>2, <1>6, <1>7 DEF Searching, ReadSafe, Critical
<1>12. LockDiscipline'
  BY <1>1, <1>2, <1>6, <1>7 DEF LockDiscipline, Critical, Inv
<1>13. Current'
  <2>1. current_entry.buffptr \in Ptr \/ n = 0
    BY <1>1 DEF Inv, Current
  <2>2. current_entry.size + n <= current_entry.size + n
    BY <1>2, CurrentBytes
  <2>3. SubSeq(req[p].data, 1, n) = req[p].data
    BY <1>1, WriterAlone, SubSeqFull
  <2>4. \A r \in Proc : pc'[r] \in {"copy_from", "append"} => r = p
    BY <1>2, <1>6, <1>7 DEF Critical
  <2>5. current_entry.buffptr \in Ptr =>
           /\ current_entry.size + n <= Len(heap'[current_entry.buffptr])
           /\ heap'[current_entry.buffptr] =
                 SubSeq(heap'[current_entry.buffptr], 1, current_entry.size) \o req[p].data
    BY <1>4, <2>2, <2>3
  <2> QED
    BY <1>1, <1>5, <2>1, <2>4, <2>5 DEF Current
<1> QED
  BY <1>5, <1>8, <1>9, <1>10, <1>11, <1>12, <1>13 DEF Inv

(* A faulting copy leaves an entry whose size its memory covers.           *)
LEMMA WriteFaultInv == ASSUME Inv, NEW p \in Proc, WriteFault(p) PROVE Inv'
<1> USE ConstantsAssumption
<1>1. PICK err \in 1..Len(req[p].data) :
         heap' = CopyIn(p, Len(req[p].data) - err) /\ Leave(p, Value(err))
  BY DEF WriteFault
<1>2. /\ pc[p] = "copy_from"
      /\ UNCHANGED <<cdev, ring, current_entry, opened, fpos, req, filp, pos>>
  BY DEF WriteFault, callVars
<1>3. /\ Live /\ mutex = p /\ Len(req[p].data) \in Nat
      /\ \A r \in Proc : r # p => pc[r] \notin Critical
  BY <1>2, WriterAlone
<1>4. Len(req[p].data) - err \in 0..Len(req[p].data)
  BY <1>3
<1>5. heap' \in [Ptr -> Seq(Byte) \cup {Freed}]
  BY <1>1, <1>2, <1>4, CopyInFacts
<1>6. /\ RingShape' /\ HeapExact'
      /\ (\/ Holds(current_entry)
          \/ current_entry.buffptr \in {NULL, ZERO_SIZE_PTR} /\ current_entry.size = 0)'
  BY <1>1, <1>2, <1>4, CopyInKeeps
<1>7. \A r \in Proc : r # p => pc'[r] = pc[r]
  BY <1>1 DEF Leave, Inv, TypeOK
<1>8. pc'[p] = "return"
  BY <1>1 DEF Leave, Inv, TypeOK
<1>9. TypeOK'
  BY <1>1, <1>2, <1>5 DEF Inv, TypeOK, Leave, Value
<1>10. Calls'
  BY <1>1, <1>2, <1>7, <1>8 DEF Inv, Calls, Leave, TypeOK
<1>11. Files'
  BY <1>2, <1>7, <1>8 DEF Inv, Files, InCall, Live
<1>12. Searching' /\ ReadSafe'
  BY <1>3, <1>7, <1>8 DEF Searching, ReadSafe, Critical
<1>13. LockDiscipline'
  BY <1>1, <1>3, <1>7, <1>8 DEF LockDiscipline, Critical, Leave
<1>14. Current'
  BY <1>3, <1>6, <1>7, <1>8 DEF Current, Critical
<1> QED
  BY <1>6, <1>9, <1>10, <1>11, <1>12, <1>13, <1>14 DEF Inv

(* A command that has bytes has a buffer that holds them all.              *)
LEMMA GrownHolds ==
  ASSUME Inv, NEW p \in Proc, pc[p] = "append", Grown(p).size > 0
  PROVE  /\ Grown(p) \in Entry
         /\ Grown(p).buffptr = current_entry.buffptr
         /\ Holds(Grown(p))
<1> USE ConstantsAssumption
<1>1. Live /\ Len(req[p].data) \in Nat
  BY WriterAlone
<1>2. current_entry.size \in Nat
  BY <1>1, CurrentBytes
<1>3. current_entry.buffptr \in Ptr
  BY <1>1, <1>2 DEF Inv, Current, Holds, Grown
<1>4. /\ heap[current_entry.buffptr] # Freed
      /\ current_entry.size + Len(req[p].data) <= Len(heap[current_entry.buffptr])
  BY <1>1, <1>3 DEF Inv, Current, Holds
<1> QED
  BY <1>1, <1>2, <1>3, <1>4 DEF Grown, Holds, Entry

(* Counting in the bytes of a command that stays open.                     *)
LEMMA WriteAppendInv == ASSUME Inv, NEW p \in Proc, WriteAppend(p) PROVE Inv'
<1> USE ConstantsAssumption
<1>1. /\ pc[p] = "append" /\ Grown(p).size > 0 /\ current_entry' = Grown(p)
      /\ Leave(p, Value(Len(req[p].data)))
      /\ UNCHANGED <<cdev, ring, heap, opened, fpos, req, filp, pos>>
  BY DEF WriteAppend, callVars
<1>2. /\ Live /\ mutex = p /\ Len(req[p].data) \in Nat
      /\ \A r \in Proc : r # p => pc[r] \notin Critical
  BY <1>1, WriterAlone
<1>3. Grown(p) \in Entry /\ Grown(p).buffptr = current_entry.buffptr /\ Holds(Grown(p))
  BY <1>1, GrownHolds
<1>4. \A r \in Proc : r # p => pc'[r] = pc[r]
  BY <1>1 DEF Leave, Inv, TypeOK
<1>5. pc'[p] = "return"
  BY <1>1 DEF Leave, Inv, TypeOK
<1>6. TypeOK'
  BY <1>1, <1>2, <1>3 DEF Inv, TypeOK, Leave, Value
<1>7. Calls'
  BY <1>1, <1>4, <1>5 DEF Inv, Calls, Leave, TypeOK
<1>8. Files'
  BY <1>1, <1>4, <1>5 DEF Inv, Files, InCall, Live
<1>9. Searching' /\ ReadSafe'
  BY <1>2, <1>4, <1>5 DEF Searching, ReadSafe, Critical
<1>10. LockDiscipline'
  BY <1>1, <1>2, <1>4, <1>5 DEF LockDiscipline, Critical, Leave
<1>11. RingShape'
  BY <1>1 DEF Inv, RingShape, Live, Occupied, Holds
<1>12. Current'
  <2>1. Holds(current_entry)'
    BY <1>1, <1>3 DEF Holds
  <2> QED
    BY <1>2, <1>4, <1>5, <2>1 DEF Current, Critical
<1>13. HeapExact'
  <2>1. \A o \in Owners : OwnedBy(o)' = OwnedBy(o)
    BY <1>1, <1>3 DEF OwnedBy
  <2> QED
    BY <1>1, <2>1 DEF Inv, HeapExact, Live
<1> QED
  BY <1>6, <1>7, <1>8, <1>9, <1>10, <1>11, <1>12, <1>13 DEF Inv

(* What aesd_circular_buffer_add_entry does to a well-formed ring.         *)
LEMMA AddEntryShape ==
  ASSUME NEW r \in [entry : [Slots -> Entry], in_offs : Slots, out_offs : Slots,
                    full : BOOLEAN],
         NEW e \in Entry,
         r.out_offs = IF r.full THEN r.in_offs ELSE 0
  PROVE  /\ AddEntry(r, e) \in [entry : [Slots -> Entry], in_offs : Slots,
                                out_offs : Slots, full : BOOLEAN]
         /\ AddEntry(r, e).out_offs =
               IF AddEntry(r, e).full THEN AddEntry(r, e).in_offs ELSE 0
         /\ AddEntry(r, e).entry = [r.entry EXCEPT ![r.in_offs] = e]
         /\ \A i \in Slots : (AddEntry(r, e).full \/ i < AddEntry(r, e).in_offs)
               <=> (r.full \/ i < r.in_offs \/ i = r.in_offs)
<1> DEFINE wraps == r.in_offs + 1 >= N
           in == IF wraps THEN 0 ELSE r.in_offs + 1
           full == r.full \/ wraps
<1>1. r.in_offs \in Slots /\ r.full \in BOOLEAN /\ r.out_offs \in Slots
  OBVIOUS
<1>2. in \in Slots /\ 0 \in Slots /\ full \in BOOLEAN
  BY <1>1, NAssumption DEF Slots
<1>3. AddEntry(r, e) = [entry    |-> [r.entry EXCEPT ![r.in_offs] = e],
                        in_offs  |-> in,
                        out_offs |-> IF full THEN in ELSE r.out_offs,
                        full     |-> full]
  BY DEF AddEntry
<1>4. \A i \in Slots : (full \/ i < in) <=> (r.full \/ i < r.in_offs \/ i = r.in_offs)
  BY <1>1, NAssumption DEF Slots
<1>5. ~full => r.out_offs = 0
  BY <1>1
<1>6. [r.entry EXCEPT ![r.in_offs] = e] \in [Slots -> Entry]
  BY <1>1
<1> HIDE DEF in, full
<1> QED
  BY <1>1, <1>2, <1>3, <1>4, <1>5, <1>6

(* Storing a command, and freeing the one it displaces.                    *)
LEMMA WriteCommitInv == ASSUME Inv, NEW p \in Proc, WriteCommit(p) PROVE Inv'
<1> DEFINE g == Grown(p)
<1> USE NAssumption, ConstantsAssumption
<1>1. /\ pc[p] = "append" /\ g.size > 0 /\ current_entry' = NullEntry
      /\ heap' = [q \in Ptr |-> IF q \in Evicted THEN Freed ELSE heap[q]]
      /\ ring' = AddEntry(ring, g)
      /\ Leave(p, Value(Len(req[p].data)))
      /\ UNCHANGED <<cdev, opened, fpos, req, filp, pos>>
  BY DEF WriteCommit, callVars
<1>2. /\ Live /\ mutex = p /\ Len(req[p].data) \in Nat
      /\ \A r \in Proc : r # p => pc[r] \notin Critical
  BY <1>1, WriterAlone
<1>3. g \in Entry /\ g.buffptr = current_entry.buffptr /\ Holds(g)
  BY <1>1, GrownHolds
<1>0. PICK in \in Slots : in = ring.in_offs
  BY DEF Inv, TypeOK
<1>4. /\ in = ring.in_offs /\ ring.entry \in [Slots -> Entry]
      /\ ring \in [entry : [Slots -> Entry], in_offs : Slots, out_offs : Slots, full : BOOLEAN]
      /\ ring.out_offs = IF ring.full THEN in ELSE 0
  BY <1>0, <1>2 DEF Inv, TypeOK, RingShape
<1>5. /\ ring' \in [entry : [Slots -> Entry], in_offs : Slots, out_offs : Slots, full : BOOLEAN]
      /\ ring'.out_offs = IF ring'.full THEN ring'.in_offs ELSE 0
      /\ ring'.entry = [ring.entry EXCEPT ![in] = g]
      /\ \A i \in Slots : (ring'.full \/ i < ring'.in_offs)
            <=> (ring.full \/ i < in \/ i = in)
  BY <1>1, <1>3, <1>4, AddEntryShape
<1>6. \A i \in Slots : ring'.entry[i] = IF i = in THEN g ELSE ring.entry[i]
  BY <1>4, <1>5
<1>7. /\ ring.full => Holds(ring.entry[in]) /\ Evicted = {ring.entry[in].buffptr}
      /\ ~ring.full => ring.entry[in] = NullEntry /\ Evicted = {}
  <2>1. ~(in < in)
    BY <1>4 DEF Slots
  <2> QED
    BY <2>1, <1>2, <1>4 DEF Inv, RingShape, Occupied, Evicted
<1>8. \A x \in Ptr : heap'[x] = IF ring.full /\ x = ring.entry[in].buffptr
                                THEN Freed ELSE heap[x]
  BY <1>1, <1>7
<1>9. \A r \in Proc : r # p => pc'[r] = pc[r]
  BY <1>1 DEF Leave, Inv, TypeOK
<1>10. pc'[p] = "return"
  BY <1>1 DEF Leave, Inv, TypeOK
<1>11. TypeOK'
  <2>1. heap' \in [Ptr -> Seq(Byte) \cup {Freed}]
    BY <1>1 DEF Inv, TypeOK
  <2>2. NullEntry \in Entry
    BY DEF NullEntry, Entry
  <2> QED
    BY <1>1, <1>2, <1>5, <2>1, <2>2 DEF Inv, TypeOK, Leave, Value
<1>12. Calls'
  BY <1>1, <1>9, <1>10 DEF Inv, Calls, Leave, TypeOK
<1>13. Files'
  BY <1>1, <1>9, <1>10 DEF Inv, Files, InCall, Live
<1>14. Searching' /\ ReadSafe'
  BY <1>2, <1>9, <1>10 DEF Searching, ReadSafe, Critical
<1>15. LockDiscipline'
  BY <1>1, <1>2, <1>9, <1>10 DEF LockDiscipline, Critical, Leave
<1>16. /\ \A i \in Slots : ring.entry[i].buffptr \in Ptr =>
             ring.entry[i].buffptr # current_entry.buffptr
       /\ \A i, j \in Slots : ring.entry[i].buffptr \in Ptr /\ i # j =>
             ring.entry[i].buffptr # ring.entry[j].buffptr
  BY <1>2, OwnersApart
<1>17. RingShape'
  <2>1. ASSUME NEW i \in Slots, ring.full \/ i < in \/ i = in
        PROVE  /\ ring'.entry[i].buffptr \in Ptr
               /\ heap'[ring'.entry[i].buffptr] # Freed
               /\ ring'.entry[i].size <= Len(heap'[ring'.entry[i].buffptr])
               /\ ring'.entry[i].size > 0
    <3>1. CASE i = in
      <4>1. heap'[g.buffptr] = heap[g.buffptr]
        BY <1>3, <1>4, <1>7, <1>8, <1>16 DEF Holds
      <4> QED
        BY <1>1, <1>3, <1>6, <3>1, <4>1 DEF Holds
    <3>2. CASE i # in
      <4>1. Holds(ring.entry[i]) /\ ring.entry[i].size > 0
        BY <1>2, <1>4, <2>1, <3>2 DEF Inv, RingShape, Occupied
      <4>2. heap'[ring.entry[i].buffptr] = heap[ring.entry[i].buffptr]
        BY <1>4, <1>8, <1>16, <3>2, <4>1 DEF Holds
      <4> QED
        BY <1>6, <3>2, <4>1, <4>2 DEF Holds
    <3> QED
      BY <3>1, <3>2
  <2>2. ASSUME NEW i \in Slots, ~(ring.full \/ i < in \/ i = in)
        PROVE  ring'.entry[i] = NullEntry
    BY <1>2, <1>4, <1>6, <2>2 DEF Inv, RingShape, Occupied
  <2> QED
    BY <1>5, <2>1, <2>2 DEF RingShape, Occupied, Holds
<1>18. Current'
  BY <1>1, <1>2, <1>9, <1>10 DEF Current, Critical, NullEntry
<1>19. HeapExact'
  <2>1. /\ \A o \in Slots : o \in Owners /\ o # N /\ OwnedBy(o) = ring.entry[o].buffptr
        /\ N \in Owners /\ OwnedBy(N) = current_entry.buffptr
        /\ \A o \in Owners : o = N \/ o \in Slots
    BY OwnersAre
  <2>2. \A o \in Owners : OwnedBy(o)' = IF o = N THEN NULL
                                      ELSE IF o = in THEN g.buffptr ELSE OwnedBy(o)
    BY <1>1, <1>6, <2>1 DEF OwnedBy, NullEntry
  <2>3. /\ \A x \in Ptr : heap[x] # Freed <=> \E o \in Owners : OwnedBy(o) = x
        /\ \A o1, o2 \in Owners :
              OwnedBy(o1) = OwnedBy(o2) /\ OwnedBy(o1) \in Ptr => o1 = o2
    BY <1>2 DEF Inv, HeapExact
  <2>4. ~ring.full => OwnedBy(in) \notin Ptr
    BY <1>4, <1>7, <2>1 DEF NullEntry
  <2>5. ASSUME NEW x \in Ptr
        PROVE  heap'[x] # Freed <=> \E o \in Owners : OwnedBy(o)' = x
    <3>1. CASE x = OwnedBy(in)
      <4>1. heap'[x] = Freed
        BY <1>4, <1>8, <2>1, <2>4, <3>1
      <4>2. \A o \in Owners : OwnedBy(o)' # x
        BY <1>3, <1>4, <2>1, <2>2, <2>3, <3>1
      <4> QED
        BY <4>1, <4>2
    <3>2. CASE x = g.buffptr /\ x # OwnedBy(in)
      <4>1. heap'[x] # Freed
        BY <1>3, <1>4, <1>8, <2>1, <3>2 DEF Holds
      <4>2. in \in Owners /\ OwnedBy(in)' = x
        BY <1>4, <2>1, <2>2, <3>2
      <4> QED
        BY <4>1, <4>2
    <3>3. CASE x # g.buffptr /\ x # OwnedBy(in)
      <4>1. heap'[x] = heap[x]
        BY <1>4, <1>8, <2>1, <3>3
      <4>2. \A o \in Owners : OwnedBy(o)' = x <=> OwnedBy(o) = x
        BY <1>3, <1>4, <2>1, <2>2, <3>3
      <4> QED
        BY <4>1, <4>2, <2>3
    <3> QED
      BY <3>1, <3>2, <3>3
  <2>6. ASSUME NEW o1 \in Owners, NEW o2 \in Owners,
               OwnedBy(o1)' = OwnedBy(o2)', OwnedBy(o1)' \in Ptr
        PROVE  o1 = o2
    <3>1. o1 # N /\ o2 # N
      BY <2>2, <2>6
    <3>2. \A o \in Owners : o # N => OwnedBy(o) # g.buffptr
      <4>1. g.buffptr \in Ptr /\ OwnedBy(N) = g.buffptr /\ N \in Owners
        BY <1>3, <2>1 DEF Holds
      <4>2. \A o \in Owners : OwnedBy(o) = OwnedBy(N) /\ OwnedBy(o) \in Ptr => o = N
        BY <4>1, <2>3
      <4> QED
        BY <4>1, <4>2
    <3> QED
      BY <2>2, <2>3, <2>6, <3>1, <3>2
  <2> QED
    BY <1>1, <1>2, <2>5, <2>6 DEF HeapExact, Live, Owners
<1> QED
  BY <1>11, <1>12, <1>13, <1>14, <1>15, <1>17, <1>18, <1>19 DEF Inv

(* A process that dies in a write keeps the mutex and changes nothing.     *)
LEMMA WriteOopsInv == ASSUME Inv, NEW p \in Proc, WriteOops(p) PROVE Inv'
<1> USE ConstantsAssumption DEF WriteOops, devVars, callVars
<1>1. TypeOK'
  BY DEF Inv, TypeOK
<1>2. Calls'
  BY DEF Inv, Calls, TypeOK
<1>3. Searching' /\ ReadSafe'
  BY DEF Inv, Searching, ReadSafe, NewEntry, TypeOK
<1>4. Files'
  BY DEF Inv, Files, InCall, Live, TypeOK
<1>5. LockDiscipline'
  BY DEF Inv, LockDiscipline, Critical, TypeOK
<1>6. RingShape' /\ HeapExact'
  BY DEF Inv, RingShape, HeapExact, Live, OwnedBy, Holds, Occupied
<1>7. Current'
  BY DEF Inv, Current, Live, Holds, TypeOK
<1> QED
  BY <1>1, <1>2, <1>3, <1>4, <1>5, <1>6, <1>7 DEF Inv

(* aesd_llseek and aesd_unlocked_ioctl.                                    *)

(* Both start and run the summing loop without touching the device.        *)
LEMMA SumInv ==
  ASSUME Inv, NEW p \in Proc, pc[p] \in {"llseek", "ioctl", "sum"},
         req[p] \in LlseekReq \cup IoctlReq,
         req[p].op = "llseek" => req[p].arg.whence = "SEEK_END",
         NEW s \in SumState,
         pc' = [pc EXCEPT ![p] = "sum"], loop' = [loop EXCEPT ![p] = s],
         UNCHANGED <<cdev, devVars, mutex, opened, fpos, callVars, ret>>
  PROVE  Inv'
<1> USE ConstantsAssumption DEF devVars, callVars
<1>1. TypeOK'
  BY DEF Inv, TypeOK, Critical
<1>2. Calls'
  BY DEF Inv, Calls, TypeOK
<1>3. Searching' /\ ReadSafe'
  BY DEF Inv, Searching, ReadSafe, NewEntry, TypeOK
<1>4. Files'
  BY DEF Inv, Files, InCall, Live, TypeOK
<1>5. LockDiscipline'
  BY DEF Inv, LockDiscipline, Critical, TypeOK
<1>6. RingShape' /\ HeapExact'
  BY DEF Inv, RingShape, HeapExact, Live, OwnedBy, Holds, Occupied
<1>7. Current'
  BY DEF Inv, Current, Live, Holds, TypeOK
<1> QED
  BY <1>1, <1>2, <1>3, <1>4, <1>5, <1>6, <1>7 DEF Inv

(* The uint8_t difference in_offs - out_offs is never negative.            *)
LEMMA NumEntriesNat ==
  ASSUME Inv, NEW p \in Proc, InCall(p)
  PROVE  /\ NumEntries(ring) = IF ring.full THEN N ELSE ring.in_offs
         /\ NumEntries(ring) \in 0..N
<1>1. /\ ring.in_offs \in 0..(N - 1) /\ ring.full \in BOOLEAN
      /\ ring.out_offs = IF ring.full THEN ring.in_offs ELSE 0
  BY DEF Inv, TypeOK, Slots, RingShape, Files
<1> QED
  BY <1>1, NAssumption DEF NumEntries

(* The common end of aesd_llseek keeps the invariant.                      *)
LEMMA SetPositionInv ==
  ASSUME Inv, NEW p \in Proc, pc[p] \in Critical, NEW newpos \in Int,
         SetPosition(p, newpos), UNCHANGED <<cdev, devVars, opened, callVars>>
  PROVE  Inv'
<1>1. Value(newpos) \in Result /\ Value(-EINVAL) \in Result
  BY DEF Value, Result, EINVAL
<1>2. UNCHANGED <<cdev, devVars, opened, req, filp>> /\ pos' \in [Proc -> Nat]
  BY DEF callVars, Inv, TypeOK
<1>3. fpos' \in [File -> Nat]
  <2>1. fpos \in [File -> Nat]
    BY DEF Inv, TypeOK
  <2>2. newpos < 0 \/ newpos \in Nat
    OBVIOUS
  <2>3. fpos' = fpos \/ (newpos >= 0 /\ fpos' = [fpos EXCEPT ![filp[p]] = newpos])
    BY DEF SetPosition
  <2> QED
    BY <2>1, <2>2, <2>3
<1>4. \E v \in Result : Leave(p, v)
  BY <1>1 DEF SetPosition
<1> QED
  BY <1>2, <1>3, <1>4, LeaveInv

(* The switch on whence keeps the invariant.                               *)
LEMMA LlseekSwitchInv == ASSUME Inv, NEW p \in Proc, LlseekSwitch(p) PROVE Inv'
<1> DEFINE arg == req[p].arg
<1>1. /\ pc[p] = "llseek" /\ req[p] \in LlseekReq /\ pc[p] \in Critical /\ InCall(p)
      /\ UNCHANGED <<cdev, devVars, opened, callVars>>
  BY DEF LlseekSwitch, Inv, Calls, Critical, InCall
<1>2. arg.offset \in Int
  BY <1>1, ConstantsAssumption DEF LlseekReq
<1>3. fpos[filp[p]] + arg.offset \in Int
  BY <1>2 DEF Inv, TypeOK
<1>4. CASE SetPosition(p, arg.offset) \/ SetPosition(p, fpos[filp[p]] + arg.offset)
  BY <1>1, <1>2, <1>3, <1>4, SetPositionInv
<1>5. CASE /\ pc' = [pc EXCEPT ![p] = "sum"]
           /\ loop' = [loop EXCEPT ![p] = SumStart(ring, NumEntries(ring))]
           /\ UNCHANGED <<mutex, fpos, ret>>
           /\ arg.whence = "SEEK_END"
  <2>1. SumStart(ring, NumEntries(ring)) \in SumState
    <3>1. NumEntries(ring) \in Nat
      BY <1>1, NumEntriesNat, NAssumption
    <3> QED
      BY <3>1 DEF SumStart, SumState, Inv, TypeOK
  <2> QED
    BY <1>1, <1>5, <2>1, SumInv
<1>6. CASE Leave(p, Value(-EINVAL)) /\ UNCHANGED fpos
  <2>1. Value(-EINVAL) \in Result
    BY DEF Value, Result, EINVAL
  <2>2. fpos' \in [File -> Nat] /\ pos' \in [Proc -> Nat]
    BY <1>1, <1>6 DEF callVars, Inv, TypeOK
  <2>3. UNCHANGED <<cdev, devVars, opened, req, filp>>
    BY <1>1 DEF callVars
  <2> QED
    BY <1>1, <1>6, <2>1, <2>2, <2>3, LeaveInv
<1> QED
  BY <1>4, <1>5, <1>6 DEF LlseekSwitch

(* So does the end of SEEK_END.                                            *)
LEMMA LlseekEndInv == ASSUME Inv, NEW p \in Proc, LlseekEnd(p) PROVE Inv'
<1>1. /\ pc[p] = "sum" /\ pc[p] \in Critical /\ req[p] \in LlseekReq /\ loop[p] \in SumState
      /\ UNCHANGED <<cdev, devVars, opened, callVars>>
      /\ SetPosition(p, loop[p].sum + req[p].arg.offset)
  BY DEF LlseekEnd, Inv, Calls, Critical, IoctlReq
<1>2. loop[p].sum + req[p].arg.offset \in Int
  <2>1. req[p].arg.offset \in Int /\ loop[p].sum \in Nat
    BY <1>1, ConstantsAssumption DEF LlseekReq, SumState
  <2> QED
    BY <2>1
<1> QED
  BY <1>1, <1>2, SetPositionInv

(* An iteration of the summing loop keeps its index in the array.          *)
LEMMA SumStepInv == ASSUME Inv, NEW p \in Proc, SumStep(p) PROVE Inv'
<1>1. /\ pc[p] = "sum" /\ loop[p] \in SumState /\ req[p] \in LlseekReq \cup IoctlReq
      /\ req[p].op = "llseek" => req[p].arg.whence = "SEEK_END"
      /\ loop[p].left > 0
      /\ loop' = [loop EXCEPT ![p] = SumIterate(ring, loop[p])]
      /\ UNCHANGED <<cdev, devVars, mutex, opened, fpos, pc, callVars, ret>>
  BY DEF SumStep, Inv, Calls
<1>2. pc' = [pc EXCEPT ![p] = "sum"]
  BY <1>1 DEF Inv, TypeOK
<1>3. SumIterate(ring, loop[p]) \in SumState
  <2>1. /\ loop[p].left \in Nat /\ loop[p].index \in Slots /\ loop[p].sum \in Nat
        /\ ring.entry \in [Slots -> Entry]
    BY <1>1 DEF SumState, Inv, TypeOK
  <2>2. ring.entry[loop[p].index].size \in Nat
    BY <2>1 DEF Entry
  <2>3. NextIndex(loop[p].index) \in Slots
    BY <2>1, NAssumption DEF NextIndex, Slots
  <2>4. loop[p].left - 1 \in Nat /\ loop[p].sum + ring.entry[loop[p].index].size \in Nat
    BY <1>1, <2>1, <2>2
  <2> QED
    BY <2>3, <2>4 DEF SumIterate, SumState
<1> QED
  BY <1>1, <1>2, <1>3, SumInv

(* Refusing an ioctl keeps the invariant.                                  *)
LEMMA IoctlRefuseInv == ASSUME Inv, NEW p \in Proc, IoctlRefuse(p) PROVE Inv'
<1>1. Value(-EINVAL) \in Result /\ pc[p] \in Critical
  BY DEF IoctlRefuse, Value, Result, EINVAL, Critical
<1>2. /\ fpos' \in [File -> Nat] /\ pos' \in [Proc -> Nat] /\ Leave(p, Value(-EINVAL))
      /\ UNCHANGED <<cdev, devVars, opened, req, filp>>
  BY DEF IoctlRefuse, callVars, Inv, TypeOK
<1> QED
  BY <1>1, <1>2, LeaveInv

(* Accepting a write_cmd that is in the ring keeps the invariant.          *)
LEMMA IoctlSeekToInv == ASSUME Inv, NEW p \in Proc, IoctlSeekTo(p) PROVE Inv'
<1>1. /\ pc[p] = "ioctl" /\ req[p] \in IoctlReq
      /\ pc' = [pc EXCEPT ![p] = "sum"]
      /\ loop' = [loop EXCEPT ![p] = SumStart(ring, req[p].arg.write_cmd)]
      /\ UNCHANGED <<cdev, devVars, mutex, opened, fpos, callVars, ret>>
  BY DEF IoctlSeekTo, Inv, Calls
<1>2. SumStart(ring, req[p].arg.write_cmd) \in SumState
  <2>1. req[p].arg.write_cmd \in Nat
    BY <1>1, ConstantsAssumption DEF IoctlReq
  <2> QED
    BY <2>1 DEF SumStart, SumState, Inv, TypeOK
<1> QED
  BY <1>1, <1>2, SumInv DEF IoctlReq

(* So does the end of AESDCHAR_IOCSEEKTO, accepted or refused.             *)
LEMMA IoctlEndInv == ASSUME Inv, NEW p \in Proc, IoctlEnd(p) PROVE Inv'
<1> DEFINE newpos == loop[p].sum + req[p].arg.write_cmd_offset
<1>1. /\ pc[p] = "sum" /\ pc[p] \in Critical /\ req[p] \in IoctlReq /\ loop[p] \in SumState
      /\ UNCHANGED <<cdev, devVars, opened, callVars>>
  BY DEF IoctlEnd, Inv, Calls, Critical, LlseekReq
<1>2. newpos \in Nat
  <2>1. req[p].arg.write_cmd_offset \in Nat /\ loop[p].sum \in Nat
    BY <1>1, ConstantsAssumption DEF IoctlReq, SumState
  <2> QED
    BY <2>1
<1>3. Value(newpos) \in Result /\ Value(-EINVAL) \in Result
  BY <1>2 DEF Value, Result, EINVAL
<1>4. \/ fpos' = fpos /\ Leave(p, Value(-EINVAL))
      \/ fpos' = [fpos EXCEPT ![filp[p]] = newpos] /\ Leave(p, Value(newpos))
  BY DEF IoctlEnd
<1>6. fpos' \in [File -> Nat]
  <2>1. fpos \in [File -> Nat]
    BY DEF Inv, TypeOK
  <2> HIDE DEF newpos
  <2> QED
    BY <1>2, <1>4, <2>1
<1>5. UNCHANGED <<cdev, devVars, opened, req, filp>> /\ pos' \in [Proc -> Nat]
  BY <1>1 DEF callVars, Inv, TypeOK
<1> QED
  BY <1>1, <1>3, <1>4, <1>5, <1>6, LeaveInv
-----------------------------------------------------------------------------
(* Every step preserves the invariant.                                     *)
LEMMA NextInv == Inv /\ [Next]_vars => Inv'
<1> SUFFICES ASSUME Inv, [Next]_vars PROVE Inv'
  OBVIOUS
<1>1. CASE Module
  BY <1>1, RegisterRegionInv, SetupCdevInv, CleanupInv DEF Module
<1>2. ASSUME NEW f \in File, Open(f) \/ Release(f) PROVE Inv'
  BY <1>2, OpenInv, ReleaseInv
<1>3. ASSUME NEW p \in Proc, NEW f \in File, NEW r \in Request, Enter(p, f, r) PROVE Inv'
  BY <1>3, EnterInv
<1>4. ASSUME NEW p \in Proc, Lock(p) \/ Interrupted(p) \/ Return(p) PROVE Inv'
  BY <1>4, LockInv, InterruptedInv, ReturnInv
<1>5. ASSUME NEW p \in Proc, Handler(p) PROVE Inv'
  BY <1>5, ReadFindInv, ReadCopyInv, WriteNoMemoryInv, WriteGrowInv, WriteCopyInv,
     WriteFaultInv, WriteAppendInv, WriteCommitInv, WriteOopsInv, LlseekSwitchInv,
     LlseekEndInv, SumStepInv, IoctlRefuseInv, IoctlSeekToInv, IoctlEndInv DEF Handler
<1>6. CASE UNCHANGED vars
  <2> USE <1>6 DEF vars, devVars, callVars
  <2>1. TypeOK'
    BY DEF Inv, TypeOK
  <2>2. Calls' /\ Searching' /\ LockDiscipline' /\ ReadSafe'
    BY DEF Inv, Calls, Searching, LockDiscipline, ReadSafe, NewEntry
  <2>3. Files'
    BY DEF Inv, Files, InCall, Live
  <2>4. RingShape' /\ Current' /\ HeapExact'
    BY DEF Inv, RingShape, Current, HeapExact, Live, OwnedBy, Holds, Occupied
  <2> QED
    BY <2>1, <2>2, <2>3, <2>4 DEF Inv
<1> QED
  BY <1>1, <1>2, <1>3, <1>4, <1>5, <1>6 DEF Next

(* The invariant holds in every reachable state of the driver.             *)
THEOREM Invariance == Spec => []Inv
  BY InitInv, NextInv, PTL DEF Spec

(* Every variable of the driver keeps its type: no index leaves the array, *)
(* no position becomes negative, no copy reads past the end of a buffer.   *)
THEOREM TypeCorrect == Spec => []TypeOK
<1>1. Inv => TypeOK
  BY DEF Inv
<1> QED
  BY <1>1, Invariance, PTL

(* Every path through aesd_read, aesd_write, aesd_llseek and               *)
(* aesd_unlocked_ioctl that takes device_mutex releases it, and none       *)
(* touches the device without it.                                          *)
THEOREM LockDisciplineHolds == Spec => []LockDiscipline
<1>1. Inv => LockDiscipline
  BY DEF Inv
<1> QED
  BY <1>1, Invariance, PTL

(* kmalloc and kfree are balanced: no leak, no double free, no dangling    *)
(* pointer, and nothing allocated once the module is unloaded.             *)
THEOREM HeapExactHolds == Spec => []HeapExact
<1>1. Inv => HeapExact
  BY DEF Inv
<1> QED
  BY <1>1, Invariance, PTL

(* The buffer aesd_read copies to user space from stays allocated, and the *)
(* bytes copied lie inside it, for as long as the copy takes.              *)
THEOREM ReadSafeHolds == Spec => []ReadSafe
<1>1. Inv => ReadSafe
  BY DEF Inv
<1> QED
  BY <1>1, Invariance, PTL
-----------------------------------------------------------------------------
(***************************************************************************)
(* The refinement.  The driver implements CommandLog: its ring, entries,   *)
(* buffers and lock behave as a log that each write extends in one step.   *)
(***************************************************************************)

(* The ring of a loaded module, spelled out.                               *)
LEMMA LiveRing ==
  ASSUME Inv, Live
  PROVE  /\ ring.in_offs \in 0..(N - 1) /\ ring.full \in BOOLEAN
         /\ ring.out_offs = IF ring.full THEN ring.in_offs ELSE 0
         /\ NumEntries(ring) = IF ring.full THEN N ELSE ring.in_offs
         /\ NumEntries(ring) \in 0..N
         /\ \A i \in 1..NumEntries(ring) : SlotOf(i) \in Slots /\ Occupied(SlotOf(i))
<1>1. /\ ring.in_offs \in 0..(N - 1) /\ ring.full \in BOOLEAN
      /\ ring.out_offs = IF ring.full THEN ring.in_offs ELSE 0
  BY DEF Inv, TypeOK, Slots, RingShape
<1>2. /\ NumEntries(ring) = IF ring.full THEN N ELSE ring.in_offs
      /\ NumEntries(ring) \in 0..N
  BY <1>1, NAssumption DEF NumEntries
<1>3. \A i \in 1..NumEntries(ring) : SlotOf(i) \in Slots /\ Occupied(SlotOf(i))
  BY <1>1, <1>2, NAssumption DEF SlotOf, Slots, Occupied
<1> QED
  BY <1>1, <1>2, <1>3

(* An entry that holds its memory stands for that many bytes.              *)
LEMMA HeldBytes ==
  ASSUME Inv, NEW e \in Entry, Holds(e)
  PROVE  /\ Bytes(e) = SubSeq(heap[e.buffptr], 1, e.size)
         /\ Bytes(e) \in Seq(Byte)
         /\ Len(Bytes(e)) = e.size
<1> DEFINE b == heap[e.buffptr]
<1>1. b \in Seq(Byte) /\ e.size \in Nat /\ e.size <= Len(b)
  BY DEF Holds, Inv, TypeOK, Entry
<1>2. Bytes(e) = SubSeq(b, 1, e.size)
  BY DEF Bytes, Holds
<1>3. \A i \in 1..e.size : b[i] \in Byte
  BY <1>1
<1> HIDE DEF b
<1>4. SubSeq(b, 1, e.size) \in Seq(Byte) /\ Len(SubSeq(b, 1, e.size)) = e.size
  BY <1>1, <1>3, SubSeqProperties
<1> QED
  BY <1>2, <1>4 DEF b

(* The log is a sequence of byte sequences.                                *)
LEMMA LogIsSeq ==
  ASSUME Inv, Live
  PROVE  /\ Log \in Seq(Seq(Byte))
         /\ Len(Log) = NumEntries(ring)
         /\ \A i \in 1..NumEntries(ring) : Log[i] = Bytes(ring.entry[SlotOf(i)])
<1>1. Log = [i \in 1..NumEntries(ring) |-> Bytes(ring.entry[SlotOf(i)])]
  BY DEF Log, StoredEntry
<1>2. NumEntries(ring) \in Nat
  BY LiveRing, NAssumption
<1>3. \A i \in 1..NumEntries(ring) : Bytes(ring.entry[SlotOf(i)]) \in Seq(Byte)
  <2> SUFFICES ASSUME NEW i \in 1..NumEntries(ring)
               PROVE  Bytes(ring.entry[SlotOf(i)]) \in Seq(Byte)
    OBVIOUS
  <2>1. SlotOf(i) \in Slots /\ Occupied(SlotOf(i))
    BY LiveRing
  <2>2. ring.entry[SlotOf(i)] \in Entry /\ Holds(ring.entry[SlotOf(i)])
    BY <2>1 DEF Inv, TypeOK, RingShape
  <2> QED
    BY <2>2, HeldBytes
<1> QED
  BY <1>1, <1>2, <1>3

-----------------------------------------------------------------------------
(* Steps that the log does not see.                                        *)
LEMMA DeviceUnchanged ==
  ASSUME UNCHANGED <<cdev, ring, current_entry, heap>>
  PROVE  Log' = Log /\ Partial' = Partial
  BY DEF Log, Partial, Bytes, StoredEntry, SlotOf, Live

(* A step of a write that moves or fills only the current entry's buffer.  *)
LEMMA RingBytesUnchanged ==
  ASSUME Inv, Live, UNCHANGED <<cdev, ring>>,
         \A i \in Slots : Holds(ring.entry[i]) =>
             heap'[ring.entry[i].buffptr] = heap[ring.entry[i].buffptr]
  PROVE  Log' = Log
<1>1. Log = [i \in 1..NumEntries(ring) |-> Bytes(ring.entry[SlotOf(i)])]
  BY DEF Log, StoredEntry
<1>2. Log' = [i \in 1..NumEntries(ring) |-> Bytes(ring.entry[SlotOf(i)])']
  BY DEF Log, Live, StoredEntry, SlotOf
<1>3. ASSUME NEW i \in 1..NumEntries(ring)
      PROVE  Bytes(ring.entry[SlotOf(i)])' = Bytes(ring.entry[SlotOf(i)])
  <2>1. SlotOf(i) \in Slots /\ Occupied(SlotOf(i)) /\ SlotOf(i)' = SlotOf(i)
    BY LiveRing DEF SlotOf
  <2>2. Holds(ring.entry[SlotOf(i)])
    BY <2>1 DEF Inv, RingShape
  <2> QED
    BY <2>1, <2>2 DEF Bytes
<1> QED
  BY <1>1, <1>2, <1>3

(* Moving the command to a new buffer changes neither log nor command.     *)
LEMMA WriteGrowHidden ==
  ASSUME Inv, NEW p \in Proc, WriteGrow(p) PROVE Log' = Log /\ Partial' = Partial
<1> DEFINE e == current_entry
<1> USE ConstantsAssumption
<1>1. PICK q \in Kmalloc(e.size + Len(req[p].data)) :
         heap' = Moved(q) /\ current_entry' = [buffptr |-> q, size |-> e.size]
  BY DEF WriteGrow
<1>2. pc[p] = "kmalloc" /\ UNCHANGED <<cdev, ring>>
  BY DEF WriteGrow
<1>3. Live /\ Len(req[p].data) \in Nat
  BY <1>2, WriterAlone
<1>4. e.size \in Nat /\ Bytes(e) \in Seq(Byte) /\ Len(Bytes(e)) = e.size
  BY <1>3, CurrentBytes
<1>5. \/ q \in Ptr /\ heap[q] = Freed
      \/ q = ZERO_SIZE_PTR /\ e.size = 0
  BY <1>3, <1>4 DEF Kmalloc
<1>6. \A x \in Ptr : heap'[x] = IF x = q THEN Bytes(e)
                                ELSE IF x = e.buffptr THEN Freed ELSE heap[x]
  BY <1>1 DEF Moved
<1>7. Log' = Log
  <2>1. ASSUME NEW i \in Slots, Holds(ring.entry[i])
        PROVE  heap'[ring.entry[i].buffptr] = heap[ring.entry[i].buffptr]
    BY <2>1, <1>3, <1>5, <1>6, OwnersApart DEF Holds
  <2> QED
    BY <1>2, <1>3, <2>1, RingBytesUnchanged
<1>8. Partial' = Partial
  <2>1. CASE q \in Ptr
    <3>1. Partial' = SubSeq(Bytes(e), 1, Len(Bytes(e)))
      BY <1>1, <1>2, <1>3, <1>4, <1>6, <2>1 DEF Partial, Live, Bytes
    <3> QED
      BY <1>3, <1>4, <3>1, SubSeqFull DEF Partial
  <2>2. CASE q = ZERO_SIZE_PTR /\ e.size = 0
    <3>1. Partial' = << >>
      BY <1>1, <2>2 DEF Partial, Bytes
    <3>2. Bytes(e) = << >>
      BY <1>4, <2>2
    <3> QED
      BY <1>3, <3>1, <3>2 DEF Partial
  <2> QED
    BY <1>5, <2>1, <2>2
<1> QED
  BY <1>7, <1>8

(* Nor does a copy from user space, complete or faulting.                  *)
LEMMA CopyHidden ==
  ASSUME Inv, NEW p \in Proc, WriteCopy(p) \/ WriteFault(p)
  PROVE  Log' = Log /\ Partial' = Partial
<1>1. pc[p] = "copy_from" /\ UNCHANGED <<cdev, ring, current_entry>>
  BY DEF WriteCopy, WriteFault
<1>2. Live /\ Len(req[p].data) \in Nat
  BY <1>1, WriterAlone
<1>3. PICK n \in 0..Len(req[p].data) : heap' = CopyIn(p, n)
  BY <1>2 DEF WriteCopy, WriteFault
<1>4. Log' = Log
  <2>1. ASSUME NEW i \in Slots, Holds(ring.entry[i])
        PROVE  heap'[ring.entry[i].buffptr] = heap[ring.entry[i].buffptr]
    BY <2>1, <1>1, <1>2, <1>3, OwnersApart, CopyInFacts DEF Holds
  <2> QED
    BY <1>1, <1>2, <2>1, RingBytesUnchanged
<1>5. Partial' = Partial
  <2>1. CASE current_entry.buffptr \in Ptr
    BY <1>1, <1>2, <1>3, <2>1, CopyInFacts DEF Partial, Live, Bytes
  <2>2. CASE current_entry.buffptr \notin Ptr
    BY <1>1, <2>2 DEF Partial, Live, Bytes
  <2> QED
    BY <2>1, <2>2
<1> QED
  BY <1>4, <1>5
-----------------------------------------------------------------------------
(* Steps that the log sees.                                                *)

(* The bytes of the command with the caller's bytes counted in.            *)
LEMMA GrownBytes ==
  ASSUME Inv, NEW p \in Proc, pc[p] = "append", Grown(p).size > 0
  PROVE  /\ Bytes(Grown(p)) = Partial \o req[p].data
         /\ Bytes(Grown(p)) \in Seq(Byte) /\ Bytes(Grown(p)) # << >>
         /\ Abstract!Complete(Bytes(Grown(p))) <=> EndsInNewline(p)
<1> DEFINE g == Grown(p)
           b == heap[g.buffptr]
           d == req[p].data
<1> USE ConstantsAssumption
<1>1. Live /\ d \in Seq(Byte) /\ Len(d) \in Nat
  BY WriterAlone
<1>2. g \in Entry /\ g.buffptr = current_entry.buffptr /\ Holds(g)
  BY GrownHolds
<1>3. current_entry.size \in Nat /\ Len(Bytes(current_entry)) = current_entry.size
      /\ Bytes(current_entry) \in Seq(Byte)
  BY <1>1, CurrentBytes
<1>4. /\ Bytes(g) = SubSeq(b, 1, g.size) /\ Bytes(g) \in Seq(Byte)
      /\ Len(Bytes(g)) = g.size
  BY <1>2, HeldBytes
<1>5. b = Bytes(current_entry) \o d
  BY <1>1, <1>2 DEF Inv, Current, Bytes, Holds
<1>6. g.size = current_entry.size + Len(d)
  BY DEF Grown
<1>7. b \in Seq(Byte) /\ Len(b) = g.size
  <2> HIDE DEF b, d, g
  <2>1. /\ Bytes(current_entry) \o d \in Seq(Byte)
        /\ Len(Bytes(current_entry) \o d) = Len(Bytes(current_entry)) + Len(d)
    BY <1>1, <1>3, ConcatProperties
  <2> QED
    BY <1>3, <1>5, <1>6, <2>1
<1>8. SubSeq(b, 1, Len(b)) = b
  BY <1>7, SubSeqFull
<1>9. Bytes(g) = b
  BY <1>4, <1>7, <1>8
<1>10. Partial = Bytes(current_entry)
  BY <1>1 DEF Partial
<1>11. Bytes(g) # << >>
  <2>1. Len(Bytes(g)) > 0
    BY <1>4
  <2> HIDE DEF g
  <2> QED
    BY <2>1
<1>12. Abstract!Complete(Bytes(g)) <=> EndsInNewline(p)
  BY <1>4, <1>9, <1>11 DEF Abstract!Complete, EndsInNewline
<1> QED
  BY <1>4, <1>5, <1>9, <1>10, <1>11, <1>12

(* Counting in the bytes is a write that leaves the command open.          *)
LEMMA WriteAppendSeen ==
  ASSUME Inv, NEW p \in Proc, WriteAppend(p) PROVE Abstract!Next
<1>1. /\ pc[p] = "append" /\ Grown(p).size > 0 /\ ~EndsInNewline(p)
      /\ current_entry' = Grown(p) /\ UNCHANGED <<cdev, ring, heap>>
  BY DEF WriteAppend
<1>2. Live /\ req[p] \in WriteReq
  BY <1>1, WriterAlone
<1>3. Log' = Log
  <2>1. \A i \in Slots : Holds(ring.entry[i]) =>
           heap'[ring.entry[i].buffptr] = heap[ring.entry[i].buffptr]
    BY <1>1
  <2> QED
    BY <1>1, <1>2, <2>1, RingBytesUnchanged
<1>4. Partial' = Bytes(Grown(p))
  BY <1>1, <1>2 DEF Partial, Live, Bytes
<1>5. Partial' = Partial \o req[p].data /\ ~Abstract!Complete(Partial \o req[p].data)
  BY <1>1, <1>4, GrownBytes
<1>6. req[p].data \in Payload
  BY <1>2 DEF WriteReq
<1>7. Abstract!Write(req[p].data)
  BY <1>3, <1>5 DEF Abstract!Write
<1> QED
  BY <1>6, <1>7 DEF Abstract!Next

(* Where the slots of the stored entries are after a command was added:    *)
(* one entry more at the end or, in a full ring, each one place earlier.   *)
LEMMA SlotsAfterAdd ==
  ASSUME Inv, Live, NEW e \in Entry, ring' = AddEntry(ring, e),
         NEW in \in Slots, in = ring.in_offs
  PROVE  /\ ~ring.full => /\ NumEntries(ring') = in + 1
                          /\ \A i \in 1..in : SlotOf(i)' = SlotOf(i) /\ SlotOf(i) # in
                          /\ SlotOf(in + 1)' = in
         /\ ring.full => /\ NumEntries(ring') = N
                         /\ \A i \in 1..(N - 1) : SlotOf(i)' = SlotOf(i + 1)
                                                  /\ SlotOf(i + 1) # in
                         /\ SlotOf(N)' = in
<1> DEFINE in2 == IF in + 1 >= N THEN 0 ELSE in + 1
<1>1. /\ in \in 0..(N - 1) /\ ring.full \in BOOLEAN
      /\ ring.out_offs = IF ring.full THEN in ELSE 0
  BY LiveRing
<1>2. /\ ring'.in_offs = in2
      /\ ring'.full <=> ring.full \/ in + 1 >= N
      /\ ring'.out_offs = IF ring.full \/ in + 1 >= N THEN in2 ELSE ring.out_offs
  BY DEF AddEntry
<1>3. CASE ~ring.full
  <2>1. ring.out_offs = 0 /\ ring'.out_offs = 0
    BY <1>1, <1>2, <1>3
  <2>2. NumEntries(ring') = in + 1
    BY <1>1, <1>2, <1>3, <2>1, NAssumption DEF NumEntries
  <2>3. \A i \in 1..(in + 1) : SlotOf(i) = i - 1 /\ SlotOf(i)' = i - 1
    BY <1>1, <2>1, NAssumption DEF SlotOf
  <2> QED
    BY <1>1, <1>3, <2>2, <2>3, NAssumption
<1>4. CASE ring.full
  <2>1. ring.out_offs = in /\ ring'.out_offs = in2 /\ ring'.full
    BY <1>1, <1>2, <1>4
  <2>2. NumEntries(ring') = N
    BY <2>1 DEF NumEntries
  <2>3. \A i \in 1..N : SlotOf(i) = IF in + i - 1 >= N THEN in + i - 1 - N ELSE in + i - 1
    BY <1>1, <2>1, NAssumption DEF SlotOf
  <2>4. \A i \in 1..N : SlotOf(i)' = IF in2 + i - 1 >= N THEN in2 + i - 1 - N ELSE in2 + i - 1
    BY <1>1, <2>1, NAssumption DEF SlotOf
  <2>5. \A i \in 1..(N - 1) : SlotOf(i)' = SlotOf(i + 1) /\ SlotOf(i + 1) # in
    <3> SUFFICES ASSUME NEW i \in 1..(N - 1)
                 PROVE  SlotOf(i)' = SlotOf(i + 1) /\ SlotOf(i + 1) # in
      OBVIOUS
    <3>1. i \in 1..N /\ i + 1 \in 1..N
      BY NAssumption
    <3>2. SlotOf(i + 1) = IF in + i >= N THEN in + i - N ELSE in + i
      BY <1>1, <2>3, <3>1, NAssumption
    <3>3. SlotOf(i)' = IF in2 + i - 1 >= N THEN in2 + i - 1 - N ELSE in2 + i - 1
      BY <2>4, <3>1
    <3> QED
      BY <1>1, <3>2, <3>3, NAssumption
  <2>6. SlotOf(N)' = in
    BY <1>1, <2>4, NAssumption
  <2> QED
    BY <1>4, <2>2, <2>5, <2>6
<1> QED
  BY <1>1, <1>3, <1>4

(* Storing the command is a write that completes it.                       *)
LEMMA WriteCommitSeen ==
  ASSUME Inv, NEW p \in Proc, WriteCommit(p) PROVE Abstract!Next
<1> DEFINE g == Grown(p)
           cmd == Bytes(g)
           BytesIn(h, e) == IF e.buffptr \in Ptr THEN SubSeq(h[e.buffptr], 1, e.size)
                            ELSE << >>
<1> USE ConstantsAssumption
<1>1. /\ pc[p] = "append" /\ g.size > 0 /\ EndsInNewline(p)
      /\ current_entry' = NullEntry
      /\ heap' = [q \in Ptr |-> IF q \in Evicted THEN Freed ELSE heap[q]]
      /\ ring' = AddEntry(ring, g) /\ cdev' = cdev
  BY DEF WriteCommit
<1>2. Live /\ req[p] \in WriteReq
  BY <1>1, WriterAlone
<1>3. g \in Entry /\ g.buffptr = current_entry.buffptr /\ Holds(g)
  BY <1>1, GrownHolds
<1>4. /\ cmd = Partial \o req[p].data /\ cmd \in Seq(Byte) /\ Abstract!Complete(cmd)
  BY <1>1, GrownBytes
<1>5. PICK in \in Slots : in = ring.in_offs
  BY DEF Inv, TypeOK
<1>6. \A k \in Slots : ring'.entry[k] = IF k = in THEN g ELSE ring.entry[k]
  BY <1>1, <1>5 DEF AddEntry, Inv, TypeOK
<1>7. /\ ring.full => Holds(ring.entry[in]) /\ Evicted = {ring.entry[in].buffptr}
      /\ ~ring.full => Evicted = {}
  BY <1>2, <1>5 DEF Inv, RingShape, Occupied, Evicted
<1>8. BytesIn(heap', g) = cmd
  <2>1. heap'[g.buffptr] = heap[g.buffptr]
    BY <1>1, <1>2, <1>3, <1>5, <1>7, OwnersApart DEF Holds
  <2> QED
    BY <1>3, <2>1 DEF Bytes, Holds
<1>9. ASSUME NEW k \in Slots, k # in, Occupied(k)
      PROVE  BytesIn(heap', ring'.entry[k]) = Bytes(ring.entry[k])
  <2>1. Holds(ring.entry[k])
    BY <1>2, <1>9 DEF Inv, RingShape
  <2>2. heap'[ring.entry[k].buffptr] = heap[ring.entry[k].buffptr]
    BY <1>1, <1>2, <1>5, <1>7, <1>9, <2>1, OwnersApart DEF Holds
  <2> QED
    BY <1>6, <1>9, <2>1, <2>2 DEF Bytes, Holds
<1>10. Log' = [i \in 1..NumEntries(ring') |-> BytesIn(heap', ring'.entry[SlotOf(i)'])]
  BY <1>1, <1>2 DEF Log, Live, StoredEntry, Bytes
<1>11. /\ Log \in Seq(Seq(Byte)) /\ Len(Log) = NumEntries(ring)
       /\ \A i \in 1..NumEntries(ring) : Log[i] = Bytes(ring.entry[SlotOf(i)])
  BY <1>2, LogIsSeq
<1>12. /\ in \in 0..(N - 1) /\ ring.full \in BOOLEAN
       /\ NumEntries(ring) = IF ring.full THEN N ELSE in
       /\ \A i \in 1..NumEntries(ring) : SlotOf(i) \in Slots /\ Occupied(SlotOf(i))
  BY <1>2, <1>5, LiveRing
<1> HIDE DEF g, cmd, BytesIn
<1>13. Log' = Abstract!Logged(cmd)
  <2>1. CASE ~ring.full
    <3>1. /\ NumEntries(ring) = in /\ NumEntries(ring') = in + 1 /\ in \in Nat
          /\ \A i \in 1..in : SlotOf(i)' = SlotOf(i) /\ SlotOf(i) # in
          /\ SlotOf(in + 1)' = in
      BY <1>1, <1>2, <1>3, <1>5, <1>12, <2>1, SlotsAfterAdd
    <3>2. \A i \in 1..in : BytesIn(heap', ring'.entry[SlotOf(i)']) = Log[i]
      BY <1>9, <1>11, <1>12, <3>1
    <3>3. BytesIn(heap', ring'.entry[SlotOf(in + 1)']) = cmd
      BY <1>6, <1>8, <3>1
    <3>4. Log' = Append(Log, cmd)
      BY <1>4, <1>10, <1>11, <3>1, <3>2, <3>3
    <3>5. Len(Log) # N
      BY <1>11, <1>12, <3>1, NAssumption
    <3> QED
      BY <3>4, <3>5 DEF Abstract!Logged
  <2>2. CASE ring.full
    <3>1. /\ NumEntries(ring) = N /\ NumEntries(ring') = N /\ N \in Nat \ {0}
          /\ \A i \in 1..(N - 1) : SlotOf(i)' = SlotOf(i + 1) /\ SlotOf(i + 1) # in
          /\ SlotOf(N)' = in
      BY <1>1, <1>2, <1>3, <1>5, <1>12, <2>2, SlotsAfterAdd, NAssumption
    <3>2. \A i \in 1..(N - 1) : BytesIn(heap', ring'.entry[SlotOf(i)']) = Log[i + 1]
      <4> SUFFICES ASSUME NEW i \in 1..(N - 1)
                   PROVE  BytesIn(heap', ring'.entry[SlotOf(i)']) = Log[i + 1]
        OBVIOUS
      <4>1. i + 1 \in 1..NumEntries(ring)
        BY <3>1
      <4>2. SlotOf(i + 1) \in Slots /\ Occupied(SlotOf(i + 1)) /\ SlotOf(i + 1) # in
        BY <1>12, <3>1, <4>1
      <4> QED
        BY <1>9, <1>11, <3>1, <4>1, <4>2
    <3>3. BytesIn(heap', ring'.entry[SlotOf(N)']) = cmd
      BY <1>6, <1>8, <3>1
    <3>4. Log # << >>
      BY <1>11, <3>1
    <3>5. /\ Tail(Log) \in Seq(Seq(Byte)) /\ Len(Tail(Log)) = N - 1
          /\ \A i \in 1..(N - 1) : Tail(Log)[i] = Log[i + 1]
      BY <1>11, <3>1, <3>4, HeadTailProperties
    <3>6. Log' = Append(Tail(Log), cmd)
      <4> DEFINE new == Append(Tail(Log), cmd)
      <4>1. /\ new \in Seq(Seq(Byte)) /\ Len(new) = N /\ new[N] = cmd
            /\ \A i \in 1..(N - 1) : new[i] = Log[i + 1]
        BY <1>4, <3>1, <3>5, AppendProperties
      <4>2. Log' = [i \in 1..N |-> BytesIn(heap', ring'.entry[SlotOf(i)'])]
        BY <1>10, <3>1
      <4> HIDE DEF new
      <4>3. \A i \in 1..N : BytesIn(heap', ring'.entry[SlotOf(i)']) = new[i]
        <5>1. \A i \in 1..N : i \in 1..(N - 1) \/ i = N
          BY NAssumption
        <5> QED
          BY <3>2, <3>3, <4>1, <5>1
      <4>4. new = [i \in 1..N |-> new[i]]
        BY <4>1
      <4> QED
        BY <4>2, <4>3, <4>4 DEF new
    <3>7. Len(Log) = N
      BY <1>11, <3>1
    <3> QED
      BY <3>6, <3>7 DEF Abstract!Logged
  <2> QED
    BY <1>12, <2>1, <2>2
<1>14. Partial' = << >>
  BY <1>1 DEF Partial, Bytes, NullEntry
<1>15. req[p].data \in Payload
  BY <1>2 DEF WriteReq
<1>16. Abstract!Write(req[p].data)
  BY <1>4, <1>13, <1>14 DEF Abstract!Write
<1> QED
  BY <1>15, <1>16 DEF Abstract!Next

(* Loading leaves the empty log empty; unloading resets it.                *)
LEMMA LoadingSeen == ASSUME Module PROVE [Abstract!Next]_(Abstract!vars)
<1> USE ConstantsAssumption, NAssumption
<1>1. CASE RegisterRegion
  <2>1. Log' = Log /\ Partial' = Partial
    BY <1>1 DEF RegisterRegion, Log, Partial, Live
  <2> QED
    BY <2>1 DEF Abstract!vars
<1>2. CASE SetupCdev
  <2>1. Log = << >> /\ Partial = << >>
    BY <1>2 DEF SetupCdev, Log, Partial, Live
  <2>2. NumEntries(EmptyRing) = 0
    BY DEF NumEntries, EmptyRing
  <2>3. Log' = << >>
    BY <1>2, <2>2 DEF SetupCdev, Log, Live
  <2>4. Partial' = << >>
    BY <1>2 DEF SetupCdev, Partial, Bytes, NullEntry
  <2> QED
    BY <2>1, <2>3, <2>4 DEF Abstract!vars
<1>3. CASE Cleanup
  <2>1. Log' = << >> /\ Partial' = << >>
    BY <1>3 DEF Cleanup, Log, Partial, Live
  <2> QED
    BY <2>1 DEF Abstract!Next, Abstract!Reset
<1> QED
  BY <1>1, <1>2, <1>3 DEF Module

(* Every step of a handler is a write of the log, or leaves it alone.      *)
LEMMA HandlerSeen ==
  ASSUME Inv, NEW p \in Proc, Handler(p) PROVE [Abstract!Next]_(Abstract!vars)
<1>1. CASE WriteAppend(p) \/ WriteCommit(p)
  BY <1>1, WriteAppendSeen, WriteCommitSeen
<1>2. CASE WriteGrow(p) \/ WriteCopy(p) \/ WriteFault(p)
  BY <1>2, WriteGrowHidden, CopyHidden DEF Abstract!vars
<1>3. CASE ReadFind(p) \/ ReadCopy(p) \/ WriteNoMemory(p) \/ WriteOops(p)
  <2>1. UNCHANGED <<cdev, ring, current_entry, heap>>
    BY <1>3 DEF ReadFind, ReadCopy, WriteNoMemory, WriteOops, devVars
  <2> QED
    BY <2>1, DeviceUnchanged DEF Abstract!vars
<1>4. CASE \/ LlseekSwitch(p) \/ LlseekEnd(p) \/ SumStep(p)
           \/ IoctlRefuse(p) \/ IoctlSeekTo(p) \/ IoctlEnd(p)
  <2>1. UNCHANGED <<cdev, ring, current_entry, heap>>
    BY <1>4 DEF LlseekSwitch, LlseekEnd, SumStep, IoctlRefuse, IoctlSeekTo, IoctlEnd, devVars
  <2> QED
    BY <2>1, DeviceUnchanged DEF Abstract!vars
<1> QED
  BY <1>1, <1>2, <1>3, <1>4 DEF Handler

(* Every step of the driver is a step of the log or leaves it alone.       *)
LEMMA StepSimulation == Inv /\ [Next]_vars => [Abstract!Next]_(Abstract!vars)
<1> SUFFICES ASSUME Inv, [Next]_vars PROVE [Abstract!Next]_(Abstract!vars)
  OBVIOUS
<1>1. CASE Module
  BY <1>1, LoadingSeen
<1>2. ASSUME NEW p \in Proc, Handler(p) PROVE [Abstract!Next]_(Abstract!vars)
  BY <1>2, HandlerSeen
<1>3. ASSUME NEW f \in File, Open(f) \/ Release(f)
      PROVE  UNCHANGED <<cdev, ring, current_entry, heap>>
  BY <1>3 DEF Open, Release, devVars
<1>4. ASSUME NEW p \in Proc, NEW f \in File, NEW r \in Request, Enter(p, f, r)
      PROVE  UNCHANGED <<cdev, ring, current_entry, heap>>
  BY <1>4 DEF Enter, devVars
<1>5. ASSUME NEW p \in Proc, Lock(p) \/ Interrupted(p) \/ Return(p)
      PROVE  UNCHANGED <<cdev, ring, current_entry, heap>>
  BY <1>5 DEF Lock, Interrupted, Return, devVars
<1>6. CASE UNCHANGED <<cdev, ring, current_entry, heap>>
  BY <1>6, DeviceUnchanged DEF Abstract!vars
<1>7. CASE UNCHANGED vars
  BY <1>6, <1>7 DEF vars, devVars
<1> QED
  BY <1>1, <1>2, <1>3, <1>4, <1>5, <1>6, <1>7 DEF Next

(* aesd_write, with its allocation, copies, faults, eviction and lock,     *)
(* implements the log of the last N commands: every write takes effect in  *)
(* one step, completely or not at all, and nothing else changes the log.   *)
THEOREM Refinement == Spec => ImplementsCommandLog
<1>1. Init => Abstract!Init
  BY DEF Init, Abstract!Init, Log, Partial, Live
<1> QED
  BY <1>1, StepSimulation, Invariance, PTL
     DEF Spec, ImplementsCommandLog, Abstract!Spec
=============================================================================
