------------------------ MODULE AesdCharStreamProofs ------------------------
(***************************************************************************)
(* What callers of the driver see of the stream, for every capacity of the *)
(* ring and whatever is written, read and sought: the loops of aesd_read,  *)
(* aesd_llseek and aesd_unlocked_ioctl count bytes of the concatenation of *)
(* the stored commands.                                                    *)
(***************************************************************************)
EXTENDS AesdCharStream, AesdCharProofs, StreamLemmas

(* Where the k-th oldest command ends in the stream.                       *)
EndOf(k) == Len(FlattenSeq(First(Log, k)))

(* How many entries the search has passed: cur counts from out_offs, and   *)
(* is negative behind the wrap to slot 0.                                  *)
Passed(s) == IF s.cur < 0 THEN s.cur + N ELSE s.cur

(* The search looks at the entry behind those it has passed, and has taken *)
(* their bytes off the position it was given; what it finds has the byte.  *)
FindAt(p) ==
    /\ Passed(loop[p]) \in 0..Len(Log)
    /\ Passed(loop[p]) < N
    /\ FindSlot(ring, loop[p]) = SlotOf(Passed(loop[p]) + 1)
    /\ pos[p] = EndOf(Passed(loop[p])) + loop[p].remaining

FoundAt(p) ==
    /\ FindAt(p)
    /\ Passed(loop[p]) < Len(Log)
    /\ loop[p].remaining < Len(Log[Passed(loop[p]) + 1])

(* How many entries the summing loop is to go through, and has.            *)
Target(p) == IF req[p].op = "ioctl" THEN req[p].arg.write_cmd ELSE Len(Log)
Summed(p) == Target(p) - loop[p].left

(* The sum is where the entry at index begins.                             *)
SumAt(p) ==
    /\ Summed(p) \in 0..Target(p)
    /\ Target(p) <= Len(Log)
    /\ req[p].op = "ioctl" => Target(p) < Len(Log)
    /\ req[p].op = "llseek" => req[p].arg.whence = "SEEK_END"
    /\ loop[p].index = SlotOf(Summed(p) + 1)
    /\ loop[p].sum = EndOf(Summed(p))

StreamInv ==
    \A p \in Proc : /\ pc[p] = "find" => FindAt(p)
                    /\ pc[p] = "copy_to" => FoundAt(p)
                    /\ pc[p] = "sum" => SumAt(p)

(* While a process is in a handler, every step is its own or leaves it and *)
(* the device alone.                                                       *)
LEMMA HolderAlone ==
    ASSUME Inv, [Next]_vars, NEW p \in Proc, pc[p] \in Critical
    PROVE  \/ Handler(p)
           \/ /\ UNCHANGED <<cdev, devVars>>
              /\ pc'[p] = pc[p] /\ loop'[p] = loop[p] /\ req'[p] = req[p]
              /\ pos'[p] = pos[p] /\ filp'[p] = filp[p]
<1> USE DEF Critical
<1>0. mutex = p /\ p # NULL /\ filp[p] \in opened /\ Live
  BY ConstantsAssumption DEF Inv, LockDiscipline, Files, InCall
<1>1. CASE Module
  BY <1>0, <1>1 DEF Module, RegisterRegion, SetupCdev, Cleanup, Live
<1>2. ASSUME NEW f \in File, Open(f) \/ Release(f)
      PROVE  UNCHANGED <<cdev, devVars, pc, loop, req, pos, filp>>
  BY <1>2 DEF Open, Release, callVars
<1>3. ASSUME NEW q \in Proc, NEW f \in File, NEW r \in Request, Enter(q, f, r)
      PROVE  /\ UNCHANGED <<cdev, devVars>>
             /\ pc'[p] = pc[p] /\ loop'[p] = loop[p] /\ req'[p] = req[p]
             /\ pos'[p] = pos[p] /\ filp'[p] = filp[p]
  <2>1. q # p
    BY <1>3 DEF Enter
  <2> QED
    BY <1>3, <2>1 DEF Enter, Inv, TypeOK
<1>4. ASSUME NEW q \in Proc, Interrupted(q) \/ Return(q)
      PROVE  /\ UNCHANGED <<cdev, devVars>>
             /\ pc'[p] = pc[p] /\ loop'[p] = loop[p] /\ req'[p] = req[p]
             /\ pos'[p] = pos[p] /\ filp'[p] = filp[p]
  <2>1. q # p
    BY <1>4 DEF Interrupted, Return
  <2> QED
    BY <1>4, <2>1 DEF Interrupted, Return, callVars, Inv, TypeOK
<1>5. ASSUME NEW q \in Proc, Lock(q) PROVE FALSE
  BY <1>0, <1>5 DEF Lock
<1>6. ASSUME NEW q \in Proc, Handler(q) PROVE q = p
  <2>1. pc[q] \in Critical
    BY <1>6 DEF Handler, ReadFind, ReadCopy, WriteNoMemory, WriteGrow, WriteCopy, WriteFault,
       WriteAppend, WriteCommit, WriteOops, LlseekSwitch, LlseekEnd, SumStep, IoctlRefuse,
       IoctlSeekTo, IoctlEnd
  <2> QED
    BY <1>0, <2>1 DEF Inv, LockDiscipline
<1>7. CASE UNCHANGED vars
  BY <1>7 DEF vars, callVars
<1> QED
  BY <1>1, <1>2, <1>3, <1>4, <1>5, <1>6, <1>7 DEF Next

(* Readers and seekers only look at the device.                            *)
LEMMA LookingStep ==
    ASSUME NEW p \in Proc, Handler(p), pc[p] \in {"find", "copy_to", "llseek", "ioctl", "sum"}
    PROVE  UNCHANGED <<cdev, devVars>>
BY DEF Handler, ReadFind, ReadCopy, WriteNoMemory, WriteGrow, WriteCopy, WriteFault, WriteAppend,
   WriteCommit, WriteOops, LlseekSwitch, LlseekEnd, SumStep, IoctlRefuse, IoctlSeekTo, IoctlEnd

(* Then what is known of its loop stays true.                              *)
LEMMA LoopsKept ==
    ASSUME NEW p \in Proc, UNCHANGED <<cdev, devVars>>,
           loop'[p] = loop[p], req'[p] = req[p], pos'[p] = pos[p]
    PROVE  /\ FindAt(p) => FindAt(p)'
           /\ FoundAt(p) => FoundAt(p)'
           /\ SumAt(p) => SumAt(p)'
<1>1. Log' = Log /\ ring' = ring
  BY DeviceUnchanged DEF devVars
<1>2. \A i : SlotOf(i)' = SlotOf(i)
  BY <1>1 DEF SlotOf
<1>3. \A i : EndOf(i)' = EndOf(i)
  BY <1>1 DEF EndOf
<1>4. FindAt(p)' <=> FindAt(p)
  BY <1>1, <1>2, <1>3 DEF FindAt
<1>5. FoundAt(p)' <=> FoundAt(p)
  BY <1>1, <1>4 DEF FoundAt
<1>6. SumAt(p)' <=> SumAt(p)
  BY <1>1, <1>2, <1>3 DEF SumAt, Summed, Target
<1> QED
  BY <1>4, <1>5, <1>6

(* The slot of the i-th entry, with the sums worked out.                   *)
LEMMA SlotBehind ==
    ASSUME ring.out_offs \in Int, NEW i \in Int
    PROVE  /\ SlotOf(i + 1) = IF ring.out_offs + i >= N THEN ring.out_offs + i - N ELSE ring.out_offs + i
           /\ SlotOf(i + 2) = IF ring.out_offs + i + 1 >= N
                              THEN ring.out_offs + i + 1 - N ELSE ring.out_offs + i + 1
<1> USE NAssumption
<1>1. ring.out_offs + (i + 1) - 1 = ring.out_offs + i
  OBVIOUS
<1>2. ring.out_offs + (i + 2) - 1 = ring.out_offs + i + 1
  OBVIOUS
<1>3. SlotOf(i + 1) = IF ring.out_offs + i >= N THEN ring.out_offs + i - N ELSE ring.out_offs + i
  <2> DEFINE at == ring.out_offs + (i + 1) - 1
  <2>1. SlotOf(i + 1) = IF at >= N THEN at - N ELSE at
    BY DEF SlotOf
  <2>2. at = ring.out_offs + i
    BY <1>1
  <2> HIDE DEF at
  <2> QED
    BY <2>1, <2>2
<1>4. SlotOf(i + 2) = IF ring.out_offs + i + 1 >= N
                      THEN ring.out_offs + i + 1 - N ELSE ring.out_offs + i + 1
  <2> DEFINE at == ring.out_offs + (i + 2) - 1
  <2>1. SlotOf(i + 2) = IF at >= N THEN at - N ELSE at
    BY DEF SlotOf
  <2>2. at = ring.out_offs + i + 1
    BY <1>2
  <2> HIDE DEF at
  <2> QED
    BY <2>1, <2>2
<1> QED
  BY <1>3, <1>4

(* The entry behind the first i ones holds the next command; behind the    *)
(* last one, if a slot is left, there is none.                             *)
LEMMA EntryAt ==
    ASSUME Inv, Live, NEW i \in 0..(N - 1)
    PROVE  LET e == ring.entry[SlotOf(i + 1)]
           IN  /\ SlotOf(i + 1) \in Slots
               /\ i < Len(Log) => /\ e.buffptr \in Ptr /\ e.size \in Nat /\ e.size > 0
                                  /\ heap[e.buffptr] \in Seq(Byte)
                                  /\ e.size <= Len(heap[e.buffptr])
                                  /\ Log[i + 1] = SubSeq(heap[e.buffptr], 1, e.size)
                                  /\ Len(Log[i + 1]) = e.size
               /\ i = Len(Log) => e = NullEntry
<1> USE NAssumption
<1>1. /\ ring.in_offs \in 0..(N - 1) /\ ring.full \in BOOLEAN
      /\ ring.out_offs = IF ring.full THEN ring.in_offs ELSE 0
      /\ NumEntries(ring) = IF ring.full THEN N ELSE ring.in_offs
      /\ Len(Log) = NumEntries(ring)
      /\ \A j \in 1..NumEntries(ring) : /\ SlotOf(j) \in Slots /\ Occupied(SlotOf(j))
                                        /\ Log[j] = Bytes(ring.entry[SlotOf(j)])
  BY LiveRing, LogIsSeq
<1> DEFINE e == ring.entry[SlotOf(i + 1)]
<1>1a. SlotOf(i + 1) = IF ring.out_offs + i >= N THEN ring.out_offs + i - N ELSE ring.out_offs + i
  <2>1. ring.out_offs \in Int /\ i \in Int
    BY <1>1
  <2> QED
    BY <2>1, SlotBehind
<1>2. SlotOf(i + 1) \in Slots
  <2>1. PICK out \in 0..(N - 1) : out = ring.out_offs
    <3>1. ring.out_offs \in 0..(N - 1)
      BY <1>1
    <3> QED
      BY <3>1
  <2>2. SlotOf(i + 1) = IF out + i >= N THEN out + i - N ELSE out + i
    BY <1>1a, <2>1
  <2>3. (IF out + i >= N THEN out + i - N ELSE out + i) \in 0..(N - 1)
    OBVIOUS
  <2> QED
    BY <2>2, <2>3 DEF Slots
<1>3. ASSUME i < Len(Log)
      PROVE  /\ e.buffptr \in Ptr /\ e.size \in Nat /\ e.size > 0
             /\ heap[e.buffptr] \in Seq(Byte)
             /\ e.size <= Len(heap[e.buffptr])
             /\ Log[i + 1] = SubSeq(heap[e.buffptr], 1, e.size)
             /\ Len(Log[i + 1]) = e.size
  <2>1. i + 1 \in 1..NumEntries(ring)
    BY <1>1, <1>3
  <2>2. Occupied(SlotOf(i + 1)) /\ Log[i + 1] = Bytes(e)
    BY <1>1, <2>1
  <2>3. e \in Entry /\ Holds(e) /\ e.size > 0
    BY <1>2, <2>2 DEF Inv, TypeOK, RingShape
  <2> HIDE DEF e
  <2>4. Bytes(e) = SubSeq(heap[e.buffptr], 1, e.size) /\ Len(Bytes(e)) = e.size
    BY <2>3, HeldBytes
  <2>5. e.buffptr \in Ptr /\ heap[e.buffptr] # Freed /\ e.size <= Len(heap[e.buffptr]) /\ e.size \in Nat
    BY <2>3 DEF Holds, Entry
  <2>6. heap[e.buffptr] \in Seq(Byte)
    BY <2>5 DEF Inv, TypeOK
  <2> QED
    BY <2>2, <2>3, <2>4, <2>5, <2>6
<1>4. ASSUME i = Len(Log) PROVE e = NullEntry
  <2>1. ~ring.full /\ i = ring.in_offs
    BY <1>1, <1>4
  <2>2. SlotOf(i + 1) = i
    <3>1. ring.out_offs = 0 /\ i \in Nat /\ i < N
      BY <1>1, <2>1 DEF Slots
    <3> HIDE DEF SlotOf
    <3> QED
      BY <1>1a, <3>1, NAssumption
  <2>3. ~Occupied(SlotOf(i + 1))
    BY <1>1, <2>1, <2>2 DEF Occupied
  <2> QED
    BY <1>2, <2>3 DEF Inv, RingShape
<1> QED
  BY <1>2, <1>3, <1>4

(* Where commands end.                                                     *)
LEMMA Ends ==
    ASSUME Inv, Live
    PROVE  /\ EndOf(0) = 0
           /\ EndOf(Len(Log)) = Len(Stream)
           /\ \A i \in 0..Len(Log) : EndOf(i) \in Nat
           /\ \A i \in 0..Len(Log) : i < Len(Log) => EndOf(i + 1) = EndOf(i) + Len(Log[i + 1])
<1>1. Log \in Seq(Seq(Byte)) /\ Len(Log) \in Nat
  BY LogIsSeq, LenProperties
<1>2. EndOf(0) = 0 /\ EndOf(Len(Log)) = Len(Stream)
  BY <1>1, FlattenEnds DEF EndOf, Stream
<1>3. ASSUME NEW i \in 0..Len(Log) PROVE EndOf(i) \in Nat
  <2>1. First(Log, i) \in Seq(Seq(Byte))
    BY <1>1, FirstFacts
  <2>2. FlattenSeq(First(Log, i)) \in Seq(Byte)
    BY <2>1, FlattenType
  <2> QED
    BY <2>2, LenProperties DEF EndOf
<1>4. ASSUME NEW i \in 0..Len(Log), i < Len(Log) PROVE EndOf(i + 1) = EndOf(i) + Len(Log[i + 1])
  <2>1. PICK k \in 1..Len(Log) : k = i + 1 /\ k - 1 = i
    BY <1>1, <1>4
  <2>2. Len(FlattenSeq(First(Log, k))) = Len(FlattenSeq(First(Log, k - 1))) + Len(Log[k])
    BY <1>1, FlattenMember
  <2> QED
    BY <2>1, <2>2 DEF EndOf
<1> QED
  BY <1>2, <1>3, <1>4

(* The step to the next slot, with the wrap: it comes back to out_offs     *)
(* behind the N-th entry only.                                             *)
LEMMA NextSlot ==
    ASSUME NEW out \in 0..(N - 1), NEW cur \in (1 - N)..(N - 1), NEW i \in 0..(N - 1), NEW next \in Int,
           i = IF cur < 0 THEN cur + N ELSE cur,
           out + cur = IF out + i >= N THEN out + i - N ELSE out + i,
           next = IF out + cur + 1 >= N THEN -out ELSE cur + 1
    PROVE  /\ next = 0 <=> i + 1 = N
           /\ next # 0 => i + 1 = IF next < 0 THEN next + N ELSE next
           /\ out + next = IF out + i + 1 >= N THEN out + i + 1 - N ELSE out + i + 1
BY NAssumption

(* One iteration of the search: it ends with NULL at the end of the        *)
(* stream, finds the entry the position is in, or passes the entry.        *)
LEMMA FindIterates ==
    ASSUME Inv, Live, NEW p \in Proc, pc[p] = "find", FindAt(p)
    PROVE  LET t == FindIterate(ring, loop[p])
               i == Passed(loop[p])
           IN  \/ t.status = "null" /\ pos[p] >= Len(Stream)
               \/ /\ t.status = "found" /\ t.cur = loop[p].cur
                  /\ t.remaining = loop[p].remaining
                  /\ i < Len(Log) /\ t.remaining < Len(Log[i + 1])
               \/ /\ t.status = "loop" /\ i < Len(Log) /\ i + 1 < N
                  /\ Passed(t) = i + 1
                  /\ FindSlot(ring, t) = SlotOf(i + 2)
                  /\ pos[p] = EndOf(i + 1) + t.remaining
<1> DEFINE s == loop[p]
           t == FindIterate(ring, s)
           i == Passed(s)
           e == ring.entry[SlotOf(i + 1)]
           out == ring.out_offs
           next == IF out + s.cur + 1 >= N THEN -out ELSE s.cur + 1
           n == Len(Log)
<1>1. /\ s.cur \in (1 - N)..(N - 1) /\ s.remaining \in Nat
      /\ out \in 0..(N - 1) /\ pos[p] \in Nat
  <2>1. s \in FindState
    BY DEF Inv, Calls
  <2> QED
    BY <2>1 DEF Inv, TypeOK, Slots, FindState
<1>2. /\ i \in 0..n /\ i < N
      /\ out + s.cur = SlotOf(i + 1)
      /\ pos[p] = EndOf(i) + s.remaining
  BY DEF FindAt, FindSlot
<1>3. n \in Nat /\ n <= N
  BY LogIsSeq, LiveRing, NAssumption
<1>4. i \in 0..(N - 1)
  BY <1>2, <1>3, NAssumption
<1>5. /\ i < n => e.buffptr # NULL /\ e.size \in Nat /\ Len(Log[i + 1]) = e.size
      /\ i = n => e.buffptr = NULL
  <2> HIDE DEF i, n
  <2>1. i < Len(Log) => e.buffptr \in Ptr /\ e.size \in Nat /\ Len(Log[i + 1]) = e.size
    BY <1>4, EntryAt
  <2>2. i = Len(Log) => e = NullEntry
    BY <1>4, EntryAt
  <2> QED
    BY <2>1, <2>2, ConstantsAssumption DEF NullEntry, n
<1>6. /\ EndOf(i) \in Nat
      /\ EndOf(n) = Len(Stream)
      /\ i < n => EndOf(i + 1) = EndOf(i) + Len(Log[i + 1])
  BY <1>2, Ends
<1>7. ring.entry[FindSlot(ring, s)] = e
  BY <1>2 DEF FindSlot
<1>8. /\ t.status = IF e.buffptr = NULL THEN "null"
                    ELSE IF ~(s.remaining >= e.size) THEN "found"
                    ELSE IF next = 0 THEN "null" ELSE "loop"
      /\ e.buffptr # NULL =>
            /\ t.remaining = IF s.remaining >= e.size THEN s.remaining - e.size ELSE s.remaining
            /\ t.cur = IF s.remaining >= e.size THEN next ELSE s.cur
  <2> HIDE DEF e
  <2>0. FindSlot(ring, s) = out + s.cur
    BY DEF FindSlot
  <2>1. /\ t.remaining = IF e.buffptr # NULL /\ s.remaining >= e.size THEN s.remaining - e.size ELSE s.remaining
        /\ t.cur = IF e.buffptr # NULL /\ s.remaining >= e.size THEN next ELSE s.cur
        /\ t.status = IF e.buffptr = NULL THEN "null"
                      ELSE IF ~(e.buffptr # NULL /\ s.remaining >= e.size) THEN "found"
                      ELSE IF next = 0 THEN "null" ELSE "loop"
    BY <1>7 DEF FindIterate
  <2> QED
    BY <2>1
<1>9. /\ i = IF s.cur < 0 THEN s.cur + N ELSE s.cur
      /\ Passed(t) = IF t.cur < 0 THEN t.cur + N ELSE t.cur
      /\ FindSlot(ring, t) = out + t.cur
  BY DEF Passed, FindSlot
<1>10. /\ SlotOf(i + 1) = IF out + i >= N THEN out + i - N ELSE out + i
       /\ SlotOf(i + 2) = IF out + i + 1 >= N THEN out + i + 1 - N ELSE out + i + 1
  <2> HIDE DEF i
  <2>1. ring.out_offs \in Int /\ i \in Int
    BY <1>1, <1>4
  <2> QED
    BY <2>1, SlotBehind
<1>11. next \in Int
  BY <1>1, NAssumption
<1>12. /\ next = 0 <=> i + 1 = N
       /\ next # 0 => i + 1 = IF next < 0 THEN next + N ELSE next
       /\ out + next = SlotOf(i + 2)
  <2> DEFINE c == s.cur
  <2>1. next = IF out + c + 1 >= N THEN -out ELSE c + 1
    OBVIOUS
  <2>2. i = IF c < 0 THEN c + N ELSE c
    BY <1>9
  <2>3. out + c = IF out + i >= N THEN out + i - N ELSE out + i
    BY <1>2, <1>10
  <2>4. c \in (1 - N)..(N - 1) /\ out \in 0..(N - 1) /\ i \in 0..(N - 1) /\ next \in Int
    BY <1>1, <1>4, <1>11
  <2> HIDE DEF next, i, out, c
  <2>5. /\ next = 0 <=> i + 1 = N
        /\ next # 0 => i + 1 = IF next < 0 THEN next + N ELSE next
        /\ out + next = IF out + i + 1 >= N THEN out + i + 1 - N ELSE out + i + 1
    BY <2>1, <2>2, <2>3, <2>4, NextSlot
  <2> QED
    BY <1>10, <2>5
<1> HIDE DEF t, i, e, next, n
<1>13. CASE i = n
  BY <1>1, <1>2, <1>5, <1>6, <1>8, <1>13 DEF t, i
<1>14. CASE i < n /\ ~(s.remaining >= e.size)
  BY <1>1, <1>5, <1>8, <1>14 DEF t, i, n
<1>15. CASE i < n /\ s.remaining >= e.size
  <2>1. /\ t.remaining = s.remaining - e.size /\ t.cur = next
        /\ t.status = IF next = 0 THEN "null" ELSE "loop"
    BY <1>5, <1>8, <1>15
  <2>2. pos[p] = EndOf(i + 1) + t.remaining
    BY <1>1, <1>2, <1>5, <1>6, <1>15, <2>1
  <2>3. CASE next = 0
    <3>1. i + 1 = n /\ t.status = "null"
      BY <1>3, <1>4, <1>12, <1>15, <2>1, <2>3
    <3>2. pos[p] >= Len(Stream)
      BY <1>1, <1>5, <1>6, <1>15, <2>1, <2>2, <3>1
    <3> QED
      BY <3>1, <3>2 DEF t
  <2>4. CASE next # 0
    <3>1. i + 1 < N
      BY <1>4, <1>12, <2>4, NAssumption
    <3>2. Passed(t) = i + 1 /\ FindSlot(ring, t) = SlotOf(i + 2) /\ t.status = "loop"
      BY <1>9, <1>12, <2>1, <2>4
    <3> QED
      BY <1>15, <2>2, <3>1, <3>2 DEF t, i, n
  <2> QED
    BY <2>3, <2>4
<1> QED
  BY <1>1, <1>2, <1>3, <1>5, <1>13, <1>14, <1>15 DEF i, n

(* One iteration of the summing loop passes one entry.                     *)
LEMMA SumIterates ==
    ASSUME Inv, Live, NEW p \in Proc, pc[p] = "sum", SumAt(p), loop[p].left > 0
    PROVE  LET t == SumIterate(ring, loop[p])
               k == Summed(p)
           IN  /\ k < Target(p) /\ k \in Nat
               /\ Target(p) - t.left = k + 1
               /\ t.index = SlotOf(k + 2)
               /\ t.sum = EndOf(k + 1)
<1> DEFINE s == loop[p]
           t == SumIterate(ring, s)
           k == Summed(p)
           m == Target(p)
           out == ring.out_offs
           e == ring.entry[SlotOf(k + 1)]
<1>1. s.left \in Nat /\ s.left > 0 /\ out \in 0..(N - 1) /\ s.index \in Slots
  BY DEF Inv, Calls, SumState, TypeOK, Slots
<1>2. Len(Log) \in Nat /\ Len(Log) <= N
  BY LogIsSeq, LiveRing, NAssumption
<1>3. m \in Nat
  BY <1>2, ConstantsAssumption DEF Target, Inv, Calls, LlseekReq, IoctlReq
<1>4. /\ k \in 0..m /\ m <= Len(Log) /\ s.index = SlotOf(k + 1) /\ s.sum = EndOf(k)
      /\ k = m - s.left
  BY DEF SumAt, Summed
<1>5. t.left = s.left - 1 /\ t.index = NextIndex(s.index) /\ t.sum = s.sum + ring.entry[s.index].size
  BY DEF SumIterate
<1>6. k < m /\ k \in 0..(N - 1) /\ k < Len(Log) /\ k \in 0..Len(Log) /\ m - t.left = k + 1
  <2> HIDE DEF k, m, s, t
  <2> QED
    BY <1>1, <1>2, <1>3, <1>4, <1>5, NAssumption
<1>7. t.sum = EndOf(k + 1)
  <2> HIDE DEF k, m
  <2>1. Len(Log[k + 1]) = e.size
    BY <1>6, EntryAt
  <2>2. EndOf(k + 1) = EndOf(k) + Len(Log[k + 1])
    BY <1>6, Ends
  <2>3. ring.entry[s.index] = e
    BY <1>4
  <2> HIDE DEF s, e
  <2> QED
    BY <1>4, <1>5, <2>1, <2>2, <2>3
<1>8. t.index = SlotOf(k + 2)
  <2> HIDE DEF k, m
  <2>1. ring.out_offs \in Int /\ k \in Int
    BY <1>1, <1>6
  <2>2. /\ SlotOf(k + 1) = IF out + k >= N THEN out + k - N ELSE out + k
        /\ SlotOf(k + 2) = IF out + k + 1 >= N THEN out + k + 1 - N ELSE out + k + 1
    BY <2>1, SlotBehind
  <2>3. t.index = IF SlotOf(k + 1) + 1 >= N THEN 0 ELSE SlotOf(k + 1) + 1
    BY <1>4, <1>5 DEF NextIndex
  <2> HIDE DEF out, t
  <2> QED
    BY <1>1, <1>6, <2>2, <2>3, NAssumption
<1> QED
  BY <1>6, <1>7, <1>8

(* A process that is not in a handler gets into one of the loops by taking *)
(* the mutex for a read.                                                   *)
LEMMA EnteringStep ==
    ASSUME Inv, [Next]_vars, NEW p \in Proc, pc[p] \notin Critical,
           pc'[p] \in {"find", "copy_to", "sum"}
    PROVE  Lock(p) /\ pc'[p] = "find" /\ loop'[p] = FindStart(pos[p])
<1>0. pc \in [Proc -> Critical \cup {"user", "lock", "return", "oops"}] /\ loop \in [Proc -> FindState \cup SumState \cup {NULL}]
  BY DEF Inv, TypeOK
<1>1. pc'[p] # pc[p]
  BY DEF Critical
<1>2. CASE Module
  BY <1>1, <1>2 DEF Module, RegisterRegion, SetupCdev, Cleanup
<1>3. ASSUME NEW f \in File, Open(f) \/ Release(f) PROVE FALSE
  BY <1>1, <1>3 DEF Open, Release
<1>4. ASSUME NEW q \in Proc, NEW f \in File, NEW r \in Request, Enter(q, f, r) PROVE FALSE
  BY <1>0, <1>1, <1>4 DEF Enter
<1>5. ASSUME NEW q \in Proc, Interrupted(q) \/ Return(q) PROVE FALSE
  BY <1>0, <1>1, <1>5 DEF Interrupted, Return
<1>6. ASSUME NEW q \in Proc, Handler(q) PROVE FALSE
  <2>1. pc[q] \in Critical
    BY <1>6 DEF Critical, Handler, ReadFind, ReadCopy, WriteNoMemory, WriteGrow, WriteCopy,
       WriteFault, WriteAppend, WriteCommit, WriteOops, LlseekSwitch, LlseekEnd, SumStep,
       IoctlRefuse, IoctlSeekTo, IoctlEnd
  <2>2. q # p
    BY <2>1
  <2>3. pc'[p] = pc[p]
    BY <1>0, <1>6, <2>2 DEF Handler, ReadFind, ReadCopy, WriteNoMemory, WriteGrow, WriteCopy,
       WriteFault, WriteAppend, WriteCommit, WriteOops, LlseekSwitch, LlseekEnd, SumStep,
       IoctlRefuse, IoctlSeekTo, IoctlEnd, Leave, SetPosition
  <2> QED
    BY <1>1, <2>3
<1>7. ASSUME NEW q \in Proc, Lock(q) PROVE Lock(p) /\ pc'[p] = "find" /\ loop'[p] = FindStart(pos[p])
  <2>1. q = p
    BY <1>0, <1>1, <1>7 DEF Lock
  <2>2. req[p] \in Request
    BY <1>7, <2>1 DEF Lock, Inv, Calls
  <2>3. req[p].op \in {"read", "write", "llseek", "ioctl"}
    BY <2>2 DEF Request
  <2>4. pc'[p] = FirstStep[req[p].op]
    BY <1>0, <1>7, <2>1 DEF Lock
  <2>5. req[p].op = "read" /\ pc'[p] = "find"
    BY <2>3, <2>4 DEF FirstStep
  <2> QED
    BY <1>0, <1>7, <2>1, <2>5 DEF Lock
<1>8. CASE UNCHANGED vars
  BY <1>1, <1>8 DEF vars
<1> QED
  BY <1>2, <1>3, <1>4, <1>5, <1>6, <1>7, <1>8 DEF Next

(* Taking the mutex for a read starts the search at the oldest entry.      *)
LEMMA FindBegins ==
    ASSUME Inv, NEW p \in Proc, Lock(p), loop'[p] = FindStart(pos[p])
    PROVE  FindAt(p)'
<1>0. Live
  BY DEF Inv, Files, InCall, Lock
<1>1. /\ UNCHANGED <<cdev, devVars>> /\ pos'[p] = pos[p] /\ pos[p] \in Nat
      /\ ring.out_offs \in 0..(N - 1)
  BY DEF Lock, callVars, Inv, TypeOK, Slots
<1>2. Log' = Log /\ ring' = ring
  BY <1>1, DeviceUnchanged DEF devVars
<1>3. SlotOf(1)' = SlotOf(1) /\ EndOf(0)' = EndOf(0)
  BY <1>2 DEF SlotOf, EndOf
<1>4. EndOf(0) = 0 /\ Len(Log) \in Nat
  BY <1>0, Ends, LogIsSeq, LenProperties
<1>5. loop'[p].cur = 0 /\ loop'[p].remaining = pos[p]
  BY DEF FindStart
<1>6. SlotOf(1) = ring.out_offs
  BY <1>1, NAssumption DEF SlotOf
<1>7. Passed(loop'[p]) = 0
  BY <1>5 DEF Passed
<1>8. FindSlot(ring, loop'[p]) = ring.out_offs
  BY <1>1, <1>5 DEF FindSlot
<1>9. /\ Passed(loop[p])' \in 0..Len(Log) /\ Passed(loop[p])' < N
      /\ FindSlot(ring, loop[p])' = ring.out_offs
  BY <1>2, <1>4, <1>7, <1>8, NAssumption
<1>10. FindSlot(ring, loop[p])' = SlotOf(Passed(loop[p]) + 1)'
  BY <1>3, <1>6, <1>7, <1>9
<1>11. pos'[p] = EndOf(Passed(loop[p]))' + loop'[p].remaining
  BY <1>1, <1>3, <1>4, <1>5, <1>7
<1> QED
  BY <1>2, <1>9, <1>10, <1>11 DEF FindAt

(* An iteration of the search that goes on keeps FindAt, and one that ends *)
(* it with an entry gives FoundAt.                                         *)
LEMMA FindGoesOn ==
    ASSUME Inv, NEW p \in Proc, FindAt(p), ReadFind(p), pc'[p] # "return"
    PROVE  /\ pc'[p] = "find" => FindAt(p)'
           /\ pc'[p] = "copy_to" => FoundAt(p)'
           /\ pc'[p] # "sum"
<1> DEFINE t == FindIterate(ring, loop[p])
           i == Passed(loop[p])
<1>0. Live /\ pc[p] = "find"
  BY DEF Inv, Files, InCall, ReadFind
<1>1. /\ t.status # "null" /\ loop'[p] = t
      /\ pc'[p] = IF t.status = "found" THEN "copy_to" ELSE "find"
      /\ UNCHANGED <<cdev, devVars>> /\ pos'[p] = pos[p]
  BY DEF ReadFind, Leave, callVars, Inv, TypeOK
<1>2. Log' = Log /\ ring' = ring
  BY <1>1, DeviceUnchanged DEF devVars
<1>3. \A k : SlotOf(k)' = SlotOf(k) /\ EndOf(k)' = EndOf(k)
  BY <1>2 DEF SlotOf, EndOf
<1>4. /\ i \in 0..Len(Log) /\ i < N /\ FindSlot(ring, loop[p]) = SlotOf(i + 1)
      /\ pos[p] = EndOf(i) + loop[p].remaining
  BY DEF FindAt
<1>5. Len(Log) \in Nat
  BY <1>0, LogIsSeq, LenProperties
<1>6. CASE t.status = "found"
  <2>1. t.cur = loop[p].cur /\ t.remaining = loop[p].remaining /\ i < Len(Log) /\ t.remaining < Len(Log[i + 1])
    BY <1>0, <1>6, FindIterates
  <2>2. Passed(loop'[p]) = i /\ FindSlot(ring, loop'[p]) = FindSlot(ring, loop[p])
    BY <1>1, <2>1 DEF Passed, FindSlot
  <2> HIDE DEF t, i
  <2>3. FindAt(p)'
    BY <1>1, <1>2, <1>3, <1>4, <2>1, <2>2 DEF FindAt
  <2>4. FoundAt(p)'
    BY <1>1, <1>2, <2>1, <2>2, <2>3 DEF FoundAt
  <2> QED
    BY <1>1, <1>6, <2>4
<1>7. CASE t.status # "found"
  <2>1. /\ i < Len(Log) /\ i + 1 < N /\ Passed(t) = i + 1
        /\ FindSlot(ring, t) = SlotOf(i + 2) /\ pos[p] = EndOf(i + 1) + t.remaining
    BY <1>0, <1>1, <1>7, FindIterates
  <2> HIDE DEF t, i
  <2>2. i + 1 \in 0..Len(Log) /\ (i + 1) + 1 = i + 2
    BY <1>4, <1>5, <2>1
  <2>3. FindAt(p)'
    BY <1>1, <1>2, <1>3, <2>1, <2>2 DEF FindAt
  <2> QED
    BY <1>1, <1>7, <2>3
<1> QED
  BY <1>6, <1>7

(* The summing loop starts at the oldest entry with nothing summed.        *)
LEMMA SumBegins ==
    ASSUME Inv, Live, NEW p \in Proc, UNCHANGED <<cdev, devVars>>, req'[p] = req[p],
           Target(p) \in 0..Len(Log), loop'[p] = SumStart(ring, Target(p)),
           req[p].op = "ioctl" => Target(p) < Len(Log),
           req[p].op = "llseek" => req[p].arg.whence = "SEEK_END"
    PROVE  SumAt(p)'
<1>1. Log' = Log /\ ring' = ring /\ Len(Log) \in Nat
  BY DeviceUnchanged, LogIsSeq, LenProperties DEF devVars
<1>2. \A k : SlotOf(k)' = SlotOf(k) /\ EndOf(k)' = EndOf(k)
  BY <1>1 DEF SlotOf, EndOf
<1>3. Target(p)' = Target(p) /\ ring.out_offs \in 0..(N - 1)
  BY <1>1 DEF Target, Inv, TypeOK, Slots
<1>4. loop'[p].left = Target(p) /\ loop'[p].index = ring.out_offs /\ loop'[p].sum = 0
  BY DEF SumStart
<1>5. Summed(p)' = 0
  <2>1. Summed(p)' = Target(p) - Target(p)
    BY <1>3, <1>4 DEF Summed
  <2> QED
    BY <1>1, <2>1
<1>6. SlotOf(0 + 1) = ring.out_offs
  <2>1. ring.out_offs \in Int /\ 0 \in Int
    BY <1>3
  <2>2. SlotOf(0 + 1) = IF ring.out_offs + 0 >= N THEN ring.out_offs + 0 - N ELSE ring.out_offs + 0
    BY <2>1, SlotBehind
  <2> QED
    BY <1>3, <2>2, NAssumption
<1>7. EndOf(0) = 0
  BY Ends
<1>8. loop'[p].index = SlotOf(Summed(p) + 1)' /\ loop'[p].sum = EndOf(Summed(p))'
  BY <1>2, <1>4, <1>5, <1>6, <1>7
<1> QED
  BY <1>1, <1>3, <1>5, <1>8 DEF SumAt

LEMMA SumGoesOn ==
    ASSUME Inv, NEW p \in Proc, SumAt(p), SumStep(p)
    PROVE  SumAt(p)'
<1> DEFINE t == SumIterate(ring, loop[p])
           k == Summed(p)
           m == Target(p)
<1>0. Live /\ pc[p] = "sum" /\ loop[p].left > 0
  BY DEF Inv, Files, InCall, SumStep
<1>1. UNCHANGED <<cdev, devVars>> /\ req'[p] = req[p] /\ loop'[p] = t
  BY DEF SumStep, callVars, Inv, TypeOK
<1>2. Log' = Log
  BY <1>1, DeviceUnchanged DEF devVars
<1>3. \A j : SlotOf(j)' = SlotOf(j) /\ EndOf(j)' = EndOf(j)
  BY <1>1, <1>2 DEF SlotOf, EndOf, devVars
<1>4. Target(p)' = Target(p)
  BY <1>1, <1>2 DEF Target
<1>5. k < m /\ k \in Nat /\ m - t.left = k + 1 /\ t.index = SlotOf(k + 2) /\ t.sum = EndOf(k + 1)
  BY <1>0, SumIterates
<1>6. Summed(p)' = k + 1
  BY <1>1, <1>4, <1>5 DEF Summed
<1>7. k + 1 \in 0..m /\ (k + 1) + 1 = k + 2
  <2>1. k \in 0..m
    BY DEF SumAt
  <2>2. m \in Nat
    <3>1. Len(Log) \in Nat
      BY <1>0, LogIsSeq, LenProperties
    <3> QED
      BY <1>0, <3>1, ConstantsAssumption DEF Target, Inv, Calls, LlseekReq, IoctlReq
  <2> HIDE DEF k, m
  <2> QED
    BY <1>5, <2>1, <2>2
<1>8. loop'[p].index = SlotOf(Summed(p) + 1)' /\ loop'[p].sum = EndOf(Summed(p))'
  BY <1>1, <1>3, <1>5, <1>6, <1>7
<1>9. Summed(p)' \in 0..Target(p)'
  BY <1>4, <1>6, <1>7
<1>10. m <= Len(Log) /\ (req[p].op = "ioctl" => m < Len(Log)) /\ (req[p].op = "llseek" => req[p].arg.whence = "SEEK_END")
  BY DEF SumAt
<1> HIDE DEF k, m, t
<1> QED
  BY <1>1, <1>2, <1>4, <1>8, <1>9, <1>10 DEF SumAt, m

(* The step into the summing loop, of either call.                         *)
LEMMA SumEntered ==
    ASSUME Inv, NEW p \in Proc, LlseekSwitch(p) \/ IoctlSeekTo(p), pc'[p] = "sum"
    PROVE  SumAt(p)'
<1>0. Live /\ pc \in [Proc -> Critical \cup {"user", "lock", "return", "oops"}]
      /\ loop \in [Proc -> FindState \cup SumState \cup {NULL}]
  BY DEF Inv, Files, InCall, LlseekSwitch, IoctlSeekTo, TypeOK
<1>1. Len(Log) = NumEntries(ring) /\ NumEntries(ring) \in Nat
  BY <1>0, LogIsSeq, LiveRing, NAssumption
<1>2. CASE LlseekSwitch(p)
  <2>1. req[p] \in LlseekReq /\ req[p].op = "llseek"
    BY <1>2 DEF LlseekSwitch, Inv, Calls, LlseekReq
  <2>2. /\ req[p].arg.whence = "SEEK_END" /\ UNCHANGED <<cdev, devVars>> /\ req'[p] = req[p]
        /\ loop'[p] = SumStart(ring, NumEntries(ring))
    BY <1>0, <1>2 DEF LlseekSwitch, SetPosition, Leave, callVars
  <2>3. Target(p) = NumEntries(ring)
    BY <1>1, <2>1 DEF Target
  <2>4. Target(p) \in 0..Len(Log)
    BY <1>1, <2>3
  <2> QED
    BY <1>0, <2>1, <2>2, <2>3, <2>4, SumBegins
<1>3. CASE IoctlSeekTo(p)
  <2>1. req[p] \in IoctlReq /\ req[p].op = "ioctl"
    BY <1>3 DEF IoctlSeekTo, Inv, Calls, IoctlReq
  <2>2. /\ req[p].arg.write_cmd < NumEntries(ring) /\ UNCHANGED <<cdev, devVars>> /\ req'[p] = req[p]
        /\ loop'[p] = SumStart(ring, req[p].arg.write_cmd)
    BY <1>0, <1>3 DEF IoctlSeekTo, InRing, callVars
  <2>3. Target(p) = req[p].arg.write_cmd
    BY <2>1 DEF Target
  <2>4. Target(p) \in 0..Len(Log) /\ Target(p) < Len(Log)
    <3>1. req[p].arg.write_cmd \in Nat
      BY <2>1, ConstantsAssumption DEF IoctlReq
    <3> QED
      BY <1>1, <2>2, <2>3, <3>1
  <2> QED
    BY <1>0, <2>1, <2>2, <2>3, <2>4, SumBegins
<1> QED
  BY <1>2, <1>3

(* Where a handler's step leads.                                           *)
LEMMA HandlerLeads ==
    ASSUME Inv, NEW p \in Proc, Handler(p), pc'[p] \in {"find", "copy_to", "sum"}
    PROVE  \/ ReadFind(p) /\ pc[p] = "find" /\ pc'[p] \in {"find", "copy_to"}
           \/ LlseekSwitch(p) /\ pc[p] = "llseek" /\ pc'[p] = "sum"
           \/ IoctlSeekTo(p) /\ pc[p] = "ioctl" /\ pc'[p] = "sum"
           \/ SumStep(p) /\ pc[p] = "sum" /\ pc'[p] = "sum"
<1>0. pc \in [Proc -> Critical \cup {"user", "lock", "return", "oops"}]
  BY DEF Inv, TypeOK
<1>1. CASE ReadFind(p)
  BY <1>0, <1>1 DEF ReadFind, Leave
<1>2. CASE ReadCopy(p) \/ WriteNoMemory(p) \/ WriteGrow(p) \/ WriteCopy(p) \/ WriteFault(p)
           \/ WriteAppend(p) \/ WriteCommit(p) \/ WriteOops(p) \/ LlseekEnd(p) \/ IoctlRefuse(p) \/ IoctlEnd(p)
  BY <1>0, <1>2 DEF Leave, SetPosition, ReadCopy, WriteNoMemory, WriteGrow, WriteCopy, WriteFault, WriteAppend,
     WriteCommit, WriteOops, LlseekEnd, IoctlRefuse, IoctlEnd
<1>3. CASE LlseekSwitch(p)
  BY <1>0, <1>3 DEF LlseekSwitch, SetPosition, Leave
<1>4. CASE IoctlSeekTo(p) \/ SumStep(p)
  BY <1>0, <1>4 DEF IoctlSeekTo, SumStep
<1> QED
  BY <1>1, <1>2, <1>3, <1>4 DEF Handler

LEMMA StreamInit == Init => StreamInv
BY DEF Init, StreamInv

LEMMA StreamStep == Inv /\ StreamInv /\ [Next]_vars => StreamInv'
<1> SUFFICES ASSUME Inv, StreamInv, [Next]_vars, NEW p \in Proc, pc'[p] \in {"find", "copy_to", "sum"}
             PROVE  /\ pc'[p] = "find" => FindAt(p)'
                    /\ pc'[p] = "copy_to" => FoundAt(p)'
                    /\ pc'[p] = "sum" => SumAt(p)'
  BY DEF StreamInv
<1>1. /\ pc[p] = "find" => FindAt(p)
      /\ pc[p] = "copy_to" => FoundAt(p)
      /\ pc[p] = "sum" => SumAt(p)
  BY DEF StreamInv
<1>2. CASE pc[p] \notin Critical
  BY <1>2, EnteringStep, FindBegins
<1>3. CASE pc[p] \in Critical /\ Handler(p)
  <2>1. CASE ReadFind(p) /\ pc[p] = "find" /\ pc'[p] \in {"find", "copy_to"}
    BY <1>1, <2>1, FindGoesOn
  <2>2. CASE LlseekSwitch(p) \/ IoctlSeekTo(p)
    BY <1>3, <2>2, HandlerLeads, SumEntered DEF LlseekSwitch, IoctlSeekTo
  <2>3. CASE SumStep(p) /\ pc[p] = "sum" /\ pc'[p] = "sum"
    BY <1>1, <2>3, SumGoesOn
  <2> QED
    BY <1>3, <2>1, <2>2, <2>3, HandlerLeads
<1>4. CASE pc[p] \in Critical /\ ~Handler(p)
  <2>1. /\ UNCHANGED <<cdev, devVars>> /\ pc'[p] = pc[p]
        /\ loop'[p] = loop[p] /\ req'[p] = req[p] /\ pos'[p] = pos[p]
    BY <1>4, HolderAlone
  <2> QED
    BY <1>1, <2>1, LoopsKept
<1> QED
  BY <1>2, <1>3, <1>4

(* The loops of a read and of a seek are where the stream says, in every   *)
(* state.                                                                  *)
THEOREM StreamInvariance == Spec => [](Inv /\ StreamInv)
<1>1. Init => Inv /\ StreamInv
  BY InitInv, StreamInit
<1>2. (Inv /\ StreamInv) /\ [Next]_vars => (Inv /\ StreamInv)'
  BY NextInv, StreamStep
<1> QED
  BY <1>1, <1>2, PTL DEF Spec
-----------------------------------------------------------------------------
(* What the found entry's buffer holds behind the offset is what the       *)
(* stream holds behind the position.                                       *)
LEMMA ChunkIsStream ==
    ASSUME Inv, Live, NEW p \in Proc, pc[p] = "copy_to", FoundAt(p)
    PROVE  /\ NumChars(p) \in Nat
           /\ NumChars(p) = 0 => req[p].count = 0
           /\ \A n \in 0..NumChars(p) :
                  /\ Len(Chunk(p, n)) = n
                  /\ Chunk(p, n) = SubSeq(Stream, pos[p] + 1, pos[p] + n)
<1> DEFINE e == NewEntry(p)
           b == heap[e.buffptr]
           k == loop[p].remaining
           i == Passed(loop[p])
           a == EndOf(i)
<1> USE ConstantsAssumption
<1>1. Log \in Seq(Seq(Byte)) /\ Len(Log) \in Nat /\ Len(Log) <= N
  BY LogIsSeq, LiveRing, LenProperties, NAssumption
<1>2. /\ i \in 0..(N - 1) /\ i < Len(Log) /\ e = ring.entry[SlotOf(i + 1)]
      /\ pos[p] = a + k /\ k < Len(Log[i + 1])
  BY <1>1, NAssumption DEF FoundAt, FindAt, NewEntry
<1>3. /\ e.size \in Nat /\ e.size > 0 /\ b \in Seq(Byte) /\ e.size <= Len(b)
      /\ Log[i + 1] = SubSeq(b, 1, e.size) /\ Len(Log[i + 1]) = e.size
  <2> HIDE DEF i, e
  <2>1. LET x == ring.entry[SlotOf(i + 1)]
        IN  /\ x.size \in Nat /\ x.size > 0
            /\ heap[x.buffptr] \in Seq(Byte) /\ x.size <= Len(heap[x.buffptr])
            /\ Log[i + 1] = SubSeq(heap[x.buffptr], 1, x.size)
            /\ Len(Log[i + 1]) = x.size
    BY <1>2, EntryAt
  <2> QED
    BY <1>2, <2>1
<1>4. k \in Nat /\ req[p].count \in Nat
  BY DEF Inv, Calls, FindState, ReadReq
<1>5. NumChars(p) = IF e.size - k > req[p].count THEN req[p].count ELSE e.size - k
  BY DEF NumChars
<1>6. NumChars(p) \in Nat /\ k + NumChars(p) <= e.size /\ (NumChars(p) = 0 => req[p].count = 0)
  <2>1. k < e.size
    BY <1>2, <1>3
  <2> DEFINE sz == e.size
             c == req[p].count
             x == NumChars(p)
  <2>2. x = (IF sz - k > c THEN c ELSE sz - k) /\ k < sz /\ sz \in Nat /\ k \in Nat /\ c \in Nat
    BY <1>3, <1>4, <1>5, <2>1
  <2> HIDE DEF sz, k, c, x
  <2>3. x \in Nat /\ k + x <= sz /\ (x = 0 => c = 0)
    BY <2>2
  <2> QED
    BY <2>3 DEF sz, c, x
<1>7. PICK m \in 1..Len(Log) : m = i + 1 /\ m - 1 = i
  BY <1>1, <1>2
<1>8. /\ a \in Nat /\ a + Len(Log[m]) <= Len(Stream)
      /\ \A j \in 1..Len(Log[m]) : Stream[a + j] = Log[m][j]
  <2> DEFINE before == Len(FlattenSeq(First(Log, m - 1)))
             w == Log
  <2>1. before = a
    BY <1>7 DEF EndOf
  <2>2. w \in Seq(Seq(Byte)) /\ m \in 1..Len(w) /\ before = Len(FlattenSeq(First(w, m - 1)))
    BY <1>1
  <2> HIDE DEF w
  <2>3. /\ Len(FlattenSeq(First(w, m - 1))) \in Nat
        /\ Len(FlattenSeq(First(w, m - 1))) + Len(w[m]) <= Len(FlattenSeq(w))
    BY <2>2, FlattenMember
  <2>4. SameAt(FlattenSeq(w), Len(FlattenSeq(First(w, m - 1))), w[m], 0, Len(w[m]))
    BY <2>2, FlattenMember
  <2>5. SameAt(FlattenSeq(w), before, w[m], 0, Len(w[m]))
    BY <2>2, <2>4
  <2>6. \A j \in 1..Len(w[m]) : FlattenSeq(w)[before + j] = w[m][j]
    BY <2>5 DEF SameAt
  <2> HIDE DEF before, a
  <2> QED
    BY <2>1, <2>2, <2>3, <2>6 DEF w, Stream
<1>9. Stream \in Seq(Byte) /\ Len(Stream) \in Nat
  BY <1>1, FlattenType, LenProperties DEF Stream
<1>10. \A j \in 1..e.size : Log[m][j] = b[j]
  <2> HIDE DEF e, b, i
  <2>1. e.size \in 0..Len(b)
    BY <1>3, LenProperties
  <2>2. \A j \in 1..e.size : First(b, e.size)[j] = b[j]
    BY <1>3, <2>1, FirstFacts
  <2> QED
    BY <1>3, <1>7, <2>2 DEF First
<1>11. ASSUME NEW n \in 0..NumChars(p)
       PROVE  /\ Len(Chunk(p, n)) = n
              /\ Chunk(p, n) = SubSeq(Stream, pos[p] + 1, pos[p] + n)
  <2>1. Chunk(p, n) = SubSeq(b, k + 1, k + n)
    BY DEF Chunk
  <2>2. \A j \in 1..n : k + j \in 1..e.size
    <3> HIDE DEF e, k
    <3> QED
      BY <1>3, <1>4, <1>6
  <2> DEFINE q == a + k
  <2>3. q \in Nat /\ n \in Nat /\ k + n <= Len(b) /\ q + n <= Len(Stream)
    <3>1. Len(Log[m]) = e.size /\ Len(b) \in Nat
      BY <1>3, <1>7, LenProperties
    <3> DEFINE sz == e.size
               c == NumChars(p)
               lb == Len(b)
               ls == Len(Stream)
    <3>2. /\ k + c <= sz /\ a + sz <= ls /\ sz <= lb
          /\ k \in Nat /\ a \in Nat /\ c \in Nat /\ sz \in Nat /\ lb \in Nat /\ ls \in Nat /\ n \in 0..c
      BY <1>3, <1>4, <1>6, <1>8, <1>9, <3>1
    <3> HIDE DEF k, a, sz, c, lb, ls
    <3>3. q \in Nat /\ n \in Nat /\ k + n <= lb /\ q + n <= ls
      BY <3>2
    <3> QED
      BY <3>3 DEF lb, ls
  <2>4. \A j \in 1..n : q + j = a + (k + j)
    <3> HIDE DEF k, a
    <3> QED
      BY <1>4, <1>8
  <2>5. SameAt(b, k, Stream, q, n)
    <3>1. ASSUME NEW j \in 1..n PROVE b[k + j] = Stream[q + j]
      <4>1. PICK l \in 1..e.size : l = k + j
        BY <2>2
      <4>2. Stream[a + l] = Log[m][l] /\ Log[m][l] = b[l]
        BY <1>3, <1>7, <1>8, <1>10
      <4> QED
        BY <2>4, <4>1, <4>2
    <3> QED
      BY <3>1 DEF SameAt
  <2> HIDE DEF q, b, k
  <2>6. SubSeq(b, k + 1, k + n) = SubSeq(Stream, q + 1, q + n)
    BY <1>3, <1>4, <1>9, <2>3, <2>5, SameParts
  <2>7. Len(SubSeq(b, k + 1, k + n)) = n
    <3>1. b \in Seq(Byte) /\ k \in Nat /\ n \in Nat /\ k + n <= Len(b)
      BY <1>3, <1>4, <2>3
    <3> QED
      BY <3>1, PartFacts
  <2> QED
    BY <1>2, <2>1, <2>6, <2>7 DEF q
<1> QED
  BY <1>6, <1>11

(* The step that ends a read.                                              *)
LEMMA ReadEndsOnStream ==
    ASSUME Inv, StreamInv, [Next]_vars, NEW p \in Proc, ReadEnds(p)
    PROVE  ReadDelivers(p)
<1>0. /\ pc[p] \in {"find", "copy_to"} /\ pc'[p] = "return" /\ pc[p] \in Critical
      /\ Live
      /\ pos \in [Proc -> Nat] /\ ret \in [Proc -> [val : Int, data : Seq(Byte), uncopied : Nat]]
  BY DEF ReadEnds, Critical, Inv, Files, InCall, TypeOK
<1>1. Handler(p)
  BY <1>0, HolderAlone
<1>2. ReadFind(p) \/ ReadCopy(p)
  BY <1>0, <1>1 DEF Handler, WriteNoMemory, WriteGrow, WriteCopy, WriteFault, WriteAppend, WriteCommit,
     WriteOops, LlseekSwitch, LlseekEnd, SumStep, IoctlRefuse, IoctlSeekTo, IoctlEnd
<1>3. CASE ReadFind(p)
  <2>1. pc[p] = "find" /\ FindAt(p)
    BY <1>3 DEF ReadFind, StreamInv
  <2>2. /\ FindIterate(ring, loop[p]).status = "null" /\ ret'[p] = Value(0) /\ pos'[p] = pos[p]
    BY <1>0, <1>3 DEF ReadFind, Leave, callVars, Inv, TypeOK
  <2>3. pos[p] >= Len(Stream)
    BY <1>0, <2>1, <2>2, FindIterates
  <2>4. /\ ret'[p].data = <<>> /\ Len(ret'[p].data) = 0
        /\ ret'[p].val = 0 /\ ret'[p].uncopied = 0 /\ pos'[p] = pos[p] + 0
    BY <1>0, <2>2, EmptySeq DEF Value
  <2>5. SubSeq(Stream, pos[p] + 1, pos[p] + 0) = <<>>
    <3>1. PICK a \in Int, b \in Int : a = pos[p] + 1 /\ b = pos[p] + 0 /\ b < a
      BY <1>0
    <3> QED
      BY <3>1, SubSeqEmpty
  <2> QED
    BY <2>2, <2>3, <2>4, <2>5 DEF ReadDelivers
<1>4. CASE ReadCopy(p)
  <2> DEFINE n == NumChars(p)
  <2>1. pc[p] = "copy_to" /\ FoundAt(p)
    BY <1>4 DEF ReadCopy, StreamInv
  <2>2. /\ n \in Nat /\ (n = 0 => req[p].count = 0)
        /\ \A m \in 0..n : /\ Len(Chunk(p, m)) = m
                           /\ Chunk(p, m) = SubSeq(Stream, pos[p] + 1, pos[p] + m)
    BY <1>0, <2>1, ChunkIsStream
  <2>3. CASE Leave(p, Copied(p, n, 0)) /\ pos' = [pos EXCEPT ![p] = @ + n]
    <3>0. n - 0 = n
      BY <2>2
    <3>1. /\ ret'[p].val = n /\ ret'[p].data = Chunk(p, n) /\ ret'[p].uncopied = 0
          /\ pos'[p] = pos[p] + n
      BY <1>0, <2>3, <3>0 DEF Leave, Copied
    <3> HIDE DEF n
    <3> QED
      BY <2>2, <3>1 DEF ReadDelivers
  <2>4. ASSUME NEW err \in 1..n, Leave(p, Copied(p, err, err)), UNCHANGED pos
        PROVE  ReadDelivers(p)
    <3>1. /\ ret'[p].val = err /\ ret'[p].data = Chunk(p, n - err) /\ ret'[p].uncopied = err
          /\ pos'[p] = pos[p]
      BY <1>0, <2>4 DEF Leave, Copied
    <3>2. n - err \in 0..n /\ err # 0
      BY <2>2
    <3> HIDE DEF n
    <3> QED
      BY <2>2, <3>1, <3>2 DEF ReadDelivers
  <2> QED
    BY <1>4, <2>3, <2>4 DEF ReadCopy
<1> QED
  BY <1>2, <1>3, <1>4

(* Whatever is written, evicted and read concurrently, and for every       *)
(* capacity of the ring, a read delivers the bytes of the stream at its    *)
(* position and reports the end of file only at the end of the stream.     *)
THEOREM ReadDeliversStreamHolds == Spec => ReadDeliversStream
<1>1. Inv /\ StreamInv /\ [Next]_vars => [\A p \in Proc : ReadEnds(p) => ReadDelivers(p)]_vars
  BY ReadEndsOnStream
<1> QED
  BY <1>1, StreamInvariance, PTL DEF Spec, ReadDeliversStream

(* Setting the position: either it fails and stays, or it is the result.   *)
LEMMA PositionSet ==
    ASSUME Inv, NEW p \in Proc, NEW x \in Int, SetPosition(p, x)
    PROVE  \/ x < 0 /\ ret'[p].val < 0 /\ fpos' = fpos
           \/ x >= 0 /\ ret'[p].val = x /\ fpos'[filp[p]] = x
<1>1. /\ ret \in [Proc -> [val : Int, data : Seq(Byte), uncopied : Nat]] /\ fpos \in [File -> Nat] /\ filp[p] \in File
  BY DEF Inv, TypeOK
<1>2. CASE x < 0 /\ Leave(p, Value(-EINVAL)) /\ UNCHANGED fpos
  <2>1. ret'[p].val = -22
    BY <1>1, <1>2 DEF Leave, Value, EINVAL
  <2> QED
    BY <1>2, <2>1
<1>3. CASE x >= 0 /\ Leave(p, Value(x)) /\ fpos' = [fpos EXCEPT ![filp[p]] = x]
  BY <1>1, <1>3 DEF Leave, Value
<1> QED
  BY <1>2, <1>3 DEF SetPosition

(* A loop that has gone through its entries stands at the one sought.      *)
LEMMA SumDone ==
    ASSUME Inv, Live, NEW p \in Proc, pc[p] = "sum", SumAt(p), loop[p].left = 0
    PROVE  Summed(p) = Target(p) /\ loop[p].index = SlotOf(Target(p) + 1) /\ loop[p].sum = EndOf(Target(p))
<1>1. Target(p) \in Nat
  <2>1. Len(Log) \in Nat
    BY LogIsSeq, LenProperties
  <2> QED
    BY <2>1, ConstantsAssumption DEF Target, Inv, Calls, LlseekReq, IoctlReq
<1>2. Summed(p) = Target(p)
  BY <1>1 DEF Summed
<1> QED
  BY <1>2 DEF SumAt

(* The step that ends a seek.                                              *)
LEMMA SeekEndsOnByte ==
    ASSUME Inv, StreamInv, [Next]_vars, NEW p \in Proc, SeekEnds(p)
    PROVE  SeekLands(p)
<1> USE ConstantsAssumption
<1>0. /\ pc[p] \in {"llseek", "ioctl", "sum"} /\ pc'[p] = "return" /\ pc[p] \in Critical
      /\ Live /\ filp[p] \in File
      /\ pc \in [Proc -> Critical \cup {"user", "lock", "return", "oops"}]
      /\ fpos \in [File -> Nat] /\ ret \in [Proc -> [val : Int, data : Seq(Byte), uncopied : Nat]]
  BY DEF SeekEnds, Critical, Inv, Files, InCall, TypeOK
<1>1. Handler(p)
  BY <1>0, HolderAlone
<1>2. LlseekSwitch(p) \/ LlseekEnd(p) \/ IoctlRefuse(p) \/ IoctlEnd(p)
  <2>1. ~SumStep(p) /\ ~IoctlSeekTo(p)
    BY <1>0 DEF SumStep, IoctlSeekTo
  <2> QED
    BY <1>0, <1>1, <2>1 DEF Handler, ReadFind, ReadCopy, WriteNoMemory, WriteGrow, WriteCopy, WriteFault,
       WriteAppend, WriteCommit, WriteOops
<1>3. ASSUME Leave(p, Value(-EINVAL)), UNCHANGED fpos PROVE SeekLands(p)
  <2>1. ret'[p].val = -22
    BY <1>0, <1>3 DEF Leave, Value, EINVAL
  <2> QED
    BY <1>3, <2>1 DEF SeekLands
<1>4. CASE IoctlRefuse(p)
  BY <1>3, <1>4 DEF IoctlRefuse
<1>5. CASE LlseekSwitch(p)
  <2>1. req[p] \in LlseekReq /\ req[p].op = "llseek" /\ req[p].arg.offset \in Int
    BY <1>5 DEF LlseekSwitch, Inv, Calls, LlseekReq
  <2>2. ASSUME NEW x \in Int, SetPosition(p, x), req[p].arg.whence # "SEEK_END",
               req[p].arg.whence = "SEEK_SET" => x = req[p].arg.offset,
               req[p].arg.whence = "SEEK_CUR" => x = fpos[filp[p]] + req[p].arg.offset
        PROVE  SeekLands(p)
    BY <2>1, <2>2, PositionSet DEF SeekLands
  <2>3. CASE req[p].arg.whence = "SEEK_SET" /\ SetPosition(p, req[p].arg.offset)
    BY <2>1, <2>2, <2>3
  <2>4. CASE req[p].arg.whence = "SEEK_CUR" /\ SetPosition(p, fpos[filp[p]] + req[p].arg.offset)
    <3>1. PICK x \in Int : x = fpos[filp[p]] + req[p].arg.offset
      BY <1>0, <2>1
    <3> QED
      BY <2>2, <2>4, <3>1
  <2>5. CASE req[p].arg.whence = "bad" /\ Leave(p, Value(-EINVAL)) /\ UNCHANGED fpos
    BY <1>3, <2>5
  <2> QED
    BY <1>0, <1>5, <2>3, <2>4, <2>5 DEF LlseekSwitch
<1>6. CASE LlseekEnd(p)
  <2>1. /\ pc[p] = "sum" /\ loop[p].left = 0 /\ req[p].op = "llseek" /\ SumAt(p)
        /\ req[p].arg.whence = "SEEK_END"
    BY <1>6 DEF LlseekEnd, StreamInv, Inv, Calls
  <2>2. req[p].arg.offset \in Int /\ loop[p].sum \in Nat
    BY <2>1 DEF Inv, Calls, LlseekReq, IoctlReq, SumState
  <2>3. loop[p].sum = Len(Stream)
    BY <1>0, <2>1, SumDone, Ends DEF Target
  <2>4. PICK x \in Int : x = loop[p].sum + req[p].arg.offset
    BY <2>2
  <2>5. SetPosition(p, x)
    BY <1>6, <2>4 DEF LlseekEnd
  <2> QED
    BY <2>1, <2>3, <2>4, <2>5, PositionSet DEF SeekLands
<1>7. CASE IoctlEnd(p)
  <2> DEFINE c == req[p].arg.write_cmd
             o == req[p].arg.write_cmd_offset
  <2>1. pc[p] = "sum" /\ loop[p].left = 0 /\ req[p].op = "ioctl" /\ SumAt(p)
    BY <1>7 DEF IoctlEnd, StreamInv
  <2>2. c \in Nat /\ o \in Nat /\ loop[p].sum \in Nat
    BY <2>1 DEF Inv, Calls, LlseekReq, IoctlReq, SumState
  <2>3. c < Len(Log) /\ loop[p].index = SlotOf(c + 1) /\ loop[p].sum = EndOf(c)
    <3>1. Target(p) = c
      BY <2>1 DEF Target
    <3>2. Target(p) < Len(Log)
      BY <2>1 DEF SumAt
    <3> QED
      BY <1>0, <2>1, <3>1, <3>2, SumDone
  <2>4. c \in 0..(N - 1)
    <3>1. Len(Log) \in Nat /\ Len(Log) <= N
      BY <1>0, LogIsSeq, LiveRing, NAssumption
    <3> HIDE DEF c
    <3> QED
      BY <2>2, <2>3, <3>1, NAssumption
  <2>5. Len(Log[c + 1]) = ring.entry[loop[p].index].size
    <3> HIDE DEF c
    <3> QED
      BY <1>0, <2>3, <2>4, EntryAt
  <2>6. PICK x \in Nat : x = loop[p].sum + o
    BY <2>2
  <2>7. CASE InCommand(p) /\ Leave(p, Value(x)) /\ fpos' = [fpos EXCEPT ![filp[p]] = x]
    <3>1. ret'[p].val = x /\ fpos'[filp[p]] = x /\ ~(x < 0)
      BY <1>0, <2>6, <2>7 DEF Leave, Value
    <3>2. ring.entry[loop[p].index].size > o
      BY <2>7 DEF InCommand
    <3>3. o < Len(Log[c + 1])
      BY <2>5, <3>2
    <3>4. x = EndOf(c) + o
      BY <2>3, <2>6
    <3> QED
      BY <2>1, <2>3, <3>1, <3>3, <3>4 DEF SeekLands, EndOf, First
  <2>8. CASE Leave(p, Value(-EINVAL)) /\ UNCHANGED fpos
    BY <1>3, <2>8
  <2> QED
    BY <1>7, <2>6, <2>7, <2>8 DEF IoctlEnd
<1> QED
  BY <1>2, <1>4, <1>5, <1>6, <1>7

(* A seek lands on the byte it names, for every content of the ring, every *)
(* wrap of its offsets and every concurrent call.                          *)
THEOREM SeeksLandOnBytesHolds == Spec => SeeksLandOnBytes
<1>1. Inv /\ StreamInv /\ [Next]_vars => [\A p \in Proc : SeekEnds(p) => SeekLands(p)]_vars
  BY SeekEndsOnByte
<1> QED
  BY <1>1, StreamInvariance, PTL DEF Spec, SeeksLandOnBytes
-----------------------------------------------------------------------------
(* The kernel's copy of f_pos, of a call on a file one process uses: it is *)
(* f_pos, until a read is done and has moved it by what it delivered; and  *)
(* a call that returns an error has moved nothing.                         *)
CopyOf(p) ==
    Private(filp[p]) /\ req[p].op \in {"read", "write"} =>
        /\ pc[p] # "return" => pos[p] = fpos[filp[p]]
        /\ pc[p] = "return" => /\ pos[p] = fpos[filp[p]] + Advance(p)
                               /\ ret[p].val >= 0 \/ Advance(p) = 0

CopyInv == \A p \in Proc : InCall(p) => <<p, filp[p]>> \in Uses /\ CopyOf(p)

(* A handler's step of q leaves p's call alone, and the position of a file *)
(* that is not q's.                                                        *)
LEMMA OthersHandler ==
    ASSUME Inv, NEW p \in Proc, NEW q \in Proc, p # q,
           Handler(q) \/ Lock(q) \/ Interrupted(q) \/ Return(q)
    PROVE  /\ pc'[p] = pc[p] /\ req'[p] = req[p] /\ filp' = filp /\ pos'[p] = pos[p] /\ ret'[p] = ret[p]
           /\ \A f \in File : f # filp[q] => fpos'[f] = fpos[f]
<1>0. /\ pc \in [Proc -> Critical \cup {"user", "lock", "return", "oops"}]
      /\ req \in [Proc -> Request \cup {NULL}] /\ pos \in [Proc -> Nat]
      /\ ret \in [Proc -> [val : Int, data : Seq(Byte), uncopied : Nat]] /\ fpos \in [File -> Nat]
  BY DEF Inv, TypeOK
<1> USE DEF Leave, callVars
<1>1. CASE ReadFind(q) \/ ReadCopy(q)
  BY <1>0, <1>1 DEF ReadFind, ReadCopy
<1>2. CASE WriteNoMemory(q) \/ WriteGrow(q) \/ WriteCopy(q) \/ WriteFault(q)
           \/ WriteAppend(q) \/ WriteCommit(q) \/ WriteOops(q)
  BY <1>0, <1>2 DEF WriteNoMemory, WriteGrow, WriteCopy, WriteFault, WriteAppend, WriteCommit, WriteOops
<1>3. CASE LlseekSwitch(q) \/ LlseekEnd(q)
  BY <1>0, <1>3 DEF LlseekSwitch, LlseekEnd, SetPosition
<1>4. CASE SumStep(q) \/ IoctlRefuse(q) \/ IoctlSeekTo(q) \/ IoctlEnd(q)
  BY <1>0, <1>4 DEF SumStep, IoctlRefuse, IoctlSeekTo, IoctlEnd
<1>5. CASE Lock(q) \/ Interrupted(q)
  BY <1>0, <1>5 DEF Lock, Interrupted
<1>6. CASE Return(q)
  BY <1>0, <1>6 DEF Return
<1> QED
  BY <1>1, <1>2, <1>3, <1>4, <1>5, <1>6 DEF Handler

(* What p knows stays when its call and its file's position do.            *)
LEMMA CopyKept ==
    ASSUME NEW p \in Proc, CopyOf(p), pc'[p] = pc[p], req'[p] = req[p], filp'[p] = filp[p],
           pos'[p] = pos[p], ret'[p] = ret[p], Private(filp[p]) => fpos'[filp[p]] = fpos[filp[p]]
    PROVE  CopyOf(p)'
BY DEF CopyOf, Advance, Private

(* A step of p's own read or write, up to its return.                      *)
LEMMA OwnCopy ==
    ASSUME Inv, StreamInv, NEW p \in Proc, InCall(p), CopyOf(p),
           Handler(p) \/ Lock(p) \/ Interrupted(p)
    PROVE  filp' = filp /\ CopyOf(p)'
<1>0. /\ pc \in [Proc -> Critical \cup {"user", "lock", "return", "oops"}]
      /\ req \in [Proc -> Request \cup {NULL}] /\ pos \in [Proc -> Nat]
      /\ ret \in [Proc -> [val : Int, data : Seq(Byte), uncopied : Nat]] /\ fpos \in [File -> Nat] /\ Live
  BY DEF Inv, TypeOK, Files
<1> USE DEF Leave, callVars
<1>1. filp' = filp /\ req' = req
  BY DEF Handler, ReadFind, ReadCopy, WriteNoMemory, WriteGrow, WriteCopy, WriteFault, WriteAppend,
     WriteCommit, WriteOops, LlseekSwitch, LlseekEnd, SumStep, IoctlRefuse, IoctlSeekTo, IoctlEnd,
     Lock, Interrupted
<1> SUFFICES ASSUME Private(filp[p]), req[p].op \in {"read", "write"}
             PROVE  /\ pc'[p] # "return" => pos'[p] = fpos'[filp[p]]
                    /\ pc'[p] = "return" => /\ pos'[p] = fpos'[filp[p]] + Advance(p)'
                                            /\ ret'[p].val >= 0 \/ Advance(p)' = 0
  BY <1>1 DEF CopyOf, Private
<1>2. pc[p] # "return"
  BY DEF Handler, ReadFind, ReadCopy, WriteNoMemory, WriteGrow, WriteCopy, WriteFault, WriteAppend,
     WriteCommit, WriteOops, LlseekSwitch, LlseekEnd, SumStep, IoctlRefuse, IoctlSeekTo, IoctlEnd,
     Lock, Interrupted
<1>3. pos[p] = fpos[filp[p]]
  BY <1>2 DEF CopyOf
<1>4. pc[p] \notin {"llseek", "ioctl", "sum"}
  BY DEF Inv, Calls, LlseekReq, IoctlReq
<1>5. CASE ReadCopy(p)
  <2> DEFINE n == NumChars(p)
  <2>1. pc[p] = "copy_to" /\ FoundAt(p) /\ req[p].op = "read" /\ fpos' = fpos
    BY <1>5 DEF ReadCopy, StreamInv, Inv, Calls, ReadReq
  <2>2. n \in Nat /\ \A m \in 0..n : Len(Chunk(p, m)) = m
    BY <1>0, <2>1, ChunkIsStream
  <2>3. CASE Leave(p, Copied(p, n, 0)) /\ pos' = [pos EXCEPT ![p] = @ + n]
    <3>0. n - 0 = n
      BY <2>2
    <3>1. /\ ret'[p].val = n /\ ret'[p].data = Chunk(p, n) /\ ret'[p].uncopied = 0
          /\ pos'[p] = pos[p] + n /\ pc'[p] = "return"
      BY <1>0, <2>3, <3>0 DEF Copied
    <3>2. Len(ret'[p].data) = n
      BY <2>2, <3>1
    <3>3. Advance(p)' = n
      BY <1>1, <2>1, <3>1, <3>2 DEF Advance
    <3> HIDE DEF n
    <3> QED
      BY <1>3, <2>1, <2>2, <3>1, <3>3
  <2>4. ASSUME NEW err \in 1..n, Leave(p, Copied(p, err, err)), UNCHANGED pos
        PROVE  /\ pos'[p] = fpos'[filp[p]] + Advance(p)'
               /\ ret'[p].val >= 0 \/ Advance(p)' = 0
               /\ pc'[p] = "return"
    <3>1. ret'[p].uncopied = err /\ pc'[p] = "return" /\ err # 0
      BY <1>0, <2>2, <2>4 DEF Copied
    <3>2. Advance(p)' = 0
      BY <3>1 DEF Advance
    <3> QED
      BY <1>0, <1>3, <2>1, <2>4, <3>1, <3>2
  <2> QED
    BY <1>5, <2>3, <2>4 DEF ReadCopy
<1>6. CASE ~ReadCopy(p)
  <2>1. UNCHANGED <<pos, fpos>>
    BY <1>4, <1>6 DEF Handler, ReadFind, WriteNoMemory, WriteGrow, WriteCopy, WriteFault, WriteAppend,
       WriteCommit, WriteOops, LlseekSwitch, LlseekEnd, SumStep, IoctlRefuse, IoctlSeekTo, IoctlEnd,
       Lock, Interrupted
  <2>2. ASSUME req[p].op = "read", pc'[p] = "return" PROVE ret'[p].data = <<>>
    <3>1. ReadFind(p) \/ Interrupted(p)
      <4>1. pc[p] \notin {"kmalloc", "copy_from", "append"}
        BY <2>2 DEF Inv, Calls, WriteReq
      <4>2. ~Lock(p)
        BY <1>0, <2>2 DEF Lock, FirstStep
      <4> QED
        BY <1>4, <1>6, <4>1, <4>2 DEF Handler, WriteNoMemory, WriteGrow, WriteCopy, WriteFault, WriteAppend,
           WriteCommit, WriteOops, LlseekSwitch, LlseekEnd, SumStep, IoctlRefuse, IoctlSeekTo, IoctlEnd
    <3> QED
      BY <1>0, <2>2, <3>1 DEF ReadFind, Interrupted, Value
  <2>3. pc'[p] = "return" => Advance(p)' = 0
    BY <1>1, <2>2, EmptySeq DEF Advance
  <2> QED
    BY <1>0, <1>3, <2>1, <2>3
<1> QED
  BY <1>5, <1>6

LEMMA CopyStep == Inv /\ StreamInv /\ CopyInv /\ [Next]_vars => CopyInv'
<1> SUFFICES ASSUME Inv, StreamInv, CopyInv, [Next]_vars, NEW p \in Proc, InCall(p)'
             PROVE  <<p, filp'[p]>> \in Uses /\ CopyOf(p)'
  BY DEF CopyInv
<1>0. /\ pc \in [Proc -> Critical \cup {"user", "lock", "return", "oops"}]
      /\ req \in [Proc -> Request \cup {NULL}] /\ pos \in [Proc -> Nat] /\ filp \in [Proc -> File]
      /\ ret \in [Proc -> [val : Int, data : Seq(Byte), uncopied : Nat]] /\ fpos \in [File -> Nat]
  BY DEF Inv, TypeOK
<1>1. InCall(p) => <<p, filp[p]>> \in Uses /\ CopyOf(p) /\ filp[p] \in opened
  BY DEF CopyInv, Inv, Files
<1>2. ASSUME UNCHANGED <<pc, req, filp, pos, ret>>, InCall(p) => fpos'[filp[p]] = fpos[filp[p]]
      PROVE  <<p, filp'[p]>> \in Uses /\ CopyOf(p)'
  <2>1. InCall(p)
    BY <1>2 DEF InCall
  <2> QED
    BY <1>1, <1>2, <2>1, CopyKept
<1>3. CASE Module \/ UNCHANGED vars
  BY <1>2, <1>3 DEF Module, RegisterRegion, SetupCdev, Cleanup, vars, callVars
<1>4. ASSUME NEW f \in File, Open(f) \/ Release(f)
      PROVE  <<p, filp'[p]>> \in Uses /\ CopyOf(p)'
  <2>1. InCall(p) => f # filp[p]
    BY <1>1, <1>4 DEF Open, Release
  <2>2. UNCHANGED <<pc, req, filp, pos, ret>> /\ (f # filp[p] => fpos'[filp[p]] = fpos[filp[p]])
    BY <1>0, <1>4 DEF Open, Release, callVars
  <2> QED
    BY <1>2, <2>1, <2>2
<1>5. ASSUME NEW q \in Proc, NEW f \in File, NEW r \in Request, Enter(q, f, r)
      PROVE  <<p, filp'[p]>> \in Uses /\ CopyOf(p)'
  <2>1. CASE q = p
    <3>1. /\ filp'[p] = f /\ pos'[p] = fpos[f] /\ fpos' = fpos /\ <<p, f>> \in Uses
          /\ pc'[p] = "lock"
      BY <1>0, <1>5, <2>1 DEF Enter
    <3> QED
      BY <3>1 DEF CopyOf
  <2>2. CASE q # p
    <3>1. /\ pc'[p] = pc[p] /\ req'[p] = req[p] /\ filp'[p] = filp[p] /\ pos'[p] = pos[p]
          /\ ret' = ret /\ fpos' = fpos
      BY <1>0, <1>5, <2>2 DEF Enter
    <3>2. InCall(p)
      BY <3>1 DEF InCall
    <3> QED
      BY <1>1, <3>1, <3>2, CopyKept
  <2> QED
    BY <2>1, <2>2
<1>6. ASSUME NEW q \in Proc, q # p, Handler(q) \/ Lock(q) \/ Interrupted(q) \/ Return(q)
      PROVE  <<p, filp'[p]>> \in Uses /\ CopyOf(p)'
  <2>1. /\ pc'[p] = pc[p] /\ req'[p] = req[p] /\ filp' = filp /\ pos'[p] = pos[p] /\ ret'[p] = ret[p]
        /\ \A f \in File : f # filp[q] => fpos'[f] = fpos[f]
    BY <1>6, OthersHandler
  <2>2. InCall(p)
    BY <2>1 DEF InCall
  <2>3. InCall(q)
    BY <1>6 DEF InCall, Handler, ReadFind, ReadCopy, WriteNoMemory, WriteGrow, WriteCopy, WriteFault,
       WriteAppend, WriteCommit, WriteOops, LlseekSwitch, LlseekEnd, SumStep, IoctlRefuse, IoctlSeekTo,
       IoctlEnd, Lock, Interrupted, Return
  <2>4. Private(filp[p]) => filp[q] # filp[p]
    BY <1>1, <1>6, <2>2, <2>3 DEF Private, CopyInv
  <2>5. Private(filp[p]) => fpos'[filp[p]] = fpos[filp[p]]
    BY <1>0, <2>1, <2>4
  <2> QED
    BY <1>1, <2>1, <2>2, <2>5, CopyKept
<1>7. CASE Return(p)
  BY <1>0, <1>7 DEF Return, InCall
<1>8. CASE Handler(p) \/ Lock(p) \/ Interrupted(p)
  <2>1. InCall(p)
    BY <1>8 DEF InCall, Handler, ReadFind, ReadCopy, WriteNoMemory, WriteGrow, WriteCopy, WriteFault,
       WriteAppend, WriteCommit, WriteOops, LlseekSwitch, LlseekEnd, SumStep, IoctlRefuse, IoctlSeekTo,
       IoctlEnd, Lock, Interrupted
  <2> QED
    BY <1>1, <1>8, <2>1, OwnCopy
<1> QED
  BY <1>3, <1>4, <1>5, <1>6, <1>7, <1>8 DEF Next

LEMMA ReturnOfCopy ==
    ASSUME Inv, CopyInv, [Next]_vars, NEW p \in Proc,
           pc[p] = "return", pc'[p] = "user", Private(filp[p])
    PROVE  ReturnMoves(p)
<1>0. /\ pc \in [Proc -> Critical \cup {"user", "lock", "return", "oops"}] /\ pos[p] \in Nat
      /\ fpos \in [File -> Nat] /\ filp[p] \in File
  BY DEF Inv, TypeOK
<1>1. Return(p)
  <2>1. ~Handler(p) /\ ~Lock(p) /\ ~Interrupted(p)
    BY DEF Handler, ReadFind, ReadCopy, WriteNoMemory, WriteGrow, WriteCopy, WriteFault,
       WriteAppend, WriteCommit, WriteOops, LlseekSwitch, LlseekEnd, SumStep, IoctlRefuse, IoctlSeekTo,
       IoctlEnd, Lock, Interrupted
  <2>2. ASSUME NEW q \in Proc, q # p, Handler(q) \/ Lock(q) \/ Interrupted(q) \/ Return(q) PROVE FALSE
    BY <2>2, OthersHandler
  <2>3. ASSUME NEW q \in Proc, NEW f \in File, NEW r \in Request, Enter(q, f, r) PROVE FALSE
    BY <1>0, <2>3 DEF Enter
  <2>4. ~Module /\ ~UNCHANGED vars /\ \A f \in File : ~Open(f) /\ ~Release(f)
    BY DEF Module, RegisterRegion, SetupCdev, Cleanup, vars, Open, Release
  <2> QED
    BY <2>1, <2>2, <2>3, <2>4 DEF Next
<1>2. req[p].op \in {"read", "write"} =>
          pos[p] = fpos[filp[p]] + Advance(p) /\ (ret[p].val >= 0 \/ Advance(p) = 0)
  BY DEF CopyInv, CopyOf, InCall
<1>3. fpos'[filp[p]] = IF req[p].op \in {"read", "write"} /\ ret[p].val >= 0 THEN pos[p] ELSE fpos[filp[p]]
  BY <1>0, <1>1 DEF Return
<1>4. fpos[filp[p]] \in Nat
  BY <1>0
<1>5. CASE req[p].op \in {"read", "write"} /\ ret[p].val >= 0
  BY <1>2, <1>3, <1>5 DEF ReturnMoves
<1>6. CASE ~(req[p].op \in {"read", "write"} /\ ret[p].val >= 0)
  <2>1. Advance(p) = 0
    BY <1>2, <1>6 DEF Advance
  <2> QED
    BY <1>3, <1>4, <1>6, <2>1 DEF ReturnMoves
<1> QED
  BY <1>5, <1>6

(* For a file one process uses, the copy of f_pos that the kernel takes    *)
(* outside the mutex and stores back loses nothing, whatever other         *)
(* processes do to the device and to their own files.                      *)
THEOREM PrivatePositionKeptHolds == Spec => PrivatePositionKept
<1>1. Init => CopyInv
  BY DEF Init, CopyInv, InCall
<1>2. Spec => []CopyInv
  BY <1>1, CopyStep, StreamInvariance, PTL DEF Spec
<1>3. Inv /\ CopyInv /\ [Next]_vars =>
        [\A p \in Proc : pc[p] = "return" /\ pc'[p] = "user" /\ Private(filp[p]) => ReturnMoves(p)]_vars
  BY ReturnOfCopy
<1> QED
  BY <1>2, <1>3, StreamInvariance, PTL DEF Spec, PrivatePositionKept
=============================================================================
