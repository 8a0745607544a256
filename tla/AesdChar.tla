------------------------------ MODULE AesdChar ------------------------------
(***************************************************************************)
(* The character driver aesd-char-driver/main.c: the device (ring of       *)
(* commands, command being written, device_mutex), its memory, and the     *)
(* system calls of several processes on several open files.                *)
(*                                                                         *)
(* A call runs in the steps at which the code may be interleaved with      *)
(* another call or stopped by a failure: taking the mutex, each iteration  *)
(* of a loop over the ring, kmalloc, the copies from and to user space     *)
(* (which may sleep, and may fault), and the unlock.                       *)
(*                                                                         *)
(* External, modelled from how the driver is called: the kernel's read and *)
(* write system calls hand the driver a COPY of filp->f_pos and store it   *)
(* back after a return value >= 0, under no lock for a character device;   *)
(* llseek and ioctl work on filp->f_pos itself.                            *)
(***************************************************************************)
EXTENDS CircularBuffer, FiniteSets

CONSTANTS
    Proc,        \* processes
    File,        \* open file descriptions
    Uses,        \* <<p, f>> : process p has a descriptor for file f
    Ptr,         \* addresses kmalloc may return
    ZERO_SIZE_PTR, \* what kmalloc(0) returns: not NULL, not memory
    Freed,       \* marks an address kmalloc has not handed out
    NL,          \* the byte '\n'
    Byte,        \* all bytes, NL included
    Payload,     \* what a process may write
    ReadCount,   \* the counts a process may read
    Seek,        \* [whence, offset] arguments of llseek
    SeekTo,      \* [cmd, write_cmd, write_cmd_offset] arguments of ioctl
    MaxPartial   \* bound: no write starts on an unterminated command longer than this

Whence == {"SEEK_SET", "SEEK_CUR", "SEEK_END", "bad"}
Command == {"AESDCHAR_IOCSEEKTO", "bad"}

ASSUME ConstantsAssumption ==
    /\ File # {}
    /\ Uses \subseteq Proc \X File
    /\ NULL \notin Ptr \cup Proc \cup {ZERO_SIZE_PTR}
    /\ ZERO_SIZE_PTR \notin Ptr
    /\ Freed \notin Seq(Byte)
    /\ NL \in Byte
    /\ Payload \subseteq Seq(Byte)
    /\ ReadCount \subseteq Nat
    /\ Seek \subseteq [whence : Whence, offset : Int]
    /\ SeekTo \subseteq [cmd : Command, write_cmd : Nat, write_cmd_offset : Nat]
    /\ MaxPartial \in Nat

VARIABLES
    cdev,           \* "none", "region" (numbers allocated) or "live"
    ring,           \* aesd_device.circular_buffer
    current_entry,  \* aesd_device.current_entry
    mutex,          \* holder of aesd_device.device_mutex, or NULL
    heap,           \* the bytes stored at each address, or Freed
    opened,         \* the open files
    fpos,           \* filp->f_pos of each file
    pc,             \* where each process is in its call
    req,            \* the call's arguments, or NULL
    filp,           \* the call's file
    pos,            \* the kernel's copy of f_pos, *f_pos in the driver
    loop,           \* local variables of the running loop, or NULL
    ret             \* what the call returns: its value, the bytes delivered,
                    \* and how many copy_to_user left uncopied

devVars  == <<ring, current_entry, heap>>
callVars == <<req, filp, pos>>
vars == <<cdev, devVars, mutex, opened, fpos, pc, callVars, loop, ret>>

EINTR == 4
ENOMEM == 12
EINVAL == 22

Request ==
    [op : {"read"}, count : ReadCount]
    \cup [op : {"write"}, data : Payload]
    \cup [op : {"llseek"}, arg : Seek]
    \cup [op : {"ioctl"}, arg : SeekTo]

Value(v) == [val |-> v, data |-> <<>>, uncopied |-> 0]
NoReturn == Value(0)

Live == cdev = "live"

(* The bytes an entry stands for.                                          *)
Bytes(e) == IF e.buffptr \in Ptr THEN SubSeq(heap[e.buffptr], 1, e.size) ELSE <<>>

Init ==
    /\ cdev = "none"
    /\ ring = EmptyRing
    /\ current_entry = NullEntry
    /\ mutex = NULL
    /\ heap = [q \in Ptr |-> Freed]
    /\ opened = {}
    /\ fpos = [f \in File |-> 0]
    /\ pc = [p \in Proc |-> "user"]
    /\ req = [p \in Proc |-> NULL]
    /\ filp = [p \in Proc |-> CHOOSE f \in File : TRUE]
    /\ pos = [p \in Proc |-> 0]
    /\ loop = [p \in Proc |-> NULL]
    /\ ret = [p \in Proc |-> NoReturn]
-----------------------------------------------------------------------------
(* Loading and unloading the module.                                       *)

(* alloc_chrdev_region succeeds; its failure leaves everything as it was.  *)
RegisterRegion ==
    /\ cdev = "none"
    /\ cdev' = "region"
    /\ UNCHANGED <<devVars, mutex, opened, fpos, pc, callVars, loop, ret>>

(* The rest of aesd_init_module: clear the device, initialise mutex and    *)
(* ring, and cdev_add, which makes the device live or fails and gives the  *)
(* region back.                                                            *)
SetupCdev ==
    /\ cdev = "region"
    /\ cdev' \in {"live", "none"}
    /\ ring' = EmptyRing
    /\ current_entry' = NullEntry
    /\ mutex' = NULL
    /\ UNCHANGED <<heap, opened, fpos, pc, callVars, loop, ret>>

(* The pointers aesd_cleanup_module frees: those of every slot (kfree      *)
(* ignores NULL) and of the command being written.                         *)
CleanupFrees == {ring.entry[i].buffptr : i \in Slots} \cup {current_entry.buffptr}

(* aesd_cleanup_module; .owner = THIS_MODULE keeps the module in place     *)
(* while a file is open.  The device's fields keep their stale values.     *)
Cleanup ==
    /\ Live
    /\ opened = {}
    /\ cdev' = "none"
    /\ heap' = [q \in Ptr |-> IF q \in CleanupFrees THEN Freed ELSE heap[q]]
    /\ UNCHANGED <<ring, current_entry, mutex, opened, fpos, pc, callVars, loop, ret>>
-----------------------------------------------------------------------------
(* The kernel's side of a call (external).                                 *)

(* A process that died in a call has its files closed by the kernel.       *)
InCall(p) == pc[p] \notin {"user", "oops"}

(* open(): the kernel sets f_pos to 0, aesd_open finds the device.         *)
Open(f) ==
    /\ Live
    /\ f \notin opened
    /\ opened' = opened \cup {f}
    /\ fpos' = [fpos EXCEPT ![f] = 0]
    /\ UNCHANGED <<cdev, devVars, mutex, pc, callVars, loop, ret>>

(* The last close(): aesd_release does nothing.                            *)
Release(f) ==
    /\ f \in opened
    /\ \A p \in Proc : InCall(p) => filp[p] # f
    /\ opened' = opened \ {f}
    /\ fpos' = [fpos EXCEPT ![f] = 0]
    /\ UNCHANGED <<cdev, devVars, mutex, pc, callVars, loop, ret>>

(* A process makes a call; read and write start from a copy of f_pos.      *)
Enter(p, f, r) ==
    /\ pc[p] = "user"
    /\ <<p, f>> \in Uses
    /\ f \in opened
    /\ r.op = "write" => current_entry.size <= MaxPartial
    /\ pc' = [pc EXCEPT ![p] = "lock"]
    /\ req' = [req EXCEPT ![p] = r]
    /\ filp' = [filp EXCEPT ![p] = f]
    /\ pos' = [pos EXCEPT ![p] = fpos[f]]
    /\ UNCHANGED <<cdev, devVars, mutex, opened, fpos, loop, ret>>

(* The call returns; read and write store the position back.               *)
Return(p) ==
    /\ pc[p] = "return"
    /\ pc' = [pc EXCEPT ![p] = "user"]
    /\ fpos' = IF req[p].op \in {"read", "write"} /\ ret[p].val >= 0
               THEN [fpos EXCEPT ![filp[p]] = pos[p]]
               ELSE fpos
    /\ req' = [req EXCEPT ![p] = NULL]
    /\ pos' = [pos EXCEPT ![p] = 0]
    /\ ret' = [ret EXCEPT ![p] = NoReturn]
    /\ UNCHANGED <<cdev, devVars, mutex, opened, filp, loop>>
-----------------------------------------------------------------------------
(* device_mutex.                                                           *)

FirstStep == [read |-> "find", write |-> "kmalloc", llseek |-> "llseek", ioctl |-> "ioctl"]

(* mutex_lock_interruptible succeeds, and the handler's locals are set up. *)
Lock(p) ==
    /\ pc[p] = "lock"
    /\ mutex = NULL
    /\ mutex' = p
    /\ pc' = [pc EXCEPT ![p] = FirstStep[req[p].op]]
    /\ loop' = [loop EXCEPT ![p] =
                   IF req[p].op = "read" THEN FindStart(pos[p]) ELSE NULL]
    /\ UNCHANGED <<cdev, devVars, opened, fpos, callVars, ret>>

(* A signal ends the wait for a held mutex: read and write return the      *)
(* error, llseek and ioctl return -EINVAL.                                 *)
Interrupted(p) ==
    /\ pc[p] = "lock"
    /\ mutex # NULL
    /\ pc' = [pc EXCEPT ![p] = "return"]
    /\ ret' = [ret EXCEPT ![p] =
                  Value(IF req[p].op \in {"read", "write"} THEN -EINTR ELSE -EINVAL)]
    /\ UNCHANGED <<cdev, devVars, mutex, opened, fpos, callVars, loop>>

(* mutex_unlock and return, on every path that holds the mutex.            *)
Leave(p, v) ==
    /\ mutex' = NULL
    /\ pc' = [pc EXCEPT ![p] = "return"]
    /\ loop' = [loop EXCEPT ![p] = NULL]
    /\ ret' = [ret EXCEPT ![p] = v]
-----------------------------------------------------------------------------
(* aesd_read.                                                              *)

(* One iteration of the search for the entry at *f_pos.                    *)
ReadFind(p) ==
    LET s == FindIterate(ring, loop[p])
    IN  /\ pc[p] = "find"
        /\ \/ /\ s.status = "null"
              /\ Leave(p, Value(0))
           \/ /\ s.status # "null"
              /\ pc' = [pc EXCEPT ![p] = IF s.status = "found" THEN "copy_to" ELSE "find"]
              /\ loop' = [loop EXCEPT ![p] = s]
              /\ UNCHANGED <<mutex, ret>>
        /\ UNCHANGED <<cdev, devVars, opened, fpos, callVars>>

(* The entry found, through the pointer the search returned.               *)
NewEntry(p) == ring.entry[FindSlot(ring, loop[p])]

(* num_chars: what the entry has left, at most count.                      *)
NumChars(p) ==
    LET left == NewEntry(p).size - loop[p].remaining
    IN  IF left > req[p].count THEN req[p].count ELSE left

(* A mutant of Chunk: the copy starts at buffptr.                          *)
Chunk_NoOffset(p, n) == SubSeq(heap[NewEntry(p).buffptr], 1, n)

(* The bytes at buffptr + offset.                                          *)
Chunk(p, n) ==
    SubSeq(heap[NewEntry(p).buffptr], loop[p].remaining + 1, loop[p].remaining + n)

(* The result of a copy_to_user of which `err' bytes stay uncopied.        *)
Copied(p, v, err) ==
    [val |-> v, data |-> Chunk(p, NumChars(p) - err), uncopied |-> err]

(* A mutant of ReadCopy: *f_pos is not moved.                              *)
ReadCopy_KeepsPosition(p) ==
    /\ pc[p] = "copy_to"
    /\ \/ Leave(p, Copied(p, NumChars(p), 0))
       \/ \E err \in 1..NumChars(p) : Leave(p, Copied(p, err, err))
    /\ UNCHANGED <<cdev, devVars, opened, fpos, callVars>>

(* copy_to_user delivers all bytes, or leaves `err' of them uncopied: then *)
(* err itself, a positive number, is returned and *f_pos stays.            *)
ReadCopy(p) ==
    /\ pc[p] = "copy_to"
    /\ \/ /\ Leave(p, Copied(p, NumChars(p), 0))
          /\ pos' = [pos EXCEPT ![p] = @ + NumChars(p)]
       \/ \E err \in 1..NumChars(p) :
             /\ Leave(p, Copied(p, err, err))
             /\ UNCHANGED pos
    /\ UNCHANGED <<cdev, devVars, opened, fpos, req, filp>>
-----------------------------------------------------------------------------
(* aesd_write.                                                             *)

(* A mutant of WriteNoMemory: the mutex is not released.                   *)
WriteNoMemory_HoldsLock(p) ==
    /\ pc[p] = "kmalloc"
    /\ pc' = [pc EXCEPT ![p] = "return"]
    /\ ret' = [ret EXCEPT ![p] = Value(-ENOMEM)]
    /\ UNCHANGED <<cdev, devVars, mutex, opened, fpos, callVars, loop>>

(* kmalloc fails.                                                          *)
WriteNoMemory(p) ==
    /\ pc[p] = "kmalloc"
    /\ Leave(p, Value(-ENOMEM))
    /\ UNCHANGED <<cdev, devVars, opened, fpos, callVars>>

(* What kmalloc(n) may return.                                             *)
Kmalloc(n) == IF n = 0 THEN {ZERO_SIZE_PTR} ELSE {q \in Ptr : heap[q] = Freed}

(* memcpy of the old bytes into the new buffer and kfree of the old one.   *)
Moved(q) ==
    [x \in Ptr |-> IF x = q THEN Bytes(current_entry)
                   ELSE IF x = current_entry.buffptr THEN Freed
                   ELSE heap[x]]

(* kmalloc succeeds: the bytes collected so far move to the new buffer.    *)
WriteGrow(p) ==
    /\ pc[p] = "kmalloc"
    /\ \E q \in Kmalloc(current_entry.size + Len(req[p].data)) :
           /\ heap' = Moved(q)
           /\ current_entry' = [buffptr |-> q, size |-> current_entry.size]
    /\ pc' = [pc EXCEPT ![p] = "copy_from"]
    /\ UNCHANGED <<cdev, ring, mutex, opened, fpos, callVars, loop, ret>>

(* The first n bytes of the caller's buffer are copied behind the bytes    *)
(* the current entry holds.                                                *)
CopyIn(p, n) ==
    IF current_entry.buffptr \in Ptr
    THEN [heap EXCEPT ![current_entry.buffptr] =
             Bytes(current_entry) \o SubSeq(req[p].data, 1, n)]
    ELSE heap

(* copy_from_user copies everything.                                       *)
WriteCopy(p) ==
    /\ pc[p] = "copy_from"
    /\ heap' = CopyIn(p, Len(req[p].data))
    /\ pc' = [pc EXCEPT ![p] = "append"]
    /\ UNCHANGED <<cdev, ring, current_entry, mutex, opened, fpos, callVars, loop, ret>>

(* copy_from_user leaves err bytes uncopied: err is returned, and size     *)
(* does not cover what was copied.                                         *)
WriteFault(p) ==
    /\ pc[p] = "copy_from"
    /\ \E err \in 1..Len(req[p].data) :
           /\ heap' = CopyIn(p, Len(req[p].data) - err)
           /\ Leave(p, Value(err))
    /\ UNCHANGED <<cdev, ring, current_entry, opened, fpos, callVars>>

(* The current entry with the new bytes counted in.                        *)
Grown(p) == [buffptr |-> current_entry.buffptr,
             size    |-> current_entry.size + Len(req[p].data)]

(* temp_buff[size - 1] == '\n', on a buffer that has a last byte.          *)
EndsInNewline(p) == heap[Grown(p).buffptr][Grown(p).size] = NL

(* A mutant of Evicted: the overwritten command is not freed.              *)
Evicted_Nothing == {}

(* The buffer freed before the new command overwrites its slot.            *)
Evicted == IF ring.full THEN {ring.entry[ring.in_offs].buffptr} ELSE {}

(* The command stays open.                                                 *)
WriteAppend(p) ==
    /\ pc[p] = "append"
    /\ Grown(p).size > 0
    /\ ~EndsInNewline(p)
    /\ current_entry' = Grown(p)
    /\ Leave(p, Value(Len(req[p].data)))
    /\ UNCHANGED <<cdev, ring, heap, opened, fpos, callVars>>

(* The command is complete: it goes into the ring, the entry it displaces  *)
(* is freed, and the current entry is cleared.                             *)
WriteCommit(p) ==
    /\ pc[p] = "append"
    /\ Grown(p).size > 0
    /\ EndsInNewline(p)
    /\ heap' = [q \in Ptr |-> IF q \in Evicted THEN Freed ELSE heap[q]]
    /\ ring' = AddEntry(ring, Grown(p))
    /\ current_entry' = NullEntry
    /\ Leave(p, Value(Len(req[p].data)))
    /\ UNCHANGED <<cdev, opened, fpos, callVars>>

(* A write of no bytes to an empty command reads temp_buff[-1] with        *)
(* temp_buff = ZERO_SIZE_PTR: the kernel faults, and the process dies in   *)
(* the call, still holding device_mutex.                                   *)
WriteOops(p) ==
    /\ pc[p] = "append"
    /\ Grown(p).size = 0
    /\ pc' = [pc EXCEPT ![p] = "oops"]
    /\ UNCHANGED <<cdev, devVars, mutex, opened, fpos, callVars, loop, ret>>
-----------------------------------------------------------------------------
(* aesd_llseek.                                                            *)

(* The common end: a negative position is refused.                         *)
SetPosition(p, newpos) ==
    \/ /\ newpos < 0
       /\ Leave(p, Value(-EINVAL))
       /\ UNCHANGED fpos
    \/ /\ newpos >= 0
       /\ Leave(p, Value(newpos))
       /\ fpos' = [fpos EXCEPT ![filp[p]] = newpos]

(* The switch on whence; SEEK_END first sums the sizes in the ring.        *)
LlseekSwitch(p) ==
    LET arg == req[p].arg
    IN  /\ pc[p] = "llseek"
        /\ \/ /\ arg.whence = "SEEK_SET"
              /\ SetPosition(p, arg.offset)
           \/ /\ arg.whence = "SEEK_CUR"
              /\ SetPosition(p, fpos[filp[p]] + arg.offset)
           \/ /\ arg.whence = "SEEK_END"
              /\ pc' = [pc EXCEPT ![p] = "sum"]
              /\ loop' = [loop EXCEPT ![p] = SumStart(ring, NumEntries(ring))]
              /\ UNCHANGED <<mutex, fpos, ret>>
           \/ /\ arg.whence = "bad"
              /\ Leave(p, Value(-EINVAL))
              /\ UNCHANGED fpos
        /\ UNCHANGED <<cdev, devVars, opened, callVars>>

LlseekEnd(p) ==
    /\ pc[p] = "sum"
    /\ req[p].op = "llseek"
    /\ loop[p].left = 0
    /\ SetPosition(p, loop[p].sum + req[p].arg.offset)
    /\ UNCHANGED <<cdev, devVars, opened, callVars>>
-----------------------------------------------------------------------------
(* aesd_unlocked_ioctl.                                                    *)

(* An iteration of the summing loop, of llseek or of ioctl.                *)
SumStep(p) ==
    /\ pc[p] = "sum"
    /\ loop[p].left > 0
    /\ loop' = [loop EXCEPT ![p] = SumIterate(ring, loop[p])]
    /\ UNCHANGED <<cdev, devVars, mutex, opened, fpos, pc, callVars, ret>>

(* A mutant of IoctlRefuse: the mutex is not released.                     *)
IoctlRefuse_HoldsLock(p) ==
    /\ pc[p] = "ioctl"
    /\ pc' = [pc EXCEPT ![p] = "return"]
    /\ ret' = [ret EXCEPT ![p] = Value(-EINVAL)]
    /\ UNCHANGED <<cdev, devVars, mutex, opened, fpos, callVars, loop>>

(* The refusals before the loop: an unknown command, a write_cmd that is   *)
(* not in the ring, a fault of the copy of the argument; as the copy may   *)
(* fault in any call, the refusal is possible in any call.                 *)
IoctlRefuse(p) ==
    /\ pc[p] = "ioctl"
    /\ Leave(p, Value(-EINVAL))
    /\ UNCHANGED <<cdev, devVars, opened, fpos, callVars>>

(* seekto names a command the ring has.                                    *)
InRing(arg) == arg.write_cmd < NumEntries(ring)

IoctlSeekTo(p) ==
    /\ pc[p] = "ioctl"
    /\ req[p].arg.cmd = "AESDCHAR_IOCSEEKTO"
    /\ InRing(req[p].arg)
    /\ pc' = [pc EXCEPT ![p] = "sum"]
    /\ loop' = [loop EXCEPT ![p] = SumStart(ring, req[p].arg.write_cmd)]
    /\ UNCHANGED <<cdev, devVars, mutex, opened, fpos, callVars, ret>>

(* A mutant of InCommand: the offset one past the command is accepted.     *)
InCommand_OnePast(p) == ring.entry[loop[p].index].size >= req[p].arg.write_cmd_offset

(* The offset must lie inside the command.                                 *)
InCommand(p) == ring.entry[loop[p].index].size > req[p].arg.write_cmd_offset

IoctlEnd(p) ==
    LET newpos == loop[p].sum + req[p].arg.write_cmd_offset
    IN  /\ pc[p] = "sum"
        /\ req[p].op = "ioctl"
        /\ loop[p].left = 0
        /\ \/ /\ InCommand(p)
              /\ Leave(p, Value(newpos))
              /\ fpos' = [fpos EXCEPT ![filp[p]] = newpos]
           \/ /\ ~InCommand(p)
              /\ Leave(p, Value(-EINVAL))
              /\ UNCHANGED fpos
        /\ UNCHANGED <<cdev, devVars, opened, callVars>>
-----------------------------------------------------------------------------
Handler(p) ==
    \/ ReadFind(p) \/ ReadCopy(p)
    \/ WriteNoMemory(p) \/ WriteGrow(p) \/ WriteCopy(p) \/ WriteFault(p)
    \/ WriteAppend(p) \/ WriteCommit(p) \/ WriteOops(p)
    \/ LlseekSwitch(p) \/ LlseekEnd(p) \/ SumStep(p)
    \/ IoctlRefuse(p) \/ IoctlSeekTo(p) \/ IoctlEnd(p)

Module == RegisterRegion \/ SetupCdev \/ Cleanup

Next ==
    \/ Module
    \/ \E f \in File : Open(f) \/ Release(f)
    \/ \E p \in Proc, f \in File, r \in Request : Enter(p, f, r)
    \/ \E p \in Proc : Lock(p) \/ Interrupted(p) \/ Handler(p) \/ Return(p)

Spec == Init /\ [][Next]_vars

(* The kernel runs every runnable process, and its mutex hands itself over *)
(* to the first waiter, so a process waiting for it is not overtaken for   *)
(* ever.  Nothing forces calls, signals or unloading to happen.            *)
Fairness ==
    \A p \in Proc : /\ SF_vars(Lock(p))
                    /\ WF_vars(Handler(p))
                    /\ WF_vars(Return(p))

FairSpec == Spec /\ Fairness
-----------------------------------------------------------------------------
(* Properties.                                                             *)

(* The states in which a process is between lock and unlock.               *)
Critical == {"find", "copy_to", "kmalloc", "copy_from", "append", "llseek", "ioctl", "sum"}

Entry == [buffptr : Ptr \cup {NULL, ZERO_SIZE_PTR}, size : Nat]
FindState == [remaining : Nat, cur : (1 - N)..(N - 1), status : {"loop", "found"}]
SumState == [left : Nat, index : Slots, sum : Nat]

(* The types of the state.  Positions and loop counters stay natural, and  *)
(* ring indices inside the array, in every step of every handler.          *)
TypeOK ==
    /\ cdev \in {"none", "region", "live"}
    /\ ring \in [entry : [Slots -> Entry], in_offs : Slots, out_offs : Slots, full : BOOLEAN]
    /\ current_entry \in Entry
    /\ mutex \in Proc \cup {NULL}
    /\ heap \in [Ptr -> Seq(Byte) \cup {Freed}]
    /\ opened \subseteq File
    /\ fpos \in [File -> Nat]
    /\ pc \in [Proc -> Critical \cup {"user", "lock", "return", "oops"}]
    /\ req \in [Proc -> Request \cup {NULL}]
    /\ filp \in [Proc -> File]
    /\ pos \in [Proc -> Nat]
    /\ loop \in [Proc -> FindState \cup SumState \cup {NULL}]
    /\ ret \in [Proc -> [val : Int, data : Seq(Byte), uncopied : Nat]]

(* Every path of every handler that takes device_mutex gives it back, and  *)
(* no handler touches the device without it: the mutex is held exactly     *)
(* while its holder is inside a handler (or died there), and so at most    *)
(* one process is.                                                         *)
LockDiscipline ==
    /\ \A p \in Proc : pc[p] \in Critical => mutex = p
    /\ \A p \in Proc : mutex = p => pc[p] \in Critical \cup {"oops"}

(* The entries that own memory: the slots, and N for the current entry.    *)
Owners == 0..N
OwnedBy(o) == IF o = N THEN current_entry.buffptr ELSE ring.entry[o].buffptr

(* Memory is exact through every order of writes, failed allocations,      *)
(* faulting copies, evictions and unloads: the allocated buffers are the   *)
(* ones the ring and the current entry point to (nothing leaks, nothing    *)
(* dangles), no two of them share one (nothing is freed twice), and an     *)
(* unloaded module has freed everything.                                   *)
HeapExact ==
    /\ ~Live => \A q \in Ptr : heap[q] = Freed
    /\ Live => /\ \A q \in Ptr : heap[q] # Freed <=> \E o \in Owners : OwnedBy(o) = q
               /\ \A o1, o2 \in Owners :
                      OwnedBy(o1) = OwnedBy(o2) /\ OwnedBy(o1) \in Ptr => o1 = o2

(* While a reader sleeps in copy_to_user, the buffer it copies from stays  *)
(* allocated and holds the bytes from its offset to the entry's size.      *)
ReadSafe ==
    \A p \in Proc : pc[p] = "copy_to" =>
        /\ FindSlot(ring, loop[p]) \in Slots
        /\ NewEntry(p).buffptr \in Ptr
        /\ heap[NewEntry(p).buffptr] # Freed
        /\ loop[p].remaining < NewEntry(p).size
        /\ NewEntry(p).size <= Len(heap[NewEntry(p).buffptr])

(* A call that waits for the mutex comes back to its caller, unless some   *)
(* process died holding the mutex.                                         *)
EveryCallReturns ==
    \A p \in Proc : pc[p] = "lock" ~> (pc[p] = "user" \/ \E q \in Proc : pc[q] = "oops")

(* The i-th oldest stored entry, and its slot.                             *)
SlotOf(i) == LET at == ring.out_offs + i - 1 IN IF at >= N THEN at - N ELSE at
StoredEntry(i) == ring.entry[SlotOf(i)]

(* The device implements CommandLog: whatever the interleaving, and        *)
(* whatever fails, each write takes effect at once and completely or not   *)
(* at all, and the ring with its memory is the log of the last N commands. *)
Log == IF Live THEN [i \in 1..NumEntries(ring) |-> Bytes(StoredEntry(i))] ELSE <<>>
Partial == IF Live THEN Bytes(current_entry) ELSE <<>>

Abstract == INSTANCE CommandLog WITH log <- Log, partial <- Partial

ImplementsCommandLog == Abstract!Spec
=============================================================================
