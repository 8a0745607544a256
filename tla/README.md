# TLA+ verification of aesdchar and aesdsocket

This directory models the two programs this repository is about, the character
driver `/dev/aesdchar` (`aesd-char-driver/`) and the socket server that exposes
it (`server/`), and its two library examples (`examples/systemcalls`,
`examples/threading`). TLC checks the models on small instances; TLAPS proves every
safety property the runs check for every value of the constants, and the
refinement of the abstract device. Liveness is model-checked.

## The system

| Part | State it keeps | Operations | Modelled by |
|---|---|---|---|
| circular buffer (`aesd-circular-buffer.[ch]`) | `entry[10]`, `in_offs`, `out_offs`, `full` | `add_entry`, `find_entry_offset_for_fpos`, `init`, `FOREACH` | `CircularBuffer`, `RingCheck` |
| driver (`main.c`, `aesdchar.h`, `aesd_ioctl.h`) | the ring, `current_entry` (the command without a newline yet), `device_mutex`, `kmalloc`ed buffers, `f_pos` of each open file | `open`, `release`, `read`, `write`, `llseek`, `AESDCHAR_IOCSEEKTO`, module load and unload | `AesdChar`, `AesdCharStream`, `CommandLog` |
| server main thread (`aesdsocket.c`) | list of threads, `quit`, `file_mutex`, descriptors | start up, accept, reap, create a thread, shut down | `AesdSocket` |
| list macros (`queue.h`) | `slh_first`, `sle_next` of each node | the `SLIST` macros in use | `SList` |
| connection thread (`connection_thread.c`) | its arguments (`client_fd`, `thread_complete`), `output_fd`, buffers | lock, open, receive, seek, send, close, unlock | `AesdSocket` (resources and control), `ConnectionThread` (bytes) |
| `systemcalls` example | none between calls but open descriptors, unreaped children and the stdio buffer | `do_system`, `do_exec`, `do_exec_redirect` | `SystemCalls` |
| `threading` example | a mutex, `thread_data` of each thread | `start_thread_obtaining_mutex`, `threadfunc` | `Threading` |
| `writer.c`, shell scripts | none | | not modelled (below) |

How they interact. A client connects to port 9000. The main thread accepts,
creates a `connection_thread` and puts it on a list. The thread takes
`file_mutex`, opens the device, receives one message, passes it to the device by
`write` (or by `ioctl`, if it is a seek command), reads the device back to the
client, closes the device and unlocks. Device calls enter the driver, which
serialises them with `device_mutex`. SIGINT and SIGTERM set `quit`; the main loop
then closes and joins every thread. The two locks are never nested the other way
round: `file_mutex` is a user-space lock around whole system calls.

What is hard, and what makes each part correct:

* **Ring.** Three fields that must wrap together, an index that wraps through
  `size_t` arithmetic (`-1 * out_offs`), positions at entry boundaries. Correct:
  the ring holds the last N entries in order, and search and sums agree with the
  concatenation of the entries.
* **Driver.** Concurrent processes, `copy_*_user` that sleeps or faults in the
  middle, `kmalloc` that fails, an interruptible lock, eviction, unload. Correct:
  the lock is released on every path, memory neither leaks nor dangles, each
  write takes effect atomically, reads deliver the stream, seeks land on the byte
  asked for, calls return.
* **Server.** Threads that finish in any order while the list is walked, a flag
  set before the last use of the memory it releases, descriptor numbers that are
  reused, a signal at any time. Correct: no use after free, no lost thread,
  exclusive use of the device, own descriptors, all of them given back, and it
  stops when told to.
* **Connection.** A byte stream cut anywhere, parsed in pieces of a fixed buffer,
  by string functions on a buffer that may have no terminator, into arrays that may
  be too short. Correct: the device stores lines, the answer is the log from where
  it should start, it ends with the client's own line, and every client is answered.
* **Examples.** Processes and threads that outlive a call, state that `fork`
  copies, one failing step of several. Correct: a result is that of the own
  command, text is printed once, files are closed, nobody's unlock takes the mutex
  from another who holds it, memory changes hands once.

`PROJECT.json` lists the hazards one by one, at their lines, with the properties
that would catch them.

## Modules

`CircularBuffer` has no state: a ring is a record, and the C functions are
operators on it. Both loops over a ring are given by their loop bodies
(`FindIterate`, `SumIterate`), which `AesdChar` runs one iteration per step and
`RingCheck` runs to the end. `current_out_offs_offset` is a `size_t`; its wrapped
value is only ever added to `out_offs`, so the model keeps the signed value.

`RingCheck` adds entries of all small sizes and compares the ring with the
sequence of the last N entries. `FindLoop` and `SumLoop` run the loops to their
end; they are recursive functions, so that they can be reasoned about.

`CommandLog` is the abstract specification of the device: a log of the last N
commands and a partial command, `Write(data)` in one step, `Reset` on unload.

`AesdChar` is the driver. Variables are the fields of `struct aesd_dev` (`ring`,
`current_entry`, `mutex`), the heap (`heap[q]` is the bytes at address `q`, or
`Freed`), the files, and per process a program counter, its request, the kernel's
copy of the position (`pos`), the locals of a running loop and the return value.
A handler takes the steps at which the code may sleep, fail or be interleaved:

| Code | Actions |
|---|---|
| `aesd_init_module`, `aesd_cleanup_module` | `RegisterRegion`, `SetupCdev`, `Cleanup` |
| `aesd_open`, `aesd_release` | `Open`, `Release` |
| `mutex_lock_interruptible` | `Lock`, `Interrupted` |
| `aesd_read` | `ReadFind` (one iteration of the search), `ReadCopy` |
| `aesd_write` | `WriteNoMemory`, `WriteGrow`, `WriteCopy`, `WriteFault`, `WriteAppend`, `WriteCommit`, `WriteOops` |
| `aesd_llseek` | `LlseekSwitch`, `SumStep`, `LlseekEnd` |
| `aesd_unlocked_ioctl` | `IoctlRefuse`, `IoctlSeekTo`, `SumStep`, `IoctlEnd` |
| system call entry and return (external) | `Enter`, `Return` |

Some behaviours of the code the model keeps as they are: a faulting
`copy_to_user`/`copy_from_user` makes the call return the number of bytes *not*
copied, a positive number (`ret` has that number, the value and the bytes
delivered); a write of zero bytes when no command is open reads
`temp_buff[-1]` of a zero-size allocation, which kills the process with the mutex
held (`WriteOops`); the kernel hands `read` and `write` a copy of `f_pos` and
stores it back under no lock. External facts are taken from how the driver is
called: `kmalloc(0)` returns `ZERO_SIZE_PTR`; the module cannot be unloaded while
a file is open (`.owner = THIS_MODULE`).

`AesdCharStream` states what callers see: the stream is the concatenation of the
log, and reads and seeks are judged against it. `MCAesdChar` instantiates both.

`AesdSocket` is the server. `mpc` is where `main` or `run_server` is, `tpc[c]`
where the thread of connection `c` is; a connection also names its thread, its
arguments (`args[c]`: live, freed or leaked) and its list node. Start-up has one
action per step that can fail (`OpenSocket`, `SetOptions`, `Bind`, `Daemonize`,
`CreateMutex`, `Listen`); a failing `setsockopt` closes the socket and `main` goes
on, as in the code. The scan walks the list with its two pointers (`datap`,
`tmp`), one node per step, while threads finish. The descriptor table `fds`
is explicit, and `accept` and `open` take the lowest free number, because the code
keeps numbers and closes by number. A `recv` that is waiting keeps its socket even
if the number is closed. What a client sends is abstracted to what the code
branches on: a full buffer, a shorter piece, a close, or nothing. A signal may
also hit a thread in `recv` and end the call (`EINTR`). A failed `malloc` of a
list node, SIGPIPE, and a signal before `setup_handlers` end the process
(`mpc = "killed"`). What nobody looks at again (`output_fd` after its close, the
client's side after the socket's) is reset, which merges states and hides
nothing. `MCAesdSocket` instantiates it.

`SList` is the list at the level of pointers: a head and a link per node, the
macros as operators on them, and a freed node whose link holds nothing valid.

`ConnectionThread` is what `AesdSocket` leaves out: the bytes. Clients send one
message each, `Recv` returns any non-empty part of it that fits `BUFFER_SIZE`,
`FirstLine` is what `memchr` leaves of it, and it goes to the device by `Write` of
`CommandLog`, which `AesdChar` is proved to implement, or by `Seek` if
`check_for_ioctl_command` takes it for a seek command. `Send` is one `read` and
`send`. `Read` is `aesd_read` on the abstract log: at most the rest of one
command. `strchr` stops at the first zero byte, in a message or behind a short one
(`Scanned`); behind a full buffer without one it goes on into `Behind`, which the configuration takes from the layout gcc gives
the stack frame without optimisation: padding, then `output_fd`, whose low byte is
a newline when the descriptor is 10. Taking `file_mutex` and opening the device
are one step here, and so are closing and unlocking: `AesdSocket` has them apart.
A signal may interrupt `recv` (it fails) or `send` (it is short, and the code does
not send the rest). `MCConnectionThread` has the messages and logs of the runs.

`check_for_ioctl_command` copies the text between colon and comma and the text
between comma and newline (`Fields`) in full length into `first_num_str` and
`second_num_str`, two arrays of `NUM_SIZE` bytes (10 in the code), and lets `atoi`
read them: white space, a sign, the digits that follow (`Atoi`). Three outcomes are
kept apart. A text shorter than the array is terminated, and its number fits an
`int`; negative ones become huge as the device's `uint32_t` and are refused. A text
that fills the array has no terminator, and `atoi` reads on: the two numbers may be
any, so that the seek goes anywhere in the log or is refused (`Unterminated`). A
longer one is also written behind the array, over other locals and the return
address: the numbers may be any, or the process dies, with all threads that wait
for `file_mutex` (`Overrun`). Every received piece with a colon, a comma behind it
and a newline behind that gets there, whoever meant it as what.

`SystemCalls` lets one process make several calls. Its state is what outlives a
call: children, each with its copies of descriptors and of the stdio buffer, open
output files, and what has been printed where. `Threading` lets a caller start
threads on one mutex, use the mutex itself, and join and free as `threading.h`
says. Which kind of mutex the caller passes is left open. Its lock may fail, as the
code expects, and `threadfunc` then unlocks all the same, what it does not hold: a
default mutex is released by that, whoever holds it, and an error-checking one
refuses (`Released` allows both).

The proofs are in `RingProofs`, `AesdCharProofs` (invariants and refinement),
`AesdCharStreamProofs` (what callers see), `AesdSocketProofs`,
`ConnectionThreadProofs`, `SystemCallsProofs` and `ThreadingProofs`.
`StreamLemmas` has what they share about concatenations of sequences.

## Runs

| Run | Instance | Shows |
|---|---|---|
| `RingCheck` | N = 10, entry sizes 1..2 | `HoldsMostRecent`; search equals concatenation at every position (`FindMatchesConcatenation`); every prefix sum is right (`SumsMatchConcatenation`) |
| `DriverWrite` | 2 processes, 2 files, N = 2, 4 addresses; writes of 0, 1 and 2 bytes | `LockDiscipline`, `HeapExact`, `ImplementsCommandLog` |
| `DriverRead` | the same, complete commands and reads of 1 and 2 | `ReadSafe`, `ReadDeliversStream`, `PrivatePositionKept` |
| `DriverSeek` | 2 processes on one file; relative seeks, IOCSEEKTO in and out of range | `SeeksLandOnBytes`, `ReadDeliversStream`, `LockDiscipline` |
| `DriverLive` | N = 1, `FairSpec`; empty writes, bad seeks and commands | `EveryCallReturns` |
| `ServerThreads` | 3 connections, 3 descriptors | `ThreadMemorySafe`, `ListExact`, `ListWalkSafe`, `ServesListening`, `DeviceExclusive`, `DescriptorsOwn`, `DescriptorsReturned` |
| `ServerStops` | 2 connections, `ActiveSpec` | `ServerStops`, `FinishedThreadsReaped` |
| `SilentClient` | 2 connections, `FairSpec` | **violation** of `ServerStops` |
| `Connection` | 2 clients, 10 messages, `BUFFER_SIZE` = 8, `NUM_SIZE` = 3, N = 2, device empty or full, `FairSpec` | `NeverWritesNothing`, `CommandsAreLines`, `EchoesOwnLine`, `AnswerIsRestOfLog`, `EveryClientAnswered` |
| `FullBuffer` | the same, messages of exactly 8 bytes | **violation** of `EveryClientAnswered` |
| `SystemCalls` | 3 calls of any of the functions | `ExecResultTrue`, `PrintedOnce`, `CommandRedirected`, `OutputClosed` |
| `Threading` | 3 threads and their caller, `FairSpec` | `HoldsUntilRelease`, `DataHandedOver`, `EveryThreadFinishes` |

Each property is broken by a mutant of the code's definitions (a missing unlock,
an off-by-one, a missing free, a fall-through; `PROJECT.json`, "mutants").

*Bounds.* N = 2 is the smallest ring that is neither full nor empty in between and
wraps; N = 1 is the degenerate one; the algorithms are checked at N = 10, the
source's value, on their own. Four addresses are N + 2: a full ring, the command
being written and its replacement, so `kmalloc` itself never has to fail but
always may. Two processes suffice for every pairwise race; the proofs remove the
bound. `MaxPartial` bounds the length of an unterminated command by refusing
writes to longer ones. Three connections are needed to remove the middle of a
list that has more nodes to scan; three descriptors let all of them run out with
two sockets and a device open, and make reuse happen.

Number arrays of three bytes are overflowed by four, and a receive buffer of eight
holds a line that does so, as the code's 1024 hold one that overflows its ten; it
also holds a seek command with a number of two digits, and a message may be
shorter than it, equal to it or longer. The messages are a short line, a long one,
two lines in one message, a command without its end, a seek command, one whose
first number has a digit too many, a line that overflows `second_num_str`, and three
that only look like a seek command (with a negative number, behind a line; cut by
a zero byte; across two buffers). The network splits each of them in every way. The log starts empty, or full with
two commands. Two clients, one after the other on the device, show every way in
which one leaves something behind for the next. Three calls let a child of an
interrupted `waitpid` end in a later call. Three threads let one hold the mutex,
one wait and one fail to lock.

*Deadlock* is checked for the ring and the driver. The server may stop: after
`stopped` or `killed` nothing has to happen; connections, calls and threads are
finite in number.

*Fairness.* Driver: every runnable process runs (weak fairness of handler steps
and returns); a waiter gets the mutex if it is free again and again (strong
fairness), because a kernel mutex hands itself over to its first waiter. Server:
weak fairness of the main thread and of each connection thread, nothing about
clients and signals (`FairSpec`); `ActiveSpec` adds that a client goes on sending
until a piece is shorter than the buffer, or closes. A thread waiting for
`file_mutex` needs no strong fairness here: connections are finite in number and
each takes it once. The same holds in `ConnectionThread`, whose `FairSpec` is weak
fairness of each thread: a part of what the client sent is always on its way, and
nothing is assumed once all of it has arrived. `Threading`: sleeps end, the caller
gives the mutex back, and a thread that waits for it gets it if it is free again
and again (strong fairness, as the caller may take it any number of times).

### What the violations show

`server/aesdsocket.c:190` installs "Handlers for catching termination signals"
and `aesdsocket-start-stop:9` says "Stopping aesdsocket server". In the run, a
client connects and sends nothing; SIGTERM sets `quit`; the shutdown loop closes
`client_fd` and joins the thread. Closing a number does not wake the `recv` that
is waiting on it, so the join never returns and the server does not stop until
the client acts. `ServerStops` holds when clients act (`ServerStops.cfg`).

`server/connection_thread.c:171` announces "Receiving logic to handle large
messages". The loop takes a `recv` shorter than `BUFFER_SIZE` for the end of the
message. In `FullBuffer`, a line of exactly `BUFFER_SIZE` bytes is stored, and the
thread waits for more with `file_mutex` held: neither its client nor any other is
answered. `Connection` has messages of other lengths and shows that those clients
are answered or their connections closed, unless the process has died in
`check_for_ioctl_command`, and then of a received text with more than `NUM_SIZE`
bytes between colon and comma or behind the comma.

Further differences between text and code, which the properties state as
exceptions or leave open:

* `do_system` returns true for a command that exits with a non-zero value or is
  killed: it only compares the result of `system` with -1
  (`examples/systemcalls/systemcalls.c:19`, against its comment at lines 10-13).
  `ExecResultTrue` is therefore about the other two functions.
* `do_exec_redirect` leaves the output file open when `fork` fails (line 127,
  against line 91). It is the one exception of `OutputClosed`.
* A thread whose `pthread_mutex_lock` failed still reports success
  (`examples/threading/threading.c:28`, against `threading.h:19`), and its unlock at
  line 24 may release a mutex that another thread holds. That is the one exception
  of `HoldsUntilRelease`: as long as no such unlock has happened, whoever obtained
  the mutex has it until its own unlock.
* A number of ten bytes or more in a seek command, or in a line that looks like
  one, does not fit the arrays of `check_for_ioctl_command`
  (`server/connection_thread.c:115` and `:120`). `AnswerIsRestOfLog` is stated for
  shorter ones, and `EveryClientAnswered` names the overflow as its exception.

## Proofs

*Loops and concatenations.* What a recursive function computes is proved without
the library's induction theorems, whose operator parameters the provers do not
instantiate: by looking at the least number at which a claim would fail
(`LeastNumber`, from the well-foundedness of `<`). `StreamLemmas` shows in this way
what `FlattenSeq` is: that its function exists, that it has the type it should,
what it is for an extended sequence (`FlattenAppend`), for a prefix
(`FlattenBegins`) and at a place inside the k-th member (`FlattenMember`,
`FlattenEnds`).

*Ring.* From `NAssumption`, `MaxSizeAssumption` and `NullAssumption` (NULL is not
the address of an entry): `RingTypeCorrect`, `HoldsMostRecentHolds`,
`FindMatchesConcatenationHolds`, `SumsMatchConcatenationHolds`, for every capacity
up to 255 and all entry sizes. The invariant adds to the types that the ring is
filled from slot 0 upwards and begins at `in_offs` once it is full (`RingShape`),
and that slot `out_offs + i`, counted round the end, has the i-th recent entry
(`Holds`). For the loops, `FindAt` says what the search knows after j entries: the
bytes passed and the bytes remaining make up the position. `OffsetNext` is the
arithmetic of `-1 * out_offs`: the offset returns to zero exactly after N entries.

*Driver.* From `NAssumption` (N in 1..255: the indices are `uint8_t`) and
`ConstantsAssumption` (the constants have their types; NULL, `ZERO_SIZE_PTR` and
addresses are different), for any number of processes, files, addresses and any
payloads:

* `TypeCorrect`, `LockDisciplineHolds`, `HeapExactHolds`, `ReadSafeHolds`, all
  from `Invariance: Spec => []Inv`;
* `Refinement: Spec => ImplementsCommandLog`;
* `ReadDeliversStreamHolds`, `SeeksLandOnBytesHolds`, `PrivatePositionKeptHolds`,
  which are about steps.

`Inv` is the inductive invariant. The four properties need each other, and more:
that memory is exact after an eviction needs that the slot at `in_offs` of a full
ring owns a buffer (`RingShape`: occupied slots are those below `in_offs`, or
all; `out_offs` follows); that a reader's slot exists needs that the search stays
inside the array (`Searching`, where the wrapped index lives); that a step of the
holder is not disturbed needs `LockDiscipline`; that an unload disturbs nobody
needs that calls are made on open files (`Files`); that a completed write holds
the caller's bytes needs what `copy_from_user` left in the buffer (`Current`);
and `Calls` ties the program counter to the request and the loop's locals. TLC
checked `Inv` before it was proved. There is one lemma per action.

For the refinement, the ring read from `out_offs` is the log and the current
entry is the partial command. `WriteAppend` and `WriteCommit` map to `Write`,
`Cleanup` to `Reset`, every other step to a stutter: in particular `WriteGrow`
and `WriteFault`, which move and dirty memory, do not change what it stands for.

What callers see needs two more invariants. `StreamInv` says what a running loop
has counted: the search is at the entry behind those it passed, whose bytes it has
taken off the position, and the sum is where the entry at the index begins in the
stream. It is kept because only the holder of the mutex changes the ring
(`HolderAlone`). `CopyInv` says that the kernel's copy of the position of a file
only one process uses is the position, until a read has moved it by exactly what it
delivered (`Advance`): nothing, if `copy_to_user` faulted.

*Server.* From `ServerAssumption` (NULL, connections, descriptors and the two
marks for freed memory and the absent mutex are different), for any number of
connections and descriptors: `ServerTypeCorrect`, `ThreadMemorySafeHolds`,
`ListExactHolds`, `ListWalkSafeHolds`, `ServesListeningHolds`,
`DeviceExclusiveHolds`, `DescriptorsOwnHolds`, `DescriptorsReturnedHolds`.

`Inv` has three parts beside the types. `ListInv` says what the list is: every
linked node but the first has exactly one predecessor, and there are ranks that
grow along the links. The ranks are what a list of any length needs: without them
a cycle beside the list would satisfy the rest, and `SLIST_EMPTY` would not mean
that no thread is left (`EmptyChain` takes the linked node of least rank). It also
says that the linked nodes are the threads created and not freed, and that the
scan's two pointers point at linked nodes. `ThreadInv` ties a thread's data to its
life, and `LockInv` ties `file_mutex` and open devices to program counters.
`RemoveChain` shows that `SLIST_REMOVE` takes out a node wherever it is, so the
pointer-level macros do what the scan relies on. `ThreadMemorySafe` then follows:
`Finish` destroys the mutex only when the list is empty, hence no thread is left.
The nodes a walk comes to (`Elements`) are the linked ones: in a set closed under
the links, a linked node of least rank that is missing would have a predecessor
that is not (`ElementsOfChain`); that is `ListExact`. `SocketInv` adds, for
sockets, that `client_fd` names the open one and why it is still open. `OwnInv`
says that until the shutdown loop a thread's numbers name its own socket and
device, and that afterwards a number may name nothing or a device, but never
another client's socket, as nothing is accepted any more.

*Connection.* From `ConnectionAssumption`, for any number of clients, any messages,
any `BUFFER_SIZE`, any `NUM_SIZE` up to the code's 10 and any capacity: `ConnectionTypeCorrect`, `NeverWritesNothingHolds`,
`CommandsAreLinesHolds`, `AnswerIsRestOfLogHolds`, `EchoesOwnLineHolds`. The
assumption has the types; that a message meant as a seek command has the form
`...:x,y` with a newline behind it and the numbers its sender means (`Names`),
which may have any number of digits: the limit is in `AnswerIsRestOfLog`; that
the device holds lines when the server starts, as it does when only this server
writes to it; and that at most one byte other than zero lies between a full buffer
and the next zero, which is the low byte of `output_fd` in a process with fewer
than 256 descriptors. `Inv` says that only the holder of `file_mutex` is active,
that `recv_buffer` is the part of the message received last and is not empty when it is
stored, that stored commands are lines and the partial one has no newline.
`AnswerInv` follows an answer: what has been sent is the stream from where it should
start to where `output_fd` is, and what has been stored of a line is the end of the
partial command until its newline makes it the end of the stream. That a seek
command is taken for the seek it names needs what `atoi` computes
(`DigitsRead`). An overrun ends all activity, and so keeps both invariants
(`OverrunStep`).

*Examples.* For any number of calls: `ExecResultTrueHolds`, `PrintedOnceHolds`,
`CommandRedirectedHolds`, `OutputClosedHolds`; the strengthening says that calls
not begun have left no trace, that the current one has not returned, and that
`fork` copies an empty buffer. For any number of threads:
`HoldsUntilReleaseHolds`, `DataHandedOverHolds`; both have their types proved too
(`SystemCallsTypeCorrect`, `ThreadingTypeCorrect`); the strengthening says that a
thread has not obtained the mutex before its lock. An unlock by a thread that
obtained the mutex finds it in its own hands, because no such unlock came before it;
any other makes the exception of `HoldsUntilRelease` true for ever.

On the instances of the runs TLC agrees with each `Inv`.

Model-checked only: liveness (`EveryCallReturns`, `ServerStops`,
`FinishedThreadsReaped`, `EveryClientAnswered`, `EveryThreadFinishes`), which the
prover cannot do.

## Not modelled

* `thread_complete` is a plain `bool` shared by two threads. The loop that reads
  it calls functions the compiler cannot see through, so it is read again each
  time; the model reads it atomically.
* The listening socket's backlog, `syslog`, addresses, debug prints.
* In `ConnectionThread`: what an overflow of the number arrays does to memory beyond
  the two outcomes above. `AnswerIsRestOfLog` says nothing about a line that contains a colon
  and was not meant as a seek command, which the code may take for one, nor about
  a seek command that arrives in pieces, which is then stored as text.
* `queue.h` beyond the `SLIST` macros in use: vendored, unused.
* `writer.c`, `finder.sh` and the other file utilities: one-shot programs without
  shared state; build, emulator and test scripts; the start and load scripts,
  which are straight-line shell around what `Signal`, `RegisterRegion`, `SetupCdev`
  and `Cleanup` model; `autotest-validate` and the student test (nothing to model).

## Plan

1. Done: ring, driver, command log, server control with start-up and pointer-level
   list, connection bytes, both examples; the proofs of every safety property and
   of the refinement.
2. Left: an abstract specification of the whole server (clients that add a line and
   see the log, one at a time) and the proof that `ConnectionThread` implements it.
