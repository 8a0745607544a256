----------------------------- MODULE AesdSocket -----------------------------
(***************************************************************************)
(* The life of the server and its connections: main and run_server of      *)
(* server/aesdsocket.c (start-up, accept loop, list of threads, reaping,   *)
(* shutdown) and the steps of connection_thread in                         *)
(* server/connection_thread.c that take and give back resources            *)
(* (file_mutex, descriptors, thread_complete).  What travels over a        *)
(* connection is in ConnectionThread; here recv_messages and send_messages *)
(* succeed or fail for the reasons the code tells apart.                   *)
(*                                                                         *)
(* External, modelled from how the code uses it: descriptors (accept and   *)
(* open return the lowest free number; closing a number does not wake a    *)
(* recv blocked on what it named), malloc, pthreads, clients and signals.  *)
(***************************************************************************)
EXTENDS Integers, Sequences

CONSTANTS
    Conn,   \* connections clients may make; each names its thread and list node
    MaxFd,  \* descriptors 0..MaxFd are left beside the listening socket
    NULL

ASSUME ServerAssumption ==
    /\ NULL \notin Conn \cup 0..MaxFd
    /\ {"freed", "absent"} \cap (Conn \cup {NULL}) = {}
    /\ MaxFd \in Nat

INSTANCE SList WITH Node <- Conn

Fd == 0..MaxFd

VARIABLES
    mpc,         \* where main or run_server is
    quit,        \* the flag the signal handler sets
    listener,    \* the socket socket_fd was opened for
    head,        \* the SLIST of threads; a node has its connection's name
    datap, tmp,  \* run_server's pointers into it
    current,     \* the connection being accepted
    file_mutex,  \* its holder, NULL, or "absent"
    fds,         \* the descriptor table
    tpc,         \* where each connection_thread is
    client_fd,   \* tData->client_fd
    output_fd,   \* the thread's descriptor of /dev/aesdchar
    args,        \* tData: "none", "live", "leaked" or "freed"
    complete,    \* tData->thread_complete
    peer         \* what the client of each connection did and recv has not taken

listVars   == <<head, datap, tmp>>
mainVars   == <<mpc, listener, listVars, current>>
threadVars == <<client_fd, output_fd, complete>>
vars == <<mainVars, quit, file_mutex, fds, tpc, threadVars, args, peer>>

FREE == <<"free", NULL>>
Sock(c) == <<"sock", c>>
Dev(c) == <<"dev", c>>

FreeFds == {k \in Fd : fds[k] = FREE}
LowestFree == CHOOSE k \in FreeFds : \A j \in FreeFds : k <= j

(* close(k): nothing happens (EBADF) if k is not open.                     *)
Closed(k) == [fds EXCEPT ![k] = FREE]

Init ==
    /\ mpc = "main"
    /\ quit = FALSE
    /\ listener = "none"
    /\ head = SLIST_INIT
    /\ datap = NULL
    /\ tmp = NULL
    /\ current = NULL
    /\ file_mutex = "absent"
    /\ fds = [k \in Fd |-> FREE]
    /\ tpc = [c \in Conn |-> "none"]
    /\ client_fd = [c \in Conn |-> NULL]
    /\ output_fd = [c \in Conn |-> NULL]
    /\ args = [c \in Conn |-> "none"]
    /\ complete = [c \in Conn |-> FALSE]
    /\ peer = [c \in Conn |-> "quiet"]

(* The process has not been killed, and main has not returned.             *)
Running == mpc \notin {"killed", "stopped"}
-----------------------------------------------------------------------------
(* main.                                                                   *)

startupRest == <<listVars, current, quit, fds, tpc, threadVars, args, peer>>

(* stop_process and the return from main.                                  *)
StopProcess ==
    /\ listener' = IF listener = "none" THEN "none" ELSE "closed"
    /\ mpc' = "stopped"

(* setup_handlers: from now on a signal does not kill.                     *)
SetupHandlers ==
    /\ mpc = "main"
    /\ mpc' = "socket"
    /\ UNCHANGED <<listener, file_mutex, startupRest>>

OpenSocket ==
    /\ mpc = "socket"
    /\ \/ listener' = "open" /\ mpc' = "options"
       \/ StopProcess
    /\ UNCHANGED <<file_mutex, startupRest>>

(* setsockopt; when it fails the socket is closed, and main goes on with   *)
(* the closed number.  fcntl makes accept non-blocking.                    *)
SetOptions ==
    /\ mpc = "options"
    /\ listener' \in {"open", "closed"}
    /\ mpc' = "bind"
    /\ UNCHANGED <<file_mutex, startupRest>>

(* getaddrinfo and bind, either of which may fail.                         *)
Bind ==
    /\ mpc = "bind"
    /\ \/ listener = "open" /\ listener' = "bound" /\ mpc' = "fork"
       \/ StopProcess
    /\ UNCHANGED <<file_mutex, startupRest>>

(* Without -d the process goes on; with it the child does, and the parent  *)
(* closes its copy of the socket and exits, which the child cannot notice. *)
(* If fork fails, main returns without stop_process.                       *)
Daemonize ==
    /\ mpc = "fork"
    /\ mpc' \in {"run", "stopped"}
    /\ UNCHANGED <<listener, file_mutex, startupRest>>

(* malloc of file_mutex.                                                   *)
CreateMutex ==
    /\ mpc = "run"
    /\ \/ file_mutex' = NULL /\ mpc' = "listen" /\ UNCHANGED listener
       \/ StopProcess /\ UNCHANGED file_mutex
    /\ UNCHANGED startupRest

(* A mutant of Listen: its result is not checked.                          *)
Listen_Unchecked ==
    /\ mpc = "listen"
    /\ listener' \in {listener, "listening"}
    /\ mpc' = "loop"
    /\ UNCHANGED <<file_mutex, startupRest>>

Listen ==
    /\ mpc = "listen"
    /\ \/ listener = "bound" /\ listener' = "listening" /\ mpc' = "loop"
       \/ StopProcess
    /\ UNCHANGED <<file_mutex, startupRest>>

Startup == \/ SetupHandlers \/ OpenSocket \/ SetOptions \/ Bind \/ Daemonize
           \/ CreateMutex \/ Listen
-----------------------------------------------------------------------------
(* run_server: the main loop.                                              *)

(* while (!quit), and the start of SLIST_FOREACH_SAFE.                     *)
LoopHead ==
    /\ mpc = "loop"
    /\ mpc' = IF quit THEN "drain" ELSE "scan"
    /\ datap' = IF quit THEN NULL ELSE SLIST_FIRST(head)
    /\ UNCHANGED <<listener, head, tmp, current, quit, file_mutex, fds, tpc, threadVars, args, peer>>

(* A mutant of ScanNode: the scan ends at the first unfinished thread.     *)
ScanNode_Breaks ==
    /\ mpc = "scan"
    /\ datap # NULL
    /\ \/ /\ complete[datap]
          /\ tmp' = SLIST_NEXT(head, datap)
          /\ mpc' = "reap"
          /\ UNCHANGED datap
       \/ /\ ~complete[datap]
          /\ datap' = NULL
          /\ UNCHANGED <<tmp, mpc>>
    /\ UNCHANGED <<listener, head, current, quit, file_mutex, fds, tpc, threadVars, args, peer>>

(* thread_complete of the next node is read; the node behind it is noted   *)
(* before the body may free it.                                            *)
ScanNode ==
    /\ mpc = "scan"
    /\ datap # NULL
    /\ \/ /\ complete[datap]
          /\ tmp' = SLIST_NEXT(head, datap)
          /\ mpc' = "reap"
          /\ UNCHANGED datap
       \/ /\ ~complete[datap]
          /\ datap' = SLIST_NEXT(head, datap)
          /\ UNCHANGED <<tmp, mpc>>
    /\ UNCHANGED <<listener, head, current, quit, file_mutex, fds, tpc, threadVars, args, peer>>

(* A mutant of Joinable: the thread is not waited for.                     *)
Joinable_Always(c) == TRUE

(* pthread_join returns once the thread has.                               *)
Joinable(c) == tpc[c] = "exit"

(* A mutant of Reap: SLIST_FOREACH follows the link of the freed node.     *)
Reap_Foreach ==
    /\ mpc = "reap"
    /\ Joinable(datap)
    /\ args' = [args EXCEPT ![datap] = "freed"]
    /\ head' = Freed(SLIST_REMOVE(head, datap), datap)
    /\ datap' = SLIST_NEXT(head', datap)
    /\ tmp' = NULL
    /\ mpc' = "scan"
    /\ UNCHANGED <<listener, current, quit, file_mutex, fds, tpc, threadVars, peer>>

(* pthread_join, free of the thread's data, SLIST_REMOVE, free of the node *)
Reap ==
    /\ mpc = "reap"
    /\ Joinable(datap)
    /\ args' = [args EXCEPT ![datap] = "freed"]
    /\ head' = Freed(SLIST_REMOVE(head, datap), datap)
    /\ datap' = tmp
    /\ tmp' = NULL
    /\ mpc' = "scan"
    /\ UNCHANGED <<listener, current, quit, file_mutex, fds, tpc, threadVars, peer>>

(* accept takes a client that has connected by now; client_fd is a local   *)
(* variable until tData is there.                                          *)
Accept(c) ==
    /\ mpc = "scan"
    /\ datap = NULL
    /\ client_fd[c] = NULL
    /\ FreeFds # {}
    /\ fds' = [fds EXCEPT ![LowestFree] = Sock(c)]
    /\ client_fd' = [client_fd EXCEPT ![c] = LowestFree]
    /\ current' = c
    /\ mpc' = "malloc"
    /\ UNCHANGED <<listener, listVars, quit, file_mutex, tpc, output_fd, complete, args, peer>>

(* accept fails, for want of a client (EAGAIN), of a descriptor (EMFILE)   *)
(* or otherwise: continue.                                                 *)
AcceptFails ==
    /\ mpc = "scan"
    /\ datap = NULL
    /\ mpc' = "loop"
    /\ UNCHANGED <<listener, listVars, current, quit, file_mutex, fds, tpc, threadVars, args, peer>>

(* malloc of tData or of the pthread_t, or pthread_create fails: quit is   *)
(* set; the client's descriptor and what was allocated stay behind.        *)
StartFails ==
    /\ mpc = "malloc"
    /\ args' \in {args, [args EXCEPT ![current] = "leaked"]}
    /\ quit' = TRUE
    /\ current' = NULL
    /\ mpc' = "loop"
    /\ UNCHANGED <<listener, listVars, file_mutex, fds, tpc, threadVars, peer>>

(* tData is filled in and the thread created.                              *)
Create ==
    /\ mpc = "malloc"
    /\ args' = [args EXCEPT ![current] = "live"]
    /\ complete' = [complete EXCEPT ![current] = FALSE]
    /\ tpc' = [tpc EXCEPT ![current] = "lock"]
    /\ mpc' = "insert"
    /\ UNCHANGED <<listener, listVars, current, quit, file_mutex, fds, client_fd, output_fd, peer>>

(* SLIST_INSERT_HEAD of the node, whose malloc is not checked: without     *)
(* memory the process is killed by the write through NULL.                 *)
Insert ==
    /\ mpc = "insert"
    /\ \/ /\ head' = SLIST_INSERT_HEAD(head, current)
          /\ mpc' = "loop"
       \/ /\ mpc' = "killed"
          /\ UNCHANGED head
    /\ current' = NULL
    /\ UNCHANGED <<listener, datap, tmp, quit, file_mutex, fds, tpc, threadVars, args, peer>>

(* The shutdown loop closes the first node's descriptor, by its number...  *)
Drain ==
    /\ mpc = "drain"
    /\ ~SLIST_EMPTY(head)
    /\ datap' = SLIST_FIRST(head)
    /\ fds' = Closed(client_fd[SLIST_FIRST(head)])
    /\ mpc' = "drain_join"
    /\ UNCHANGED <<listener, head, tmp, current, quit, file_mutex, tpc, threadVars, args, peer>>

(* ... and joins its thread, frees and removes it.                         *)
DrainJoin ==
    /\ mpc = "drain_join"
    /\ Joinable(datap)
    /\ args' = [args EXCEPT ![datap] = "freed"]
    /\ head' = Freed(SLIST_REMOVE_HEAD(head), datap)
    /\ datap' = NULL
    /\ mpc' = "drain"
    /\ UNCHANGED <<listener, tmp, current, quit, file_mutex, fds, tpc, threadVars, peer>>

(* pthread_mutex_destroy, free, and the return to main and from it.        *)
Finish ==
    /\ mpc = "drain"
    /\ SLIST_EMPTY(head)
    /\ file_mutex' = "absent"
    /\ StopProcess
    /\ UNCHANGED <<listVars, current, quit, fds, tpc, threadVars, args, peer>>

Main == \/ Startup \/ LoopHead \/ ScanNode \/ Reap \/ AcceptFails \/ StartFails \/ Create
        \/ Insert \/ Drain \/ DrainJoin \/ Finish
        \/ \E c \in Conn : Accept(c)
-----------------------------------------------------------------------------
(* connection_thread.                                                      *)

At(c, label) == Running /\ tpc[c] = label
Goto(c, label) == tpc' = [tpc EXCEPT ![c] = label]

(* thread_complete is cleared once more, and file_mutex waited for.        *)
LockFile(c) ==
    /\ At(c, "lock")
    /\ file_mutex = NULL
    /\ file_mutex' = c
    /\ complete' = [complete EXCEPT ![c] = FALSE]
    /\ Goto(c, "open")
    /\ UNCHANGED <<mainVars, quit, fds, client_fd, output_fd, args, peer>>

OpenDevice(c) ==
    /\ At(c, "open")
    /\ FreeFds # {}
    /\ output_fd' = [output_fd EXCEPT ![c] = LowestFree]
    /\ fds' = [fds EXCEPT ![LowestFree] = Dev(c)]
    /\ Goto(c, "recv")
    /\ UNCHANGED <<mainVars, quit, file_mutex, client_fd, complete, args, peer>>

(* Mutants of OpenFails: the result of open is not checked; file_mutex is  *)
(* not unlocked.                                                           *)
OpenFails_Unchecked(c) ==
    /\ At(c, "open")
    /\ output_fd' = [output_fd EXCEPT ![c] = -1]
    /\ Goto(c, "recv")
    /\ UNCHANGED <<mainVars, quit, file_mutex, fds, client_fd, complete, args, peer>>

OpenFails_HoldsLock(c) ==
    /\ At(c, "open")
    /\ Goto(c, "exit")
    /\ UNCHANGED <<mainVars, quit, file_mutex, fds, threadVars, args, peer>>

(* open fails: unlock and return, with thread_complete left false and the  *)
(* client's descriptor left open.                                          *)
OpenFails(c) ==
    /\ At(c, "open")
    /\ file_mutex' = NULL
    /\ Goto(c, "exit")
    /\ UNCHANGED <<mainVars, quit, fds, threadVars, args, peer>>

(* client_fd still names the client's socket.                              *)
OwnSocket(c) == fds[client_fd[c]] = Sock(c)
OwnDevice(c) == fds[output_fd[c]] = Dev(c)

(* recv looks client_fd up and waits on the socket, or fails with EBADF or *)
(* ENOTSOCK.  A waiting call keeps the socket, whatever becomes of the     *)
(* number.                                                                 *)
CallRecv(c) ==
    /\ At(c, "recv")
    /\ Goto(c, IF OwnSocket(c) THEN "blocked" ELSE "fail_close")
    /\ UNCHANGED <<mainVars, quit, file_mutex, fds, threadVars, args, peer>>

(* The client after recv has taken what it sent.                           *)
Taken(c) == [peer EXCEPT ![c] = IF @ \in {"gone", "closed"} THEN "closed" ELSE "quiet"]

(* recv fills the buffer, the bytes go to the device, and the loop of      *)
(* recv_messages waits for more.                                           *)
ReceivedFull(c) ==
    /\ At(c, "blocked")
    /\ OwnDevice(c)
    /\ peer[c] = "filled"
    /\ peer' = Taken(c)
    /\ Goto(c, "recv")
    /\ UNCHANGED <<mainVars, quit, file_mutex, fds, threadVars, args>>

(* recv_messages returns 0: less than a buffer arrived and went to the     *)
(* device.                                                                 *)
Received(c) ==
    /\ At(c, "blocked")
    /\ OwnDevice(c)
    /\ peer[c] \in {"sent", "gone"}
    /\ peer' = Taken(c)
    /\ Goto(c, "send")
    /\ UNCHANGED <<mainVars, quit, file_mutex, fds, threadVars, args>>

(* recv_messages returns -1: the client closed, or bytes arrived and write *)
(* or ioctl failed.                                                        *)
ReceiveFails(c) ==
    /\ At(c, "blocked")
    /\ peer[c] # "quiet"
    /\ peer' = Taken(c)
    /\ Goto(c, "fail_close")
    /\ UNCHANGED <<mainVars, quit, file_mutex, fds, threadVars, args>>

(* send_messages returns 0.                                                *)
Sent(c) ==
    /\ At(c, "send")
    /\ OwnSocket(c)
    /\ OwnDevice(c)
    /\ Goto(c, "close_device")
    /\ UNCHANGED <<mainVars, quit, file_mutex, fds, threadVars, args, peer>>

(* send_messages returns -1: read or send failed.                          *)
SendFails(c) ==
    /\ At(c, "send")
    /\ Goto(c, "fail_close")
    /\ UNCHANGED <<mainVars, quit, file_mutex, fds, threadVars, args, peer>>

(* send on a connection its client has closed raises SIGPIPE, for which    *)
(* setup_handlers installs nothing: the process is killed.                 *)
SendKills(c) ==
    /\ At(c, "send")
    /\ OwnSocket(c)
    /\ peer[c] = "closed"
    /\ mpc' = "killed"
    /\ UNCHANGED <<listener, listVars, current, quit, file_mutex, fds, tpc, threadVars, args, peer>>

(* The end of a thread.  What it or its client will not look at again is   *)
(* reset.                                                                  *)
CloseDevice(c, from, to) ==
    /\ At(c, from)
    /\ fds' = Closed(output_fd[c])
    /\ output_fd' = [output_fd EXCEPT ![c] = NULL]
    /\ Goto(c, to)
    /\ UNCHANGED <<mainVars, quit, file_mutex, client_fd, complete, args, peer>>

UnlockFile(c, from, to) ==
    /\ At(c, from)
    /\ file_mutex' = NULL
    /\ Goto(c, to)
    /\ UNCHANGED <<mainVars, quit, fds, threadVars, args, peer>>

CloseClient(c, from, to) ==
    /\ At(c, from)
    /\ fds' = Closed(client_fd[c])
    /\ peer' = [peer EXCEPT ![c] = "quiet"]
    /\ Goto(c, to)
    /\ UNCHANGED <<mainVars, quit, file_mutex, threadVars, args>>

SetComplete(c, from, to) ==
    /\ At(c, from)
    /\ complete' = [complete EXCEPT ![c] = TRUE]
    /\ Goto(c, to)
    /\ UNCHANGED <<mainVars, quit, file_mutex, fds, client_fd, output_fd, args, peer>>

(* A mutant of Success: the mutex is given up before the device is closed. *)
Success_UnlocksFirst(c) ==
    \/ UnlockFile(c, "close_device", "unlock")
    \/ CloseDevice(c, "unlock", "close_client")
    \/ CloseClient(c, "close_client", "complete")
    \/ SetComplete(c, "complete", "exit")

Success(c) ==
    \/ CloseDevice(c, "close_device", "unlock")
    \/ UnlockFile(c, "unlock", "close_client")
    \/ CloseClient(c, "close_client", "complete")
    \/ SetComplete(c, "complete", "exit")

(* A mutant of Failure: without its return it falls through to the         *)
(* successful end and closes the client's number once more.                *)
Failure_FallsThrough(c) ==
    \/ CloseClient(c, "fail_close", "fail_complete")
    \/ SetComplete(c, "fail_complete", "fail_device")
    \/ CloseDevice(c, "fail_device", "fail_unlock")
    \/ UnlockFile(c, "fail_unlock", "close_client")

(* Another: the device is not closed.                                      *)
Failure_KeepsDevice(c) ==
    \/ CloseClient(c, "fail_close", "fail_complete")
    \/ SetComplete(c, "fail_complete", "fail_unlock")
    \/ UnlockFile(c, "fail_unlock", "exit")

(* The end of a failed one: thread_complete is set before the last use of  *)
(* the thread's data.                                                      *)
Failure(c) ==
    \/ CloseClient(c, "fail_close", "fail_complete")
    \/ SetComplete(c, "fail_complete", "fail_device")
    \/ CloseDevice(c, "fail_device", "fail_unlock")
    \/ UnlockFile(c, "fail_unlock", "exit")

Thread(c) ==
    \/ LockFile(c) \/ OpenDevice(c) \/ OpenFails(c)
    \/ CallRecv(c) \/ ReceivedFull(c) \/ Received(c) \/ ReceiveFails(c) \/ Sent(c) \/ SendFails(c) \/ SendKills(c)
    \/ Success(c) \/ Failure(c)
-----------------------------------------------------------------------------
(* Clients and signals.                                                    *)

(* What a client does before its thread is in recv waits in the socket, as *)
(* if it were done then; what it sends later is never read, and when it    *)
(* closes matters up to the end of send_messages.                          *)
Client(c, from, to) ==
    /\ Running
    /\ tpc[c] = "blocked" \/ (tpc[c] = "send" /\ to = "closed")
    /\ peer[c] = from
    /\ peer' = [peer EXCEPT ![c] = to]
    /\ UNCHANGED <<mainVars, quit, file_mutex, fds, tpc, threadVars, args>>

ClientActs(c) ==
    \/ Client(c, "quiet", "filled")   \* sends BUFFER_SIZE bytes or more
    \/ Client(c, "quiet", "sent")     \* sends less
    \/ Client(c, "quiet", "closed")   \* closes
    \/ Client(c, "sent", "gone")      \* closes before recv takes what it sent

(* SIGINT or SIGTERM: shutdown_handler sets quit.  The kernel may run it   *)
(* in a thread that is blocked in recv, whose call then fails with EINTR.  *)
Signal ==
    /\ Running
    /\ mpc # "main"
    /\ quit' = TRUE
    /\ \/ UNCHANGED tpc
       \/ \E c \in Conn : tpc[c] = "blocked" /\ Goto(c, "fail_close")
    /\ UNCHANGED <<mainVars, file_mutex, fds, threadVars, args, peer>>

(* Before setup_handlers, either signal kills the process.                 *)
SignalKills ==
    /\ mpc = "main"
    /\ mpc' = "killed"
    /\ UNCHANGED <<listener, file_mutex, startupRest>>

Next == Main \/ Signal \/ SignalKills \/ \E c \in Conn : Thread(c) \/ ClientActs(c)

Spec == Init /\ [][Next]_vars

(* Every thread of the process that can run does.  Nothing is assumed of   *)
(* clients or signals.                                                     *)
ServerFairness == WF_vars(Main) /\ \A c \in Conn : WF_vars(Thread(c))

FairSpec == Spec /\ ServerFairness

(* In addition, a client goes on sending until it has sent a last piece    *)
(* shorter than the buffer, or closes.                                     *)
ActiveClients ==
    \A c \in Conn : SF_vars(Client(c, "quiet", "sent") \/ Client(c, "quiet", "closed"))

ActiveSpec == FairSpec /\ ActiveClients
-----------------------------------------------------------------------------
(* Properties.                                                             *)

Serving == {"loop", "scan", "reap", "malloc", "insert", "drain", "drain_join"}
MainLabel == Serving \cup {"main", "socket", "options", "bind", "fork", "run", "listen",
                           "stopped", "killed"}
UsesDevice == {"recv", "blocked", "send"}
HasDevice == UsesDevice \cup {"fail_close", "fail_complete", "fail_device", "close_device"}
HasSocket == UsesDevice \cup {"lock", "open", "fail_close", "close_device", "unlock",
                              "close_client"}
ThreadLabel == HasDevice \cup HasSocket
               \cup {"none", "fail_unlock", "complete", "exit"}

(* The types of the state; descriptors a thread keeps are numbers accept   *)
(* or open returned, never the -1 of a failure.                            *)
TypeOK ==
    /\ mpc \in MainLabel
    /\ quit \in BOOLEAN
    /\ listener \in {"none", "open", "closed", "bound", "listening"}
    /\ head \in SList
    /\ datap \in Conn \cup {NULL, FREED}
    /\ tmp \in Conn \cup {NULL, FREED}
    /\ current \in Conn \cup {NULL}
    /\ file_mutex \in Conn \cup {NULL, "absent"}
    /\ fds \in [Fd -> {"sock", "dev"} \X Conn \cup {FREE}]
    /\ tpc \in [Conn -> ThreadLabel]
    /\ client_fd \in [Conn -> Fd \cup {NULL}]
    /\ output_fd \in [Conn -> Fd \cup {NULL}]
    /\ args \in [Conn -> {"none", "live", "leaked", "freed"}]
    /\ complete \in [Conn -> BOOLEAN]
    /\ peer \in [Conn -> {"quiet", "filled", "sent", "gone", "closed"}]

(* A failing thread sets thread_complete before it closes its device and   *)
(* unlocks through its data; run_server frees that data, and the mutex,    *)
(* only after the thread has made its last use of them.                    *)
ThreadMemorySafe ==
    \A c \in Conn : tpc[c] \notin {"none", "exit"} =>
        args[c] = "live" /\ file_mutex # "absent"

(* The list has every thread that was created and not joined, once: none   *)
(* is lost by an insertion or a removal during the scan.                   *)
ListExact ==
    mpc # "killed" =>
        /\ WalkedOnce(head)
        /\ \A c \in Conn : tpc[c] # "none" /\ args[c] # "freed" <=>
              c \in Elements(head) \/ (mpc = "insert" /\ current = c)

(* The scan frees nodes of the list it walks.  It never stands on, or goes *)
(* on from, a node that has been freed.                                    *)
ListWalkSafe ==
    \A n \in {datap, tmp} \ {NULL} : n # FREED /\ SLIST_NEXT(head, n) # FREED

(* accept is only called on a socket that was bound and is listening,      *)
(* although main goes on with a closed number when setsockopt fails.       *)
ServesListening == mpc \in Serving => listener = "listening"

(* file_mutex serialises the clients: while one thread receives and        *)
(* answers, no other has the device open, on any path out of the thread.   *)
DeviceExclusive ==
    /\ \A c \in Conn : tpc[c] \in HasDevice => file_mutex = c
    /\ \A j, k \in Fd : fds[j][1] = "dev" /\ fds[k][1] = "dev" => j = k

(* Descriptor numbers are reused as soon as they are closed.  Until the    *)
(* shutdown loop closes by number, the numbers a thread keeps name its own *)
(* socket and its own device up to its own close; and even then, no thread *)
(* receives from, or answers to, another client.                           *)
DescriptorsOwn ==
    \A c \in Conn :
        /\ mpc \notin {"drain", "drain_join", "killed"} =>
              /\ tpc[c] \in HasSocket => OwnSocket(c)
              /\ tpc[c] \in HasDevice => OwnDevice(c)
        /\ tpc[c] \in UsesDevice =>
              /\ fds[client_fd[c]] \in {Sock(c), Dev(c), FREE}
              /\ fds[output_fd[c]] \in {Dev(c), FREE}

(* Nothing stays open behind a thread, on any path: an open descriptor     *)
(* belongs to a thread that has still to close it, with two exceptions,    *)
(* the socket of a thread whose open failed and the socket of a connection *)
(* whose thread could not be started, after which the server shuts down.   *)
DescriptorsReturned ==
    \A k \in Fd : fds[k] # FREE =>
        LET c == fds[k][2]
        IN  \/ fds[k] = Dev(c) /\ tpc[c] \in HasDevice
            \/ fds[k] = Sock(c) /\ \/ tpc[c] \in HasSocket
                                   \/ tpc[c] = "exit" /\ ~complete[c]
                                   \/ tpc[c] = "none" /\ (current = c \/ quit)

(* A thread that has announced its end is joined and freed while the       *)
(* server runs, even when older connections are still open.                *)
FinishedThreadsReaped ==
    \A c \in Conn : complete[c] ~> (args[c] = "freed" \/ quit \/ mpc = "killed")

(* A termination signal stops the server: run_server returns.              *)
ServerStops == quit ~> mpc \in {"stopped", "killed"}
=============================================================================
