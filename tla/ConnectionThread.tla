-------------------------- MODULE ConnectionThread --------------------------
(***************************************************************************)
(* The bytes of a connection: recv_messages, check_for_ioctl_command and   *)
(* send_messages of server/connection_thread.c, between clients that send  *)
(* one message each and the device, which is the CommandLog that AesdChar  *)
(* implements.  Descriptors, a failing open and the order of the clean-up  *)
(* are in AesdSocket; here a thread takes file_mutex and opens the device  *)
(* in one step, and closes and unlocks in one step.                        *)
(*                                                                         *)
(* Bytes are ASCII codes.  A message is a byte sequence and, if its sender *)
(* means it as a seek command, the position it asks for.                   *)
(***************************************************************************)
EXTENDS Integers, SequencesExt

CONSTANTS
    Conn,         \* connections
    Message,      \* what clients may send: records [text, seek]
    N,            \* commands the device keeps
    Stored,       \* logs the device may hold when the server starts
    BUFFER_SIZE,  \* bytes one recv or read takes at most
    NUM_SIZE,     \* bytes of first_num_str and second_num_str
    Behind,       \* bytes strchr may meet behind a full recv_buffer
    NULL

NL == 10
PLUS == 43
COMMA == 44
MINUS == 45
COLON == 58
Digit == 48..57
Space == 9..13 \cup {32}

(* A newline at the end and nowhere else.                                  *)
IsLine(s) == s # <<>> /\ \A i \in DOMAIN s : s[i] = NL <=> i = Len(s)

(* The number a sequence of digits stands for.                             *)
Decimal(digits) ==
    LET value[k \in 0..Len(digits)] ==
            IF k = 0 THEN 0 ELSE 10 * value[k - 1] + (digits[k] - 48)
    IN  value[Len(digits)]

(* A text that names the seek <<x, y>> the way AESDCHAR_IOCSEEKTO:x,y does *)
(* it: two numbers, the first between the first colon and a comma, the     *)
(* second between that and the newline at the end.                         *)
Names(text, seek) ==
    \E i, j \in DOMAIN text :
        /\ i < j /\ j < Len(text)
        /\ text[i] = COLON /\ text[j] = COMMA /\ text[Len(text)] = NL
        /\ \A k \in 1..(i - 1) : text[k] \notin {COLON, 0}
        /\ \A k \in (i + 1)..(j - 1) \cup (j + 1)..(Len(text) - 1) : text[k] \in Digit
        /\ seek = <<Decimal(SubSeq(text, i + 1, j - 1)),
                    Decimal(SubSeq(text, j + 1, Len(text) - 1))>>

(* The device keeps lines: only this server writes to it.  A byte behind   *)
(* recv_buffer is the lowest of a small output_fd, whose next one is 0.    *)
(* NUM_SIZE is 10 in the code: a number that fits such an array fits an    *)
(* int.                                                                    *)
ASSUME ConnectionAssumption ==
    /\ NULL \notin Conn
    /\ N \in Nat \ {0}
    /\ BUFFER_SIZE \in Nat \ {0}
    /\ NUM_SIZE \in 1..10
    /\ Message \subseteq [text : Seq(Nat), seek : (Nat \X Nat) \cup {NULL}]
    /\ \A m \in Message : m.seek # NULL => Names(m.text, m.seek)
    /\ \A l \in Stored : /\ l \in Seq(Seq(Nat)) /\ Len(l) <= N
                         /\ \A k \in DOMAIN l : IsLine(l[k])
    /\ \A b \in Behind : b \in Seq(Nat) /\ Len(b) <= 1

VARIABLES
    log, partial,  \* the device
    file_mutex,    \* its holder, or NULL
    quit,          \* a termination signal has arrived
    pc,            \* where each thread is
    conn           \* each connection, from its thread's start to its end

device == <<log, partial>>
vars == <<device, file_mutex, quit, pc, conn>>

Device == INSTANCE CommandLog WITH Payload <- {}

Connection ==
    [message     : Message \cup {NULL},  \* what the client sent
     received    : Nat,                 \* how many bytes of it recv has returned
     gone        : BOOLEAN,             \* the client has closed
     recv_buffer : Seq(Nat),            \* what the last recv returned
     f_pos       : Nat,                 \* the position of output_fd
     answer      : Seq(Nat)]            \* what the client was sent

NoConnection == [message |-> NULL, received |-> 0, gone |-> FALSE,
                 recv_buffer |-> <<>>, f_pos |-> 0, answer |-> <<>>]

(* The stream of the device, and where its k-th command ends.              *)
Stream == FlattenSeq(log)
EndOf(k) == Len(FlattenSeq(SubSeq(log, 1, k)))

(* What read returns at pos: the rest of one command, up to a bufferful.   *)
Read(pos) ==
    LET ends == {EndOf(k) : k \in DOMAIN log}
        next == {e \in ends : e > pos}
    IN  IF next = {} THEN <<>>
        ELSE SubSeq(Stream, pos + 1, Min({pos + BUFFER_SIZE, Min(next)}))

Init ==
    /\ log \in Stored
    /\ partial = <<>>
    /\ file_mutex = NULL
    /\ quit = FALSE
    /\ pc = [c \in Conn |-> "start"]
    /\ conn = [c \in Conn |-> NoConnection]
-----------------------------------------------------------------------------
(* check_for_ioctl_command.                                                *)

(* The first byte of that value behind position k.                         *)
IndexAfter(s, byte, k) == Min({i \in k + 1 .. Len(s) : s[i] = byte})

(* How far a run of such bytes goes that starts behind position k.         *)
RunOf(s, bytes, k) == Max({l \in k..Len(s) : \A i \in k + 1 .. l : s[i] \in bytes})

(* White space, a sign, and the digits that count.                         *)
Atoi(s) ==
    LET spaces == RunOf(s, Space, 0)
        signed == spaces < Len(s) /\ s[spaces + 1] \in {PLUS, MINUS}
        start  == IF signed THEN spaces + 1 ELSE spaces
        value  == Decimal(SubSeq(s, start + 1, RunOf(s, Digit, start)))
    IN  IF signed /\ s[start] = MINUS THEN -value ELSE value

(* A colon, behind it a comma, behind that a newline: all strchr asks for. *)
IsSeek(s) ==
    \E j \in DOMAIN s : /\ s[j] = COMMA
                         /\ \E i \in 1..(j - 1) : s[i] = COLON
                         /\ \E k \in j + 1 .. Len(s) : s[k] = NL

(* The two texts between these marks, which strncpy copies in full length  *)
(* into first_num_str and second_num_str.                                  *)
Fields(s) ==
    LET i == IndexAfter(s, COLON, 0)
        j == IndexAfter(s, COMMA, i)
        k == IndexAfter(s, NL, j)
    IN  <<SubSeq(s, i + 1, j - 1), SubSeq(s, j + 1, k - 1)>>

SeekTo(fields) == [write_cmd |-> Atoi(fields[1]), write_cmd_offset |-> Atoi(fields[2])]

(* A text that fills its array leaves no terminator, and atoi reads on     *)
(* into what lies behind: the numbers may be any.                          *)
Unterminated(fields) == \E i \in 1..2 : Len(fields[i]) >= NUM_SIZE

(* A longer one is also written behind the array, over other locals and    *)
(* the return address.                                                     *)
Overflows(fields) == \E i \in 1..2 : Len(fields[i]) > NUM_SIZE

(* The string strchr walks: up to a zero byte, which memset left behind    *)
(* the bytes received.  But a full recv_buffer has none, and the search    *)
(* goes on into what lies behind it.                                       *)
Scanned(buffer) ==
    IF 0 \in Range(buffer) THEN {SubSeq(buffer, 1, IndexAfter(buffer, 0, 0) - 1)}
    ELSE IF Len(buffer) < BUFFER_SIZE THEN {buffer}
    ELSE {buffer \o b : b \in Behind}

(* What was received is a seek command with these fields, or is not one.   *)
SeekFields(buffer) == {Fields(s) : s \in {t \in Scanned(buffer) : IsSeek(t)}}
NoSeek(buffer) == \E s \in Scanned(buffer) : ~IsSeek(s)
-----------------------------------------------------------------------------
(* connection_thread.                                                      *)

At(c, label) == pc[c] = label
Goto(c, label) == pc' = [pc EXCEPT ![c] = label]

Text(c) == conn[c].message.text

(* lock_mutex and open; the new file's position is 0.  The client sends    *)
(* one message.                                                            *)
Begin(c) ==
    /\ At(c, "start")
    /\ file_mutex = NULL
    /\ file_mutex' = c
    /\ \E m \in Message : conn' = [conn EXCEPT ![c].message = m]
    /\ Goto(c, "recv")
    /\ UNCHANGED <<device, quit>>

(* A mutant of Leave: the failure path forgets unlock_mutex.               *)
Leave_HoldsLock(c, label) ==
    /\ file_mutex' = IF label = "failed" THEN c ELSE NULL
    /\ conn' = [conn EXCEPT ![c] = NoConnection]
    /\ Goto(c, label)

(* Both descriptors are closed and file_mutex is unlocked.                 *)
Leave(c, label) ==
    /\ file_mutex' = NULL
    /\ conn' = [conn EXCEPT ![c] = NoConnection]
    /\ Goto(c, label)

(* A mutant of Recv: one byte more than the buffer has.                    *)
Recv_Overfull(c) ==
    /\ At(c, "recv")
    /\ ~conn[c].gone
    /\ LET done == conn[c].received
       IN  \E n \in 1 .. Min({Len(Text(c)) - done, BUFFER_SIZE + 1}) :
              conn' = [conn EXCEPT ![c].received = done + n,
                                   ![c].recv_buffer = SubSeq(Text(c), done + 1, done + n)]
    /\ Goto(c, "store")
    /\ UNCHANGED <<device, file_mutex, quit>>

(* The network has delivered some non-empty part of what is left of the    *)
(* message by now; recv returns it, up to a bufferful.                     *)
Recv(c) ==
    /\ At(c, "recv")
    /\ ~conn[c].gone
    /\ LET done == conn[c].received
       IN  \E n \in 1 .. Min({Len(Text(c)) - done, BUFFER_SIZE}) :
              conn' = [conn EXCEPT ![c].received = done + n,
                                   ![c].recv_buffer = SubSeq(Text(c), done + 1, done + n)]
    /\ Goto(c, "store")
    /\ UNCHANGED <<device, file_mutex, quit>>

(* A mutant of RecvClosed: a result of 0 is taken for data.                *)
RecvClosed_Unchecked(c) ==
    /\ At(c, "recv")
    /\ conn[c].gone
    /\ conn' = [conn EXCEPT ![c].recv_buffer = <<>>]
    /\ Goto(c, "store")
    /\ UNCHANGED <<device, file_mutex, quit>>

(* recv returns 0.                                                         *)
RecvClosed(c) ==
    /\ At(c, "recv")
    /\ conn[c].gone
    /\ Leave(c, "failed")
    /\ UNCHANGED <<device, quit>>

(* Mutants of FirstLine: index for index + 1; received_size for index + 1. *)
FirstLine_DropsNewline(s) ==
    IF \E i \in DOMAIN s : s[i] = NL THEN SubSeq(s, 1, IndexAfter(s, NL, 0) - 1) ELSE s

FirstLine_All(s) == s

(* The bytes that are written: those up to the first newline, or all.      *)
FirstLine(s) ==
    IF \E i \in DOMAIN s : s[i] = NL THEN SubSeq(s, 1, IndexAfter(s, NL, 0)) ELSE s

(* A full buffer makes recv_messages wait for more.                        *)
AfterStore(c) == IF Len(conn[c].recv_buffer) >= BUFFER_SIZE THEN "recv" ELSE "send"

(* What was received goes to the device by write ...                       *)
Store(c) ==
    /\ At(c, "store")
    /\ NoSeek(conn[c].recv_buffer)
    /\ Device!Write(FirstLine(conn[c].recv_buffer))
    /\ Goto(c, AfterStore(c))
    /\ UNCHANGED <<file_mutex, quit, conn>>

(* ... or, if it looks like a seek command, sets the position by ioctl, if *)
(* the device has the k-th command and that has an o-th byte.              *)
Seek(c) ==
    /\ At(c, "store")
    /\ \E f \in SeekFields(conn[c].recv_buffer), k \in DOMAIN log : \E o \in 1..Len(log[k]) :
          /\ \/ Unterminated(f)
             \/ SeekTo(f) = [write_cmd |-> k - 1, write_cmd_offset |-> o - 1]
          /\ conn' = [conn EXCEPT ![c].f_pos = EndOf(k - 1) + o - 1]
    /\ Goto(c, AfterStore(c))
    /\ UNCHANGED <<device, file_mutex, quit>>

(* The seek is accepted.  The fields are unsigned: a negative number is a  *)
(* huge one.                                                               *)
InLog(seek) ==
    /\ seek.write_cmd \in 0..(Len(log) - 1)
    /\ seek.write_cmd_offset \in 0..(Len(log[seek.write_cmd + 1]) - 1)

(* The device refuses the seek, or a write fails for want of memory.       *)
StoreFails(c) ==
    /\ At(c, "store")
    /\ \/ NoSeek(conn[c].recv_buffer)
       \/ \E f \in SeekFields(conn[c].recv_buffer) : Unterminated(f) \/ ~InLog(SeekTo(f))
    /\ Leave(c, "failed")
    /\ UNCHANGED <<device, quit>>

(* check_for_ioctl_command has overwritten its frame, and the process dies *)
(* with the threads that wait for file_mutex.                              *)
Overrun(c) ==
    /\ At(c, "store")
    /\ \E f \in SeekFields(conn[c].recv_buffer) : Overflows(f)
    /\ pc' = [d \in Conn |-> IF d = c THEN "overrun"
                             ELSE IF At(d, "start") THEN "killed" ELSE pc[d]]
    /\ file_mutex' = NULL
    /\ UNCHANGED <<device, quit, conn>>

(* read, and send of what it returned; sent_bytes is only compared with 0. *)
Transfer(c, data, sent) ==
    conn' = [conn EXCEPT ![c].f_pos = @ + Len(data),
                         ![c].answer = @ \o SubSeq(data, 1, sent)]

(* A mutant of Ends: one loop instead of two, left on a short read.        *)
Ends_Short(data) == Len(data) < BUFFER_SIZE

(* Both loops of send_messages: a short read ends the inner one, and only  *)
(* a read of nothing the outer one.                                        *)
Ends(data) == data = <<>>

Send(c) ==
    /\ At(c, "send")
    /\ LET data == Read(conn[c].f_pos)
       IN  \/ ~Ends(data) /\ Transfer(c, data, Len(data)) /\ UNCHANGED <<file_mutex, pc>>
           \/ Ends(data) /\ Leave(c, "done")
    /\ UNCHANGED <<device, quit>>

(* read or send fails.                                                     *)
SendFails(c) ==
    /\ At(c, "send")
    /\ Leave(c, "failed")
    /\ UNCHANGED <<device, quit>>

Thread(c) ==
    \/ Begin(c) \/ Recv(c) \/ RecvClosed(c)
    \/ Store(c) \/ Seek(c) \/ StoreFails(c) \/ Overrun(c)
    \/ SendFails(c) \/ Send(c)
-----------------------------------------------------------------------------
(* Signals and clients.                                                    *)

(* A signal, whose handler is installed without SA_RESTART, reaches the    *)
(* thread in recv, which fails,                                            *)
RecvInterrupted(c) ==
    /\ At(c, "recv")
    /\ quit' = TRUE
    /\ Leave(c, "failed")
    /\ UNCHANGED device

(* or in send, which has sent a part: the rest of the data is never sent.  *)
SendInterrupted(c) ==
    /\ At(c, "send")
    /\ quit' = TRUE
    /\ LET data == Read(conn[c].f_pos)
       IN  \E sent \in 1 .. Len(data) - 1 : Transfer(c, data, sent)
    /\ UNCHANGED <<device, file_mutex, pc>>

(* A client closes before it has sent the rest of its message, or while it *)
(* waits for the answer.  (One that closes while it is being answered is   *)
(* AesdSocket's SendKills.)                                                *)
ClientCloses(c) ==
    /\ At(c, "recv")
    /\ conn' = [conn EXCEPT ![c].gone = TRUE]
    /\ UNCHANGED <<device, file_mutex, quit, pc>>

Next == \E c \in Conn : \/ Thread(c) \/ RecvInterrupted(c) \/ SendInterrupted(c)
                        \/ ClientCloses(c)

Spec == Init /\ [][Next]_vars

(* Every thread that can run does; signals and clients need not act.       *)
FairSpec == Spec /\ \A c \in Conn : WF_vars(Thread(c))
-----------------------------------------------------------------------------
(* Properties.                                                             *)

(* The types of the state; what recv returned fits the buffer.             *)
TypeOK ==
    /\ log \in Seq(Seq(Nat)) /\ partial \in Seq(Nat)
    /\ file_mutex \in Conn \cup {NULL}
    /\ quit \in BOOLEAN
    /\ pc \in [Conn -> {"start", "recv", "store", "send", "done", "failed",
                         "overrun", "killed"}]
    /\ conn \in [Conn -> Connection]
    /\ \A c \in Conn : Len(conn[c].recv_buffer) <= BUFFER_SIZE

(* A write of no bytes kills the caller of the driver with device_mutex    *)
(* held.  However messages are split, the server never makes one.          *)
NeverWritesNothing ==
    \A c \in Conn : At(c, "store") => FirstLine(conn[c].recv_buffer) # <<>>

(* The driver looks for a newline only at the end of a write.  Because the *)
(* server cuts every piece at its first newline, each logged command is    *)
(* one line, however messages are split, joined or cut off.                *)
CommandsAreLines == \A k \in DOMAIN log : IsLine(log[k])

(* The step that ends an answer.  Its last send was of no bytes.           *)
Answered(c) == At(c, "send") /\ pc'[c] = "done" /\ ~quit

Plain(c) == conn[c].message.seek = NULL /\ COLON \notin Range(Text(c))

(* A finished answer to a line ends with it ...                            *)
EchoesLine(c) ==
    Answered(c) /\ Plain(c) /\ IsLine(Text(c)) /\ conn[c].received = Len(Text(c)) =>
        IsSuffix(Text(c), conn[c].answer)

(* A client that sent one line, short or longer than the buffer, and whose *)
(* line was received, finds it whole at the end of its answer: no other    *)
(* client's bytes got in between its pieces, or between it and the answer. *)
EchoesOwnLine == [][\A c \in Conn : EchoesLine(c)]_vars

(* Where the sender of a seek command wants its answer to begin.           *)
From(c) == EndOf(conn[c].message.seek[1]) + conn[c].message.seek[2]

(* ... and is the log, to its end.                                         *)
AnswersRest(c) ==
    Answered(c) =>
        /\ Plain(c) => conn[c].answer = Stream
        /\ /\ conn[c].message.seek # NULL /\ ~Unterminated(Fields(Text(c)))
           /\ conn[c].recv_buffer = Text(c)
           => conn[c].answer = SubSeq(Stream, From(c) + 1, Len(Stream))

(* The answer is the whole log, or, after a seek command that arrived in   *)
(* one piece, the log from the byte its sender asked for to the end.  The  *)
(* numbers of a seek command must have fewer than NUM_SIZE digits: longer  *)
(* ones leave first_num_str or second_num_str without a terminator.        *)
AnswerIsRestOfLog == [][\A c \in Conn : AnswersRest(c)]_vars

(* A colon and a comma with more than NUM_SIZE bytes between them or       *)
(* behind.                                                                 *)
LongField(text) ==
    \E i, j \in DOMAIN text :
        /\ i < j /\ text[i] = COLON /\ text[j] = COMMA
        /\ j - i - 1 > NUM_SIZE \/ Len(text) - j > NUM_SIZE

(* A client that has sent its message is answered, or its connection is    *)
(* closed, unless the process has died in check_for_ioctl_command, and     *)
(* then of a text that overflows one of its two arrays.                    *)
EveryClientAnswered ==
    \A c \in Conn : pc[c] = "start" ~>
        \/ pc[c] \in {"done", "failed"}
        \/ \E d \in Conn : pc[d] = "overrun" /\ LongField(Text(d))
=============================================================================
