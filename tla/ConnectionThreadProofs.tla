----------------------- MODULE ConnectionThreadProofs -----------------------
(***************************************************************************)
(* Proofs about ConnectionThread, for any number of clients, any messages, *)
(* any size of recv_buffer and any capacity of the device.                 *)
(***************************************************************************)
EXTENDS ConnectionThread, StreamLemmas

(* The least and the greatest element.                                     *)
LEMMA MinOf ==
    ASSUME NEW T \in SUBSET Nat, T # {}
    PROVE  Min(T) \in T /\ \A y \in T : Min(T) <= y
BY LeastNumber DEF Min

LEMMA MaxOf ==
    ASSUME NEW n \in Nat, NEW T \in SUBSET (0..n), T # {}
    PROVE  Max(T) \in T /\ \A y \in T : Max(T) >= y
<1> DEFINE U == {n - y : y \in T}
<1>1. U \in SUBSET Nat /\ U # {}
  <2>1. \A y \in T : n - y \in Nat
    OBVIOUS
  <2>2. PICK y : y \in T
    OBVIOUS
  <2>3. n - y \in U
    BY <2>2
  <2> QED
    BY <2>1, <2>3
<1>2. \E x \in U : \A y \in U : x <= y
  <2> HIDE DEF U
  <2> QED
    BY <1>1, LeastNumber
<1>3. PICK x \in T : \A y \in T : n - x <= n - y
  BY <1>2
<1>4. \A y \in T : x >= y
  BY <1>3
<1> QED
  BY <1>4 DEF Max

-----------------------------------------------------------------------------
(* Where a run of bytes ends that starts behind k.                         *)
LEMMA RunOfFacts ==
    ASSUME NEW s \in Seq(Nat), NEW bytes
    PROVE  LET m == RunOf(s, bytes, 0)
           IN  /\ m \in 0..Len(s) /\ \A i \in 1..m : s[i] \in bytes
               /\ (\A i \in 1..Len(s) : s[i] \in bytes) => m = Len(s)
<1> DEFINE T == {l \in 0..Len(s) : \A i \in 0 + 1 .. l : s[i] \in bytes}
           m == Max(T)
<1>0. Len(s) \in Nat /\ 0 + 1 = 1
  BY LenProperties
<1>1. m \in T /\ \A y \in T : m >= y
  <2>1. 0 \in T
    BY <1>0
  <2>2. T \in SUBSET (0..Len(s)) /\ T # {}
    BY <2>1
  <2> HIDE DEF T
  <2> QED
    BY <1>0, <2>2, MaxOf
<1>2. m = RunOf(s, bytes, 0)
  BY DEF RunOf
<1> HIDE DEF m
<1>3. m \in 0..Len(s) /\ \A i \in 1..m : s[i] \in bytes
  BY <1>0, <1>1
<1>4. ASSUME \A i \in 1..Len(s) : s[i] \in bytes PROVE m = Len(s)
  <2>1. Len(s) \in T
    BY <1>0, <1>4
  <2> QED
    BY <1>0, <1>1, <1>3, <2>1
<1> QED
  BY <1>2, <1>3, <1>4

(* atoi of a text of digits is the number it stands for.                   *)
LEMMA AtoiFacts ==
    ASSUME NEW s \in Seq(Nat), \A i \in 1..Len(s) : s[i] \in Digit
    PROVE  Atoi(s) = Decimal(s)
<1> DEFINE spaces == RunOf(s, Space, 0)
           signed == spaces < Len(s) /\ s[spaces + 1] \in {PLUS, MINUS}
           start == IF signed THEN spaces + 1 ELSE spaces
<1>0. Len(s) \in Nat
  BY LenProperties
<1>1. \A b \in Digit : b \notin Space /\ b \notin {PLUS, MINUS}
  BY DEF Digit, Space, PLUS, MINUS
<1>2. spaces = 0
  <2>1. spaces \in 0..Len(s) /\ \A i \in 1..spaces : s[i] \in Space
    BY RunOfFacts
  <2> HIDE DEF spaces
  <2>2. spaces # 0 => 1 \in 1..spaces /\ 1 \in 1..Len(s)
    BY <1>0, <2>1
  <2> QED
    BY <1>1, <2>1, <2>2
<1>3. ~signed
  <2> HIDE DEF spaces
  <2>1. 0 < Len(s) => 1 \in 1..Len(s) /\ 0 + 1 = 1
    BY <1>0
  <2> QED
    BY <1>1, <1>2, <2>1
<1>4. start = 0
  BY <1>2, <1>3
<1>5. RunOf(s, Digit, 0) = Len(s)
  BY RunOfFacts
<1>6. SubSeq(s, 0 + 1, Len(s)) = s
  BY SubSeqFull
<1>7. Atoi(s) = IF signed /\ s[start] = MINUS THEN -Decimal(SubSeq(s, start + 1, RunOf(s, Digit, start)))
                ELSE Decimal(SubSeq(s, start + 1, RunOf(s, Digit, start)))
  BY DEF Atoi
<1> HIDE DEF start, signed
<1> QED
  BY <1>3, <1>4, <1>5, <1>6, <1>7
-----------------------------------------------------------------------------
(* The pieces that are written, and the device they go to.                 *)
NewlineLast(s) == \A i \in 1..Len(s) : s[i] = NL => i = Len(s)
NoNewline(s) == \A i \in 1..Len(s) : s[i] # NL

LEMMA FirstLineFacts ==
    ASSUME NEW s \in Seq(Nat), s # <<>>
    PROVE  /\ FirstLine(s) \in Seq(Nat) /\ FirstLine(s) # <<>>
           /\ NewlineLast(FirstLine(s))
           /\ NewlineLast(s) => FirstLine(s) = s
<1>0. Len(s) \in Nat /\ Len(s) # 0 /\ DOMAIN s = 1..Len(s)
  BY LenProperties, EmptySeq
<1>1. CASE NoNewline(s)
  <2>1. FirstLine(s) = s
    BY <1>0, <1>1 DEF FirstLine, NoNewline
  <2> QED
    BY <1>1, <2>1 DEF NoNewline, NewlineLast
<1>2. CASE ~NoNewline(s)
  <2> DEFINE T == {i \in 0 + 1 .. Len(s) : s[i] = NL}
             m == Min(T)
  <2>1. T \in SUBSET Nat /\ T # {}
    BY <1>0, <1>2 DEF NoNewline
  <2>2. m \in T /\ \A y \in T : m <= y
    <3> HIDE DEF T
    <3> QED
      BY <2>1, MinOf
  <2>3. FirstLine(s) = First(s, m)
    BY <1>0, <1>2 DEF FirstLine, IndexAfter, First, NoNewline
  <2> HIDE DEF m
  <2>4. m \in 0..Len(s) /\ m \in 1..Len(s) /\ s[m] = NL
    BY <2>2
  <2>5. First(s, m) \in Seq(Nat) /\ Len(First(s, m)) = m /\ \A i \in 1..m : First(s, m)[i] = s[i]
    BY <2>4, FirstFacts
  <2>6. NewlineLast(First(s, m))
    <3>1. ASSUME NEW i \in 1..m, s[i] = NL PROVE i = m
      <4>1. i \in T
        BY <1>0, <2>4, <3>1
      <4> QED
        BY <2>2, <2>4, <4>1
    <3> QED
      BY <2>5, <3>1 DEF NewlineLast
  <2>7. First(s, m) # <<>>
    BY <2>4, <2>5, EmptySeq
  <2>8. ASSUME NewlineLast(s) PROVE First(s, m) = s
    <3>1. m = Len(s)
      BY <2>4, <2>8 DEF NewlineLast
    <3> QED
      BY <3>1, SubSeqFull DEF First
  <2> QED
    BY <2>3, <2>5, <2>6, <2>7, <2>8
<1> QED
  BY <1>1, <1>2

(* What the device is like: at most N commands, each a line, and a command *)
(* in the making that has no newline.                                      *)
DeviceInv ==
    /\ log \in Seq(Seq(Nat)) /\ Len(log) <= N
    /\ partial \in Seq(Nat) /\ NoNewline(partial)
    /\ CommandsAreLines

(* Two pieces with the newline at the end, if anywhere.                    *)
LEMMA JoinedLine ==
    ASSUME NEW a \in Seq(Nat), NEW b \in Seq(Nat), NoNewline(a), NewlineLast(b), b # <<>>
    PROVE  /\ a \o b \in Seq(Nat) /\ a \o b # <<>>
           /\ (a \o b)[Len(a \o b)] = b[Len(b)]
           /\ b[Len(b)] = NL => IsLine(a \o b)
           /\ b[Len(b)] # NL => NoNewline(a \o b)
<1> DEFINE c == a \o b
<1>1. /\ c \in Seq(Nat) /\ Len(c) = Len(a) + Len(b)
      /\ \A i \in 1..(Len(a) + Len(b)) : c[i] = IF i <= Len(a) THEN a[i] ELSE b[i - Len(a)]
      /\ Len(a) \in Nat /\ Len(b) \in Nat /\ Len(b) # 0
  BY ConcatProperties, LenProperties, EmptySeq
<1> HIDE DEF c
<1>2. c # <<>> /\ DOMAIN c = 1..Len(c)
  BY <1>1, EmptySeq, LenProperties
<1>3. Len(a) + Len(b) \in 1..(Len(a) + Len(b)) /\ ~(Len(a) + Len(b) <= Len(a)) /\ Len(a) + Len(b) - Len(a) = Len(b)
  BY <1>1
<1>4. c[Len(c)] = b[Len(b)]
  BY <1>1, <1>3
<1>5. ASSUME NEW i \in 1..Len(c), c[i] = NL PROVE i = Len(c)
  <2>1. CASE i <= Len(a)
    <3>1. c[i] = a[i] /\ i \in 1..Len(a)
      BY <1>1, <2>1
    <3> QED
      BY <1>5, <3>1 DEF NoNewline
  <2>2. CASE ~(i <= Len(a))
    <3>1. c[i] = b[i - Len(a)] /\ i - Len(a) \in 1..Len(b)
      BY <1>1, <2>2
    <3>2. i - Len(a) = Len(b)
      BY <1>5, <3>1 DEF NewlineLast
    <3> QED
      BY <1>1, <3>2
  <2> QED
    BY <2>1, <2>2
<1>6. b[Len(b)] = NL => IsLine(c)
  BY <1>2, <1>4, <1>5 DEF IsLine
<1>7. b[Len(b)] # NL => NoNewline(c)
  BY <1>4, <1>5 DEF NoNewline
<1> QED
  BY <1>1, <1>2, <1>4, <1>6, <1>7 DEF c

(* A write of one piece: it completes the command, which is then logged    *)
(* last, or it does not.                                                   *)
LEMMA WriteOfPiece ==
    ASSUME DeviceInv, NEW data \in Seq(Nat), NewlineLast(data), data # <<>>, Device!Write(data)
    PROVE  /\ DeviceInv'
           /\ data[Len(data)] = NL =>
                 \E kept \in Seq(Seq(Nat)) : log' = Append(kept, partial \o data)
           /\ data[Len(data)] # NL => partial' = partial \o data /\ log' = log
<1> DEFINE cmd == partial \o data
<1> USE ConnectionAssumption
<1>0. log \in Seq(Seq(Nat)) /\ Len(log) <= N /\ Len(log) \in Nat /\ partial \in Seq(Nat) /\ NoNewline(partial)
  BY LenProperties DEF DeviceInv
<1>1. /\ cmd \in Seq(Nat) /\ cmd # <<>>
      /\ cmd[Len(cmd)] = data[Len(data)]
      /\ data[Len(data)] = NL => IsLine(cmd)
      /\ data[Len(data)] # NL => NoNewline(cmd)
  BY <1>0, JoinedLine
<1>2. \/ data[Len(data)] = NL /\ log' = Device!Logged(cmd) /\ partial' = <<>>
      \/ data[Len(data)] # NL /\ partial' = cmd /\ log' = log
  BY <1>1 DEF Device!Write, Device!Complete
<1> HIDE DEF cmd
<1>3. CASE data[Len(data)] # NL /\ partial' = cmd /\ log' = log
  BY <1>0, <1>1, <1>3 DEF DeviceInv, CommandsAreLines, NoNewline, cmd
<1>4. CASE data[Len(data)] = NL /\ log' = Device!Logged(cmd) /\ partial' = <<>>
  <2>1. \A i \in 1..Len(log) : IsLine(log[i])
    BY <1>0, LenProperties DEF DeviceInv, CommandsAreLines
  <2>2. PICK kept \in Seq(Seq(Nat)) : /\ log' = Append(kept, cmd) /\ Len(kept) + 1 <= N
                                      /\ \A i \in 1..Len(kept) : IsLine(kept[i])
    <3>1. CASE Len(log) = N
      <4>1. log # <<>>
        BY <1>0, <3>1, EmptySeq
      <4>2. Tail(log) \in Seq(Seq(Nat)) /\ Len(Tail(log)) = Len(log) - 1
            /\ \A i \in 1..Len(Tail(log)) : Tail(log)[i] = log[i + 1]
        BY <1>0, <4>1, HeadTailProperties
      <4>3. \A i \in 1..Len(Tail(log)) : i + 1 \in 1..Len(log)
        BY <1>0, <4>2
      <4>4. \A i \in 1..Len(Tail(log)) : IsLine(Tail(log)[i])
        BY <2>1, <4>2, <4>3
      <4>5. Len(Tail(log)) + 1 <= N
        BY <1>0, <3>1, <4>2
      <4> QED
        BY <1>4, <3>1, <4>2, <4>4, <4>5 DEF Device!Logged
    <3>2. CASE Len(log) # N
      <4>1. Len(log) + 1 <= N
        BY <1>0, <3>2
      <4>2. log' = Append(log, cmd)
        BY <1>4, <3>2 DEF Device!Logged
      <4> QED
        BY <1>0, <2>1, <4>1, <4>2
    <3> QED
      BY <3>1, <3>2
  <2>3. /\ log' \in Seq(Seq(Nat)) /\ Len(log') = Len(kept) + 1 /\ Len(kept) \in Nat
        /\ \A i \in 1..Len(kept) : log'[i] = kept[i]
        /\ log'[Len(kept) + 1] = cmd
    BY <1>1, <2>2, AppendProperties, LenProperties
  <2>4. \A i \in 1..Len(log') : i = Len(kept) + 1 \/ i \in 1..Len(kept)
    BY <2>3
  <2>5. CommandsAreLines'
    <3>1. DOMAIN log' = 1..Len(log')
      BY <2>3, LenProperties
    <3>2. ASSUME NEW i \in 1..Len(log') PROVE IsLine(log'[i])
      <4>1. CASE i = Len(kept) + 1
        BY <1>1, <1>4, <2>3, <4>1
      <4>2. CASE i \in 1..Len(kept)
        BY <2>2, <2>3, <4>2
      <4> QED
        BY <2>4, <4>1, <4>2
    <3> QED
      BY <3>1, <3>2 DEF CommandsAreLines
  <2>6. partial' \in Seq(Nat) /\ NoNewline(partial)'
    BY <1>4, EmptySeq DEF NoNewline
  <2> QED
    BY <1>4, <2>2, <2>3, <2>5, <2>6 DEF DeviceInv, cmd
<1> QED
  BY <1>2, <1>3, <1>4
-----------------------------------------------------------------------------
(* The invariant.  Active threads are those between lock and unlock.       *)
Labels == {"start", "recv", "store", "send", "done", "failed", "overrun", "killed"}
Active == {"recv", "store", "send"}

(* A connection r, at label l: recv_buffer is what was received last of    *)
(* the message, and is not empty when it is stored.                        *)
Receiving(r, l) ==
    /\ r.message \in Message
    /\ r.received <= Len(r.message.text)
    /\ l # "send" => r.answer = <<>>
    /\ l = "store" => /\ r.recv_buffer # <<>>
                      /\ Len(r.recv_buffer) <= r.received
                      /\ r.recv_buffer = SubSeq(r.message.text,
                                                r.received - Len(r.recv_buffer) + 1, r.received)

Inv ==
    /\ TypeOK
    /\ DeviceInv
    /\ \A c \in Conn : IF pc[c] \in Active THEN file_mutex = c /\ Receiving(conn[c], pc[c])
                       ELSE pc[c] = "overrun" \/ conn[c] = NoConnection

(* While one thread is active, no other is: a step of c leaves the others  *)
(* where they were, and they are not active.                               *)
LEMMA Alone ==
    ASSUME Inv, NEW c \in Conn, pc[c] \in Active \/ file_mutex = NULL,
           NEW d \in Conn, d # c
    PROVE  pc[d] \notin Active /\ (pc[d] = "overrun" \/ conn[d] = NoConnection)
BY ConnectionAssumption DEF Inv

LEMMA StepOf ==
    ASSUME Inv, NEW c \in Conn, pc[c] \in Active \/ file_mutex = NULL,
           NEW r \in Connection, NEW l \in Labels,
           conn' = [conn EXCEPT ![c] = r], pc' = [pc EXCEPT ![c] = l],
           DeviceInv', quit' \in BOOLEAN, file_mutex' \in {c, NULL},
           Len(r.recv_buffer) <= BUFFER_SIZE,
           IF l \in Active THEN file_mutex' = c /\ Receiving(r, l) ELSE r = NoConnection
    PROVE  Inv'
<1>1. pc \in [Conn -> Labels] /\ conn \in [Conn -> Connection]
  BY DEF Inv, TypeOK, Labels
<1>2. /\ pc' \in [Conn -> Labels] /\ conn' \in [Conn -> Connection]
      /\ pc'[c] = l /\ conn'[c] = r
      /\ \A d \in Conn : d # c => pc'[d] = pc[d] /\ conn'[d] = conn[d]
  BY <1>1
<1>3. ASSUME NEW d \in Conn, d # c PROVE pc'[d] \notin Active /\ (pc'[d] = "overrun" \/ conn'[d] = NoConnection)
  BY <1>2, <1>3, Alone
<1>4. \A d \in Conn : IF pc'[d] \in Active THEN file_mutex' = d /\ Receiving(conn'[d], pc'[d])
                      ELSE pc'[d] = "overrun" \/ conn'[d] = NoConnection
  BY <1>2, <1>3
<1>5. \A d \in Conn : Len(conn'[d].recv_buffer) <= BUFFER_SIZE
  BY <1>2 DEF Inv, TypeOK
<1>6. TypeOK'
  BY <1>2, <1>5 DEF TypeOK, DeviceInv, Labels
<1> QED
  BY <1>4, <1>6 DEF Inv

LEMMA InitInv == Init => Inv
<1> SUFFICES ASSUME Init PROVE Inv
  OBVIOUS
<1> USE ConnectionAssumption
<1>1. NoConnection \in Connection /\ Len(NoConnection.recv_buffer) = 0
  BY EmptySeq DEF NoConnection, Connection
<1>2. DeviceInv
  <2>1. log \in Seq(Seq(Nat)) /\ Len(log) <= N /\ CommandsAreLines
    BY DEF Init, CommandsAreLines
  <2>2. partial \in Seq(Nat) /\ NoNewline(partial)
    BY EmptySeq DEF Init, NoNewline
  <2> QED
    BY <2>1, <2>2 DEF DeviceInv
<1>3. \A c \in Conn : pc[c] = "start" /\ conn[c] = NoConnection
  BY DEF Init
<1>4. TypeOK
  <2>1. pc \in [Conn -> Labels] /\ conn \in [Conn -> Connection]
    BY <1>1 DEF Init, Labels
  <2>2. \A c \in Conn : Len(conn[c].recv_buffer) <= BUFFER_SIZE
    BY <1>1, <1>3
  <2>3. file_mutex \in Conn \cup {NULL} /\ quit \in BOOLEAN
    BY DEF Init
  <2> QED
    BY <1>2, <2>1, <2>2, <2>3 DEF TypeOK, DeviceInv, Labels
<1> QED
  BY <1>2, <1>3, <1>4 DEF Inv, Active

(* What each field of a connection is, and what an update of it gives.     *)
LEMMA ConnectionOf ==
    ASSUME Inv, NEW c \in Conn
    PROVE  /\ conn[c] \in Connection
           /\ conn[c].received \in Nat /\ conn[c].recv_buffer \in Seq(Nat)
           /\ conn[c].f_pos \in Nat /\ conn[c].answer \in Seq(Nat)
           /\ Len(conn[c].recv_buffer) <= BUFFER_SIZE
BY DEF Inv, TypeOK, Connection

(* Everyone who leaves gives up the mutex and the connection.              *)
LEMMA LeaveInv ==
    ASSUME Inv, NEW c \in Conn, pc[c] \in Active, NEW l \in {"done", "failed"},
           Leave(c, l), UNCHANGED device, quit' \in BOOLEAN
    PROVE  Inv'
<1>1. NoConnection \in Connection /\ Len(NoConnection.recv_buffer) = 0
  BY EmptySeq DEF NoConnection, Connection
<1>2. DeviceInv'
  BY DEF device, DeviceInv, CommandsAreLines, NoNewline, Inv
<1>3. 0 <= BUFFER_SIZE
  BY ConnectionAssumption
<1>4. Len(NoConnection.recv_buffer) <= BUFFER_SIZE
  BY <1>1, <1>3
<1>5. l \in Labels /\ l \notin Active
  BY DEF Labels, Active
<1>6. conn' = [conn EXCEPT ![c] = NoConnection] /\ pc' = [pc EXCEPT ![c] = l] /\ file_mutex' \in {c, NULL}
  BY DEF Leave, Goto
<1> QED
  BY <1>1, <1>2, <1>4, <1>5, <1>6, StepOf

LEMMA DeviceKept == ASSUME DeviceInv, UNCHANGED device PROVE DeviceInv'
BY DEF device, DeviceInv, CommandsAreLines, NoNewline

(* A connection begins with a message and nothing received.                *)
LEMMA BeginStep ==
    ASSUME Inv, NEW c \in Conn, Begin(c)
    PROVE  \E r \in Connection :
              /\ conn' = [conn EXCEPT ![c] = r]
              /\ r.message \in Message /\ r.received = 0 /\ r.recv_buffer = <<>>
              /\ r.f_pos = 0 /\ r.answer = <<>>
<1>1. PICK m \in Message : conn' = [conn EXCEPT ![c].message = m]
  BY DEF Begin
<1> DEFINE r == [NoConnection EXCEPT !.message = m]
<1>2. conn[c] = NoConnection
  BY DEF Begin, At, Inv, Active
<1>3. conn' = [conn EXCEPT ![c] = r]
  BY <1>1, <1>2
<1>4. /\ r.message = m /\ r.received = 0 /\ r.gone = FALSE /\ r.recv_buffer = <<>> /\ r.f_pos = 0
      /\ r.answer = <<>> /\ r \in Connection
  BY EmptySeq DEF NoConnection, Connection
<1> HIDE DEF r
<1> QED
  BY <1>3, <1>4

LEMMA BeginInv == ASSUME Inv, NEW c \in Conn, Begin(c) PROVE Inv'
<1>1. PICK r \in Connection :
              /\ conn' = [conn EXCEPT ![c] = r]
              /\ r.message \in Message /\ r.received = 0 /\ r.recv_buffer = <<>>
              /\ r.f_pos = 0 /\ r.answer = <<>>
  BY BeginStep
<1>2. pc[c] = "start" /\ file_mutex = NULL
  BY DEF Begin, At
<1>3. Len(r.recv_buffer) <= BUFFER_SIZE /\ 0 <= Len(r.message.text)
  <2>1. Len(r.recv_buffer) = 0 /\ r.message.text \in Seq(Nat)
    BY <1>1, EmptySeq, ConnectionAssumption
  <2> QED
    BY <2>1, ConnectionAssumption, LenProperties
<1>4. Receiving(r, "recv")
  BY <1>1, <1>3 DEF Receiving
<1>5. DeviceInv' /\ quit' \in BOOLEAN
  BY DeviceKept DEF Begin, Inv, TypeOK
<1>6. file_mutex' = c /\ pc' = [pc EXCEPT ![c] = "recv"] /\ "recv" \in Labels /\ "recv" \in Active
  BY DEF Begin, Goto, Labels, Active
<1> QED
  BY <1>1, <1>2, <1>3, <1>4, <1>5, <1>6, StepOf

(* A connection after a recv, a transfer, a seek and the client's close.   *)
Received(q, a, b) == [q EXCEPT !.received = a, !.recv_buffer = b]
Transferred(q, a, b) == [q EXCEPT !.f_pos = a, !.answer = b]
Sought(q, a) == [q EXCEPT !.f_pos = a]
Closed(q) == [q EXCEPT !.gone = TRUE]

LEMMA ReceivedFields ==
    ASSUME NEW q \in Connection, NEW a \in Nat, NEW b \in Seq(Nat)
    PROVE  LET r == Received(q, a, b)
           IN  /\ r \in Connection
               /\ r.message = q.message /\ r.received = a /\ r.gone = q.gone /\ r.recv_buffer = b
               /\ r.f_pos = q.f_pos /\ r.answer = q.answer
BY Zenon DEF Connection, Received

LEMMA TransferredFields ==
    ASSUME NEW q \in Connection, NEW a \in Nat, NEW b \in Seq(Nat)
    PROVE  LET r == Transferred(q, a, b)
           IN  /\ r \in Connection
               /\ r.message = q.message /\ r.received = q.received /\ r.gone = q.gone
               /\ r.recv_buffer = q.recv_buffer /\ r.f_pos = a /\ r.answer = b
BY Zenon DEF Connection, Transferred

LEMMA SoughtFields ==
    ASSUME NEW q \in Connection, NEW a \in Nat
    PROVE  LET r == Sought(q, a)
           IN  /\ r \in Connection
               /\ r.message = q.message /\ r.received = q.received /\ r.gone = q.gone
               /\ r.recv_buffer = q.recv_buffer /\ r.f_pos = a /\ r.answer = q.answer
BY Zenon DEF Connection, Sought

LEMMA ClosedFields ==
    ASSUME NEW q \in Connection
    PROVE  LET r == Closed(q)
           IN  /\ r \in Connection
               /\ r.message = q.message /\ r.received = q.received /\ r.gone = TRUE
               /\ r.recv_buffer = q.recv_buffer /\ r.f_pos = q.f_pos /\ r.answer = q.answer
BY Zenon DEF Connection, Closed

(* recv appends a piece: the next n bytes of the message, at most a        *)
(* bufferful.                                                              *)
LEMMA RecvStep ==
    ASSUME Inv, NEW c \in Conn, Recv(c)
    PROVE  \E n \in Nat, r \in Connection :
              /\ n > 0 /\ n <= BUFFER_SIZE /\ conn[c].received + n <= Len(Text(c))
              /\ conn' = [conn EXCEPT ![c] = r]
              /\ r.message = conn[c].message /\ r.received = conn[c].received + n
              /\ r.recv_buffer = SubSeq(Text(c), conn[c].received + 1, conn[c].received + n)
              /\ r.recv_buffer \in Seq(Nat) /\ Len(r.recv_buffer) = n
              /\ r.f_pos = conn[c].f_pos /\ r.answer = conn[c].answer
<1> DEFINE k == conn[c].received
           t == Text(c)
<1>1. PICK n \in 1..Min({Len(t) - k, BUFFER_SIZE}) :
         conn' = [conn EXCEPT ![c].received = k + n, ![c].recv_buffer = SubSeq(t, k + 1, k + n)]
  BY DEF Recv
<1>2. conn[c].message \in Message /\ k \in Nat /\ k <= Len(t) /\ conn[c] \in Connection
  BY ConnectionOf DEF Recv, At, Inv, Active, Receiving, Text
<1>3. t \in Seq(Nat) /\ Len(t) \in Nat /\ BUFFER_SIZE \in Nat
  BY <1>2, ConnectionAssumption, LenProperties DEF Text
<1> DEFINE b == SubSeq(t, k + 1, k + n)
<1>4. n \in Nat /\ n > 0 /\ n <= BUFFER_SIZE /\ k + n <= Len(t) /\ k + n \in Nat
  <2> DEFINE T == {Len(t) - k, BUFFER_SIZE}
  <2> HIDE DEF t, k
  <2>1. T \in SUBSET Nat /\ T # {} /\ Len(t) - k \in T /\ BUFFER_SIZE \in T
    BY <1>2, <1>3
  <2> HIDE DEF T
  <2>2. Min(T) \in Nat /\ Min(T) <= Len(t) - k /\ Min(T) <= BUFFER_SIZE
    BY <2>1, MinOf
  <2>3. n \in 1..Min(T)
    BY DEF T
  <2> QED
    BY <1>2, <1>3, <2>2, <2>3
<1>5. b \in Seq(Nat) /\ Len(b) = n
  <2> HIDE DEF t, k
  <2> QED
    BY <1>2, <1>3, <1>4, PartFacts
<1>6. c \in DOMAIN conn
  BY DEF Inv, TypeOK
<1>p. PICK a \in Nat : a = k + n
  BY <1>4
<1> DEFINE r == Received(conn[c], a, b)
<1>7. conn' = [conn EXCEPT ![c] = r]
  <2>1. conn' = [conn EXCEPT ![c].received = a, ![c].recv_buffer = b]
    BY <1>1, <1>p, Zenon
  <2>2. [conn EXCEPT ![c].received = a, ![c].recv_buffer = b] = [conn EXCEPT ![c] = Received(conn[c], a, b)]
    <3> HIDE DEF b
    <3> QED
      BY <1>6, Zenon DEF Received
  <2> QED
    BY <2>1, <2>2, Zenon
<1>8. /\ r \in Connection
      /\ r.message = conn[c].message /\ r.received = a /\ r.recv_buffer = b
      /\ r.f_pos = conn[c].f_pos /\ r.answer = conn[c].answer
  <2>1. b \in Seq(Nat) /\ a \in Nat /\ conn[c] \in Connection
    BY <1>2, <1>5
  <2> HIDE DEF b
  <2> QED
    BY <2>1, ReceivedFields
<1> HIDE DEF r, b
<1> n \in Nat /\ r \in Connection
  BY <1>4, <1>8
<1> WITNESS n \in Nat, r \in Connection
<1> QED
  BY <1>4, <1>5, <1>7, <1>8, <1>p DEF b

LEMMA RecvInv == ASSUME Inv, NEW c \in Conn, Recv(c) PROVE Inv'
<1>1. PICK n \in Nat, r \in Connection :
              /\ n > 0 /\ n <= BUFFER_SIZE /\ conn[c].received + n <= Len(Text(c))
              /\ conn' = [conn EXCEPT ![c] = r]
              /\ r.message = conn[c].message /\ r.received = conn[c].received + n
              /\ r.recv_buffer = SubSeq(Text(c), conn[c].received + 1, conn[c].received + n)
              /\ r.recv_buffer \in Seq(Nat) /\ Len(r.recv_buffer) = n
              /\ r.f_pos = conn[c].f_pos /\ r.answer = conn[c].answer
  BY RecvStep
<1>2. /\ pc[c] = "recv" /\ file_mutex = c /\ Receiving(conn[c], "recv") /\ conn[c].received \in Nat
  BY ConnectionOf DEF Recv, At, Inv, Active
<1>3. r.received - Len(r.recv_buffer) = conn[c].received
  BY <1>1, <1>2
<1>4. Receiving(r, "store")
  <2>1. r.recv_buffer # <<>>
    <3>1. Len(r.recv_buffer) # 0
      BY <1>1
    <3> QED
      BY <3>1
  <2>2. Len(r.recv_buffer) <= r.received
    BY <1>1, <1>2
  <2> QED
    BY <1>1, <1>2, <1>3, <2>1, <2>2 DEF Receiving, Text
<1>5. DeviceInv' /\ quit' \in BOOLEAN
  BY DeviceKept DEF Recv, Inv, TypeOK
<1>6. file_mutex' = c /\ pc' = [pc EXCEPT ![c] = "store"] /\ "store" \in Labels /\ "store" \in Active
      /\ pc[c] \in Active
  BY <1>2 DEF Recv, Goto, Labels, Active
<1> QED
  BY <1>1, <1>4, <1>5, <1>6, StepOf

(* What leaves conn alone moves only the label.                            *)
LEMMA SameConnection ==
    ASSUME Inv, NEW c \in Conn, UNCHANGED conn
    PROVE  conn' = [conn EXCEPT ![c] = conn[c]]
BY Zenon DEF Inv, TypeOK

(* The bytes of recv_buffer are on their way to the device.                *)
LEMMA StoreInv == ASSUME Inv, NEW c \in Conn, Store(c) PROVE Inv'
<1> DEFINE r == conn[c]
           l == AfterStore(c)
           b == conn[c].recv_buffer
<1>1. /\ pc[c] = "store" /\ file_mutex = c /\ Receiving(r, "store") /\ r \in Connection
      /\ b \in Seq(Nat) /\ b # <<>> /\ Len(b) <= BUFFER_SIZE
  BY ConnectionOf DEF Store, At, Inv, Active, Receiving
<1>2. l \in {"recv", "send"}
  BY DEF AfterStore
<1>3. Receiving(r, l)
  BY <1>1, <1>2 DEF Receiving
<1>4. DeviceInv'
  <2> HIDE DEF b
  <2>1. /\ FirstLine(b) \in Seq(Nat) /\ FirstLine(b) # <<>> /\ NewlineLast(FirstLine(b))
    BY <1>1, FirstLineFacts
  <2>2. Device!Write(FirstLine(b)) /\ DeviceInv
    BY DEF Store, Inv, b
  <2> QED
    BY <2>1, <2>2, WriteOfPiece
<1>5. conn' = [conn EXCEPT ![c] = r]
  BY SameConnection DEF Store
<1>6. file_mutex' = c /\ pc' = [pc EXCEPT ![c] = l] /\ quit' \in BOOLEAN
  BY <1>1 DEF Store, Goto, Inv, TypeOK
<1>7. l \in Labels /\ l \in Active /\ pc[c] \in Active
  BY <1>1, <1>2 DEF Labels, Active
<1> HIDE DEF r, l
<1> QED
  BY <1>1, <1>3, <1>4, <1>5, <1>6, <1>7, StepOf DEF r, b

-----------------------------------------------------------------------------
(* What check_for_ioctl_command finds in a string.                         *)

(* The first such byte behind k is not behind any other.                   *)
LEMMA IndexAfterFacts ==
    ASSUME NEW s \in Seq(Nat), NEW byte, NEW k \in Nat, NEW i \in 1..Len(s), k < i, s[i] = byte
    PROVE  LET m == IndexAfter(s, byte, k)
           IN  /\ m \in 1..Len(s) /\ k < m /\ m <= i /\ s[m] = byte
               /\ \A j \in (k + 1)..(m - 1) : s[j] # byte
<1> DEFINE T == {j \in k + 1 .. Len(s) : s[j] = byte}
<1>0. Len(s) \in Nat
  BY LenProperties
<1>1. T \in SUBSET Nat /\ T # {} /\ i \in T
  BY <1>0
<1>2. Min(T) \in T /\ \A y \in T : Min(T) <= y
  <2> HIDE DEF T
  <2> QED
    BY <1>1, MinOf
<1> DEFINE m == Min(T)
<1>3. m = IndexAfter(s, byte, k)
  BY DEF IndexAfter
<1>4. m \in 1..Len(s) /\ k < m /\ m <= i /\ s[m] = byte
  BY <1>0, <1>1, <1>2
<1>5. ASSUME NEW j \in (k + 1)..(m - 1) PROVE s[j] # byte
  <2> HIDE DEF m
  <2>1. j \in k + 1 .. Len(s) /\ j < m
    BY <1>0, <1>4
  <2> QED
    BY <1>2, <1>4, <2>1 DEF m
<1> HIDE DEF m
<1> QED
  BY <1>3, <1>4, <1>5

(* What strchr walks starts with what was received, up to a zero byte, and *)
(* goes on for one byte at most.                                           *)
LEMMA ScannedSeq ==
    ASSUME NEW b \in Seq(Nat), NEW s \in Scanned(b)
    PROVE  /\ s \in Seq(Nat)
           /\ Len(b) < BUFFER_SIZE /\ 0 \notin Range(b) => s = b
           /\ Len(s) <= Len(b) + 1
           /\ \A i \in 1..Len(s) : i <= Len(b) => s[i] = b[i]
<1>0. Len(b) \in Nat /\ DOMAIN b = 1..Len(b)
  BY LenProperties
<1>1. CASE 0 \in Range(b)
  <2>1. PICK z \in 1..Len(b) : b[z] = 0
    BY <1>0, <1>1 DEF Range
  <2> DEFINE m == IndexAfter(b, 0, 0)
  <2>2. m \in 1..Len(b)
    <3>1. 0 < z /\ 0 \in Nat
      BY <1>0
    <3> QED
      BY <2>1, <3>1, IndexAfterFacts
  <2>3. s = SubSeq(b, 1, m - 1)
    BY <1>1 DEF Scanned
  <2> HIDE DEF m
  <2>4. PICK k \in 0..Len(b) : k = m - 1
    BY <1>0, <2>2
  <2>5. s = First(b, k)
    BY <2>3, <2>4 DEF First
  <2>6. s \in Seq(Nat) /\ Len(s) = k /\ \A i \in 1..k : s[i] = b[i]
    BY <2>5, FirstFacts
  <2>7. k <= Len(b) + 1
    BY <1>0
  <2> QED
    BY <1>1, <2>6, <2>7
<1>2. CASE 0 \notin Range(b) /\ Len(b) < BUFFER_SIZE
  <2>1. s = b /\ Len(b) <= Len(b) + 1
    BY <1>0, <1>2 DEF Scanned
  <2> QED
    BY <2>1
<1>3. CASE 0 \notin Range(b) /\ ~(Len(b) < BUFFER_SIZE)
  <2>1. PICK x \in Behind : s = b \o x
    BY <1>3 DEF Scanned
  <2>2. x \in Seq(Nat) /\ Len(x) <= 1 /\ Len(x) \in Nat
    BY ConnectionAssumption, LenProperties
  <2>3. /\ s \in Seq(Nat) /\ Len(s) = Len(b) + Len(x)
        /\ \A i \in 1 .. Len(b) + Len(x) : s[i] = IF i <= Len(b) THEN b[i] ELSE x[i - Len(b)]
    BY <2>1, <2>2, ConcatProperties
  <2>4. Len(s) <= Len(b) + 1
    BY <1>0, <2>2, <2>3
  <2>5. \A i \in 1..Len(s) : i <= Len(b) => s[i] = b[i]
    BY <2>3, Zenon
  <2> QED
    BY <1>3, <2>3, <2>4, <2>5
<1> QED
  BY <1>1, <1>2, <1>3
-----------------------------------------------------------------------------
(* The stream, where its commands end and what a read of it returns.       *)
LEMMA StreamFacts ==
    ASSUME DeviceInv
    PROVE  /\ Stream \in Seq(Nat) /\ Len(Stream) \in Nat
           /\ EndOf(0) = 0 /\ EndOf(Len(log)) = Len(Stream)
           /\ \A k \in 0..Len(log) : EndOf(k) \in Nat /\ EndOf(k) <= Len(Stream)
           /\ \A k \in 1..Len(log) : EndOf(k) = EndOf(k - 1) + Len(log[k])
<1>0. log \in Seq(Seq(Nat)) /\ Len(log) \in Nat
  BY LenProperties DEF DeviceInv
<1>1. Stream \in Seq(Nat) /\ Len(Stream) \in Nat
  BY <1>0, FlattenType, LenProperties DEF Stream
<1>2. EndOf(0) = 0 /\ EndOf(Len(log)) = Len(Stream)
  BY <1>0, FlattenEnds, EmptySeq DEF EndOf, Stream, First
<1>3. \A k \in 1..Len(log) : /\ EndOf(k - 1) \in Nat
                             /\ EndOf(k) = EndOf(k - 1) + Len(log[k])
                             /\ EndOf(k - 1) + Len(log[k]) <= Len(Stream)
  BY <1>0, FlattenMember DEF EndOf, Stream, First
<1>4. ASSUME NEW k \in 1..Len(log) PROVE EndOf(k) \in Nat /\ EndOf(k) <= Len(Stream)
  <2>1. log[k] \in Seq(Nat)
    BY <1>0, ElementOfSeq
  <2>2. Len(log[k]) \in Nat
    BY <2>1, LenProperties
  <2> QED
    BY <1>1, <1>3, <2>2
<1>5. \A k \in 0..Len(log) : EndOf(k) \in Nat /\ EndOf(k) <= Len(Stream)
  <2>1. \A k \in 0..Len(log) : k = 0 \/ k \in 1..Len(log)
    BY <1>0
  <2> QED
    BY <1>1, <1>2, <1>4, <2>1
<1> QED
  BY <1>1, <1>2, <1>3, <1>5

(* A read returns the next bytes of the stream, and none only at its end.  *)
LEMMA ReadFacts ==
    ASSUME DeviceInv, NEW pos \in Nat
    PROVE  /\ Read(pos) \in Seq(Nat) /\ Len(Read(pos)) \in Nat
           /\ Read(pos) = <<>> => Len(Stream) <= pos
           /\ Read(pos) # <<>> => /\ pos + Len(Read(pos)) <= Len(Stream)
                                  /\ Read(pos) = SubSeq(Stream, pos + 1, pos + Len(Read(pos)))
<1> DEFINE ends == {EndOf(k) : k \in DOMAIN log}
           next == {e \in ends : e > pos}
           T == {pos + BUFFER_SIZE, Min(next)}
<1>0. /\ log \in Seq(Seq(Nat)) /\ Len(log) \in Nat /\ DOMAIN log = 1..Len(log)
      /\ Stream \in Seq(Nat) /\ Len(Stream) \in Nat
      /\ BUFFER_SIZE \in Nat /\ BUFFER_SIZE > 0
  BY LenProperties, StreamFacts, ConnectionAssumption DEF DeviceInv
<1>1. \A e \in ends : e \in Nat /\ e <= Len(Stream)
  BY <1>0, StreamFacts
<1>2. Read(pos) = IF next = {} THEN <<>> ELSE SubSeq(Stream, pos + 1, Min(T))
  BY DEF Read
<1>3. CASE next = {}
  <2>1. Read(pos) = <<>>
    BY <1>2, <1>3
  <2>2. Len(Stream) <= pos
    <3>1. CASE Len(log) = 0
      BY <1>0, <3>1, StreamFacts
    <3>2. CASE Len(log) # 0
      <4>1. Len(log) \in DOMAIN log
        BY <1>0, <3>2
      <4>2. Len(Stream) \in ends
        BY <4>1, StreamFacts
      <4> QED
        BY <1>0, <1>3, <4>2
    <3> QED
      BY <3>1, <3>2
  <2> QED
    BY <2>1, <2>2, EmptySeq
<1>4. CASE next # {}
  <2>1. next \in SUBSET Nat
    BY <1>1
  <2>2. \A e \in next : e \in Nat /\ e > pos /\ e <= Len(Stream)
    BY <1>1
  <2> HIDE DEF next
  <2>3. Min(next) \in next
    BY <1>4, <2>1, MinOf
  <2> DEFINE e == Min(next)
  <2>4. e \in Nat /\ e > pos /\ e <= Len(Stream)
    BY <2>2, <2>3
  <2> HIDE DEF e
  <2>5. T = {pos + BUFFER_SIZE, e}
    BY DEF e
  <2> HIDE DEF T
  <2>6. T \in SUBSET Nat /\ T # {} /\ e \in T
    BY <1>0, <2>4, <2>5
  <2>7. \A y \in T : y > pos
    BY <1>0, <2>4, <2>5
  <2> DEFINE t == Min(T)
  <2>8. t \in T /\ \A y \in T : t <= y
    BY <2>6, MinOf
  <2>t. Read(pos) = SubSeq(Stream, pos + 1, t)
    BY <1>2, <1>4
  <2> HIDE DEF t
  <2>s. t \in Nat /\ t > pos /\ t <= e
    BY <2>6, <2>7, <2>8
  <2>9. t \in Nat /\ t > pos /\ t <= Len(Stream)
    BY <1>0, <2>4, <2>s
  <2>11. PICK n \in Nat : n = t - pos
    BY <2>9
  <2>12. pos + n = t /\ n > 0 /\ pos + n <= Len(Stream)
    BY <2>9, <2>11
  <2>13. Read(pos) = SubSeq(Stream, pos + 1, pos + n)
    BY <2>t, <2>12
  <2>14. Read(pos) \in Seq(Nat) /\ Len(Read(pos)) = n
    BY <1>0, <2>12, <2>13, PartFacts
  <2>15. Read(pos) # <<>>
    <3>1. Len(Read(pos)) # 0
      BY <2>12, <2>14
    <3> QED
      BY <3>1, EmptySeq
  <2> QED
    BY <2>12, <2>13, <2>14, <2>15
<1> QED
  BY <1>3, <1>4
-----------------------------------------------------------------------------
(* ioctl moves the position to a byte of the log: the one the fields name, *)
(* if they fit their arrays.                                               *)
LEMMA SeekStep ==
    ASSUME Inv, NEW c \in Conn, Seek(c)
    PROVE  \E s \in Scanned(conn[c].recv_buffer), x \in Nat, y \in Nat, r \in Connection :
              /\ IsSeek(s) /\ s \in Seq(Nat)
              /\ conn' = [conn EXCEPT ![c] = r]
              /\ r.message = conn[c].message /\ r.received = conn[c].received
              /\ r.recv_buffer = conn[c].recv_buffer /\ r.answer = conn[c].answer
              /\ \/ Unterminated(Fields(s))
                 \/ SeekTo(Fields(s)) = [write_cmd |-> x, write_cmd_offset |-> y]
              /\ r.f_pos = EndOf(x) + y
              /\ r.f_pos <= Len(Stream)
<1>1. PICK f \in SeekFields(conn[c].recv_buffer), k \in DOMAIN log : \E o \in 1..Len(log[k]) :
         /\ \/ Unterminated(f)
            \/ SeekTo(f) = [write_cmd |-> k - 1, write_cmd_offset |-> o - 1]
         /\ conn' = [conn EXCEPT ![c].f_pos = EndOf(k - 1) + o - 1]
  BY DEF Seek
<1>1a. PICK o \in 1..Len(log[k]) :
         /\ \/ Unterminated(f)
            \/ SeekTo(f) = [write_cmd |-> k - 1, write_cmd_offset |-> o - 1]
         /\ conn' = [conn EXCEPT ![c].f_pos = EndOf(k - 1) + o - 1]
  BY <1>1
<1>1b. PICK s \in Scanned(conn[c].recv_buffer) : IsSeek(s) /\ f = Fields(s)
  BY <1>1 DEF SeekFields
<1>2. conn[c] \in Connection /\ conn[c].recv_buffer \in Seq(Nat)
  BY ConnectionOf
<1>3. s \in Seq(Nat)
  BY <1>2, ScannedSeq
<1>4. DeviceInv /\ log \in Seq(Seq(Nat)) /\ Len(log) \in Nat /\ DOMAIN log = 1..Len(log)
  BY LenProperties DEF Inv, DeviceInv
<1>5. log[k] \in Seq(Nat) /\ Len(log[k]) \in Nat
  BY <1>4, ElementOfSeq, LenProperties
<1>6. PICK x \in Nat, y \in Nat : x = k - 1 /\ y = o - 1 /\ x \in 0..Len(log) /\ y < Len(log[k])
  <2>1. k \in 1..Len(log) /\ k - 1 \in Nat /\ o - 1 \in Nat /\ k - 1 \in 0..Len(log)
        /\ o - 1 < Len(log[k])
    BY <1>4, <1>5
  <2> QED
    BY <2>1
<1> DEFINE a == EndOf(x) + y
<1>7. a \in Nat /\ a <= Len(Stream) /\ EndOf(k - 1) + o - 1 = a
  <2>1. k \in 1..Len(log) /\ k \in 0..Len(log)
    BY <1>4
  <2>2. /\ EndOf(x) \in Nat /\ EndOf(k) <= Len(Stream) /\ EndOf(k) = EndOf(x) + Len(log[k])
        /\ Len(Stream) \in Nat
    BY <1>4, <1>6, <2>1, StreamFacts
  <2>3. o \in Int /\ EndOf(k - 1) = EndOf(x)
    BY <1>5, <1>6
  <2> QED
    BY <1>5, <1>6, <2>2, <2>3
<1> DEFINE r == Sought(conn[c], a)
<1>8. c \in DOMAIN conn
  BY DEF Inv, TypeOK
<1>9. conn' = [conn EXCEPT ![c] = r]
  <2>1. conn' = [conn EXCEPT ![c].f_pos = a]
    BY <1>1a, <1>7
  <2> HIDE DEF a
  <2> QED
    BY <1>8, <2>1, Zenon DEF Sought
<1> HIDE DEF a
<1>10. /\ r \in Connection
       /\ r.message = conn[c].message /\ r.received = conn[c].received
       /\ r.recv_buffer = conn[c].recv_buffer /\ r.f_pos = a /\ r.answer = conn[c].answer
  BY <1>2, <1>7, SoughtFields
<1>11. /\ Unterminated(Fields(s)) \/ SeekTo(Fields(s)) = [write_cmd |-> x, write_cmd_offset |-> y]
       /\ r.f_pos = EndOf(x) + y /\ r.f_pos <= Len(Stream)
  BY <1>1a, <1>1b, <1>6, <1>7, <1>10 DEF a
<1> HIDE DEF r
<1> QED
  BY <1>1b, <1>3, <1>6, <1>9, <1>10, <1>11

LEMMA SeekInv == ASSUME Inv, NEW c \in Conn, Seek(c) PROVE Inv'
<1>1. PICK r \in Connection :
              /\ conn' = [conn EXCEPT ![c] = r]
              /\ r.message = conn[c].message /\ r.received = conn[c].received
              /\ r.recv_buffer = conn[c].recv_buffer /\ r.answer = conn[c].answer
  BY SeekStep
<1> DEFINE l == AfterStore(c)
<1>2. /\ pc[c] = "store" /\ file_mutex = c /\ Receiving(conn[c], "store")
      /\ Len(conn[c].recv_buffer) <= BUFFER_SIZE
  BY ConnectionOf DEF Seek, At, Inv, Active
<1>3. l \in {"recv", "send"}
  BY DEF AfterStore
<1>4. Receiving(r, l)
  BY <1>1, <1>2, <1>3 DEF Receiving
<1>5. DeviceInv' /\ quit' \in BOOLEAN
  BY DeviceKept DEF Seek, Inv, TypeOK
<1>6. file_mutex' = c /\ pc' = [pc EXCEPT ![c] = l]
  BY <1>2 DEF Seek, Goto
<1>7. l \in Labels /\ l \in Active /\ pc[c] \in Active
  BY <1>2, <1>3 DEF Labels, Active
<1> HIDE DEF l
<1> QED
  BY <1>1, <1>2, <1>4, <1>5, <1>6, <1>7, StepOf

(* read moves the position, send lengthens the answer.                     *)
LEMMA TransferStep ==
    ASSUME Inv, NEW c \in Conn, NEW data \in Seq(Nat), NEW sent \in Nat, sent <= Len(data),
           Transfer(c, data, sent)
    PROVE  \E r \in Connection :
              /\ conn' = [conn EXCEPT ![c] = r]
              /\ r.message = conn[c].message /\ r.received = conn[c].received
              /\ r.recv_buffer = conn[c].recv_buffer
              /\ r.f_pos = conn[c].f_pos + Len(data)
              /\ r.answer = conn[c].answer \o SubSeq(data, 1, sent)
<1>1. conn[c] \in Connection /\ conn[c].f_pos \in Nat /\ conn[c].answer \in Seq(Nat)
  BY ConnectionOf
<1>2. Len(data) \in Nat /\ c \in DOMAIN conn
  BY LenProperties DEF Inv, TypeOK
<1>3. PICK a \in Nat : a = conn[c].f_pos + Len(data)
  BY <1>1, <1>2
<1>4. PICK b \in Seq(Nat) : b = conn[c].answer \o SubSeq(data, 1, sent)
  <2>1. SubSeq(data, 1, sent) \in Seq(Nat)
    <3>1. sent \in 0..Len(data)
      BY <1>2
    <3> QED
      BY <3>1, FirstFacts DEF First
  <2> QED
    BY <1>1, <2>1, ConcatProperties
<1> DEFINE r == Transferred(conn[c], a, b)
<1>5. conn' = [conn EXCEPT ![c] = r]
  <2>1. conn' = [conn EXCEPT ![c].f_pos = a, ![c].answer = b]
    BY <1>3, <1>4, Zenon DEF Transfer
  <2> QED
    BY <1>2, <2>1, Zenon DEF Transferred
<1>6. /\ r \in Connection
      /\ r.message = conn[c].message /\ r.received = conn[c].received
      /\ r.recv_buffer = conn[c].recv_buffer /\ r.f_pos = a /\ r.answer = b
  <2>1. PICK q \in Connection : q = conn[c]
    BY <1>1
  <2>2. r = Transferred(q, a, b)
    BY <2>1
  <2> HIDE DEF r
  <2>3. /\ r \in Connection
        /\ r.message = q.message /\ r.received = q.received
        /\ r.recv_buffer = q.recv_buffer /\ r.f_pos = a /\ r.answer = b
    BY <2>2, TransferredFields
  <2> QED
    BY <2>1, <2>3
<1> HIDE DEF r
<1> QED
  BY <1>3, <1>4, <1>5, <1>6

(* A step of an active thread that changes only its connection, and there  *)
(* neither the message nor what was received of it.                        *)
LEMMA KeepsReceived ==
    ASSUME Inv, NEW c \in Conn, pc[c] \in Active, NEW r \in Connection,
           conn' = [conn EXCEPT ![c] = r],
           r.message = conn[c].message, r.received = conn[c].received,
           r.recv_buffer = conn[c].recv_buffer,
           r.answer = conn[c].answer \/ pc[c] = "send",
           UNCHANGED <<device, file_mutex, pc>>, quit' \in BOOLEAN
    PROVE  Inv'
<1> DEFINE l == pc[c]
<1>1. file_mutex = c /\ Receiving(conn[c], l) /\ Len(conn[c].recv_buffer) <= BUFFER_SIZE
  BY ConnectionOf DEF Inv
<1>2. Receiving(r, l)
  BY <1>1 DEF Receiving
<1>3. l \in Labels /\ pc' = [pc EXCEPT ![c] = l]
  <2>1. pc \in [Conn -> Labels]
    BY DEF Inv, TypeOK, Labels
  <2> QED
    BY <2>1, Zenon
<1>4. DeviceInv' /\ file_mutex' = c /\ l \in Active
  BY <1>1, DeviceKept DEF Inv
<1> HIDE DEF l
<1> QED
  BY <1>1, <1>2, <1>3, <1>4, StepOf DEF l

LEMMA TransferInv ==
    ASSUME Inv, NEW c \in Conn, pc[c] = "send", NEW sent \in 0..Len(Read(conn[c].f_pos)),
           Transfer(c, Read(conn[c].f_pos), sent),
           UNCHANGED <<device, file_mutex, pc>>, quit' \in BOOLEAN
    PROVE  Inv'
<1> DEFINE data == Read(conn[c].f_pos)
<1>1. data \in Seq(Nat) /\ Len(data) \in Nat
  BY ConnectionOf, ReadFacts DEF Inv
<1>2. sent \in Nat /\ sent <= Len(data)
  BY <1>1
<1>3. Transfer(c, data, sent) /\ "send" \in Active
  BY DEF Active
<1> HIDE DEF data
<1>4. PICK r \in Connection :
              /\ conn' = [conn EXCEPT ![c] = r]
              /\ r.message = conn[c].message /\ r.received = conn[c].received
              /\ r.recv_buffer = conn[c].recv_buffer
  BY <1>1, <1>2, <1>3, TransferStep
<1> QED
  BY <1>3, <1>4, KeepsReceived

LEMMA SendInv == ASSUME Inv, NEW c \in Conn, Send(c) PROVE Inv'
<1> DEFINE data == Read(conn[c].f_pos)
<1>1. pc[c] = "send" /\ pc[c] \in Active /\ UNCHANGED device /\ quit' \in BOOLEAN
  BY DEF Send, At, Active, Inv, TypeOK
<1>2. CASE ~Ends(data) /\ Transfer(c, data, Len(data)) /\ UNCHANGED <<file_mutex, pc>>
  <2>1. Len(data) \in 0..Len(data)
    BY ConnectionOf, ReadFacts DEF Inv
  <2> QED
    BY <1>1, <1>2, <2>1, TransferInv
<1>3. CASE Ends(data) /\ Leave(c, "done")
  BY <1>1, <1>3, LeaveInv
<1> QED
  BY <1>2, <1>3 DEF Send

LEMMA SendInterruptedInv == ASSUME Inv, NEW c \in Conn, SendInterrupted(c) PROVE Inv'
<1> DEFINE data == Read(conn[c].f_pos)
<1>1. PICK sent \in 1 .. Len(data) - 1 : Transfer(c, data, sent)
  BY DEF SendInterrupted
<1>2. sent \in 0..Len(data)
  <2>1. Len(data) \in Nat
    BY ConnectionOf, ReadFacts DEF Inv
  <2> HIDE DEF data
  <2> QED
    BY <2>1
<1>3. pc[c] = "send" /\ UNCHANGED <<device, file_mutex, pc>> /\ quit' \in BOOLEAN
  BY DEF SendInterrupted, At
<1> QED
  BY <1>1, <1>2, <1>3, TransferInv

LEMMA ClientClosesInv == ASSUME Inv, NEW c \in Conn, ClientCloses(c) PROVE Inv'
<1> DEFINE r == Closed(conn[c])
<1>1. conn[c] \in Connection /\ c \in DOMAIN conn
  BY ConnectionOf DEF Inv, TypeOK
<1>2. conn' = [conn EXCEPT ![c] = r]
  BY <1>1, Zenon DEF ClientCloses, Closed
<1>3. /\ r \in Connection
      /\ r.message = conn[c].message /\ r.received = conn[c].received
      /\ r.recv_buffer = conn[c].recv_buffer /\ r.answer = conn[c].answer
  BY <1>1, ClosedFields
<1> HIDE DEF r
<1>4. pc[c] \in Active /\ UNCHANGED <<device, file_mutex, pc>> /\ quit' \in BOOLEAN
  BY DEF ClientCloses, At, Active, Inv, TypeOK
<1> QED
  BY <1>2, <1>3, <1>4, KeepsReceived

(* A thread that dies takes those with it that wait for the mutex.         *)
LEMMA OverrunStep ==
    ASSUME Inv, NEW c \in Conn, Overrun(c), NEW d \in Conn
    PROVE  /\ pc[c] = "store" /\ pc' \in [Conn -> Labels] /\ pc'[c] = "overrun"
           /\ pc'[d] \notin Active
           /\ pc'[d] # "overrun" => d # c /\ pc[d] # "overrun"
           /\ pc'[d] = "done" => pc[d] = "done"
<1>1. pc \in [Conn -> Labels] /\ pc[c] = "store" /\ pc[c] \in Active
  BY DEF Inv, TypeOK, Labels, Active, Overrun, At
<1>2. pc' = [e \in Conn |-> IF e = c THEN "overrun" ELSE IF pc[e] = "start" THEN "killed" ELSE pc[e]]
  BY DEF Overrun, At
<1>3. d # c => pc[d] \notin Active
  BY <1>1, Alone
<1> QED
  BY <1>1, <1>2, <1>3 DEF Labels, Active

LEMMA OverrunInv == ASSUME Inv, NEW c \in Conn, Overrun(c) PROVE Inv'
<1>1. /\ pc[c] = "store" /\ pc[c] \in Active /\ pc' \in [Conn -> Labels]
      /\ \A d \in Conn : pc'[d] \notin Active /\ (pc'[d] # "overrun" => d # c /\ pc[d] # "overrun")
  <2>1. "store" \in Active
    BY DEF Active
  <2>2. pc[c] = "store"
    BY OverrunStep
  <2>3. pc' \in [Conn -> Labels]
    BY OverrunStep
  <2>4. \A d \in Conn : pc'[d] \notin Active
    BY OverrunStep
  <2>5. \A d \in Conn : pc'[d] # "overrun" => d # c /\ pc[d] # "overrun"
    BY OverrunStep
  <2> QED
    BY <2>1, <2>2, <2>3, <2>4, <2>5
<1>2. conn' = conn /\ file_mutex' = NULL /\ quit' = quit /\ UNCHANGED device
  BY DEF Overrun
<1>3. \A d \in Conn : pc'[d] = "overrun" \/ conn'[d] = NoConnection
  BY <1>1, <1>2, Alone
<1>4. DeviceInv'
  BY <1>2, DeviceKept DEF Inv
<1>5. TypeOK'
  BY <1>1, <1>2, <1>4 DEF Inv, TypeOK, DeviceInv, Labels
<1> QED
  BY <1>1, <1>3, <1>4, <1>5 DEF Inv

LEMMA NextInv == Inv /\ [Next]_vars => Inv'
<1> SUFFICES ASSUME Inv, [Next]_vars PROVE Inv'
  OBVIOUS
<1>1. ASSUME NEW c \in Conn, Thread(c) PROVE Inv'
  <2>1. CASE RecvClosed(c)
    BY <2>1, LeaveInv DEF RecvClosed, At, Active, Inv, TypeOK
  <2>2. CASE StoreFails(c)
    BY <2>2, LeaveInv DEF StoreFails, At, Active, Inv, TypeOK
  <2>3. CASE SendFails(c)
    BY <2>3, LeaveInv DEF SendFails, At, Active, Inv, TypeOK
  <2> QED
    BY <1>1, <2>1, <2>2, <2>3, BeginInv, RecvInv, StoreInv, SeekInv, OverrunInv, SendInv
       DEF Thread
<1>2. ASSUME NEW c \in Conn, RecvInterrupted(c) PROVE Inv'
  BY <1>2, LeaveInv DEF RecvInterrupted, At, Active
<1>3. CASE UNCHANGED vars
  BY <1>3 DEF vars, device, Inv, TypeOK, DeviceInv, CommandsAreLines, NoNewline
<1> QED
  BY <1>1, <1>2, <1>3, SendInterruptedInv, ClientClosesInv DEF Next

(* The inductive invariant holds throughout: one thread at a time is       *)
(* between lock and unlock, what it received is the part of its message    *)
(* that it has come to, and the device keeps lines.                        *)
THEOREM ConnectionInvariance == Spec => []Inv
<1>1. Inv /\ [Next]_vars => Inv'
  BY NextInv
<1> QED
  BY <1>1, InitInv, PTL DEF Spec

(* The state of connection_thread.c has its types; what recv returned fits *)
(* recv_buffer.                                                            *)
THEOREM ConnectionTypeCorrect == Spec => []TypeOK
<1>1. Inv => TypeOK
  BY DEF Inv
<1> QED
  BY <1>1, ConnectionInvariance, PTL

(* recv_messages never calls write with no bytes, which would kill it in   *)
(* the driver.                                                             *)
THEOREM NeverWritesNothingHolds == Spec => []NeverWritesNothing
<1>1. Inv => NeverWritesNothing
  <2> SUFFICES ASSUME Inv, NEW c \in Conn, pc[c] = "store"
               PROVE  FirstLine(conn[c].recv_buffer) # <<>>
    BY DEF NeverWritesNothing, At
  <2>1. conn[c].recv_buffer \in Seq(Nat) /\ conn[c].recv_buffer # <<>>
    BY ConnectionOf DEF Inv, Active, Receiving
  <2> QED
    BY <2>1, FirstLineFacts
<1> QED
  BY <1>1, ConnectionInvariance, PTL

(* Whatever recv_messages makes of what it receives, every command in the  *)
(* log is one line.                                                        *)
THEOREM CommandsAreLinesHolds == Spec => []CommandsAreLines
<1>1. Inv => CommandsAreLines
  BY DEF Inv, DeviceInv
<1> QED
  BY <1>1, ConnectionInvariance, PTL
-----------------------------------------------------------------------------
(* A text that names a seek is read as that seek.                          *)
LEMMA DigitsRead ==
    ASSUME NEW t \in Seq(Nat), NEW a \in Nat, NEW b \in 1..Len(t), a < b,
           \A k \in (a + 1)..(b - 1) : t[k] \in Digit
    PROVE  Atoi(SubSeq(t, a + 1, b - 1)) = Decimal(SubSeq(t, a + 1, b - 1))
<1>0. Len(t) \in Nat
  BY LenProperties
<1>1. PICK n \in Nat : n = b - 1 - a
  BY <1>0
<1>2. a + n <= Len(t) /\ a + n = b - 1
  BY <1>0, <1>1
<1> DEFINE u == SubSeq(t, a + 1, a + n)
<1>3. u \in Seq(Nat) /\ Len(u) = n /\ \A j \in 1..n : u[j] = t[a + j]
  BY <1>2, PartFacts
<1> HIDE DEF u
<1>4. \A j \in 1..Len(u) : u[j] \in Digit
  <2> SUFFICES ASSUME NEW j \in 1..n PROVE t[a + j] \in Digit
    BY <1>3
  <2>1. a + j \in (a + 1)..(b - 1)
    BY <1>2
  <2> QED
    BY <2>1
<1>5. Atoi(u) = Decimal(u)
  BY <1>3, <1>4, AtoiFacts
<1> QED
  BY <1>2, <1>5 DEF u

LEMMA NamesSeek ==
    ASSUME NEW t \in Seq(Nat), NEW seek, Names(t, seek)
    PROVE  /\ IsSeek(t) /\ 0 \notin Range(t)
           /\ seek = <<SeekTo(Fields(t)).write_cmd, SeekTo(Fields(t)).write_cmd_offset>>
<1>0. Len(t) \in Nat /\ DOMAIN t = 1..Len(t)
  BY LenProperties
<1> DEFINE n == Len(t)
<1>1. PICK i \in 1..n, j \in 1..n :
         /\ i < j /\ j < n
         /\ t[i] = COLON /\ t[j] = COMMA /\ t[n] = NL
         /\ \A k \in 1..(i - 1) : t[k] \notin {COLON, 0}
         /\ \A k \in (i + 1)..(j - 1) \cup (j + 1)..(n - 1) : t[k] \in Digit
         /\ seek = <<Decimal(SubSeq(t, i + 1, j - 1)), Decimal(SubSeq(t, j + 1, n - 1))>>
  BY <1>0, Zenon DEF Names
<1>2. n \in 1..n /\ i \in Nat /\ j \in Nat /\ 0 \in Nat /\ 0 < i
  BY <1>0, <1>1
<1>3. IsSeek(t)
  <2>1. i \in 1..(j - 1) /\ n \in j + 1 .. n
    BY <1>0, <1>1
  <2> QED
    BY <1>0, <1>1, <2>1 DEF IsSeek
<1>4. COMMA \notin Digit /\ NL \notin Digit /\ 0 \notin Digit /\ COLON # 0 /\ COMMA # 0 /\ NL # 0
  BY DEF COMMA, COLON, NL, Digit
<1>4a. 0 \notin Range(t)
  <2> SUFFICES ASSUME NEW k \in 1..n PROVE t[k] # 0
    BY <1>0 DEF Range
  <2> HIDE DEF n
  <2>1. \/ k \in 1..(i - 1) \/ k = i \/ k \in (i + 1)..(j - 1)
        \/ k = j \/ k \in (j + 1)..(n - 1) \/ k = n
    BY <1>1, <1>2
  <2> QED
    BY <1>1, <1>4, <2>1
<1> HIDE DEF n
<1>5. IndexAfter(t, COLON, 0) = i
  <2> DEFINE m == IndexAfter(t, COLON, 0)
  <2>1. m \in 1..n /\ m <= i /\ t[m] = COLON
    BY <1>1, <1>2, IndexAfterFacts DEF n
  <2> HIDE DEF m
  <2>2. m # i => m \in 1..(i - 1)
    BY <1>2, <2>1
  <2>3. m = i
    BY <1>1, <2>1, <2>2
  <2> QED
    BY <2>3 DEF m
<1>6. IndexAfter(t, COMMA, i) = j
  <2> DEFINE m == IndexAfter(t, COMMA, i)
  <2>1. m \in 1..n /\ i < m /\ m <= j /\ t[m] = COMMA
    BY <1>1, <1>2, IndexAfterFacts DEF n
  <2> HIDE DEF m
  <2>2. m # j => m \in (i + 1)..(j - 1)
    BY <1>2, <2>1
  <2>3. m = j
    BY <1>1, <1>4, <2>1, <2>2
  <2> QED
    BY <2>3 DEF m
<1>7. IndexAfter(t, NL, j) = n
  <2> DEFINE m == IndexAfter(t, NL, j)
  <2>0. j < n /\ t[n] = NL /\ n \in 1..Len(t)
    BY <1>1, <1>2 DEF n
  <2>1. m \in 1..n /\ j < m /\ m <= n /\ t[m] = NL
    BY <1>2, <2>0, IndexAfterFacts DEF n
  <2> HIDE DEF m
  <2>n. n \in Nat
    BY <1>0 DEF n
  <2>2. m # n => m \in (j + 1)..(n - 1)
    BY <1>2, <2>n, <2>1
  <2>3. m = n
    BY <1>1, <1>4, <2>1, <2>2
  <2> QED
    BY <2>3 DEF m
<1>8. /\ SeekTo(Fields(t)).write_cmd = Atoi(SubSeq(t, i + 1, j - 1))
      /\ SeekTo(Fields(t)).write_cmd_offset = Atoi(SubSeq(t, j + 1, n - 1))
  BY <1>5, <1>6, <1>7 DEF SeekTo, Fields
<1>9. /\ Atoi(SubSeq(t, i + 1, j - 1)) = Decimal(SubSeq(t, i + 1, j - 1))
      /\ Atoi(SubSeq(t, j + 1, n - 1)) = Decimal(SubSeq(t, j + 1, n - 1))
  <2>1. \A k \in (i + 1)..(j - 1) : t[k] \in Digit
    BY <1>1
  <2>2. \A k \in (j + 1)..(n - 1) : t[k] \in Digit
    BY <1>1
  <2> QED
    BY <1>1, <1>2, <2>1, <2>2, DigitsRead DEF n
<1> QED
  BY <1>1, <1>3, <1>4a, <1>8, <1>9

(* A byte behind recv_buffer cannot turn what has no colon into a seek.    *)
LEMMA NoColonNoSeek ==
    ASSUME NEW b \in Seq(Nat), NEW s \in Scanned(b), IsSeek(s)
    PROVE  \E i \in 1..Len(b) : b[i] = COLON
<1>1. /\ s \in Seq(Nat) /\ Len(s) \in Nat /\ DOMAIN s = 1..Len(s) /\ Len(b) \in Nat
      /\ Len(s) <= Len(b) + 1 /\ \A i \in 1..Len(s) : i <= Len(b) => s[i] = b[i]
  BY ScannedSeq, LenProperties
<1>2. PICK j \in 1..Len(s) : /\ \E i \in 1..(j - 1) : s[i] = COLON
                             /\ \E k \in j + 1 .. Len(s) : s[k] = NL
  BY <1>1 DEF IsSeek
<1>3. PICK i \in 1..(j - 1), k \in j + 1 .. Len(s) : s[i] = COLON
  BY <1>2
<1>4. i \in 1..Len(b) /\ i \in 1..Len(s) /\ i <= Len(b)
  BY <1>1, <1>3
<1> QED
  BY <1>1, <1>3, <1>4
-----------------------------------------------------------------------------
(* What a client is answered.  The operators below take the device, lg and *)
(* p, and the signal, q, as arguments.                                     *)

PlainMessage(m) == m.seek = NULL /\ COLON \notin Range(m.text)
Start(seek, lg) == Len(FlattenSeq(SubSeq(lg, 1, seek[1]))) + seek[2]
EndsWith(s, t) == \E x \in Seq(Nat) : s = x \o t

(* The answer so far is the stream from a position to where output_fd is.  *)
(* Once a signal has cut a send short, it is only a part of that.          *)
Answers(r, from, stream, q) ==
    /\ from \in Nat /\ from <= r.f_pos /\ r.f_pos <= Len(stream)
    /\ ~q => r.answer = SubSeq(stream, from + 1, r.f_pos)

Answering(r, l, lg, q) ==
    /\ PlainMessage(r.message) =>
          IF l = "send" THEN Answers(r, 0, FlattenSeq(lg), q) ELSE r.f_pos = 0
    /\ /\ l = "send" /\ r.message.seek # NULL /\ r.recv_buffer = r.message.text
       /\ ~Unterminated(Fields(r.message.text))
       => Answers(r, Start(r.message.seek, lg), FlattenSeq(lg), q)

(* How much of the message has been written; a line that has been written  *)
(* in part is at the end of partial, and then at the end of the stream.    *)
Written(r, l) == IF l = "store" THEN r.received - Len(r.recv_buffer) ELSE r.received

Echoing(r, l, lg, p) ==
    PlainMessage(r.message) /\ IsLine(r.message.text) =>
       IF Written(r, l) < Len(r.message.text)
       THEN EndsWith(p, First(r.message.text, Written(r, l)))
       ELSE EndsWith(FlattenSeq(lg), r.message.text)

Promise(r, l, lg, p, q) == Answering(r, l, lg, q) /\ Echoing(r, l, lg, p)

AnswerInv == \A c \in Conn : pc[c] \in Active => Promise(conn[c], pc[c], log, partial, quit)

LEMMA PromiseStep ==
    ASSUME Inv, NEW c \in Conn, pc[c] \in Active \/ file_mutex = NULL,
           NEW r \in Connection, NEW l \in Labels,
           conn' = [conn EXCEPT ![c] = r], pc' = [pc EXCEPT ![c] = l],
           l \in Active => Promise(r, l, log', partial', quit')
    PROVE  AnswerInv'
<1>1. pc \in [Conn -> Labels] /\ conn \in [Conn -> Connection]
  BY DEF Inv, TypeOK, Labels
<1>2. /\ pc'[c] = l /\ conn'[c] = r
      /\ \A d \in Conn : d # c => pc'[d] = pc[d]
  BY <1>1
<1>3. ASSUME NEW d \in Conn, d # c PROVE pc'[d] \notin Active
  BY <1>2, <1>3, Alone
<1> QED
  BY <1>2, <1>3 DEF AnswerInv

LEMMA LeavePromise ==
    ASSUME Inv, NEW c \in Conn, pc[c] \in Active, NEW l \in {"done", "failed"}, Leave(c, l)
    PROVE  AnswerInv'
<1>1. NoConnection \in Connection
  BY EmptySeq DEF NoConnection, Connection
<1>2. l \in Labels /\ l \notin Active
  BY DEF Labels, Active
<1>3. conn' = [conn EXCEPT ![c] = NoConnection] /\ pc' = [pc EXCEPT ![c] = l]
  BY DEF Leave, Goto
<1> QED
  BY <1>1, <1>2, <1>3, PromiseStep

LEMMA BeginPromise == ASSUME Inv, NEW c \in Conn, Begin(c) PROVE AnswerInv'
<1>1. PICK r \in Connection :
              /\ conn' = [conn EXCEPT ![c] = r]
              /\ r.message \in Message /\ r.received = 0 /\ r.recv_buffer = <<>>
              /\ r.f_pos = 0 /\ r.answer = <<>>
  BY BeginStep
<1>2. Answering(r, "recv", log', quit')
  BY <1>1 DEF Answering
<1>3. Echoing(r, "recv", log', partial')
  <2>1. partial' \in Seq(Nat) /\ r.message.text \in Seq(Nat)
    BY <1>1, ConnectionAssumption DEF Begin, device, Inv, TypeOK
  <2>2. Written(r, "recv") = 0 /\ First(r.message.text, 0) = <<>>
    BY <1>1, <2>1, SubSeqEmpty DEF Written, First
  <2>3. EndsWith(partial', <<>>)
    BY <2>1, ConcatEmptySeq DEF EndsWith
  <2>4. ASSUME IsLine(r.message.text) PROVE 0 < Len(r.message.text)
    BY <2>1, <2>4, LenProperties, EmptySeq DEF IsLine
  <2> QED
    BY <2>2, <2>3, <2>4 DEF Echoing
<1>4. file_mutex = NULL /\ pc' = [pc EXCEPT ![c] = "recv"] /\ "recv" \in Labels
  BY DEF Begin, Goto, Labels
<1> QED
  BY <1>1, <1>2, <1>3, <1>4, PromiseStep DEF Promise

LEMMA RecvPromise == ASSUME Inv, AnswerInv, NEW c \in Conn, Recv(c) PROVE AnswerInv'
<1>1. PICK n \in Nat, r \in Connection :
              /\ conn' = [conn EXCEPT ![c] = r]
              /\ r.message = conn[c].message /\ r.received = conn[c].received + n
              /\ Len(r.recv_buffer) = n
              /\ r.f_pos = conn[c].f_pos
  BY RecvStep
<1>2. /\ pc[c] = "recv" /\ "recv" \in Active /\ conn[c].received \in Nat
      /\ UNCHANGED <<log, partial, quit>>
      /\ pc' = [pc EXCEPT ![c] = "store"] /\ "store" \in Labels
  BY ConnectionOf DEF Recv, At, Goto, device, Active, Labels
<1>3. Promise(conn[c], "recv", log, partial, quit)
  BY <1>2 DEF AnswerInv
<1>4. Written(r, "store") = Written(conn[c], "recv")
  BY <1>1, <1>2 DEF Written
<1>5. Answering(r, "store", log, quit)
  BY <1>1, <1>3 DEF Promise, Answering
<1>6. Echoing(r, "store", log, partial)
  BY <1>1, <1>3, <1>4 DEF Promise, Echoing
<1> QED
  BY <1>1, <1>2, <1>5, <1>6, PromiseStep DEF Promise

(* A piece of a line is written whole, and is joined to the one before.    *)
LEMMA LinePiece ==
    ASSUME NEW t \in Seq(Nat), IsLine(t), NEW d \in Nat, NEW n \in Nat, n > 0, d + n <= Len(t)
    PROVE  LET b == SubSeq(t, d + 1, d + n)
           IN  /\ NewlineLast(b)
               /\ b[n] = NL <=> d + n = Len(t)
               /\ First(t, d) \o b = First(t, d + n)
<1> DEFINE b == SubSeq(t, d + 1, d + n)
<1>0. Len(t) \in Nat /\ DOMAIN t = 1..Len(t)
  BY LenProperties
<1>1. b \in Seq(Nat) /\ Len(b) = n /\ \A j \in 1..n : b[j] = t[d + j]
  BY PartFacts
<1>2. \A i \in 1..Len(t) : t[i] = NL <=> i = Len(t)
  BY <1>0 DEF IsLine
<1>3. First(t, d) \o b = First(t, d + n)
  <2>1. PICK m \in Nat : m = d + n
    OBVIOUS
  <2>2. 1 \in 1..Len(t) + 1 /\ d \in 1 - 1 .. Len(t) /\ m \in d..Len(t)
    BY <1>0, <2>1
  <2> QED
    BY <2>1, <2>2, ConcatAdjacentSubSeq DEF First
<1> HIDE DEF b
<1>4. \A j \in 1..n : d + j \in 1..Len(t)
  BY <1>0
<1>5. \A j \in 1..n : b[j] = NL <=> d + j = Len(t)
  BY <1>1, <1>2, <1>4
<1>6. \A j \in 1..n : b[j] = NL => j = n
  <2> SUFFICES ASSUME NEW j \in 1..n, d + j = Len(t) PROVE j = n
    BY <1>5
  <2> QED
    BY <1>0
<1>7. NewlineLast(b)
  BY <1>1, <1>6 DEF NewlineLast
<1>8. n \in 1..n
  OBVIOUS
<1> QED
  BY <1>3, <1>5, <1>7, <1>8 DEF b

LEMMA EndsWithMore ==
    ASSUME NEW s \in Seq(Nat), NEW t \in Seq(Nat), NEW u \in Seq(Nat), EndsWith(s, t)
    PROVE  EndsWith(s \o u, t \o u) /\ EndsWith(u \o s, t)
<1>1. PICK x \in Seq(Nat) : s = x \o t
  BY DEF EndsWith
<1>2. s \o u = x \o (t \o u)
  BY <1>1, ConcatAssociative
<1>3. u \o s = (u \o x) \o t /\ u \o x \in Seq(Nat)
  BY <1>1, ConcatAssociative, ConcatProperties
<1> QED
  BY <1>2, <1>3, Zenon DEF EndsWith

(* An answer that has not begun.                                           *)
LEMMA NothingAnswered ==
    ASSUME NEW r \in Connection, NEW stream \in Seq(Nat), NEW q,
           r.f_pos <= Len(stream), r.answer = <<>>
    PROVE  Answers(r, r.f_pos, stream, q)
<1>1. r.f_pos \in Nat
  BY DEF Connection
<1>2. r.f_pos <= r.f_pos /\ r.f_pos + 1 > r.f_pos
  BY <1>1
<1>3. SubSeq(stream, r.f_pos + 1, r.f_pos) = <<>>
  <2>1. PICK f \in Nat : f = r.f_pos
    BY <1>1
  <2>2. SubSeq(stream, f + 1, f) = <<>>
    BY SubSeqEmpty
  <2> QED
    BY <2>1, <2>2
<1> QED
  BY <1>1, <1>2, <1>3 DEF Answers

(* A stored message that names a seek, and was received in one piece, is   *)
(* seen as that seek.                                                      *)
LEMMA SeekSeen ==
    ASSUME Inv, NEW c \in Conn, pc[c] = "store", AfterStore(c) = "send",
           conn[c].message.seek # NULL, conn[c].recv_buffer = Text(c),
           NEW s \in Scanned(conn[c].recv_buffer)
    PROVE  /\ IsSeek(s) /\ s = Text(c)
           /\ conn[c].message.seek = <<SeekTo(Fields(s)).write_cmd, SeekTo(Fields(s)).write_cmd_offset>>
<1>1. conn[c].message \in Message /\ conn[c].recv_buffer \in Seq(Nat)
  BY ConnectionOf DEF Inv, Active, Receiving
<1>2. Len(conn[c].recv_buffer) < BUFFER_SIZE
  <2>1. Len(conn[c].recv_buffer) \in Nat /\ BUFFER_SIZE \in Nat
    BY <1>1, LenProperties, ConnectionAssumption
  <2>2. ~(Len(conn[c].recv_buffer) >= BUFFER_SIZE)
    BY DEF AfterStore
  <2> QED
    BY <2>1, <2>2
<1>3. Text(c) \in Seq(Nat) /\ Names(Text(c), conn[c].message.seek)
  BY <1>1, ConnectionAssumption DEF Text
<1>4. /\ IsSeek(Text(c)) /\ 0 \notin Range(Text(c))
      /\ conn[c].message.seek = <<SeekTo(Fields(Text(c))).write_cmd, SeekTo(Fields(Text(c))).write_cmd_offset>>
  BY <1>3, NamesSeek
<1>5. s = Text(c)
  BY <1>1, <1>2, <1>4, ScannedSeq
<1> QED
  BY <1>4, <1>5

(* A plain message has no seek in it, wherever it is split.                *)
LEMMA PlainSeen ==
    ASSUME Inv, NEW c \in Conn, pc[c] = "store", PlainMessage(conn[c].message),
           NEW s \in Scanned(conn[c].recv_buffer)
    PROVE  ~IsSeek(s)
<1> DEFINE b == conn[c].recv_buffer
           t == Text(c)
           k == conn[c].received
           n == Len(b)
           d == k - n
<1>1. /\ conn[c].message \in Message /\ b \in Seq(Nat) /\ n \in Nat /\ k \in Nat
      /\ k <= Len(t) /\ n <= k /\ b = SubSeq(t, d + 1, k)
  BY ConnectionOf, LenProperties DEF Inv, Active, Receiving, Text
<1>2. t \in Seq(Nat) /\ Len(t) \in Nat /\ DOMAIN t = 1..Len(t)
  BY <1>1, ConnectionAssumption, LenProperties DEF Text
<1> SUFFICES ASSUME IsSeek(s) PROVE FALSE
  OBVIOUS
<1>3. PICK i \in 1..n : b[i] = COLON
  BY <1>1, NoColonNoSeek
<1>4. COLON \notin {t[j] : j \in 1..Len(t)}
  BY <1>2 DEF PlainMessage, Range, Text
<1> HIDE DEF t, k, n
<1>5. d \in Nat /\ d + n = k /\ d + n <= Len(t) /\ d + i \in 1..Len(t)
  BY <1>1, <1>2
<1> HIDE DEF b
<1>6. b = SubSeq(t, d + 1, d + n)
  BY <1>1, <1>5
<1> HIDE DEF d
<1>7. b[i] = t[d + i]
  BY <1>2, <1>1, <1>5, <1>6, PartFacts
<1> QED
  BY <1>3, <1>4, <1>5, <1>7

(* The piece of a plain line that is stored joins those stored before, and *)
(* the last one completes the command.                                     *)
LEMMA StoreEchoes ==
    ASSUME Inv, NEW c \in Conn, Store(c), NEW l \in {"recv", "send"},
           Echoing(conn[c], "store", log, partial)
    PROVE  Echoing(conn[c], l, log', partial')
<1> DEFINE r == conn[c]
           b == conn[c].recv_buffer
           t == conn[c].message.text
           k == conn[c].received
           n == Len(b)
           d == k - n
<1> SUFFICES ASSUME PlainMessage(r.message), IsLine(t)
             PROVE  IF k < Len(t) THEN EndsWith(partial', First(t, k))
                    ELSE EndsWith(FlattenSeq(log'), t)
  BY DEF Echoing, Written
<1>1. /\ r.message \in Message /\ b \in Seq(Nat) /\ b # <<>> /\ n \in Nat /\ k \in Nat
      /\ k <= Len(t) /\ n <= k /\ b = SubSeq(t, d + 1, k)
  BY ConnectionOf, LenProperties DEF Store, At, Inv, Active, Receiving
<1>2. t \in Seq(Nat) /\ Len(t) \in Nat
  BY <1>1, ConnectionAssumption, LenProperties
<1>3. IF d < Len(t) THEN EndsWith(partial, First(t, d)) ELSE EndsWith(FlattenSeq(log), t)
  BY DEF Echoing, Written
<1>4. Device!Write(FirstLine(b)) /\ DeviceInv
  BY DEF Store, Inv
<1>5. partial \in Seq(Nat)
  BY DEF Inv, TypeOK
<1>6. n # 0
  BY <1>1, EmptySeq
<1> HIDE DEF t, k, n
<1>7. d \in Nat /\ d + n = k /\ d + n <= Len(t) /\ d < Len(t) /\ n > 0
  BY <1>1, <1>2, <1>6
<1> HIDE DEF b, d
<1>8. b = SubSeq(t, d + 1, d + n)
  BY <1>1, <1>7
<1>9. NewlineLast(b) /\ (b[n] = NL <=> k = Len(t)) /\ First(t, d) \o b = First(t, k)
  <2>1. /\ NewlineLast(SubSeq(t, d + 1, d + n))
        /\ SubSeq(t, d + 1, d + n)[n] = NL <=> d + n = Len(t)
        /\ First(t, d) \o SubSeq(t, d + 1, d + n) = First(t, d + n)
    <3>1. IsLine(t) /\ t \in Seq(Nat) /\ d \in Nat /\ n \in Nat /\ n > 0 /\ d + n <= Len(t)
      BY <1>1, <1>2, <1>7
    <3> QED
      BY <3>1, LinePiece
  <2> QED
    BY <1>7, <1>8, <2>1
<1>10. /\ b[n] = NL => \E kept \in Seq(Seq(Nat)) : log' = Append(kept, partial \o b)
       /\ b[n] # NL => partial' = partial \o b
  <2>1. FirstLine(b) = b
    BY <1>1, <1>9, FirstLineFacts
  <2> QED
    BY <1>1, <1>4, <1>9, <2>1, WriteOfPiece DEF n
<1>11. d \in 0..Len(t)
  BY <1>2, <1>7
<1>12. First(t, d) \in Seq(Nat) /\ EndsWith(partial, First(t, d))
  BY <1>2, <1>3, <1>7, <1>11, FirstFacts
<1>13. EndsWith(partial \o b, First(t, k)) /\ partial \o b \in Seq(Nat)
  <2>1. EndsWith(partial \o b, First(t, d) \o b)
    BY <1>1, <1>5, <1>12, EndsWithMore
  <2>2. partial \o b \in Seq(Nat)
    BY <1>1, <1>5, ConcatProperties
  <2> QED
    BY <1>9, <2>1, <2>2
<1>14. CASE k = Len(t)
  <2>1. PICK kept \in Seq(Seq(Nat)) : log' = Append(kept, partial \o b)
    BY <1>9, <1>10, <1>14
  <2>2. FlattenSeq(log') = FlattenSeq(kept) \o (partial \o b) /\ FlattenSeq(kept) \in Seq(Nat)
    BY <1>13, <2>1, FlattenAppend, FlattenType
  <2>3. First(t, k) = t
    BY <1>2, <1>14, SubSeqFull DEF First
  <2>4. EndsWith(FlattenSeq(log'), t)
    BY <1>2, <1>13, <2>2, <2>3, EndsWithMore
  <2> QED
    BY <1>2, <1>14, <2>4
<1>15. CASE k # Len(t)
  <2>0. k < Len(t)
    BY <1>1, <1>2, <1>15
  <2>1. k < Len(t) /\ EndsWith(partial', First(t, k))
    BY <1>9, <1>10, <1>13, <1>15, <2>0
  <2> QED
    BY <2>1
<1> QED
  BY <1>14, <1>15

LEMMA StorePromise == ASSUME Inv, AnswerInv, NEW c \in Conn, Store(c) PROVE AnswerInv'
<1>1. PICK r \in Connection : r = conn[c]
  BY ConnectionOf
<1> DEFINE l == AfterStore(c)
<1>2. /\ pc[c] = "store" /\ "store" \in Active /\ pc' = [pc EXCEPT ![c] = l]
      /\ Receiving(r, "store")
  BY <1>1 DEF Store, At, Goto, Active, Inv
<1>3. l \in {"recv", "send"} /\ l \in Labels
  BY DEF AfterStore, Labels
<1>4. Promise(r, "store", log, partial, quit)
  BY <1>1, <1>2 DEF AnswerInv
<1>5. Echoing(r, l, log', partial')
  <2> HIDE DEF l
  <2> QED
    BY <1>1, <1>3, <1>4, StoreEchoes DEF Promise
<1>6. conn' = [conn EXCEPT ![c] = r]
  BY <1>1, SameConnection DEF Store
<1>7. Answering(r, l, log', quit')
  <2>1. FlattenSeq(log') \in Seq(Nat) /\ Len(FlattenSeq(log')) \in Nat
    <3>1. log' \in Seq(Seq(Nat))
      BY StoreInv DEF Inv, TypeOK
    <3> QED
      BY <3>1, FlattenType, LenProperties
  <2>2. ASSUME PlainMessage(r.message) PROVE r.f_pos = 0 /\ Answers(r, 0, FlattenSeq(log'), quit')
    <3>1. r.f_pos = 0 /\ r.answer = <<>>
      BY <1>2, <1>4, <2>2 DEF Promise, Answering, Receiving
    <3>2. r.f_pos <= Len(FlattenSeq(log'))
      BY <2>1, <3>1
    <3>3. Answers(r, r.f_pos, FlattenSeq(log'), quit')
      BY <2>1, <3>1, <3>2, NothingAnswered
    <3> QED
      BY <3>1, <3>3
  <2>3. ~(l = "send" /\ r.message.seek # NULL /\ r.recv_buffer = r.message.text)
    BY <1>1, <1>2, SeekSeen DEF Store, NoSeek, Text
  <2> QED
    BY <2>2, <2>3 DEF Answering
<1> HIDE DEF l
<1> QED
  BY <1>2, <1>3, <1>5, <1>6, <1>7, PromiseStep DEF Promise

LEMMA SeekPromise == ASSUME Inv, AnswerInv, NEW c \in Conn, Seek(c) PROVE AnswerInv'
<1>1. PICK s \in Scanned(conn[c].recv_buffer), x \in Nat, y \in Nat, r \in Connection :
              /\ IsSeek(s) /\ s \in Seq(Nat)
              /\ conn' = [conn EXCEPT ![c] = r]
              /\ r.message = conn[c].message /\ r.received = conn[c].received
              /\ r.recv_buffer = conn[c].recv_buffer /\ r.answer = conn[c].answer
              /\ \/ Unterminated(Fields(s))
                 \/ SeekTo(Fields(s)) = [write_cmd |-> x, write_cmd_offset |-> y]
              /\ r.f_pos = EndOf(x) + y
              /\ r.f_pos <= Len(Stream)
  BY SeekStep
<1> DEFINE l == AfterStore(c)
<1>2. /\ pc[c] = "store" /\ "store" \in Active /\ pc' = [pc EXCEPT ![c] = l]
      /\ UNCHANGED <<log, partial, quit>> /\ Receiving(conn[c], "store")
  BY DEF Seek, At, Goto, device, Active, Inv
<1>3. l \in Labels
  BY DEF AfterStore, Labels
<1>4. ~PlainMessage(r.message)
  BY <1>1, <1>2, PlainSeen
<1>5. ASSUME l = "send", r.message.seek # NULL, r.recv_buffer = r.message.text,
             ~Unterminated(Fields(r.message.text))
      PROVE  Answers(r, Start(r.message.seek, log), FlattenSeq(log), quit)
  <2>0. /\ s = r.message.text
        /\ r.message.seek = <<SeekTo(Fields(s)).write_cmd, SeekTo(Fields(s)).write_cmd_offset>>
    BY <1>1, <1>2, <1>5, SeekSeen DEF Text
  <2>1. r.message.seek = <<x, y>>
    BY <1>1, <1>5, <2>0
  <2>2. Start(r.message.seek, log) = r.f_pos
    BY <1>1, <2>1 DEF Start, EndOf
  <2>3. r.answer = <<>>
    BY <1>1, <1>2 DEF Receiving
  <2>4. Stream \in Seq(Nat)
    BY StreamFacts DEF Inv
  <2>p. r.f_pos <= Len(Stream)
    BY <1>1
  <2>5. Answers(r, r.f_pos, Stream, quit)
    BY <2>3, <2>4, <2>p, NothingAnswered
  <2> QED
    BY <2>2, <2>5 DEF Stream
<1> HIDE DEF l
<1>6. Promise(r, l, log, partial, quit)
  BY <1>4, <1>5 DEF Promise, Answering, Echoing
<1> QED
  BY <1>1, <1>2, <1>3, <1>6, PromiseStep

(* A read of the next bytes, sent whole, lengthens the answer by them.     *)
LEMMA AnswersOn ==
    ASSUME NEW r \in Connection, NEW r2 \in Connection, NEW stream \in Seq(Nat), NEW from,
           NEW n \in Nat, NEW q, NEW q2 \in BOOLEAN, q \in BOOLEAN, ~q2 => ~q,
           Answers(r, from, stream, q),
           r.f_pos + n <= Len(stream), r2.f_pos = r.f_pos + n,
           ~q2 => r2.answer = r.answer \o SubSeq(stream, r.f_pos + 1, r.f_pos + n)
    PROVE  Answers(r2, from, stream, q2)
<1>1. r.f_pos \in Nat /\ Len(stream) \in Nat
  BY LenProperties DEF Connection
<1>2. PICK f \in Nat, g \in Nat : f = r.f_pos /\ g = r.f_pos + n
  BY <1>1
<1>3. from \in Nat /\ from <= f /\ f <= g /\ from <= g /\ g <= Len(stream) /\ r2.f_pos = g
  BY <1>1, <1>2 DEF Answers
<1>4. ASSUME ~q2 PROVE r2.answer = SubSeq(stream, from + 1, g)
  <2>1. r.answer = SubSeq(stream, from + 1, f)
    BY <1>2, <1>4 DEF Answers
  <2>2. r2.answer = r.answer \o SubSeq(stream, f + 1, g)
    BY <1>2, <1>4
  <2>3. PICK m \in Nat : m = from + 1
    BY <1>3
  <2>4. m \in 1 .. Len(stream) + 1 /\ f \in m - 1 .. Len(stream) /\ g \in f .. Len(stream)
    BY <1>1, <1>3, <2>3
  <2>5. SubSeq(stream, m, f) \o SubSeq(stream, f + 1, g) = SubSeq(stream, m, g)
    BY <2>4, ConcatAdjacentSubSeq
  <2> QED
    BY <2>1, <2>2, <2>3, <2>5
<1> QED
  BY <1>3, <1>4 DEF Answers

LEMMA TransferPromise ==
    ASSUME Inv, AnswerInv, NEW c \in Conn, pc[c] = "send",
           NEW sent \in 0..Len(Read(conn[c].f_pos)), Read(conn[c].f_pos) # <<>>,
           Transfer(c, Read(conn[c].f_pos), sent),
           UNCHANGED <<device, file_mutex, pc>>, quit' \in BOOLEAN,
           ~quit' => ~quit /\ sent = Len(Read(conn[c].f_pos))
    PROVE  AnswerInv'
<1> DEFINE data == Read(conn[c].f_pos)
<1>0. PICK n \in Nat : n = Len(data)
  BY ConnectionOf, ReadFacts DEF Inv
<1>1. /\ data \in Seq(Nat) /\ conn[c].f_pos + n <= Len(Stream)
      /\ data = SubSeq(Stream, conn[c].f_pos + 1, conn[c].f_pos + n)
  BY <1>0, ConnectionOf, ReadFacts DEF Inv
<1>2. sent \in Nat /\ sent <= Len(data)
  BY <1>0
<1>3. Transfer(c, data, sent) /\ (~quit' => sent = Len(data))
  OBVIOUS
<1> HIDE DEF data
<1>4. PICK r \in Connection :
              /\ conn' = [conn EXCEPT ![c] = r]
              /\ r.message = conn[c].message /\ r.received = conn[c].received
              /\ r.recv_buffer = conn[c].recv_buffer
              /\ r.f_pos = conn[c].f_pos + Len(data)
              /\ r.answer = conn[c].answer \o SubSeq(data, 1, sent)
  BY <1>1, <1>2, <1>3, TransferStep
<1>5. PICK o \in Connection : o = conn[c]
  BY ConnectionOf
<1>6. Promise(o, "send", log, partial, quit) /\ "send" \in Active /\ "send" \in Labels
  BY <1>5 DEF AnswerInv, Active, Labels
<1>7. ~quit' => r.answer = o.answer \o SubSeq(Stream, o.f_pos + 1, o.f_pos + n)
  <2>1. SubSeq(data, 1, Len(data)) = data
    BY <1>1, SubSeqFull
  <2> QED
    BY <1>1, <1>3, <1>4, <1>5, <2>1
<1>8. ASSUME NEW from, Answers(o, from, Stream, quit) PROVE Answers(r, from, Stream, quit')
  <2>1. Stream \in Seq(Nat) /\ quit \in BOOLEAN
    BY StreamFacts DEF Inv, TypeOK
  <2>2. o.f_pos + n <= Len(Stream) /\ r.f_pos = o.f_pos + n
    BY <1>0, <1>1, <1>4, <1>5
  <2> QED
    BY <1>7, <1>8, <2>1, <2>2, AnswersOn
<1>9. Answering(r, "send", log, quit')
  <2>1. Stream = FlattenSeq(log)
    BY DEF Stream
  <2>2. PlainMessage(r.message) => Answers(r, 0, Stream, quit')
    BY <1>4, <1>5, <1>6, <1>8, <2>1 DEF Promise, Answering
  <2>3. /\ r.message.seek # NULL /\ ~Unterminated(Fields(r.message.text))
        /\ r.recv_buffer = r.message.text
        => Answers(r, Start(r.message.seek, log), Stream, quit')
    BY <1>4, <1>5, <1>6, <1>8, <2>1 DEF Promise, Answering
  <2> QED
    BY <2>1, <2>2, <2>3 DEF Answering
<1>10. Echoing(r, "send", log, partial)
  BY <1>4, <1>5, <1>6 DEF Promise, Echoing, Written
<1>11. pc' = [pc EXCEPT ![c] = "send"] /\ log' = log /\ partial' = partial
  BY DEF Inv, TypeOK, device
<1> QED
  BY <1>4, <1>6, <1>9, <1>10, <1>11, PromiseStep DEF Promise

LEMMA SendPromise == ASSUME Inv, AnswerInv, NEW c \in Conn, Send(c) PROVE AnswerInv'
<1> DEFINE data == Read(conn[c].f_pos)
<1>1. pc[c] = "send" /\ pc[c] \in Active /\ UNCHANGED device /\ quit' = quit /\ quit' \in BOOLEAN
  BY DEF Send, At, Active, Inv, TypeOK
<1>2. CASE ~Ends(data) /\ Transfer(c, data, Len(data)) /\ UNCHANGED <<file_mutex, pc>>
  <2>1. Len(data) \in 0..Len(data)
    BY ConnectionOf, ReadFacts DEF Inv
  <2>2. data # <<>>
    BY <1>2 DEF Ends
  <2> QED
    BY <1>1, <1>2, <2>1, <2>2, TransferPromise
<1>3. CASE Ends(data) /\ Leave(c, "done")
  BY <1>1, <1>3, LeavePromise
<1> QED
  BY <1>2, <1>3 DEF Send

LEMMA SendInterruptedPromise ==
    ASSUME Inv, AnswerInv, NEW c \in Conn, SendInterrupted(c) PROVE AnswerInv'
<1> DEFINE data == Read(conn[c].f_pos)
<1>1. PICK sent \in 1 .. Len(data) - 1 : Transfer(c, data, sent)
  BY DEF SendInterrupted
<1>2. sent \in 0..Len(data) /\ Len(data) # 0
  <2>1. Len(data) \in Nat
    BY ConnectionOf, ReadFacts DEF Inv
  <2> HIDE DEF data
  <2> QED
    BY <2>1
<1>3. data # <<>>
  BY <1>2, EmptySeq
<1>4. /\ pc[c] = "send" /\ UNCHANGED <<device, file_mutex, pc>> /\ quit' = TRUE
  BY DEF SendInterrupted, At
<1> QED
  BY <1>1, <1>2, <1>3, <1>4, TransferPromise

LEMMA ClientClosesPromise ==
    ASSUME Inv, AnswerInv, NEW c \in Conn, ClientCloses(c) PROVE AnswerInv'
<1> DEFINE r == Closed(conn[c])
<1>1. conn[c] \in Connection /\ c \in DOMAIN conn
  BY ConnectionOf DEF Inv, TypeOK
<1>2. conn' = [conn EXCEPT ![c] = r]
  BY <1>1, Zenon DEF ClientCloses, Closed
<1>3. /\ r \in Connection
      /\ r.message = conn[c].message /\ r.received = conn[c].received
      /\ r.recv_buffer = conn[c].recv_buffer /\ r.f_pos = conn[c].f_pos
  BY <1>1, ClosedFields
<1> HIDE DEF r
<1>4. /\ pc[c] = "recv" /\ "recv" \in Active /\ "recv" \in Labels
      /\ UNCHANGED <<log, partial, quit>> /\ pc' = [pc EXCEPT ![c] = "recv"]
  BY DEF ClientCloses, At, Active, Labels, Inv, TypeOK, device
<1>5. Promise(conn[c], "recv", log, partial, quit)
  BY <1>4 DEF AnswerInv
<1>6. Answering(r, "recv", log, quit) /\ Echoing(r, "recv", log, partial)
  BY <1>3, <1>5 DEF Promise, Answering, Echoing, Written
<1> QED
  BY <1>2, <1>3, <1>4, <1>6, PromiseStep DEF Promise

LEMMA NextPromise == Inv /\ AnswerInv /\ [Next]_vars => AnswerInv'
<1> SUFFICES ASSUME Inv, AnswerInv, [Next]_vars PROVE AnswerInv'
  OBVIOUS
<1>1. ASSUME NEW c \in Conn, Thread(c) PROVE AnswerInv'
  <2>1. CASE RecvClosed(c)
    BY <2>1, LeavePromise DEF RecvClosed, At, Active
  <2>2. CASE StoreFails(c)
    BY <2>2, LeavePromise DEF StoreFails, At, Active
  <2>3. CASE SendFails(c)
    BY <2>3, LeavePromise DEF SendFails, At, Active
  <2>4. CASE Overrun(c)
    BY <2>4, OverrunStep DEF AnswerInv, Active
  <2> QED
    BY <1>1, <2>1, <2>2, <2>3, <2>4, BeginPromise, RecvPromise, StorePromise, SeekPromise, SendPromise
       DEF Thread
<1>2. ASSUME NEW c \in Conn, RecvInterrupted(c) PROVE AnswerInv'
  BY <1>2, LeavePromise DEF RecvInterrupted, At, Active
<1>3. CASE UNCHANGED vars
  BY <1>3 DEF vars, device, AnswerInv
<1> QED
  BY <1>1, <1>2, <1>3, SendInterruptedPromise, ClientClosesPromise DEF Next

(* Only a read of nothing finishes an answer.                              *)
LEMMA AnsweredAtEnd ==
    ASSUME Inv, [Next]_vars, NEW c \in Conn, Answered(c)
    PROVE  Read(conn[c].f_pos) = <<>>
<1>1. pc \in [Conn -> Labels] /\ pc[c] = "send" /\ pc'[c] = "done"
  BY DEF Inv, TypeOK, Labels, Answered, At
<1>2. PICK d \in Conn : Thread(d) \/ RecvInterrupted(d) \/ SendInterrupted(d) \/ ClientCloses(d)
  BY <1>1 DEF Next, vars
<1>3. pc'[c] # pc[c]
  BY <1>1
<1>4. ASSUME NEW l, pc' = [pc EXCEPT ![d] = l] PROVE d = c /\ l = "done"
  BY <1>1, <1>4
<1>5. CASE Send(d)
  <2>1. Ends(Read(conn[d].f_pos)) /\ Leave(d, "done")
    BY <1>3, <1>5 DEF Send
  <2> QED
    BY <1>4, <2>1 DEF Leave, Goto, Ends
<1>6. ~(SendInterrupted(d) \/ ClientCloses(d))
  BY <1>3 DEF SendInterrupted, ClientCloses
<1>7. ~(Begin(d) \/ Recv(d) \/ RecvClosed(d) \/ StoreFails(d) \/ SendFails(d) \/ RecvInterrupted(d))
  BY <1>4 DEF Begin, Recv, RecvClosed, StoreFails, SendFails, RecvInterrupted, Leave, Goto
<1>8. ~(Store(d) \/ Seek(d))
  BY <1>4 DEF Store, Seek, AfterStore, Goto
<1>9. ~Overrun(d)
  BY <1>1, OverrunStep
<1> QED
  BY <1>2, <1>5, <1>6, <1>7, <1>8, <1>9 DEF Thread

LEMMA AnswerComplete ==
    ASSUME Inv, [Next]_vars, NEW c \in Conn, Answered(c), NEW from,
           Answers(conn[c], from, Stream, quit)
    PROVE  conn[c].answer = SubSeq(Stream, from + 1, Len(Stream))
<1>1. conn[c].f_pos \in Nat /\ Stream \in Seq(Nat) /\ Len(Stream) \in Nat /\ ~quit
  BY ConnectionOf, StreamFacts DEF Inv, Answered
<1>2. Len(Stream) <= conn[c].f_pos
  BY <1>1, AnsweredAtEnd, ReadFacts DEF Inv
<1>3. conn[c].f_pos = Len(Stream)
  BY <1>1, <1>2 DEF Answers
<1> QED
  BY <1>1, <1>3 DEF Answers

LEMMA AnswersRestStep ==
    ASSUME Inv, AnswerInv, [Next]_vars, NEW c \in Conn PROVE AnswersRest(c)
<1> SUFFICES ASSUME Answered(c) PROVE AnswersRest(c)
  BY DEF AnswersRest
<1>1. Answering(conn[c], "send", log, quit)
  BY DEF AnswerInv, Promise, Answered, At, Active
<1>2. Stream = FlattenSeq(log) /\ Stream \in Seq(Nat)
  BY StreamFacts DEF Stream, Inv
<1>3. ASSUME Plain(c) PROVE conn[c].answer = Stream
  <2>1. Answers(conn[c], 0, Stream, quit)
    BY <1>1, <1>2, <1>3 DEF Answering, PlainMessage, Plain, Text
  <2>2. conn[c].answer = SubSeq(Stream, 0 + 1, Len(Stream))
    BY <2>1, AnswerComplete
  <2>3. SubSeq(Stream, 1, Len(Stream)) = Stream
    BY <1>2, SubSeqFull
  <2> QED
    BY <2>2, <2>3
<1>4. ASSUME conn[c].message.seek # NULL, conn[c].recv_buffer = Text(c), ~Unterminated(Fields(Text(c)))
      PROVE  conn[c].answer = SubSeq(Stream, From(c) + 1, Len(Stream))
  <2>1. Answers(conn[c], From(c), Stream, quit)
    BY <1>1, <1>2, <1>4 DEF Answering, Start, From, EndOf, Text
  <2> QED
    BY <2>1, AnswerComplete
<1> QED
  BY <1>3, <1>4 DEF AnswersRest

LEMMA EndsWithSuffix ==
    ASSUME NEW x \in Seq(Nat), NEW t \in Seq(Nat) PROVE IsSuffix(t, x \o t)
<1> DEFINE s == x \o t
           n == Len(t)
           m == Len(s)
           u == Reverse(t)
           v == Reverse(s)
<1>1. /\ s \in Seq(Nat) /\ m = Len(x) + n /\ n \in Nat /\ Len(x) \in Nat /\ m \in Nat
      /\ \A i \in 1 .. Len(x) + n : s[i] = IF i <= Len(x) THEN x[i] ELSE t[i - Len(x)]
  BY ConcatProperties, LenProperties
<1>2. /\ u \in Seq(Nat) /\ Len(u) = n /\ \A i \in 1..n : u[i] = t[(n - i) + 1]
  <2>1. \A i \in 1..n : t[(n - i) + 1] \in Nat
    BY <1>1, ElementOfSeq
  <2>2. u = [i \in 1..n |-> t[(n - i) + 1]]
    BY DEF Reverse
  <2> HIDE DEF u, n
  <2>3. u \in [1..n -> Nat]
    BY <2>1, <2>2
  <2> QED
    BY <1>1, <2>2, <2>3
<1>3. /\ v \in Seq(Nat) /\ Len(v) = m /\ \A i \in 1..m : v[i] = s[(m - i) + 1]
  <2>0. s \in Seq(Nat)
    BY <1>1
  <2> HIDE DEF s
  <2>1. \A i \in 1..m : s[(m - i) + 1] \in Nat
    BY <1>1, <2>0, ElementOfSeq
  <2>2. v = [i \in 1..m |-> s[(m - i) + 1]]
    BY DEF Reverse
  <2>m. m \in Nat
    BY <1>1
  <2> HIDE DEF v, m
  <2>3. v \in [1..m -> Nat]
    BY <2>1, <2>2
  <2> QED
    BY <2>m, <2>2, <2>3
<1> HIDE DEF s, n, m, u, v
<1>4. \A i \in 1..n : u[i] = v[i]
  <2> SUFFICES ASSUME NEW i \in 1..n PROVE u[i] = v[i]
    OBVIOUS
  <2> DEFINE k == (m - i) + 1
             e == Len(x)
  <2>1. e \in Nat /\ n \in Nat /\ m = e + n
    BY <1>1
  <2> HIDE DEF e
  <2>2. k \in 1 .. e + n /\ ~(k <= e) /\ k - e = (n - i) + 1 /\ i \in 1..m
    BY <2>1
  <2> HIDE DEF k
  <2>3. s[k] = t[k - e]
    BY <1>1, <2>2 DEF e
  <2> QED
    BY <1>2, <1>3, <2>2, <2>3 DEF k
<1>5. n <= m
  BY <1>1
<1>6. SubSeq(u, 1, n) = SubSeq(v, 1, n)
  <2>0. PICK z \in Nat : z = 0
    OBVIOUS
  <2>n. n \in Nat
    BY <1>1
  <2>1. SameAt(u, z, v, z, n)
    BY <1>4, <2>0 DEF SameAt
  <2>2. z + n <= Len(u) /\ z + n <= Len(v) /\ z + n = n /\ z + 1 = 1
    BY <1>1, <1>2, <1>3, <1>5, <2>0
  <2>3. SubSeq(u, z + 1, z + n) = SubSeq(v, z + 1, z + n)
    <3>1. u \in Seq(Nat) /\ v \in Seq(Nat)
      BY <1>2, <1>3
    <3>2. z + n <= Len(u) /\ z + n <= Len(v)
      BY <2>2
    <3> QED
      BY <2>n, <2>1, <3>1, <3>2, SameParts, SMTT(30)
  <2> QED
    BY <2>2, <2>3
<1> QED
  BY <1>2, <1>3, <1>5, <1>6 DEF IsSuffix, IsPrefix, u, v, s

LEMMA EchoesLineStep ==
    ASSUME Inv, AnswerInv, [Next]_vars, NEW c \in Conn PROVE EchoesLine(c)
<1> SUFFICES ASSUME Answered(c), Plain(c), IsLine(Text(c)), conn[c].received = Len(Text(c))
             PROVE  IsSuffix(Text(c), conn[c].answer)
  BY DEF EchoesLine
<1>1. conn[c].answer = Stream
  BY AnswersRestStep DEF AnswersRest
<1>2. /\ Echoing(conn[c], "send", log, partial) /\ Text(c) \in Seq(Nat)
  BY ConnectionAssumption DEF AnswerInv, Promise, Answered, At, Active, Inv, Receiving, Text
<1>3. ~(Len(Text(c)) < Len(Text(c)))
  BY <1>2, LenProperties
<1>4. EndsWith(Stream, Text(c))
  BY <1>2, <1>3 DEF Echoing, Written, Plain, PlainMessage, Text, Stream
<1>5. PICK x \in Seq(Nat) : Stream = x \o Text(c)
  BY <1>4 DEF EndsWith
<1> QED
  BY <1>1, <1>2, <1>5, EndsWithSuffix

LEMMA InitPromise == Init => AnswerInv
BY DEF Init, AnswerInv, Active

(* A signal apart, send_messages sends the log to its end: all of it, or   *)
(* from the byte that the seek command asked for.                          *)
THEOREM AnswerIsRestOfLogHolds == Spec => AnswerIsRestOfLog
<1>1. Inv /\ AnswerInv /\ [Next]_vars => AnswerInv'
  BY NextPromise
<1>2. Inv /\ AnswerInv /\ [Next]_vars => [\A c \in Conn : AnswersRest(c)]_vars
  BY AnswersRestStep
<1> QED
  BY <1>1, <1>2, InitPromise, ConnectionInvariance, PTL DEF Spec, AnswerIsRestOfLog

(* What recv_messages stored piece by piece, up to the newline, is the end *)
(* of what send_messages sends: file_mutex is held from the first piece to *)
(* the last byte of the answer.                                            *)
THEOREM EchoesOwnLineHolds == Spec => EchoesOwnLine
<1>1. Inv /\ AnswerInv /\ [Next]_vars => AnswerInv'
  BY NextPromise
<1>2. Inv /\ AnswerInv /\ [Next]_vars => [\A c \in Conn : EchoesLine(c)]_vars
  BY EchoesLineStep
<1> QED
  BY <1>1, <1>2, InitPromise, ConnectionInvariance, PTL DEF Spec, EchoesOwnLine
=============================================================================
