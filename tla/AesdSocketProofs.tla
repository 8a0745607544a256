-------------------------- MODULE AesdSocketProofs --------------------------
(***************************************************************************)
(* Safety of the server, for any number of connections and descriptors:    *)
(* the list of threads stays a list through insertions, removals during    *)
(* the scan and the shutdown; no thread outlives its data or the mutex;    *)
(* the device has one user.                                                *)
(***************************************************************************)
EXTENDS AesdSocket, WellFoundedInduction, TLAPS

(***************************************************************************)
(* Lists.                                                                  *)
(***************************************************************************)

(* A node is in the list if its link holds something.                      *)
Linked(h, n) == h.sle_next[n] # FREED

(* Every linked node but the first has one predecessor; ranks grow along   *)
(* the links, so that there is no cycle beside the list.                   *)
Ordered(h, rank) ==
    /\ \A n \in Conn : Linked(h, n) => n = h.slh_first \/ \E m \in Conn : h.sle_next[m] = n
    /\ \A m, n \in Conn : h.sle_next[m] = n =>
          Linked(h, n) /\ rank[m] < rank[n] /\ h.slh_first # n
    /\ \A l, m, n \in Conn : h.sle_next[l] = n /\ h.sle_next[m] = n => l = m
    /\ h.slh_first \in Conn => Linked(h, h.slh_first)
    /\ h.slh_first # FREED

Chain(h) == h \in SList /\ \E rank \in [Conn -> Nat] : Ordered(h, rank)

(* A non-empty set of numbers has a least one.                             *)
LEMMA LeastExists ==
    ASSUME NEW T \in SUBSET Nat, T # {}
    PROVE  \E x \in T : \A y \in T : x <= y
<1> DEFINE R == OpToRel(<, Nat)
<1>1. IsWellFoundedOn(R, Nat)
  BY NatLessThanWellFounded
<1>2. \A x \in T, y \in T : <<y, x>> \in R <=> y < x
  BY DEF OpToRel
<1> HIDE DEF R
<1>3. PICK x \in T : \A y \in T : <<y, x>> \notin R
  BY <1>1, WFMin
<1>4. \A y \in T : x <= y
  <2> TAKE y \in T
  <2>1. <<y, x>> \notin R
    BY <1>3
  <2>2. ~(y < x)
    BY <1>2, <2>1
  <2>3. x \in Nat /\ y \in Nat
    OBVIOUS
  <2> QED
    BY <2>2, <2>3
<1> QED
  BY <1>4

(* SLIST_INIT makes a list without nodes.                                  *)
LEMMA InitChain == Chain(SLIST_INIT) /\ \A n \in Conn : ~Linked(SLIST_INIT, n)
<1>1. SLIST_INIT \in SList /\ \A n \in Conn : ~Linked(SLIST_INIT, n)
  BY DEF SLIST_INIT, SList, Linked, FREED
<1>2. [n \in Conn |-> 0] \in [Conn -> Nat]
  OBVIOUS
<1>3. Ordered(SLIST_INIT, [n \in Conn |-> 0])
  BY ServerAssumption, <1>1 DEF Ordered, SLIST_INIT, FREED, Linked
<1> QED
  BY <1>1, <1>2, <1>3 DEF Chain

(* SLIST_EMPTY is true of no list that has a node: the one of least rank   *)
(* would have no predecessor and not be the first.                         *)
LEMMA EmptyChain ==
    ASSUME NEW h, Chain(h), SLIST_EMPTY(h), NEW n \in Conn
    PROVE  ~Linked(h, n)
<1> SUFFICES ASSUME Linked(h, n) PROVE FALSE
  OBVIOUS
<1>1. PICK rank \in [Conn -> Nat] : Ordered(h, rank)
  BY DEF Chain
<1> DEFINE T == {rank[m] : m \in {c \in Conn : Linked(h, c)}}
<1>2. T \in SUBSET Nat /\ T # {}
  OBVIOUS
<1>3. PICK x \in T : \A y \in T : x <= y
  BY <1>2, LeastExists
<1>4. PICK c \in Conn : Linked(h, c) /\ rank[c] = x
  OBVIOUS
<1>5. h.slh_first # c
  BY ServerAssumption DEF SLIST_EMPTY
<1>6. PICK m \in Conn : h.sle_next[m] = c
  BY <1>1, <1>4, <1>5 DEF Ordered
<1>7. Linked(h, m)
  BY <1>6, ServerAssumption DEF Linked, FREED
<1>8. rank[m] < rank[c]
  BY <1>1, <1>6 DEF Ordered
<1>9. x <= rank[m]
  BY <1>3, <1>7
<1> QED
  BY <1>4, <1>8, <1>9

(* SLIST_INSERT_HEAD of a new node keeps the list and adds the node.       *)
LEMMA InsertChain ==
    ASSUME NEW h, Chain(h), NEW e \in Conn, ~Linked(h, e)
    PROVE  /\ Chain(SLIST_INSERT_HEAD(h, e))
           /\ \A n \in Conn : Linked(SLIST_INSERT_HEAD(h, e), n) <=> Linked(h, n) \/ n = e
<1> DEFINE g == SLIST_INSERT_HEAD(h, e)
<1>1. PICK rank \in [Conn -> Nat] : Ordered(h, rank)
  BY DEF Chain
<1>2. h \in SList
  BY DEF Chain
<1>3. /\ g.slh_first = e
      /\ g.sle_next = [h.sle_next EXCEPT ![e] = h.slh_first]
      /\ g \in SList
  BY <1>2 DEF SLIST_INSERT_HEAD, SLIST_FIRST, SList
<1>4. \A n \in Conn : Linked(g, n) <=> Linked(h, n) \/ n = e
  BY <1>1, <1>2, <1>3 DEF Linked, Ordered, SList
<1> DEFINE r == [n \in Conn |-> IF n = e THEN 0 ELSE rank[n] + 1]
<1>5. r \in [Conn -> Nat]
  OBVIOUS
<1> HIDE DEF g
<1>6. Ordered(g, r)
  <2>1. \A n \in Conn : Linked(g, n) => n = g.slh_first \/ \E m \in Conn : g.sle_next[m] = n
    <3> TAKE n \in Conn
    <3> HAVE Linked(g, n)
    <3>1. CASE n = e
      BY <3>1, <1>3
    <3>2. CASE n # e /\ n = h.slh_first
      BY <3>2, <1>2, <1>3 DEF SList
    <3>3. CASE n # e /\ n # h.slh_first
      <4>1. PICK m \in Conn : h.sle_next[m] = n
        BY <3>3, <1>1, <1>4 DEF Ordered
      <4>2. m # e
        BY <4>1, ServerAssumption DEF Linked, FREED
      <4> QED
        BY <4>1, <4>2, <1>2, <1>3 DEF SList
    <3> QED
      BY <3>1, <3>2, <3>3
  <2>2. \A m, n \in Conn : g.sle_next[m] = n => Linked(g, n) /\ r[m] < r[n] /\ g.slh_first # n
    <3> SUFFICES ASSUME NEW m \in Conn, NEW n \in Conn, g.sle_next[m] = n
                 PROVE  Linked(g, n) /\ r[m] < r[n] /\ g.slh_first # n
      OBVIOUS
    <3>1. CASE m = e
      BY <3>1, <1>1, <1>2, <1>3, <1>4 DEF Ordered, SList
    <3>2. CASE m # e
      <4>1. h.sle_next[m] = n
        BY <3>2, <1>2, <1>3 DEF SList
      <4>2. Linked(h, n) /\ rank[m] < rank[n]
        BY <4>1, <1>1 DEF Ordered
      <4> QED
        BY <3>2, <4>2, <1>3, <1>4
    <3> QED
      BY <3>1, <3>2
  <2>3. \A l, m, n \in Conn : g.sle_next[l] = n /\ g.sle_next[m] = n => l = m
    BY <1>1, <1>2, <1>3 DEF Ordered, SList
  <2>4. Linked(g, g.slh_first) /\ g.slh_first # FREED
    BY <1>3, <1>4, ServerAssumption DEF FREED
  <2> QED
    BY <2>1, <2>2, <2>3, <2>4 DEF Ordered
<1>7. Chain(g)
  BY <1>3, <1>5, <1>6 DEF Chain
<1> QED
  BY <1>4, <1>7 DEF g

(* A list without its node e: what pointed to e points behind it.          *)
Without(h, e, g) ==
    /\ g \in SList
    /\ \A n \in Conn : g.sle_next[n] =
          IF n = e THEN FREED ELSE IF h.sle_next[n] = e THEN h.sle_next[e] ELSE h.sle_next[n]
    /\ g.slh_first = IF h.slh_first = e THEN h.sle_next[e] ELSE h.slh_first

(* Taking a node out keeps the list and the other nodes.                   *)
LEMMA WithoutChain ==
    ASSUME NEW h, NEW g, Chain(h), NEW e \in Conn, Linked(h, e), Without(h, e, g)
    PROVE  /\ Chain(g)
           /\ \A n \in Conn : Linked(g, n) <=> Linked(h, n) /\ n # e
<1>1. PICK rank \in [Conn -> Nat] : Ordered(h, rank)
  BY DEF Chain
<1>2. h.sle_next[e] # e
  BY <1>1 DEF Ordered
<1>3. \A n \in Conn : Linked(g, n) <=> Linked(h, n) /\ n # e
  BY ServerAssumption DEF Linked, Without, FREED
<1>4. Ordered(g, rank)
  <2>1. \A n \in Conn : Linked(g, n) => n = g.slh_first \/ \E m \in Conn : g.sle_next[m] = n
    <3> TAKE n \in Conn
    <3> HAVE Linked(g, n)
    <3>1. Linked(h, n) /\ n # e
      BY <1>3
    <3>2. CASE n = h.slh_first
      BY <3>1, <3>2 DEF Without
    <3>3. CASE n # h.slh_first
      <4>1. PICK m \in Conn : h.sle_next[m] = n
        BY <3>1, <3>3, <1>1 DEF Ordered
      <4>2. CASE m # e
        BY <3>1, <4>1, <4>2 DEF Without
      <4>3. CASE m = e /\ h.slh_first = e
        BY <4>1, <4>3 DEF Without
      <4>4. CASE m = e /\ h.slh_first # e
        <5>1. PICK l \in Conn : h.sle_next[l] = e
          BY <4>4, <1>1 DEF Ordered
        <5>2. l # e
          BY <5>1, <1>2
        <5> QED
          BY <4>1, <4>4, <5>1, <5>2 DEF Without
      <4> QED
        BY <4>2, <4>3, <4>4
    <3> QED
      BY <3>2, <3>3
  <2>2. \A m, n \in Conn : g.sle_next[m] = n => Linked(g, n) /\ rank[m] < rank[n] /\ g.slh_first # n
    <3> SUFFICES ASSUME NEW m \in Conn, NEW n \in Conn, g.sle_next[m] = n
                 PROVE  Linked(g, n) /\ rank[m] < rank[n] /\ g.slh_first # n
      OBVIOUS
    <3>1. m # e
      BY ServerAssumption DEF Without, FREED
    <3>2. CASE h.sle_next[m] = e
      <4>1. h.sle_next[e] = n
        BY <3>1, <3>2 DEF Without
      <4>2. Linked(h, n) /\ rank[m] < rank[e] /\ rank[e] < rank[n] /\ h.slh_first # n /\ h.slh_first # e
        BY <3>2, <4>1, <1>1 DEF Ordered
      <4>3. n # e
        BY <1>2, <4>1
      <4> QED
        BY <4>2, <4>3, <1>3 DEF Without
    <3>3. CASE h.sle_next[m] # e
      <4>1. h.sle_next[m] = n
        BY <3>1, <3>3 DEF Without
      <4>2. Linked(h, n) /\ rank[m] < rank[n] /\ h.slh_first # n
        BY <4>1, <1>1 DEF Ordered
      <4>3. h.slh_first = e => h.sle_next[e] # n
        BY <3>1, <4>1, <1>1 DEF Ordered
      <4> QED
        BY <3>3, <4>1, <4>2, <4>3, <1>3 DEF Without
    <3> QED
      BY <3>2, <3>3
  <2>3. \A l, m, n \in Conn : g.sle_next[l] = n /\ g.sle_next[m] = n => l = m
    <3> SUFFICES ASSUME NEW l \in Conn, NEW m \in Conn, NEW n \in Conn,
                        g.sle_next[l] = n, g.sle_next[m] = n
                 PROVE  l = m
      OBVIOUS
    <3>1. l # e /\ m # e
      BY ServerAssumption DEF Without, FREED
    <3> QED
      BY <3>1, <1>1 DEF Without, Ordered
  <2>4. g.slh_first \in Conn => Linked(g, g.slh_first)
    <3>1. CASE h.slh_first = e
      <4>1. g.slh_first = h.sle_next[e]
        BY <3>1 DEF Without
      <4> QED
        BY <4>1, <1>1, <1>2, <1>3 DEF Ordered
    <3>2. CASE h.slh_first # e
      BY <3>2, <1>1, <1>3 DEF Ordered, Without
    <3> QED
      BY <3>1, <3>2
  <2>5. g.slh_first # FREED
    BY <1>1 DEF Without, Ordered, Linked
  <2> QED
    BY <2>1, <2>2, <2>3, <2>4, <2>5 DEF Ordered
<1> QED
  BY <1>1, <1>3, <1>4 DEF Chain, Without

(* SLIST_REMOVE and free take out the node they are given, wherever it is. *)
LEMMA RemoveChain ==
    ASSUME NEW h, Chain(h), NEW e \in Conn, Linked(h, e)
    PROVE  Without(h, e, Freed(SLIST_REMOVE(h, e), e))
<1> DEFINE g == Freed(SLIST_REMOVE(h, e), e)
<1>1. PICK rank \in [Conn -> Nat] : Ordered(h, rank)
  BY DEF Chain
<1>2. h \in SList
  BY DEF Chain
<1>3. h.sle_next[e] # e /\ h.sle_next[e] # FREED
  BY <1>1 DEF Ordered, Linked
<1>4. CASE h.slh_first = e
  <2>1. \A n \in Conn : h.sle_next[n] # e
    BY <1>1, <1>4 DEF Ordered
  <2>2. /\ g.slh_first = h.sle_next[e]
        /\ g.sle_next = [h.sle_next EXCEPT ![e] = FREED]
        /\ g \in SList
    BY <1>2, <1>4 DEF Freed, SLIST_REMOVE, SLIST_REMOVE_HEAD, SLIST_FIRST, SLIST_NEXT, SList
  <2> QED
    BY <1>2, <1>4, <2>1, <2>2 DEF Without, SList
<1>5. CASE h.slh_first # e
  <2> DEFINE p == Predecessor(h, e)
  <2>1. p \in Conn /\ h.sle_next[p] = e
    BY <1>1, <1>5 DEF Predecessor, Ordered, SLIST_NEXT
  <2>2. \A n \in Conn : h.sle_next[n] = e => n = p
    BY <1>1, <2>1 DEF Ordered
  <2> HIDE DEF p
  <2>3. SLIST_REMOVE(h, e) = SLIST_REMOVE_AFTER(h, p)
    BY <1>5 DEF SLIST_REMOVE, SLIST_FIRST, p
  <2>4. /\ g.slh_first = h.slh_first
        /\ g.sle_next = [h.sle_next EXCEPT ![p] = h.sle_next[e], ![e] = FREED]
        /\ g \in SList
    <3> DEFINE r == SLIST_REMOVE_AFTER(h, p)
    <3>1. /\ h.slh_first \in Conn \cup {NULL, FREED}
          /\ h.sle_next \in [Conn -> Conn \cup {NULL, FREED}]
          /\ h = [slh_first |-> h.slh_first, sle_next |-> h.sle_next]
      BY <1>2 DEF SList
    <3>2. r = [h EXCEPT !.sle_next = [h.sle_next EXCEPT ![p] = h.sle_next[e]]]
      BY <2>1 DEF SLIST_REMOVE_AFTER, SLIST_NEXT
    <3>3. r = [slh_first |-> h.slh_first,
               sle_next  |-> [h.sle_next EXCEPT ![p] = h.sle_next[e]]]
      BY <3>1, <3>2
    <3> HIDE DEF r
    <3>4. g = [slh_first |-> h.slh_first,
               sle_next  |-> [h.sle_next EXCEPT ![p] = h.sle_next[e], ![e] = FREED]]
      BY <2>3, <3>3 DEF Freed, r
    <3> QED
      BY <2>1, <3>1, <3>4 DEF SList
  <2>5. p # e
    BY <1>3, <2>1
  <2>6. ASSUME NEW n \in Conn
        PROVE  g.sle_next[n] = IF n = e THEN FREED
                               ELSE IF h.sle_next[n] = e THEN h.sle_next[e] ELSE h.sle_next[n]
    <3>1. CASE n = e
      BY <1>2, <2>4, <3>1 DEF SList
    <3>2. CASE n = p
      BY <1>2, <2>1, <2>4, <2>5, <3>2 DEF SList
    <3>3. CASE n # e /\ n # p
      BY <1>2, <2>2, <2>4, <3>3 DEF SList
    <3> QED
      BY <3>1, <3>2, <3>3
  <2> HIDE DEF g
  <2>7. Without(h, e, g)
    BY <1>5, <2>4, <2>6 DEF Without
  <2> QED
    BY <2>7 DEF g
<1> QED
  BY <1>4, <1>5

(* SLIST_REMOVE_HEAD and free take out the first node.                     *)
LEMMA RemoveHeadChain ==
    ASSUME NEW h, Chain(h), NEW e \in Conn, h.slh_first = e
    PROVE  Linked(h, e) /\ Without(h, e, Freed(SLIST_REMOVE_HEAD(h), e))
<1>1. Linked(h, e)
  BY DEF Chain, Ordered
<1>2. SLIST_REMOVE(h, e) = SLIST_REMOVE_HEAD(h)
  BY DEF SLIST_REMOVE, SLIST_FIRST
<1> QED
  BY <1>1, <1>2, RemoveChain

(* The nodes a walk from the head comes to are the linked ones: the linked *)
(* nodes are closed under the links, and of the nodes outside a closed set *)
(* the one of least rank would have its predecessor inside.                *)
LEMMA ElementsOfChain ==
    ASSUME NEW h, Chain(h), NEW n \in Conn
    PROVE  n \in Elements(h) <=> Linked(h, n)
<1>1. PICK rank \in [Conn -> Nat] : Ordered(h, rank)
  BY DEF Chain
<1>2. ASSUME n \in Elements(h) PROVE Linked(h, n)
  <2> DEFINE S == {c \in Conn : Linked(h, c)}
  <2>1. FollowsLinks(h, S)
    BY <1>1 DEF FollowsLinks, Ordered, SLIST_FIRST, SLIST_NEXT
  <2>2. S \in SUBSET Conn
    OBVIOUS
  <2> HIDE DEF S
  <2>3. n \in S
    BY <1>2, <2>1, <2>2 DEF Elements
  <2> QED
    BY <2>3 DEF S
<1>3. ASSUME Linked(h, n), NEW S \in SUBSET Conn, FollowsLinks(h, S) PROVE n \in S
  <2> SUFFICES ASSUME n \notin S PROVE FALSE
    OBVIOUS
  <2> DEFINE T == {rank[m] : m \in {c \in Conn : Linked(h, c) /\ c \notin S}}
  <2>1. T \in SUBSET Nat /\ T # {}
    BY <1>3
  <2>2. PICK x \in T : \A y \in T : x <= y
    BY <2>1, LeastExists
  <2>3. PICK c \in Conn : Linked(h, c) /\ c \notin S /\ rank[c] = x
    OBVIOUS
  <2>4. h.slh_first # c
    BY <1>3, <2>3 DEF FollowsLinks, SLIST_FIRST
  <2>5. PICK m \in Conn : h.sle_next[m] = c
    BY <1>1, <2>3, <2>4 DEF Ordered
  <2>6. m \notin S
    BY <1>3, <2>3, <2>5 DEF FollowsLinks, SLIST_NEXT
  <2>7. Linked(h, m)
    BY <2>5, ServerAssumption DEF Linked, FREED
  <2>8. rank[m] < rank[c]
    BY <1>1, <2>5 DEF Ordered
  <2>9. x <= rank[m]
    BY <2>2, <2>6, <2>7
  <2> QED
    BY <2>3, <2>8, <2>9
<1> QED
  BY <1>2, <1>3 DEF Elements

(* The walk comes to each of them once.                                    *)
LEMMA ChainWalkedOnce == ASSUME NEW h, Chain(h) PROVE WalkedOnce(h)
<1>1. PICK rank \in [Conn -> Nat] : Ordered(h, rank)
  BY DEF Chain
<1> SUFFICES ASSUME NEW m \in Elements(h), NEW n \in Elements(h)
             PROVE  /\ h.sle_next[m] # h.slh_first
                    /\ h.sle_next[m] = h.sle_next[n] => m = n \/ h.sle_next[m] = NULL
  BY DEF WalkedOnce, SLIST_NEXT, SLIST_FIRST
<1>2. m \in Conn /\ n \in Conn /\ Linked(h, m)
  BY ElementsOfChain DEF Elements
<1>3. h.sle_next[m] \in Conn \cup {NULL}
  BY <1>2 DEF Chain, SList, Linked
<1>4. h.slh_first = NULL => FALSE
  BY <1>2, EmptyChain DEF SLIST_EMPTY
<1> QED
  BY <1>1, <1>2, <1>3, <1>4 DEF Ordered

(***************************************************************************)
(* The inductive invariant.                                                *)
(***************************************************************************)

Unstarted == {"main", "socket", "options", "bind", "fork", "run", "listen"}
Holding == HasDevice \cup {"open", "unlock", "fail_unlock"}

(* The list has the threads that were created and not freed; run_server's  *)
(* pointers point into it.                                                 *)
ListInv ==
    /\ Chain(head)
    /\ mpc # "killed" => \A c \in Conn :
          Linked(head, c) <=> /\ tpc[c] # "none"
                              /\ args[c] # "freed"
                              /\ ~(mpc = "insert" /\ current = c)
    /\ datap # NULL => datap \in Conn /\ Linked(head, datap)
    /\ tmp # NULL => tmp \in Conn /\ Linked(head, tmp)
    /\ mpc = "reap" => datap \in Conn /\ tmp = head.sle_next[datap]
    /\ mpc = "drain_join" => datap \in Conn /\ datap = head.slh_first
    /\ mpc \notin {"reap", "killed"} => tmp = NULL
    /\ mpc \notin {"scan", "reap", "drain_join", "killed"} => datap = NULL

(* A thread's data follows its life; the connection being accepted has no  *)
(* thread yet, or one that is not in the list yet.                         *)
ThreadInv ==
    /\ \A c \in Conn : /\ tpc[c] = "none" => args[c] \in {"none", "leaked"}
                       /\ tpc[c] # "none" => args[c] \in {"live", "freed"}
                       /\ args[c] = "freed" => tpc[c] = "exit"
                       /\ client_fd[c] = NULL => tpc[c] = "none"
    /\ mpc = "malloc" => /\ current \in Conn
                         /\ tpc[current] = "none"
                         /\ client_fd[current] # NULL
    /\ mpc = "insert" => /\ current \in Conn
                         /\ tpc[current] # "none"
                         /\ args[current] = "live"
    /\ mpc \in Unstarted => \A c \in Conn : tpc[c] = "none"

(* file_mutex exists while it can be used and is held between a thread's   *)
(* lock and unlock; an open device is the one its holder opened.           *)
LockInv ==
    /\ \A c \in Conn : tpc[c] \in Holding <=> file_mutex = c
    /\ \A k \in Fd, c \in Conn : fds[k] = Dev(c) => tpc[c] \in HasDevice /\ output_fd[c] = k
    /\ mpc \in Serving \cup {"listen"} => file_mutex # "absent"
    /\ (\E c \in Conn : tpc[c] \notin {"none", "exit"}) => file_mutex # "absent"

Inv == TypeOK /\ ListInv /\ ThreadInv /\ LockInv

(* The invariant holds when main begins.                                   *)
LEMMA InvInit == Init => Inv
<1> SUFFICES ASSUME Init PROVE Inv
  OBVIOUS
<1>1. TypeOK
  BY ServerAssumption, InitChain
     DEF Init, TypeOK, MainLabel, ThreadLabel, Chain, FREE, Fd
<1>2. ListInv
  BY InitChain DEF Init, ListInv
<1>3. ThreadInv /\ LockInv
  BY ServerAssumption
     DEF Init, ThreadInv, LockInv, Unstarted, Holding, HasDevice, UsesDevice, Serving, FREE, Dev, Fd
<1> QED
  BY <1>1, <1>2, <1>3 DEF Inv

(* The number accept and open return is a free descriptor.                 *)
LEMMA LowestFreeIsFree == ASSUME FreeFds # {} PROVE LowestFree \in Fd /\ fds[LowestFree] = FREE
<1>1. FreeFds \in SUBSET Nat
  BY ServerAssumption DEF FreeFds, Fd
<1>2. \E k \in FreeFds : \A j \in FreeFds : k <= j
  BY <1>1, LeastExists
<1>3. LowestFree \in FreeFds
  BY <1>2 DEF LowestFree
<1> QED
  BY <1>3 DEF FreeFds

(* Start-up creates no thread.                                             *)
LEMMA StartupStep == ASSUME Inv, Startup PROVE Inv'
<1>1. /\ mpc \in Unstarted
      /\ mpc' \in Unstarted \cup {"loop", "stopped"}
      /\ UNCHANGED <<quit, head, datap, tmp, current, fds, tpc, client_fd, output_fd, complete, args, peer>>
  BY DEF Startup, SetupHandlers, OpenSocket, SetOptions, Bind, Daemonize, CreateMutex, Listen,
         Unstarted, startupRest, listVars, threadVars, StopProcess
<1>2. listener' \in {"none", "open", "closed", "bound", "listening"}
  BY DEF Inv, TypeOK, Startup, SetupHandlers, OpenSocket, SetOptions, Bind, Daemonize,
         CreateMutex, Listen, StopProcess
<1>3. /\ file_mutex' \in {file_mutex, NULL}
      /\ mpc' \in {"listen", "loop"} => file_mutex' # "absent"
  BY ServerAssumption DEF Startup, SetupHandlers, OpenSocket, SetOptions, Bind, Daemonize,
         CreateMutex, Listen, StopProcess, Inv, LockInv
<1>4. TypeOK'
  BY <1>1, <1>2, <1>3 DEF Inv, TypeOK, Unstarted, MainLabel, Serving
<1>5. ListInv'
  BY <1>1 DEF Inv, ListInv, Unstarted
<1>6. ThreadInv'
  BY <1>1 DEF Inv, ThreadInv, Unstarted
<1>7. LockInv'
  <2>1. \A c \in Conn : tpc[c] = "none" /\ tpc'[c] = "none" /\ file_mutex # c /\ file_mutex' # c
    BY <1>1, <1>3, ServerAssumption
       DEF Inv, ThreadInv, LockInv, Holding, HasDevice, UsesDevice
  <2>2. mpc' \in Serving => mpc' = "loop"
    BY <1>1 DEF Serving, Unstarted
  <2> QED
    BY <1>1, <1>3, <2>1, <2>2 DEF Inv, LockInv, Holding, HasDevice, UsesDevice
<1> QED
  BY <1>4, <1>5, <1>6, <1>7 DEF Inv

(* The scan: every node is read, and finished ones are taken out.          *)
LEMMA ScanStep == ASSUME Inv, LoopHead \/ ScanNode \/ Reap \/ AcceptFails PROVE Inv'
<1> USE ServerAssumption DEF listVars, threadVars
<1>1. Chain(head) /\ head \in SList
  BY DEF Inv, ListInv, Chain
<1>2. CASE LoopHead
  <2>1. head.slh_first # NULL => head.slh_first \in Conn /\ Linked(head, head.slh_first)
    BY <1>1 DEF Chain, Ordered, SList
  <2>2. TypeOK'
    BY <1>2, <2>1 DEF LoopHead, Inv, TypeOK, MainLabel, Serving, SLIST_FIRST
  <2>3. ListInv'
    BY <1>2, <2>1 DEF LoopHead, Inv, ListInv, SLIST_FIRST
  <2>4. ThreadInv' /\ LockInv'
    BY <1>2 DEF LoopHead, Inv, ThreadInv, LockInv, Unstarted, Serving, Holding, HasDevice, UsesDevice
  <2> QED
    BY <2>2, <2>3, <2>4 DEF Inv
<1>3. CASE ScanNode
  <2>1. datap \in Conn /\ Linked(head, datap) /\ tmp = NULL
    BY <1>3 DEF ScanNode, Inv, ListInv
  <2>2. head.sle_next[datap] # NULL =>
          head.sle_next[datap] \in Conn /\ Linked(head, head.sle_next[datap])
    BY <1>1, <2>1 DEF Chain, Ordered, SList, Linked
  <2>3. TypeOK'
    BY <1>3, <2>1, <2>2 DEF ScanNode, Inv, TypeOK, MainLabel, Serving, SLIST_NEXT
  <2>4. ListInv'
    BY <1>3, <2>1, <2>2 DEF ScanNode, Inv, ListInv, SLIST_NEXT
  <2>5. ThreadInv' /\ LockInv'
    BY <1>3 DEF ScanNode, Inv, ThreadInv, LockInv, Unstarted, Serving, Holding, HasDevice, UsesDevice
  <2> QED
    BY <2>3, <2>4, <2>5 DEF Inv
<1>4. CASE Reap
  <2>1. datap \in Conn /\ Linked(head, datap) /\ tmp = head.sle_next[datap] /\ tpc[datap] = "exit"
    BY <1>4 DEF Reap, Joinable, Inv, ListInv
  <2>2. Without(head, datap, head')
    BY <1>1, <1>4, <2>1, RemoveChain DEF Reap
  <2>3. Chain(head') /\ \A n \in Conn : Linked(head', n) <=> Linked(head, n) /\ n # datap
    BY <1>1, <2>1, <2>2, WithoutChain
  <2>4. tmp # datap
    BY <1>1, <2>1 DEF Chain, Ordered
  <2>5. TypeOK'
    BY <1>4, <2>1, <2>3 DEF Reap, Inv, TypeOK, MainLabel, Serving, Chain
  <2>6. ListInv'
    BY <1>4, <2>1, <2>3, <2>4 DEF Reap, Inv, ListInv, TypeOK
  <2>7. ThreadInv' /\ LockInv'
    BY <1>4, <2>1 DEF Reap, Inv, TypeOK, ThreadInv, LockInv, Unstarted, Serving, Holding, HasDevice, UsesDevice
  <2> QED
    BY <2>5, <2>6, <2>7 DEF Inv
<1>5. CASE AcceptFails
  <2>1. TypeOK'
    BY <1>5 DEF AcceptFails, Inv, TypeOK, MainLabel, Serving
  <2>2. ListInv'
    BY <1>5 DEF AcceptFails, Inv, ListInv
  <2>3. ThreadInv' /\ LockInv'
    BY <1>5 DEF AcceptFails, Inv, ThreadInv, LockInv, Unstarted, Serving, Holding, HasDevice, UsesDevice
  <2> QED
    BY <2>1, <2>2, <2>3 DEF Inv
<1> QED
  BY <1>2, <1>3, <1>4, <1>5

(* A connection is accepted, its thread created and inserted.              *)
LEMMA AcceptStep ==
    ASSUME Inv, (\E c \in Conn : Accept(c)) \/ StartFails \/ Create \/ Insert
    PROVE  Inv'
<1> USE ServerAssumption DEF listVars, threadVars
<1>1. ASSUME NEW c \in Conn, Accept(c) PROVE Inv'
  <2>1. LowestFree \in Fd /\ fds[LowestFree] = FREE
    BY <1>1, LowestFreeIsFree DEF Accept
  <2>2. tpc[c] = "none"
    BY <1>1 DEF Accept, Inv, ThreadInv
  <2> DEFINE k == LowestFree
  <2>3. k \in Fd /\ k # NULL
    BY <2>1 DEF Fd
  <2>4. /\ fds' = [fds EXCEPT ![k] = Sock(c)]
        /\ client_fd' = [client_fd EXCEPT ![c] = k]
        /\ current' = c /\ mpc = "scan" /\ mpc' = "malloc" /\ datap = NULL
        /\ UNCHANGED <<listener, head, datap, tmp, quit, file_mutex, tpc, output_fd, complete, args, peer>>
    BY <1>1 DEF Accept
  <2> HIDE DEF k
  <2>5. TypeOK'
    BY <2>1, <2>3, <2>4 DEF Inv, TypeOK, MainLabel, Serving, Sock
  <2>6. ListInv'
    BY <2>4 DEF Inv, ListInv
  <2>7. ThreadInv'
    BY <2>2, <2>3, <2>4 DEF Inv, TypeOK, ThreadInv, Unstarted
  <2>8. LockInv'
    BY <2>3, <2>4 DEF Inv, TypeOK, LockInv, Serving, Sock, Dev
  <2> QED
    BY <2>5, <2>6, <2>7, <2>8 DEF Inv
<1>2. CASE StartFails
  <2>1. current \in Conn /\ tpc[current] = "none"
    BY <1>2 DEF StartFails, Inv, ThreadInv
  <2>2. TypeOK'
    BY <1>2, <2>1 DEF StartFails, Inv, TypeOK, MainLabel, Serving
  <2>3. ListInv'
    BY <1>2, <2>1 DEF StartFails, Inv, TypeOK, ListInv
  <2>4. ThreadInv' /\ LockInv'
    BY <1>2, <2>1 DEF StartFails, Inv, TypeOK, ThreadInv, LockInv, Unstarted, Serving
  <2> QED
    BY <2>2, <2>3, <2>4 DEF Inv
<1>3. CASE Create
  <2>1. current \in Conn /\ tpc[current] = "none" /\ client_fd[current] # NULL
    BY <1>3 DEF Create, Inv, ThreadInv
  <2>2. TypeOK'
    BY <1>3, <2>1 DEF Create, Inv, TypeOK, MainLabel, Serving, ThreadLabel, HasSocket
  <2>3. ListInv'
    BY <1>3, <2>1 DEF Create, Inv, TypeOK, ListInv
  <2>4. ThreadInv'
    BY <1>3, <2>1 DEF Create, Inv, TypeOK, ThreadInv, Unstarted
  <2>5. LockInv'
    BY <1>3, <2>1 DEF Create, Inv, TypeOK, LockInv, Serving, Holding, HasDevice, UsesDevice
  <2> QED
    BY <2>2, <2>3, <2>4, <2>5 DEF Inv
<1>4. CASE Insert
  <2>1. current \in Conn /\ tpc[current] # "none" /\ args[current] = "live" /\ ~Linked(head, current)
    BY <1>4 DEF Insert, Inv, ThreadInv, ListInv
  <2>2. ThreadInv' /\ LockInv'
    BY <1>4 DEF Insert, Inv, TypeOK, ThreadInv, LockInv, Unstarted, Serving
  <2>3. CASE mpc' = "killed"
    <3>1. head' = head
      BY <1>4, <2>3 DEF Insert
    <3>2. TypeOK'
      BY <1>4, <2>3, <3>1 DEF Insert, Inv, TypeOK, MainLabel
    <3>3. ListInv'
      BY <1>4, <2>3, <3>1 DEF Insert, Inv, ListInv
    <3> QED
      BY <2>2, <3>2, <3>3 DEF Inv
  <2>4. CASE mpc' = "loop"
    <3>1. head' = SLIST_INSERT_HEAD(head, current)
      BY <1>4, <2>4 DEF Insert
    <3>2. /\ Chain(head')
          /\ \A n \in Conn : Linked(head', n) <=> Linked(head, n) \/ n = current
      BY <2>1, <3>1, InsertChain DEF Inv, ListInv
    <3>3. TypeOK'
      BY <1>4, <2>4, <3>2 DEF Insert, Inv, TypeOK, MainLabel, Serving, Chain
    <3>4. ListInv'
      BY <1>4, <2>1, <2>4, <3>2 DEF Insert, Inv, ListInv
    <3> QED
      BY <2>2, <3>3, <3>4 DEF Inv
  <2> QED
    BY <1>4, <2>3, <2>4 DEF Insert
<1> QED
  BY <1>1, <1>2, <1>3, <1>4

(* The shutdown ends when every thread has been joined.                    *)
LEMMA DrainStep == ASSUME Inv, Drain \/ DrainJoin \/ Finish PROVE Inv'
<1> USE ServerAssumption DEF listVars, threadVars
<1>1. Chain(head) /\ head \in SList
  BY DEF Inv, ListInv, Chain
<1>2. CASE Drain
  <2>1. head.slh_first \in Conn /\ Linked(head, head.slh_first)
    BY <1>1, <1>2 DEF Drain, SLIST_EMPTY, Chain, Ordered, SList
  <2>2. TypeOK'
    BY <1>2, <2>1 DEF Drain, Closed, Inv, TypeOK, MainLabel, Serving, SLIST_FIRST
  <2>3. ListInv'
    BY <1>2, <2>1 DEF Drain, Inv, ListInv, SLIST_FIRST
  <2>4. ThreadInv'
    BY <1>2 DEF Drain, Inv, ThreadInv, Unstarted
  <2>5. LockInv'
    BY <1>2 DEF Drain, Closed, Inv, TypeOK, LockInv, Serving, FREE, Dev
  <2> QED
    BY <2>2, <2>3, <2>4, <2>5 DEF Inv
<1>3. CASE DrainJoin
  <2>1. datap \in Conn /\ datap = head.slh_first /\ tpc[datap] = "exit" /\ tmp = NULL
    BY <1>3 DEF DrainJoin, Joinable, Inv, ListInv
  <2>2. Linked(head, datap) /\ Without(head, datap, head')
    BY <1>1, <1>3, <2>1, RemoveHeadChain DEF DrainJoin
  <2>3. Chain(head') /\ \A n \in Conn : Linked(head', n) <=> Linked(head, n) /\ n # datap
    BY <1>1, <2>1, <2>2, WithoutChain
  <2>4. TypeOK'
    BY <1>3, <2>1, <2>3 DEF DrainJoin, Inv, TypeOK, MainLabel, Serving, Chain
  <2>5. ListInv'
    BY <1>3, <2>1, <2>3 DEF DrainJoin, Inv, ListInv, TypeOK
  <2>6. ThreadInv' /\ LockInv'
    BY <1>3, <2>1 DEF DrainJoin, Inv, TypeOK, ThreadInv, LockInv, Unstarted, Serving, Holding, HasDevice, UsesDevice
  <2> QED
    BY <2>4, <2>5, <2>6 DEF Inv
<1>4. CASE Finish
  <2>1. \A c \in Conn : tpc[c] \in {"none", "exit"}
    BY <1>1, <1>4, EmptyChain DEF Finish, Inv, ListInv, ThreadInv
  <2>2. TypeOK'
    BY <1>4 DEF Finish, StopProcess, Inv, TypeOK, MainLabel
  <2>3. ListInv'
    BY <1>4 DEF Finish, StopProcess, Inv, ListInv
  <2>4. ThreadInv'
    BY <1>4 DEF Finish, StopProcess, Inv, ThreadInv, Unstarted
  <2>5. LockInv'
    BY <1>4, <2>1 DEF Finish, StopProcess, Inv, LockInv, Serving, Holding, HasDevice, UsesDevice
  <2> QED
    BY <2>2, <2>3, <2>4, <2>5 DEF Inv
<1> QED
  BY <1>2, <1>3, <1>4

(* What every step of the thread of c but SendKills, and a signal that     *)
(* reaches it in recv, have in common.                                     *)
Moves(c, to) ==
    /\ tpc[c] \notin {"none", "exit"}
    /\ to \in ThreadLabel \ {"none"}
    /\ tpc' = [tpc EXCEPT ![c] = to]
    /\ UNCHANGED <<mpc, listener, head, datap, tmp, current, args, client_fd>>

(* Such a step changes nothing for the list.                               *)
LEMMA MoveKeepsList ==
    ASSUME Inv, NEW c \in Conn, NEW to, Moves(c, to)
    PROVE  ListInv' /\ ThreadInv'
<1>1. \A d \in Conn : tpc'[d] = IF d = c THEN to ELSE tpc[d]
  BY DEF Moves, Inv, TypeOK
<1>2. \A d \in Conn : /\ tpc'[d] = "none" <=> tpc[d] = "none"
                      /\ tpc[d] = "exit" => tpc'[d] = "exit"
  BY <1>1 DEF Moves
<1>3. ListInv'
  BY <1>2 DEF Inv, ListInv, Moves
<1>4. ThreadInv'
  BY <1>2 DEF Inv, ThreadInv, Moves
<1> QED
  BY <1>3, <1>4

(* A step that neither locks, opens, closes nor unlocks.                   *)
LEMMA QuietStep ==
    ASSUME Inv, NEW c \in Conn, NEW to, Moves(c, to),
           UNCHANGED <<file_mutex, fds, output_fd>>,
           quit' \in BOOLEAN,
           complete' \in [Conn -> BOOLEAN],
           peer' \in [Conn -> {"quiet", "filled", "sent", "gone", "closed"}],
           tpc[c] \in Holding <=> to \in Holding,
           tpc[c] \in HasDevice <=> to \in HasDevice
    PROVE  Inv'
<1>1. \A d \in Conn : tpc'[d] = IF d = c THEN to ELSE tpc[d]
  BY DEF Moves, Inv, TypeOK
<1>2. TypeOK'
  BY DEF Moves, Inv, TypeOK
<1>3. LockInv'
  BY <1>1 DEF Moves, Inv, LockInv
<1> QED
  BY <1>2, <1>3, MoveKeepsList DEF Inv

(* The holder closes its device, which no other number names.              *)
LEMMA CloseDeviceStep ==
    ASSUME Inv, NEW c \in Conn, NEW from, NEW to, CloseDevice(c, from, to),
           from \in HasDevice, to \in {"unlock", "fail_unlock"}
    PROVE  Inv'
<1>1. Moves(c, to)
  BY DEF CloseDevice, At, Goto, mainVars, listVars, Moves, ThreadLabel, HasDevice, HasSocket, UsesDevice
<1>2. \A d \in Conn : tpc'[d] = IF d = c THEN to ELSE tpc[d]
  BY <1>1 DEF Moves, Inv, TypeOK
<1>3. TypeOK'
  BY <1>1 DEF CloseDevice, Closed, Moves, Inv, TypeOK
<1>4. LockInv'
  <2>1. \A k \in Fd : fds'[k] = IF k = output_fd[c] THEN FREE ELSE fds[k]
    BY DEF CloseDevice, Closed, Inv, TypeOK
  <2>2. \A d \in Conn : tpc[d] \in Holding <=> tpc'[d] \in Holding
    BY <1>2 DEF Holding, HasDevice, UsesDevice, CloseDevice, At
  <2>3. ASSUME NEW k \in Fd, NEW d \in Conn, fds'[k] = Dev(d)
        PROVE  tpc'[d] \in HasDevice /\ output_fd'[d] = k
    <3>1. fds[k] = Dev(d) /\ k # output_fd[c]
      BY <2>1, <2>3 DEF FREE, Dev
    <3>2. tpc[d] \in HasDevice /\ output_fd[d] = k
      BY <3>1 DEF Inv, LockInv
    <3>3. d # c
      BY <3>1, <3>2
    <3> QED
      BY <1>2, <3>2, <3>3 DEF CloseDevice, Inv, TypeOK
  <2>4. UNCHANGED <<mpc, file_mutex>>
    BY <1>1 DEF Moves, CloseDevice
  <2>5. (\E d \in Conn : tpc[d] \notin {"none", "exit"}) => file_mutex # "absent"
    BY DEF Inv, LockInv
  <2>6. file_mutex # "absent"
    BY <1>1, <2>5 DEF Moves
  <2> QED
    BY <2>2, <2>3, <2>4, <2>6 DEF Inv, LockInv
<1> QED
  BY <1>1, <1>3, <1>4, MoveKeepsList DEF Inv

(* The holder unlocks, having closed the device or never opened it.        *)
LEMMA UnlockStep ==
    ASSUME Inv, NEW c \in Conn, NEW to, Moves(c, to), to \notin Holding,
           tpc[c] \in {"open", "unlock", "fail_unlock"},
           file_mutex' = NULL,
           UNCHANGED <<quit, fds, output_fd, complete, peer>>
    PROVE  Inv'
<1>1. \A d \in Conn : tpc'[d] = IF d = c THEN to ELSE tpc[d]
  BY DEF Moves, Inv, TypeOK
<1>2. TypeOK'
  BY DEF Moves, Inv, TypeOK
<1>3. file_mutex = c
  BY DEF Inv, LockInv, Holding
<1>4. LockInv'
  <2>1. \A d \in Conn : tpc'[d] \notin Holding /\ file_mutex' # d
    BY <1>1, <1>3, ServerAssumption DEF Inv, LockInv
  <2>2. tpc[c] \notin HasDevice
    BY DEF HasDevice, UsesDevice
  <2> QED
    BY <1>1, <2>1, <2>2, ServerAssumption DEF Moves, Inv, LockInv
<1> QED
  BY <1>2, <1>4, MoveKeepsList DEF Inv

(* The client's descriptor is closed by its number, whatever it names.     *)
LEMMA CloseClientStep ==
    ASSUME Inv, NEW c \in Conn, NEW from, NEW to, CloseClient(c, from, to),
           <<from, to>> \in {<<"close_client", "complete">>, <<"fail_close", "fail_complete">>}
    PROVE  Inv'
<1>1. Moves(c, to)
  BY DEF CloseClient, At, Goto, mainVars, listVars, threadVars, Moves, ThreadLabel, HasDevice, HasSocket, UsesDevice
<1>2. \A d \in Conn : tpc'[d] = IF d = c THEN to ELSE tpc[d]
  BY <1>1 DEF Moves, Inv, TypeOK
<1>3. TypeOK'
  BY <1>1 DEF CloseClient, Closed, threadVars, Moves, Inv, TypeOK
<1>4. LockInv'
  <2>1. \A k \in Fd, d \in Conn : fds'[k] = Dev(d) => fds[k] = Dev(d)
    BY DEF CloseClient, Closed, Inv, TypeOK, FREE, Dev
  <2>2. \A d \in Conn : /\ tpc[d] \in Holding <=> tpc'[d] \in Holding
                        /\ tpc[d] \in HasDevice <=> tpc'[d] \in HasDevice
    BY <1>2 DEF Holding, HasDevice, UsesDevice, CloseClient, At
  <2> QED
    BY <1>1, <1>2, <2>1, <2>2 DEF CloseClient, threadVars, Moves, Inv, LockInv
<1> QED
  BY <1>1, <1>3, <1>4, MoveKeepsList DEF Inv

(* Every step of a connection thread.                                      *)
LEMMA ThreadStep == ASSUME Inv, NEW c \in Conn, Thread(c) PROVE Inv'
<1> USE DEF mainVars, listVars, threadVars, At, Goto
<1>1. CASE LockFile(c)
  <2>1. Moves(c, "open")
    BY <1>1 DEF LockFile, Moves, ThreadLabel, HasSocket
  <2>2. \A d \in Conn : tpc'[d] = IF d = c THEN "open" ELSE tpc[d]
    BY <2>1 DEF Moves, Inv, TypeOK
  <2>3. TypeOK'
    BY <1>1, <2>1 DEF LockFile, Moves, Inv, TypeOK
  <2>4. LockInv'
    <3>1. \A d \in Conn : tpc[d] \notin Holding
      BY <1>1, ServerAssumption DEF LockFile, Inv, LockInv
    <3>2. \A d \in Conn : tpc'[d] \in Holding <=> d = c
      BY <2>2, <3>1 DEF Holding
    <3>3. c # "absent" /\ HasDevice \subseteq Holding
      BY ServerAssumption DEF Holding
    <3> QED
      BY <1>1, <2>1, <3>1, <3>2, <3>3 DEF LockFile, Moves, Inv, LockInv
  <2> QED
    BY <2>1, <2>3, <2>4, MoveKeepsList DEF Inv
<1>2. CASE OpenDevice(c)
  <2>1. Moves(c, "recv")
    BY <1>2 DEF OpenDevice, Moves, ThreadLabel, HasDevice, UsesDevice
  <2>2. \A d \in Conn : tpc'[d] = IF d = c THEN "recv" ELSE tpc[d]
    BY <2>1 DEF Moves, Inv, TypeOK
  <2> DEFINE k == LowestFree
  <2>3. k \in Fd
    BY <1>2, LowestFreeIsFree DEF OpenDevice
  <2>4. /\ tpc[c] = "open"
        /\ output_fd' = [output_fd EXCEPT ![c] = k]
        /\ fds' = [fds EXCEPT ![k] = Dev(c)]
        /\ UNCHANGED <<quit, file_mutex, complete, peer>>
    BY <1>2 DEF OpenDevice
  <2> HIDE DEF k
  <2>5. TypeOK'
    BY <2>1, <2>3, <2>4 DEF Moves, Inv, TypeOK, Dev
  <2>6. LockInv'
    <3>1. \A d \in Conn : tpc[d] \in Holding <=> tpc'[d] \in Holding
      BY <2>2, <2>4 DEF Holding, HasDevice, UsesDevice
    <3>2. ASSUME NEW j \in Fd, NEW d \in Conn, fds'[j] = Dev(d)
          PROVE  tpc'[d] \in HasDevice /\ output_fd'[d] = j
      <4>1. CASE j = k
        <5>1. d = c
          BY <2>3, <2>4, <3>2, <4>1 DEF Dev, Inv, TypeOK
        <5> QED
          BY <2>2, <2>4, <4>1, <5>1 DEF Inv, TypeOK, HasDevice, UsesDevice
      <4>2. CASE j # k
        <5>1. fds[j] = Dev(d)
          BY <2>4, <3>2, <4>2 DEF Inv, TypeOK
        <5>2. tpc[d] \in HasDevice /\ output_fd[d] = j
          BY <5>1 DEF Inv, LockInv
        <5>3. d # c
          BY <2>4, <5>2 DEF HasDevice, UsesDevice
        <5> QED
          BY <2>2, <2>4, <5>2, <5>3 DEF Inv, TypeOK
      <4> QED
        BY <4>1, <4>2
    <3>3. file_mutex # "absent"
      BY <2>4 DEF Inv, LockInv
    <3> QED
      BY <2>1, <2>4, <3>1, <3>2, <3>3 DEF Moves, Inv, LockInv
  <2> QED
    BY <2>1, <2>5, <2>6, MoveKeepsList DEF Inv
<1>3. CASE OpenFails(c)
  BY <1>3, UnlockStep DEF OpenFails, Moves, ThreadLabel, Holding, HasDevice, UsesDevice
<1>4. CASE CallRecv(c)
  <2>1. PICK to \in {"blocked", "fail_close"} : tpc' = [tpc EXCEPT ![c] = to]
    BY <1>4 DEF CallRecv
  <2> QED
    BY <1>4, <2>1, QuietStep
       DEF CallRecv, Moves, ThreadLabel, Holding, HasDevice, UsesDevice, Inv, TypeOK
<1>5. CASE ReceivedFull(c) \/ Received(c) \/ ReceiveFails(c)
  <2>1. PICK to \in {"recv", "send", "fail_close"} : tpc' = [tpc EXCEPT ![c] = to]
    BY <1>5 DEF ReceivedFull, Received, ReceiveFails
  <2>2. /\ tpc[c] = "blocked"
        /\ peer' = Taken(c)
        /\ UNCHANGED <<mainVars, quit, file_mutex, fds, threadVars, args>>
    BY <1>5 DEF ReceivedFull, Received, ReceiveFails
  <2>3. peer' \in [Conn -> {"quiet", "filled", "sent", "gone", "closed"}]
    BY <2>2 DEF Taken, Inv, TypeOK
  <2>4. Moves(c, to)
    BY <2>1, <2>2 DEF Moves, ThreadLabel, HasDevice, UsesDevice
  <2> QED
    BY <2>2, <2>3, <2>4, QuietStep DEF Holding, HasDevice, UsesDevice, Inv, TypeOK
<1>6. CASE Sent(c) \/ SendFails(c)
  <2>1. PICK to \in {"close_device", "fail_close"} : tpc' = [tpc EXCEPT ![c] = to]
    BY <1>6 DEF Sent, SendFails
  <2>2. tpc[c] = "send" /\ UNCHANGED <<mainVars, quit, file_mutex, fds, threadVars, args, peer>>
    BY <1>6 DEF Sent, SendFails
  <2> QED
    BY <2>1, <2>2, QuietStep
       DEF Moves, ThreadLabel, Holding, HasDevice, UsesDevice, Inv, TypeOK
<1>7. CASE SendKills(c)
  <2>1. TypeOK'
    BY <1>7 DEF SendKills, Inv, TypeOK, MainLabel
  <2>2. ListInv'
    BY <1>7 DEF SendKills, Inv, ListInv
  <2>3. ThreadInv' /\ LockInv'
    BY <1>7 DEF SendKills, Inv, ThreadInv, LockInv, Unstarted, Serving
  <2> QED
    BY <2>1, <2>2, <2>3 DEF Inv
<1>8. ASSUME NEW from, NEW to, SetComplete(c, from, to),
             <<from, to>> \in {<<"complete", "exit">>, <<"fail_complete", "fail_device">>}
      PROVE  Inv'
  <2>1. Moves(c, to)
    BY <1>8 DEF SetComplete, Moves, ThreadLabel, HasDevice, UsesDevice
  <2>2. complete' \in [Conn -> BOOLEAN]
    BY <1>8 DEF SetComplete, Inv, TypeOK
  <2>3. /\ tpc[c] \in Holding <=> to \in Holding
        /\ tpc[c] \in HasDevice <=> to \in HasDevice
    BY <1>8 DEF SetComplete, Holding, HasDevice, UsesDevice
  <2> QED
    BY <1>8, <2>1, <2>2, <2>3, QuietStep DEF SetComplete, Inv, TypeOK
<1>9. ASSUME NEW from, NEW to, UnlockFile(c, from, to),
             <<from, to>> \in {<<"unlock", "close_client">>, <<"fail_unlock", "exit">>}
      PROVE  Inv'
  BY <1>9, UnlockStep
     DEF UnlockFile, Moves, ThreadLabel, HasSocket, Holding, HasDevice, UsesDevice
<1>10. CASE Success(c)
  <2>1. CASE CloseDevice(c, "close_device", "unlock")
    BY <2>1, CloseDeviceStep DEF HasDevice
  <2>2. CASE UnlockFile(c, "unlock", "close_client")
    BY <2>2, <1>9
  <2>3. CASE CloseClient(c, "close_client", "complete")
    BY <2>3, CloseClientStep
  <2>4. CASE SetComplete(c, "complete", "exit")
    BY <2>4, <1>8
  <2> QED
    BY <1>10, <2>1, <2>2, <2>3, <2>4 DEF Success
<1>11. CASE Failure(c)
  <2>1. CASE CloseClient(c, "fail_close", "fail_complete")
    BY <2>1, CloseClientStep
  <2>2. CASE SetComplete(c, "fail_complete", "fail_device")
    BY <2>2, <1>8
  <2>3. CASE CloseDevice(c, "fail_device", "fail_unlock")
    BY <2>3, CloseDeviceStep DEF HasDevice
  <2>4. CASE UnlockFile(c, "fail_unlock", "exit")
    BY <2>4, <1>9
  <2> QED
    BY <1>11, <2>1, <2>2, <2>3, <2>4 DEF Failure
<1> QED
  BY <1>1, <1>2, <1>3, <1>4, <1>5, <1>6, <1>7, <1>10, <1>11 DEF Thread

(* Clients and signals.                                                    *)
LEMMA OutsideStep ==
    ASSUME Inv, Signal \/ SignalKills \/ \E c \in Conn : ClientActs(c)
    PROVE  Inv'
<1> USE DEF mainVars, listVars, threadVars, startupRest, Goto
<1>1. CASE Signal /\ UNCHANGED tpc
  <2>1. quit' \in BOOLEAN
        /\ UNCHANGED <<mpc, listener, head, datap, tmp, current, file_mutex, fds, tpc,
                       client_fd, output_fd, complete, args, peer>>
    BY <1>1 DEF Signal
  <2> QED
    BY <2>1 DEF Inv, TypeOK, ListInv, ThreadInv, LockInv
<1>2. ASSUME NEW c \in Conn, Signal, tpc[c] = "blocked", Goto(c, "fail_close") PROVE Inv'
  BY <1>2, QuietStep
     DEF Signal, Moves, ThreadLabel, Holding, HasDevice, UsesDevice, Inv, TypeOK
<1>3. CASE SignalKills
  <2>1. TypeOK'
    BY <1>3 DEF SignalKills, Inv, TypeOK, MainLabel
  <2>2. ListInv'
    BY <1>3 DEF SignalKills, Inv, ListInv
  <2>3. ThreadInv' /\ LockInv'
    BY <1>3 DEF SignalKills, Inv, ThreadInv, LockInv, Unstarted, Serving
  <2> QED
    BY <2>1, <2>2, <2>3 DEF Inv
<1>4. ASSUME NEW c \in Conn, ClientActs(c) PROVE Inv'
  <2>1. peer' \in [Conn -> {"quiet", "filled", "sent", "gone", "closed"}]
        /\ UNCHANGED <<mpc, listener, head, datap, tmp, current, quit, file_mutex, fds, tpc,
                       client_fd, output_fd, complete, args>>
    BY <1>4 DEF ClientActs, Client, Inv, TypeOK
  <2> QED
    BY <2>1 DEF Inv, TypeOK, ListInv, ThreadInv, LockInv
<1> QED
  BY <1>1, <1>2, <1>3, <1>4 DEF Signal

(* The invariant holds in every reachable state.                           *)
THEOREM ServerInvariance == Spec => []Inv
<1>1. Inv /\ UNCHANGED vars => Inv'
  BY DEF vars, mainVars, listVars, threadVars, Inv, TypeOK, ListInv, ThreadInv, LockInv
<1>2. Inv /\ [Next]_vars => Inv'
  BY <1>1, StartupStep, ScanStep, AcceptStep, DrainStep, ThreadStep, OutsideStep DEF Next, Main
<1> QED
  BY InvInit, <1>2, PTL DEF Spec

(* Every variable of the server keeps its type: in particular, a thread    *)
(* keeps the numbers that accept and open returned.                        *)
THEOREM ServerTypeCorrect == Spec => []TypeOK
BY ServerInvariance, PTL DEF Inv

(* run_server frees a thread's data, and the mutex, only after the thread  *)
(* has made its last use of them, although a failing thread announces its  *)
(* end too early.                                                          *)
THEOREM ThreadMemorySafeHolds == Spec => []ThreadMemorySafe
<1>1. Inv => ThreadMemorySafe
  BY DEF Inv, ThreadInv, LockInv, ThreadMemorySafe
<1> QED
  BY <1>1, ServerInvariance, PTL

(* The scan never stands on a freed node while it removes nodes.           *)
THEOREM ListWalkSafeHolds == Spec => []ListWalkSafe
<1>1. Inv => ListWalkSafe
  BY ServerAssumption DEF Inv, ListInv, ListWalkSafe, Linked, SLIST_NEXT, FREED
<1> QED
  BY <1>1, ServerInvariance, PTL

(* The list has every thread that was created and not joined, once, for    *)
(* any number of connections: no insertion or removal during the scan      *)
(* loses one.                                                              *)
THEOREM ListExactHolds == Spec => []ListExact
<1>1. ASSUME Inv PROVE ListExact
  <2>1. Chain(head)
    BY <1>1 DEF Inv, ListInv
  <2>2. WalkedOnce(head) /\ \A c \in Conn : c \in Elements(head) <=> Linked(head, c)
    BY <2>1, ChainWalkedOnce, ElementsOfChain
  <2> QED
    BY <1>1, <2>2 DEF Inv, ListInv, ThreadInv, ListExact
<1> QED
  BY <1>1, ServerInvariance, PTL

(* run_server accepts on a socket that was bound and is listening: the     *)
(* only way into its loop is a listen that succeeded, and only the return  *)
(* closes the socket.                                                      *)
THEOREM ServesListeningHolds == Spec => []ServesListening
<1> USE DEF listVars, threadVars, startupRest, mainVars, StopProcess, Serving
<1>1. Init => ServesListening
  BY DEF Init, ServesListening
<1>2. ASSUME ServesListening, [Next]_vars PROVE ServesListening'
  <2>1. CASE Startup
    BY <1>2, <2>1 DEF ServesListening, Startup, SetupHandlers, OpenSocket, SetOptions, Bind,
       Daemonize, CreateMutex, Listen
  <2>2. CASE LoopHead \/ ScanNode \/ Reap \/ AcceptFails \/ StartFails \/ Create \/ Insert \/ Drain
             \/ DrainJoin \/ Finish \/ \E c \in Conn : Accept(c)
    BY <1>2, <2>2 DEF ServesListening, LoopHead, ScanNode, Reap, AcceptFails, StartFails, Create,
       Insert, Drain, DrainJoin, Finish, Accept
  <2>3. CASE Signal \/ SignalKills \/ (\E c \in Conn : Thread(c) \/ ClientActs(c)) \/ UNCHANGED vars
    <3>1. UNCHANGED <<mpc, listener>> \/ mpc' = "killed"
      BY <2>3 DEF Signal, SignalKills, Thread, LockFile, OpenDevice, OpenFails, CallRecv,
         ReceivedFull, Received, ReceiveFails, Sent, SendFails, SendKills, Success, Failure,
         CloseDevice, UnlockFile, CloseClient, SetComplete, ClientActs, Client, vars
    <3> QED
      BY <1>2, <3>1 DEF ServesListening
  <2> QED
    BY <1>2, <2>1, <2>2, <2>3 DEF Next, Main
<1> QED
  BY <1>1, <1>2, PTL DEF Spec

(* While one thread has the device open, no other has.                     *)
THEOREM DeviceExclusiveHolds == Spec => []DeviceExclusive
<1>1. ASSUME Inv PROVE DeviceExclusive
  <2>1. \A c \in Conn : tpc[c] \in HasDevice => file_mutex = c
    BY <1>1 DEF Inv, LockInv, Holding
  <2>2. ASSUME NEW j \in Fd, NEW k \in Fd, fds[j][1] = "dev", fds[k][1] = "dev" PROVE j = k
    <3>1. PICK c \in Conn : fds[j] = Dev(c)
      BY <1>1, <2>2 DEF Inv, TypeOK, FREE, Dev
    <3>2. PICK d \in Conn : fds[k] = Dev(d)
      BY <1>1, <2>2 DEF Inv, TypeOK, FREE, Dev
    <3>3. file_mutex = c /\ file_mutex = d /\ output_fd[c] = j /\ output_fd[d] = k
      BY <1>1, <2>1, <3>1, <3>2 DEF Inv, LockInv
    <3> QED
      BY <3>3
  <2> QED
    BY <2>1, <2>2 DEF DeviceExclusive
<1> QED
  BY <1>1, ServerInvariance, PTL

(***************************************************************************)
(* Descriptors.                                                            *)
(***************************************************************************)

(* Why the socket of c may be open.                                        *)
MayBeOpen(c) ==
    \/ tpc[c] \in HasSocket
    \/ tpc[c] = "exit" /\ ~complete[c]
    \/ tpc[c] = "none" /\ (current = c \/ quit)

(* An open socket is the one client_fd names; thread_complete is still     *)
(* false when open may fail.                                               *)
SocketInv ==
    /\ mpc \notin {"malloc", "insert", "killed"} => current = NULL
    /\ \A c \in Conn : tpc[c] = "open" => ~complete[c]
    /\ \A k \in Fd, c \in Conn : fds[k] = Sock(c) => client_fd[c] = k /\ MayBeOpen(c)

(* Steps of main leave sockets as they are, or close one, or have a reason *)
(* for the new one.                                                        *)
LEMMA MainKeepsSockets == ASSUME Inv, SocketInv, Main PROVE SocketInv'
<1> USE ServerAssumption DEF listVars, threadVars, startupRest, StopProcess
<1>1. CASE Startup \/ LoopHead \/ ScanNode \/ Reap \/ AcceptFails \/ DrainJoin \/ Finish
  <2>1. UNCHANGED <<current, quit, fds, tpc, client_fd, complete>>
    BY <1>1 DEF Startup, SetupHandlers, OpenSocket, SetOptions, Bind, Daemonize, CreateMutex,
                Listen, LoopHead, ScanNode, Reap, AcceptFails, DrainJoin, Finish
  <2>2. mpc \notin {"malloc", "insert", "killed"}
    BY <1>1 DEF Startup, SetupHandlers, OpenSocket, SetOptions, Bind, Daemonize, CreateMutex,
                Listen, LoopHead, ScanNode, Reap, AcceptFails, DrainJoin, Finish
  <2> QED
    BY <2>1, <2>2 DEF SocketInv, MayBeOpen
<1>2. CASE Drain
  <2>1. \A k \in Fd, c \in Conn : fds'[k] = Sock(c) => fds[k] = Sock(c)
    BY <1>2 DEF Drain, Closed, Inv, TypeOK, FREE, Sock
  <2> QED
    BY <1>2, <2>1 DEF Drain, SocketInv, MayBeOpen
<1>3. ASSUME NEW c \in Conn, Accept(c) PROVE SocketInv'
  <2> DEFINE k == LowestFree
  <2>1. k \in Fd /\ k # NULL
    BY <1>3, LowestFreeIsFree DEF Accept, Fd
  <2>2. /\ fds' = [fds EXCEPT ![k] = Sock(c)]
        /\ client_fd' = [client_fd EXCEPT ![c] = k]
        /\ client_fd[c] = NULL /\ current' = c /\ mpc = "scan" /\ mpc' = "malloc"
        /\ UNCHANGED <<quit, tpc, complete>>
    BY <1>3 DEF Accept
  <2> HIDE DEF k
  <2>3. tpc[c] = "none" /\ current = NULL
    BY <2>2 DEF Inv, ThreadInv, SocketInv
  <2>4. ASSUME NEW j \in Fd, NEW d \in Conn, fds'[j] = Sock(d)
        PROVE  client_fd'[d] = j /\ MayBeOpen(d)'
    <3>1. CASE j = k
      <4>1. d = c
        BY <2>1, <2>2, <2>4, <3>1 DEF Sock, Inv, TypeOK
      <4> QED
        BY <2>2, <2>3, <3>1, <4>1 DEF Inv, TypeOK, MayBeOpen
    <3>2. CASE j # k
      <4>1. fds[j] = Sock(d)
        BY <2>2, <2>4, <3>2 DEF Inv, TypeOK
      <4>2. client_fd[d] = j /\ MayBeOpen(d)
        BY <4>1 DEF SocketInv
      <4>3. d # c
        BY <2>2, <4>2 DEF Fd
      <4> QED
        BY <2>2, <2>3, <4>2, <4>3 DEF Inv, TypeOK, MayBeOpen
    <3> QED
      BY <3>1, <3>2
  <2> QED
    BY <2>2, <2>4 DEF SocketInv
<1>4. CASE StartFails
  BY <1>4 DEF StartFails, SocketInv, MayBeOpen
<1>5. CASE Create
  <2>1. current \in Conn /\ tpc[current] = "none"
    BY <1>5 DEF Create, Inv, ThreadInv
  <2> QED
    BY <1>5, <2>1 DEF Create, Inv, TypeOK, SocketInv, MayBeOpen, HasSocket
<1>6. CASE Insert
  <2>1. current \in Conn /\ tpc[current] # "none"
    BY <1>6 DEF Insert, Inv, ThreadInv
  <2> QED
    BY <1>6, <2>1 DEF Insert, SocketInv, MayBeOpen
<1> QED
  BY <1>1, <1>2, <1>3, <1>4, <1>5, <1>6 DEF Main

(* A step of c that opens no socket, and takes away the reason only with   *)
(* the socket.                                                             *)
LEMMA ThreadKeepsSockets ==
    ASSUME Inv, SocketInv, NEW c \in Conn, NEW to, Moves(c, to), quit => quit',
           \A k \in Fd, d \in Conn : fds'[k] = Sock(d) => fds[k] = Sock(d),
           \A d \in Conn : d # c => complete'[d] = complete[d],
           to = "open" => ~complete'[c],
           \/ to \in HasSocket
           \/ to = "exit" /\ ~complete'[c]
           \/ \A k \in Fd : fds'[k] # Sock(c)
    PROVE  SocketInv'
<1>1. \A d \in Conn : tpc'[d] = IF d = c THEN to ELSE tpc[d]
  BY DEF Moves, Inv, TypeOK
<1>2. UNCHANGED <<mpc, current, client_fd>>
  BY DEF Moves
<1>3. ASSUME NEW k \in Fd, NEW d \in Conn, fds'[k] = Sock(d)
      PROVE  client_fd'[d] = k /\ MayBeOpen(d)'
  <2>1. client_fd[d] = k /\ MayBeOpen(d)
    BY <1>3 DEF SocketInv
  <2> QED
    BY <1>1, <1>2, <1>3, <2>1 DEF MayBeOpen
<1> QED
  BY <1>1, <1>2, <1>3 DEF SocketInv

(* Every step preserves the invariant of the sockets.                      *)
LEMMA SocketStep == ASSUME Inv, SocketInv, [Next]_vars PROVE SocketInv'
<1> USE DEF mainVars, listVars, threadVars, At, Goto
<1>1. ASSUME NEW c \in Conn, Thread(c) PROVE SocketInv'
  <2>0. /\ {"recv", "blocked", "send", "open", "fail_close", "close_device", "unlock", "close_client"}
             \subseteq HasSocket \cap (ThreadLabel \ {"none"})
        /\ {"fail_complete", "fail_device", "fail_unlock", "complete", "exit"} \subseteq ThreadLabel \ {"none"}
        /\ {"fail_complete", "fail_device", "fail_unlock", "complete"} \cap HasSocket = {}
    BY DEF ThreadLabel, HasSocket, HasDevice, UsesDevice
  <2>1. CASE LockFile(c)
    BY <1>1, <2>0, <2>1, ThreadKeepsSockets DEF LockFile, Moves, Inv, TypeOK
  <2>2. CASE OpenDevice(c)
    <3>1. \A k \in Fd, d \in Conn : fds'[k] = Sock(d) => fds[k] = Sock(d)
      BY <2>2 DEF OpenDevice, Inv, TypeOK, Dev, Sock
    <3> QED
      BY <1>1, <2>0, <2>2, <3>1, ThreadKeepsSockets DEF OpenDevice, Moves
  <2>3. CASE OpenFails(c)
    <3>1. ~complete[c]
      BY <2>3 DEF OpenFails, SocketInv
    <3> QED
      BY <1>1, <2>0, <2>3, <3>1, ThreadKeepsSockets DEF OpenFails, Moves
  <2>4. CASE CallRecv(c) \/ ReceivedFull(c) \/ Received(c) \/ ReceiveFails(c) \/ Sent(c) \/ SendFails(c)
    <3>1. PICK to \in {"recv", "blocked", "send", "fail_close", "close_device"} :
             tpc' = [tpc EXCEPT ![c] = to]
      BY <2>4 DEF CallRecv, ReceivedFull, Received, ReceiveFails, Sent, SendFails
    <3>2. /\ tpc[c] \in {"recv", "blocked", "send"}
          /\ UNCHANGED <<mpc, listener, head, datap, tmp, current, quit, fds, client_fd, complete, args>>
      BY <2>4 DEF CallRecv, ReceivedFull, Received, ReceiveFails, Sent, SendFails
    <3> QED
      BY <2>0, <3>1, <3>2, ThreadKeepsSockets DEF Moves
  <2>5. CASE SendKills(c)
    BY <2>5 DEF SendKills, SocketInv, MayBeOpen
  <2>6. ASSUME NEW from, NEW to, CloseDevice(c, from, to),
               <<from, to>> \in {<<"close_device", "unlock">>, <<"fail_device", "fail_unlock">>}
        PROVE  SocketInv'
    <3>1. \A k \in Fd, d \in Conn : fds'[k] = Sock(d) => fds[k] = Sock(d)
      BY <2>6 DEF CloseDevice, Closed, Inv, TypeOK, FREE, Sock
    <3>2. Moves(c, to) /\ UNCHANGED <<quit, complete>> /\ tpc[c] = from
      BY <2>0, <2>6 DEF CloseDevice, Moves
    <3>3. to \in HasSocket \/ \A k \in Fd : fds[k] # Sock(c)
      BY <2>0, <2>6, <3>2 DEF SocketInv, MayBeOpen, HasSocket, UsesDevice
    <3> QED
      BY <2>6, <3>1, <3>2, <3>3, ThreadKeepsSockets
  <2>7. ASSUME NEW from, NEW to, UnlockFile(c, from, to),
               <<from, to>> \in {<<"unlock", "close_client">>, <<"fail_unlock", "exit">>}
        PROVE  SocketInv'
    <3>1. Moves(c, to) /\ UNCHANGED <<quit, complete, fds>> /\ tpc[c] = from
      BY <2>0, <2>7 DEF UnlockFile, Moves
    <3>2. to \in HasSocket \/ \A k \in Fd : fds[k] # Sock(c)
      BY <2>0, <2>7, <3>1 DEF SocketInv, MayBeOpen
    <3> QED
      BY <2>7, <3>1, <3>2, ThreadKeepsSockets
  <2>8. ASSUME NEW from, NEW to, CloseClient(c, from, to),
               <<from, to>> \in {<<"close_client", "complete">>, <<"fail_close", "fail_complete">>}
        PROVE  SocketInv'
    <3>1. \A k \in Fd, d \in Conn : fds'[k] = Sock(d) => fds[k] = Sock(d)
      BY <2>8 DEF CloseClient, Closed, Inv, TypeOK, FREE, Sock
    <3>2. Moves(c, to) /\ UNCHANGED <<quit, complete>>
      BY <2>0, <2>8 DEF CloseClient, Moves
    <3>3. \A k \in Fd : fds'[k] # Sock(c)
      <4> TAKE k \in Fd
      <4>1. fds[k] = Sock(c) => client_fd[c] = k
        BY DEF SocketInv
      <4> QED
        BY <2>8, <3>1, <4>1 DEF CloseClient, Closed, Inv, TypeOK, FREE, Sock
    <3> QED
      BY <2>8, <3>1, <3>2, <3>3, ThreadKeepsSockets
  <2>9. ASSUME NEW from, NEW to, SetComplete(c, from, to),
               <<from, to>> \in {<<"complete", "exit">>, <<"fail_complete", "fail_device">>}
        PROVE  SocketInv'
    <3>1. Moves(c, to) /\ UNCHANGED <<quit, fds>> /\ tpc[c] = from
      BY <2>0, <2>9 DEF SetComplete, Moves
    <3>2. \A d \in Conn : d # c => complete'[d] = complete[d]
      BY <2>9 DEF SetComplete, Inv, TypeOK
    <3>3. \A k \in Fd : fds[k] # Sock(c)
      BY <2>0, <2>9, <3>1 DEF SocketInv, MayBeOpen
    <3> QED
      BY <2>9, <3>1, <3>2, <3>3, ThreadKeepsSockets
  <2>10. CASE Success(c) \/ Failure(c)
    BY <2>6, <2>7, <2>8, <2>9, <2>10 DEF Success, Failure
  <2> QED
    BY <1>1, <2>1, <2>2, <2>3, <2>4, <2>5, <2>10 DEF Thread
<1>2. CASE Signal
  <2>1. CASE UNCHANGED tpc
    BY <1>2, <2>1 DEF Signal, SocketInv, MayBeOpen
  <2>2. ASSUME NEW c \in Conn, tpc[c] = "blocked", Goto(c, "fail_close") PROVE SocketInv'
    BY <1>2, <2>2, ThreadKeepsSockets
       DEF Signal, Moves, ThreadLabel, HasSocket, HasDevice, UsesDevice
  <2> QED
    BY <1>2, <2>1, <2>2 DEF Signal
<1>3. CASE SignalKills \/ (\E c \in Conn : ClientActs(c)) \/ UNCHANGED vars
  <2>1. /\ UNCHANGED <<current, quit, fds, tpc, client_fd, complete>>
        /\ mpc' \in {mpc, "killed"}
    BY <1>3 DEF SignalKills, startupRest, ClientActs, Client, vars
  <2> QED
    BY <2>1 DEF SocketInv, MayBeOpen
<1> QED
  BY <1>1, <1>2, <1>3, MainKeepsSockets DEF Next

(* Nothing stays open behind a thread but the two sockets the property     *)
(* names: no descriptor leaks on any other path.                           *)
THEOREM DescriptorsReturnedHolds == Spec => []DescriptorsReturned
<1>1. Init => SocketInv
  BY ServerAssumption DEF Init, SocketInv, FREE, Sock
<1>2. Inv /\ SocketInv /\ [Next]_vars => SocketInv'
  BY SocketStep
<1>3. ASSUME Inv, SocketInv PROVE DescriptorsReturned
  <2>1. ASSUME NEW k \in Fd, fds[k] # FREE
        PROVE  LET c == fds[k][2]
               IN  \/ fds[k] = Dev(c) /\ tpc[c] \in HasDevice
                   \/ fds[k] = Sock(c) /\ MayBeOpen(c)
    <3>1. PICK c \in Conn : fds[k] \in {Sock(c), Dev(c)}
      BY <1>3, <2>1 DEF Inv, TypeOK, Sock, Dev
    <3>2. fds[k][2] = c
      BY <3>1 DEF Sock, Dev
    <3> QED
      BY <1>3, <3>1, <3>2 DEF Inv, LockInv, SocketInv
  <2> QED
    BY <2>1 DEF DescriptorsReturned, MayBeOpen
<1> QED
  BY <1>1, <1>2, <1>3, ServerInvariance, PTL DEF Spec

(***************************************************************************)
(* Descriptor numbers and their owners.                                    *)
(***************************************************************************)

(* run_server has not come to its shutdown loop.                           *)
Early == mpc \notin {"drain", "drain_join", "killed", "stopped"}

(* Until the shutdown loop closes by number, a thread's numbers name its   *)
(* own socket and device, and so does the number of the connection being   *)
(* accepted.  Afterwards a number may be free or a device's, but never     *)
(* another client's socket, as nothing is accepted any more.               *)
OwnInv ==
    /\ \A c \in Conn : tpc[c] \in HasDevice =>
          output_fd[c] \in Fd /\ fds[output_fd[c]] \in {Dev(c), FREE}
    /\ \A c, d \in Conn : tpc[c] \in HasSocket /\ fds[client_fd[c]] = Sock(d) => c = d
    /\ Early => \A c \in Conn : /\ tpc[c] \in HasSocket => OwnSocket(c)
                                /\ tpc[c] \in HasDevice => OwnDevice(c)
    /\ mpc = "malloc" => OwnSocket(current)
    /\ mpc = "stopped" => \A c \in Conn : tpc[c] \in {"none", "exit"}

(* The three kinds of entries of the table are different.                  *)
LEMMA EntriesDiffer ==
    ASSUME NEW c \in Conn, NEW d \in Conn
    PROVE  /\ Sock(c) # Dev(d) /\ Sock(c) # FREE /\ Dev(c) # FREE
           /\ Sock(c) = Sock(d) => c = d
           /\ Dev(c) = Dev(d) => c = d
BY DEF Sock, Dev, FREE

(* A step that leaves the table and the numbers alone, and brings no       *)
(* thread to where it has a descriptor it had not.                         *)
LEMMA TableKept ==
    ASSUME Inv, OwnInv, UNCHANGED <<fds, client_fd, output_fd>>,
           \A c \in Conn : /\ tpc'[c] \in HasSocket => tpc[c] \in HasSocket
                           /\ tpc'[c] \in HasDevice => tpc[c] \in HasDevice,
           Early' => Early,
           mpc' = "malloc" => mpc = "malloc" /\ UNCHANGED current,
           mpc' = "stopped" => \A c \in Conn : tpc'[c] \in {"none", "exit"}
    PROVE  OwnInv'
BY DEF OwnInv, OwnSocket, OwnDevice

(* A thread closes a number that, before the shutdown, is its own: nobody  *)
(* else's is affected.                                                     *)
LEMMA OwnNumberClosed ==
    ASSUME Inv, OwnInv, NEW c \in Conn, NEW k \in Fd, fds' = Closed(k),
           Early => fds[k] \in {Sock(c), Dev(c)},
           NEW to, tpc' = [tpc EXCEPT ![c] = to], tpc[c] # "none",
           UNCHANGED <<mpc, current, client_fd>>,
           \A d \in Conn : d # c => output_fd'[d] = output_fd[d],
           to \in HasDevice => /\ tpc[c] \in HasDevice
                               /\ UNCHANGED output_fd
                               /\ Early => fds[k] # Dev(c),
           to \in HasSocket => tpc[c] \in HasSocket /\ (Early => fds[k] # Sock(c)),
           mpc # "stopped"
    PROVE  OwnInv'
<1>1. \A d \in Conn : tpc'[d] = IF d = c THEN to ELSE tpc[d]
  BY DEF Inv, TypeOK
<1>2. \A j \in Fd : fds'[j] = IF j = k THEN FREE ELSE fds[j]
  BY DEF Inv, TypeOK, Closed
<1>3. \A d \in Conn : /\ tpc'[d] \in HasSocket => tpc[d] \in HasSocket
                      /\ tpc'[d] \in HasDevice => tpc[d] \in HasDevice /\ output_fd'[d] = output_fd[d]
  BY <1>1
<1>4. \A d \in Conn : tpc[d] \in HasSocket => client_fd[d] \in Fd
  BY DEF Inv, TypeOK, ThreadInv, HasSocket, UsesDevice
<1>5. ASSUME NEW d \in Conn, tpc'[d] \in HasDevice
      PROVE  output_fd'[d] \in Fd /\ fds'[output_fd'[d]] \in {Dev(d), FREE}
  BY <1>2, <1>3, <1>5 DEF OwnInv
<1>6. ASSUME NEW d \in Conn, NEW e \in Conn, tpc'[d] \in HasSocket, fds'[client_fd'[d]] = Sock(e)
      PROVE  d = e
  BY <1>2, <1>3, <1>4, <1>6, EntriesDiffer DEF OwnInv
<1>7. ASSUME Early', NEW d \in Conn, tpc'[d] \in HasSocket PROVE OwnSocket(d)'
  <2>1. Early /\ fds[client_fd[d]] = Sock(d)
    BY <1>3, <1>7 DEF OwnInv, OwnSocket, Early
  <2>2. client_fd[d] # k
    BY <1>1, <1>7, <2>1, EntriesDiffer
  <2> QED
    BY <1>2, <1>3, <1>4, <1>7, <2>1, <2>2 DEF OwnSocket
<1>8. ASSUME Early', NEW d \in Conn, tpc'[d] \in HasDevice PROVE OwnDevice(d)'
  <2>1. Early /\ fds[output_fd[d]] = Dev(d) /\ output_fd[d] \in Fd
    BY <1>3, <1>8 DEF OwnInv, OwnDevice, Early
  <2>2. output_fd[d] # k
    BY <1>1, <1>8, <2>1, EntriesDiffer
  <2> QED
    BY <1>2, <1>3, <1>8, <2>1, <2>2 DEF OwnDevice
<1>9. mpc' = "malloc" => OwnSocket(current)'
  <2> SUFFICES ASSUME mpc = "malloc" PROVE OwnSocket(current)'
    OBVIOUS
  <2>1. /\ current \in Conn /\ tpc[current] = "none" /\ client_fd[current] \in Fd
        /\ fds[client_fd[current]] = Sock(current) /\ Early
    BY DEF Inv, TypeOK, ThreadInv, OwnInv, OwnSocket, Early
  <2>2. client_fd[current] # k
    BY <2>1, EntriesDiffer
  <2> QED
    BY <1>2, <2>1, <2>2 DEF OwnSocket
<1> QED
  BY <1>5, <1>6, <1>7, <1>8, <1>9 DEF OwnInv

(* Steps of main: accept takes a free number, Create hands it to the       *)
(* thread, and the shutdown loop closes numbers when they need not be      *)
(* anybody's any more.                                                     *)
LEMMA MainKeepsOwners == ASSUME Inv, OwnInv, Main PROVE OwnInv'
<1> USE DEF listVars, threadVars, startupRest, StopProcess
<1>1. CASE Startup
  <2>1. /\ UNCHANGED <<fds, client_fd, output_fd, tpc>>
        /\ Early /\ mpc' # "malloc"
    BY <1>1 DEF Startup, SetupHandlers, OpenSocket, SetOptions, Bind, Daemonize, CreateMutex,
                Listen, Early
  <2>2. \A c \in Conn : tpc'[c] = "none"
    BY <1>1, <2>1 DEF Startup, SetupHandlers, OpenSocket, SetOptions, Bind, Daemonize,
                CreateMutex, Listen, Inv, ThreadInv, Unstarted
  <2> QED
    BY <2>1, <2>2, TableKept
<1>2. CASE LoopHead \/ ScanNode \/ Reap \/ AcceptFails \/ StartFails \/ Insert \/ DrainJoin
  <2>1. /\ UNCHANGED <<fds, client_fd, output_fd, tpc>>
        /\ Early' => Early
        /\ mpc' \notin {"malloc", "stopped"}
    BY <1>2 DEF LoopHead, ScanNode, Reap, AcceptFails, StartFails, Insert, DrainJoin, Early
  <2> QED
    BY <2>1, TableKept
<1>3. CASE Finish
  <2>1. \A c \in Conn : tpc[c] \in {"none", "exit"}
    BY <1>3, EmptyChain DEF Finish, Inv, ListInv, ThreadInv
  <2> QED
    BY <1>3, <2>1, TableKept DEF Finish, Early
<1>4. ASSUME NEW c \in Conn, Accept(c) PROVE OwnInv'
  <2> DEFINE k == LowestFree
  <2>1. k \in Fd /\ fds[k] = FREE
    BY <1>4, LowestFreeIsFree DEF Accept
  <2>2. /\ fds' = [fds EXCEPT ![k] = Sock(c)]
        /\ client_fd' = [client_fd EXCEPT ![c] = k]
        /\ client_fd[c] = NULL /\ current' = c /\ mpc = "scan" /\ mpc' = "malloc"
        /\ UNCHANGED <<output_fd, tpc>>
    BY <1>4 DEF Accept
  <2> HIDE DEF k
  <2>3. Early /\ tpc[c] = "none"
    BY <2>2 DEF Early, Inv, ThreadInv
  <2>4. \A d \in Conn : tpc[d] \in HasSocket =>
           d # c /\ client_fd[d] \in Fd /\ client_fd[d] # k /\ fds[client_fd[d]] = Sock(d)
    BY <2>1, <2>3, EntriesDiffer
       DEF OwnInv, OwnSocket, Inv, TypeOK, ThreadInv, HasSocket, UsesDevice
  <2>5. \A d \in Conn : tpc[d] \in HasDevice =>
           output_fd[d] \in Fd /\ output_fd[d] # k /\ fds[output_fd[d]] = Dev(d)
    BY <2>1, <2>3, EntriesDiffer DEF OwnInv, OwnDevice
  <2>6. \A d \in Conn : tpc'[d] \in HasSocket => fds'[client_fd'[d]] = Sock(d)
    BY <2>2, <2>4 DEF Inv, TypeOK
  <2>7. \A d \in Conn : tpc'[d] \in HasDevice => output_fd'[d] \in Fd /\ fds'[output_fd'[d]] = Dev(d)
    BY <2>2, <2>5 DEF Inv, TypeOK
  <2>8. OwnSocket(current)'
    BY <2>1, <2>2 DEF OwnSocket, Inv, TypeOK
  <2> QED
    BY <2>2, <2>6, <2>7, <2>8, EntriesDiffer DEF OwnInv, OwnSocket, OwnDevice
<1>5. CASE Create
  <2>1. /\ current \in Conn /\ fds[client_fd[current]] = Sock(current)
        /\ tpc' = [tpc EXCEPT ![current] = "lock"] /\ mpc' = "insert" /\ Early
        /\ UNCHANGED <<fds, client_fd, output_fd>>
    BY <1>5 DEF Create, Inv, ThreadInv, OwnInv, OwnSocket, Early
  <2>2. \A d \in Conn : tpc'[d] = IF d = current THEN "lock" ELSE tpc[d]
    BY <2>1 DEF Inv, TypeOK
  <2>3. "lock" \notin HasDevice
    BY DEF HasDevice, UsesDevice
  <2> QED
    BY <2>1, <2>2, <2>3, EntriesDiffer DEF OwnInv, OwnSocket, OwnDevice
<1>6. CASE Drain
  <2> DEFINE k == client_fd[head.slh_first]
  <2>1. fds' = Closed(k) /\ mpc' = "drain_join" /\ UNCHANGED <<tpc, client_fd, output_fd>>
    BY <1>6 DEF Drain, SLIST_FIRST
  <2> HIDE DEF k
  <2>2. \A j \in Fd : fds'[j] \in {fds[j], FREE}
    BY <2>1 DEF Closed, Inv, TypeOK
  <2>3. \A d \in Conn : tpc[d] \in HasSocket => client_fd[d] \in Fd
    BY DEF Inv, TypeOK, ThreadInv, HasSocket, UsesDevice
  <2> QED
    BY <2>1, <2>2, <2>3, EntriesDiffer DEF OwnInv, Early
<1> QED
  BY <1>1, <1>2, <1>3, <1>4, <1>5, <1>6 DEF Main

(* Steps of a thread, of clients and of signals.                           *)
LEMMA OwnStep == ASSUME Inv, OwnInv, [Next]_vars PROVE OwnInv'
<1> USE DEF mainVars, listVars, threadVars, At, Goto
<1>0. /\ HasDevice = {"recv", "blocked", "send", "fail_close", "fail_complete", "fail_device",
                      "close_device"}
      /\ HasSocket = {"recv", "blocked", "send", "lock", "open", "fail_close", "close_device",
                      "unlock", "close_client"}
  BY DEF HasDevice, HasSocket, UsesDevice
<1>1. ASSUME NEW c \in Conn, Thread(c) PROVE OwnInv'
  <2>1. CASE \/ LockFile(c) \/ OpenFails(c) \/ CallRecv(c) \/ ReceivedFull(c) \/ Received(c)
             \/ ReceiveFails(c) \/ Sent(c) \/ SendFails(c)
    <3>1. PICK to : /\ tpc' = [tpc EXCEPT ![c] = to]
                    /\ to \in HasSocket => tpc[c] \in HasSocket
                    /\ to \in HasDevice => tpc[c] \in HasDevice
      BY <1>0, <2>1 DEF LockFile, OpenFails, CallRecv, ReceivedFull, Received, ReceiveFails, Sent,
         SendFails
    <3>2. /\ UNCHANGED <<fds, client_fd, output_fd, mpc, current>>
          /\ mpc # "stopped"
      BY <2>1 DEF LockFile, OpenFails, CallRecv, ReceivedFull, Received, ReceiveFails, Sent,
         SendFails, Running
    <3> QED
      BY <3>1, <3>2, TableKept DEF Inv, TypeOK, Early
  <2>2. CASE OpenDevice(c)
    <3> DEFINE k == LowestFree
    <3>1. k \in Fd /\ fds[k] = FREE
      BY <2>2, LowestFreeIsFree DEF OpenDevice
    <3>2. /\ fds' = [fds EXCEPT ![k] = Dev(c)]
          /\ output_fd' = [output_fd EXCEPT ![c] = k]
          /\ tpc' = [tpc EXCEPT ![c] = "recv"] /\ tpc[c] = "open" /\ mpc # "stopped"
          /\ UNCHANGED <<mpc, current, client_fd>>
      BY <2>2 DEF OpenDevice, Running
    <3> HIDE DEF k
    <3>3. \A d \in Conn : d # c => tpc[d] \notin HasDevice
      <4>1. file_mutex = c
        BY <3>2 DEF Inv, LockInv, Holding
      <4> QED
        BY <4>1 DEF Inv, LockInv, Holding
    <3>4. \A d \in Conn : tpc'[d] \in HasSocket <=> tpc[d] \in HasSocket
      BY <1>0, <3>2 DEF Inv, TypeOK
    <3>5. \A d \in Conn : tpc[d] \in HasSocket => client_fd[d] \in Fd
      BY <1>0 DEF Inv, TypeOK, ThreadInv
    <3>6. \A d \in Conn : tpc'[d] \in HasDevice => d = c
      BY <3>2, <3>3 DEF Inv, TypeOK
    <3>7. output_fd'[c] = k /\ fds'[k] = Dev(c)
      BY <3>1, <3>2 DEF Inv, TypeOK
    <3>8. \A j \in Fd, d \in Conn : fds'[j] = Sock(d) <=> fds[j] = Sock(d)
      BY <3>1, <3>2, EntriesDiffer DEF Inv, TypeOK
    <3>9. \A d, e \in Conn : tpc'[d] \in HasSocket /\ fds'[client_fd'[d]] = Sock(e) => d = e
      BY <3>2, <3>4, <3>5, <3>8 DEF OwnInv
    <3>10. Early' => \A d \in Conn : tpc'[d] \in HasSocket => OwnSocket(d)'
      BY <3>2, <3>4, <3>5, <3>8 DEF OwnInv, OwnSocket, Early
    <3>11. mpc' = "malloc" => OwnSocket(current)'
      BY <3>2, <3>8 DEF OwnInv, OwnSocket, Inv, TypeOK, ThreadInv
    <3> QED
      BY <3>1, <3>2, <3>6, <3>7, <3>9, <3>10, <3>11 DEF OwnInv, OwnDevice
  <2>3. CASE SendKills(c)
    BY <2>3, TableKept DEF SendKills, Early
  <2>4. ASSUME NEW from, NEW to, CloseDevice(c, from, to),
               <<from, to>> \in {<<"close_device", "unlock">>, <<"fail_device", "fail_unlock">>}
        PROVE  OwnInv'
    <3>1. /\ tpc[c] = from /\ tpc' = [tpc EXCEPT ![c] = to] /\ fds' = Closed(output_fd[c])
          /\ output_fd' = [output_fd EXCEPT ![c] = NULL]
          /\ UNCHANGED <<mpc, current, client_fd>> /\ mpc # "stopped"
      BY <2>4 DEF CloseDevice, Running
    <3>2. from \in HasDevice /\ to \notin HasDevice /\ (to \in HasSocket => from \in HasSocket)
      BY <1>0, <2>4
    <3>3. output_fd[c] \in Fd /\ fds[output_fd[c]] \in {Dev(c), FREE}
          /\ (Early => fds[output_fd[c]] = Dev(c))
      BY <3>1, <3>2 DEF OwnInv, OwnDevice
    <3>4. \A d \in Conn : d # c => output_fd'[d] = output_fd[d]
      BY <3>1 DEF Inv, TypeOK
    <3>5. fds[output_fd[c]] # Sock(c)
      BY <3>3, EntriesDiffer
    <3>6. tpc[c] # "none"
      BY <1>0, <3>1, <3>2
    <3> QED
      BY <3>1, <3>2, <3>3, <3>4, <3>5, <3>6, OwnNumberClosed
  <2>5. ASSUME NEW from, NEW to, UnlockFile(c, from, to),
               <<from, to>> \in {<<"unlock", "close_client">>, <<"fail_unlock", "exit">>}
        PROVE  OwnInv'
    <3>1. /\ tpc[c] = from /\ tpc' = [tpc EXCEPT ![c] = to]
          /\ UNCHANGED <<mpc, current, fds, client_fd, output_fd>> /\ mpc # "stopped"
      BY <2>5 DEF UnlockFile, Running
    <3> QED
      BY <1>0, <2>5, <3>1, TableKept DEF Inv, TypeOK, Early
  <2>6. ASSUME NEW from, NEW to, CloseClient(c, from, to),
               <<from, to>> \in {<<"close_client", "complete">>, <<"fail_close", "fail_complete">>}
        PROVE  OwnInv'
    <3>1. /\ tpc[c] = from /\ tpc' = [tpc EXCEPT ![c] = to] /\ fds' = Closed(client_fd[c])
          /\ UNCHANGED <<mpc, current, client_fd, output_fd>> /\ mpc # "stopped"
      BY <2>6 DEF CloseClient, Running
    <3>2. from \in HasSocket /\ to \notin HasSocket /\ (to \in HasDevice => from \in HasDevice)
      BY <1>0, <2>6
    <3>3. client_fd[c] \in Fd
      BY <1>0, <3>1, <3>2 DEF Inv, TypeOK, ThreadInv
    <3>4. Early => fds[client_fd[c]] = Sock(c)
      BY <3>1, <3>2 DEF OwnInv, OwnSocket
    <3> QED
      <4>1. Early => fds[client_fd[c]] # Dev(c)
        BY <3>4, EntriesDiffer
      <4>2. tpc[c] # "none"
        BY <1>0, <3>1, <3>2
      <4> QED
        BY <3>1, <3>2, <3>3, <3>4, <4>1, <4>2, OwnNumberClosed
  <2>7. ASSUME NEW from, NEW to, SetComplete(c, from, to),
               <<from, to>> \in {<<"complete", "exit">>, <<"fail_complete", "fail_device">>}
        PROVE  OwnInv'
    <3>1. /\ tpc[c] = from /\ tpc' = [tpc EXCEPT ![c] = to]
          /\ UNCHANGED <<mpc, current, fds, client_fd, output_fd>> /\ mpc # "stopped"
      BY <2>7 DEF SetComplete, Running
    <3> QED
      BY <1>0, <2>7, <3>1, TableKept DEF Inv, TypeOK, Early
  <2>8. CASE Success(c) \/ Failure(c)
    BY <2>4, <2>5, <2>6, <2>7, <2>8 DEF Success, Failure
  <2> QED
    BY <1>1, <2>1, <2>2, <2>3, <2>8 DEF Thread
<1>2. CASE Signal \/ SignalKills \/ (\E c \in Conn : ClientActs(c)) \/ UNCHANGED vars
  <2>1. /\ UNCHANGED <<fds, client_fd, output_fd, current>>
        /\ mpc' \in {mpc, "killed"}
    BY <1>2 DEF Signal, SignalKills, startupRest, ClientActs, Client, vars
  <2>2. \/ UNCHANGED tpc
        \/ mpc # "stopped" /\ \E c \in Conn : tpc[c] = "blocked" /\ tpc' = [tpc EXCEPT ![c] = "fail_close"]
    BY <1>2 DEF Signal, SignalKills, startupRest, ClientActs, Client, vars, Running
  <2>3. \A c \in Conn : /\ tpc'[c] \in HasSocket => tpc[c] \in HasSocket
                        /\ tpc'[c] \in HasDevice => tpc[c] \in HasDevice
    BY <1>0, <2>2 DEF Inv, TypeOK
  <2>4. mpc' = "stopped" => \A c \in Conn : tpc'[c] \in {"none", "exit"}
    BY <2>1, <2>2 DEF OwnInv
  <2> QED
    BY <2>1, <2>3, <2>4, TableKept DEF Early
<1> QED
  BY <1>1, <1>2, MainKeepsOwners DEF Next

(* Although numbers are reused as soon as they are closed, and the         *)
(* shutdown loop closes by number while threads run, no thread ever        *)
(* receives from or answers to another client, or writes to anything but   *)
(* its own device.                                                         *)
THEOREM DescriptorsOwnHolds == Spec => []DescriptorsOwn
<1>1. Init => OwnInv
  BY DEF Init, OwnInv, HasDevice, HasSocket, UsesDevice
<1>2. Inv /\ OwnInv /\ [Next]_vars => OwnInv'
  BY OwnStep
<1>3. ASSUME Inv, OwnInv PROVE DescriptorsOwn
  <2> USE DEF DescriptorsOwn
  <2> TAKE c \in Conn
  <2>1. ASSUME mpc \notin {"drain", "drain_join", "killed"}
        PROVE  /\ tpc[c] \in HasSocket => OwnSocket(c)
               /\ tpc[c] \in HasDevice => OwnDevice(c)
    BY <1>3, <2>1 DEF OwnInv, Early, HasDevice, HasSocket, UsesDevice
  <2>2. ASSUME tpc[c] \in UsesDevice
        PROVE  fds[client_fd[c]] \in {Sock(c), Dev(c), FREE}
    <3>1. client_fd[c] \in Fd /\ tpc[c] \in HasSocket
      BY <1>3, <2>2 DEF Inv, TypeOK, ThreadInv, UsesDevice, HasSocket
    <3>2. fds[client_fd[c]] = FREE \/ \E d \in Conn : fds[client_fd[c]] \in {Sock(d), Dev(d)}
      BY <1>3, <3>1 DEF Inv, TypeOK, Sock, Dev
    <3>3. \A d \in Conn : fds[client_fd[c]] = Dev(d) => d = c
      BY <1>3, <2>2, <3>1 DEF Inv, LockInv, Holding, HasDevice
    <3> QED
      BY <1>3, <3>1, <3>2, <3>3 DEF OwnInv
  <2>3. ASSUME tpc[c] \in UsesDevice
        PROVE  fds[output_fd[c]] \in {Dev(c), FREE}
    BY <1>3, <2>3 DEF OwnInv, HasDevice
  <2> QED
    BY <2>1, <2>2, <2>3
<1> QED
  BY <1>1, <1>2, <1>3, ServerInvariance, PTL DEF Spec
=============================================================================
