----------------------------- MODULE RingProofs -----------------------------
(***************************************************************************)
(* Proofs about RingCheck, for every capacity and every entry size: the    *)
(* ring holds the most recent entries, and its two loops find and count    *)
(* bytes of their concatenation.                                           *)
(***************************************************************************)
EXTENDS RingCheck, StreamLemmas

(* Slots are counted round the end of the array.                           *)
Wrapped(a) == IF a < N THEN a ELSE a - N

Stored == [buffptr : Slots, size : 1..MaxSize]

(* The ring is filled from slot 0 up, and once full begins where the next  *)
(* entry goes.                                                             *)
RingShape ==
    /\ ring.out_offs = IF ring.full THEN ring.in_offs ELSE 0
    /\ ~ring.full => \A j \in Slots : j >= ring.in_offs => ring.entry[j] = NullEntry

Holds ==
    /\ Len(recent) = IF ring.full THEN N ELSE ring.in_offs
    /\ \A i \in 0..(N - 1) : i < Len(recent) => ring.entry[Wrapped(ring.out_offs + i)] = recent[i + 1]

Inv == TypeOK /\ RingShape /\ Holds

LEMMA WrappedMod ==
    ASSUME NEW a \in Nat, a < N + N PROVE a % N = Wrapped(a)
<1>1. N \in Nat /\ N > 0
  BY NAssumption
<1>2. CASE a < N
  BY <1>1, <1>2 DEF Wrapped
<1>3. CASE a >= N
  BY <1>1, <1>3 DEF Wrapped
<1> QED
  BY <1>1, <1>2, <1>3

LEMMA RingTypes ==
    ASSUME TypeOK
    PROVE  /\ N \in Nat /\ N > 0
           /\ ring.in_offs \in Slots /\ ring.out_offs \in Slots /\ ring.full \in BOOLEAN
           /\ ring.entry \in [Slots -> [buffptr : {NULL} \cup Slots, size : 0..MaxSize]]
           /\ recent \in Seq(Stored) /\ Len(recent) \in Nat /\ serial \in Slots
BY NAssumption, LenProperties DEF TypeOK, Stored

LEMMA InitInv == Init => Inv
<1> SUFFICES ASSUME Init PROVE Inv
  OBVIOUS
<1>1. N \in Nat /\ N > 0 /\ 0 \in Slots /\ MaxSize \in Nat
  BY NAssumption, MaxSizeAssumption DEF Slots
<1>2. /\ ring.entry = [i \in Slots |-> NullEntry] /\ ring.in_offs = 0 /\ ring.out_offs = 0
      /\ ring.full = FALSE
  BY DEF Init, EmptyRing
<1>3. NullEntry \in [buffptr : {NULL} \cup Slots, size : 0..MaxSize]
  BY <1>1 DEF NullEntry
<1>4. TypeOK
  <2>1. EmptyRing \in [entry : [Slots -> [buffptr : {NULL} \cup Slots, size : 0..MaxSize]],
                       in_offs : Slots, out_offs : Slots, full : BOOLEAN]
    BY <1>1, <1>3 DEF EmptyRing
  <2> QED
    BY <1>1, <2>1, EmptySeq DEF Init, TypeOK
<1>5. Len(recent) = 0
  BY EmptySeq DEF Init
<1> QED
  BY <1>2, <1>4, <1>5 DEF Inv, RingShape, Holds

(* What add_entry makes of each field.                                     *)
LEMMA AddFields ==
    ASSUME NEW size \in 1..MaxSize, Add(size), TypeOK
    PROVE  LET e == [buffptr |-> serial, size |-> size]
               wraps == ring.in_offs + 1 >= N
           IN  /\ e \in Stored
               /\ ring'.entry = [ring.entry EXCEPT ![ring.in_offs] = e]
               /\ ring'.in_offs = IF wraps THEN 0 ELSE ring.in_offs + 1
               /\ ring'.full = (ring.full \/ wraps)
               /\ ring'.out_offs = IF ring.full \/ wraps THEN ring'.in_offs ELSE ring.out_offs
               /\ recent' = IF Len(Append(recent, e)) > N THEN Tail(Append(recent, e))
                            ELSE Append(recent, e)
               /\ serial' = (serial + 1) % N
               /\ ring' = [entry |-> ring'.entry, in_offs |-> ring'.in_offs,
                           out_offs |-> ring'.out_offs, full |-> ring'.full]
BY RingTypes DEF Add, AddEntry, Stored

LEMMA AddType ==
    ASSUME NEW size \in 1..MaxSize, Add(size), TypeOK PROVE TypeOK'
<1> DEFINE e == [buffptr |-> serial, size |-> size]
           E == [buffptr : {NULL} \cup Slots, size : 0..MaxSize]
<1>0. MaxSize \in Nat
  BY MaxSizeAssumption
<1>1. e \in Stored /\ e \in E
  BY <1>0, RingTypes DEF Stored
<1>2. ring'.entry \in [Slots -> E]
  <2>1. ring'.entry = [ring.entry EXCEPT ![ring.in_offs] = e]
    BY AddFields
  <2>2. ring.entry \in [Slots -> E]
    BY RingTypes
  <2> HIDE DEF e, E
  <2> QED
    BY <1>1, <2>1, <2>2
<1>3. ring'.in_offs \in Slots /\ ring'.out_offs \in Slots /\ ring'.full \in BOOLEAN
  <2>1. ring'.in_offs \in Slots
    <3>1. ring'.in_offs = IF ring.in_offs + 1 >= N THEN 0 ELSE ring.in_offs + 1
      BY AddFields
    <3>2. ring.in_offs \in 0..(N - 1) /\ N \in Nat
      BY RingTypes DEF Slots
    <3> QED
      BY <3>1, <3>2 DEF Slots
  <2>2. ring'.full \in BOOLEAN
    BY AddFields, RingTypes
  <2> QED
    BY <2>1, <2>2, AddFields, RingTypes
<1>4. ring' \in [entry : [Slots -> E], in_offs : Slots, out_offs : Slots, full : BOOLEAN]
  <2> HIDE DEF E
  <2>1. ring' = [entry |-> ring'.entry, in_offs |-> ring'.in_offs,
                 out_offs |-> ring'.out_offs, full |-> ring'.full]
    BY AddFields
  <2> QED
    BY <1>2, <1>3, <2>1
<1>5. recent' \in Seq(Stored)
  <2> HIDE DEF e
  <2> DEFINE more == Append(recent, e)
  <2>1. more \in Seq(Stored) /\ Len(more) = Len(recent) + 1
    BY <1>1, RingTypes, AppendProperties
  <2>2. Len(more) # 0
    BY <2>1, RingTypes
  <2>3. more # <<>>
    BY <2>2, EmptySeq
  <2> HIDE DEF more
  <2>4. Tail(more) \in Seq(Stored)
    BY <2>1, <2>3, HeadTailProperties
  <2>5. recent' = IF Len(more) > N THEN Tail(more) ELSE more
    BY AddFields DEF more, e
  <2> QED
    BY <2>1, <2>4, <2>5
<1>6. serial' \in Slots
  <2>1. serial \in 0..(N - 1) /\ N \in Nat /\ N > 0
    BY RingTypes DEF Slots
  <2>2. PICK a \in Nat : a = serial + 1
    BY <2>1
  <2>3. a % N = Wrapped(a)
    BY <2>1, <2>2, WrappedMod
  <2>4. serial' = a % N
    BY <2>2, AddFields
  <2> QED
    BY <2>1, <2>2, <2>3, <2>4 DEF Wrapped, Slots
<1> QED
  BY <1>4, <1>5, <1>6 DEF TypeOK, Stored

(* The new entry is the last of the most recent ones; if they were N, the  *)
(* first of them is dropped.                                               *)
Pushed(s, e) ==
    IF Len(Append(s, e)) > N THEN Tail(Append(s, e)) ELSE Append(s, e)

LEMMA AddRecent ==
    ASSUME NEW s \in Seq(Stored), NEW e \in Stored, Len(s) <= N
    PROVE  LET t == Pushed(s, e)
           IN  /\ Len(s) < N => /\ Len(t) = Len(s) + 1 /\ t[Len(s) + 1] = e
                                /\ \A i \in 0..(N - 1) : i < Len(s) => t[i + 1] = s[i + 1]
               /\ Len(s) = N => /\ Len(t) = N /\ t[N] = e
                                /\ \A i \in 0..(N - 1) : i < N - 1 => t[i + 1] = s[i + 2]
<1> DEFINE more == Append(s, e)
           n == Len(s)
<1>0. N \in Nat /\ N > 0 /\ n \in Nat
  BY NAssumption, LenProperties
<1>1. /\ more \in Seq(Stored) /\ Len(more) = n + 1 /\ more[n + 1] = e
      /\ \A i \in 1..n : more[i] = s[i]
  BY AppendProperties
<1>t. Pushed(s, e) = IF Len(more) > N THEN Tail(more) ELSE more
  BY DEF Pushed
<1> HIDE DEF more
<1>2. CASE n < N
  <2>1. ~(Len(more) > N)
    BY <1>0, <1>1, <1>2
  <2>2. ASSUME NEW i \in 0..(N - 1), i < n PROVE more[i + 1] = s[i + 1]
    <3>1. i + 1 \in 1..n
      BY <1>0, <2>2
    <3> QED
      BY <1>1, <3>1
  <2> QED
    BY <1>0, <1>t, <1>1, <1>2, <2>1, <2>2
<1>3. CASE n = N
  <2>1. Len(more) > N /\ more # <<>>
    BY <1>0, <1>1, <1>3, EmptySeq
  <2>2. /\ Len(Tail(more)) = n
        /\ \A i \in 1..n : Tail(more)[i] = more[i + 1]
    BY <1>0, <1>1, <2>1, HeadTailProperties
  <2>3. N \in 1..n
    BY <1>0, <1>3
  <2>4. Tail(more)[N] = e
    BY <1>1, <1>3, <2>2, <2>3
  <2>5. ASSUME NEW i \in 0..(N - 1), i < N - 1 PROVE Tail(more)[i + 1] = s[i + 2]
    <3>1. i + 1 \in 1..n /\ i + 2 \in 1..n /\ i + 1 + 1 = i + 2
      BY <1>0, <1>3, <2>5
    <3> QED
      BY <1>1, <2>2, <3>1
  <2> QED
    BY <1>0, <1>t, <1>3, <2>1, <2>2, <2>4, <2>5
<1> QED
  BY <1>0, <1>2, <1>3

LEMMA AddInv == ASSUME NEW size \in 1..MaxSize, Add(size), Inv PROVE Inv'
<1> DEFINE e == [buffptr |-> serial, size |-> size]
           in == ring.in_offs
           n == Len(recent)
           wraps == in + 1 >= N
<1>1. TypeOK /\ TypeOK'
  BY AddType DEF Inv
<1>2. /\ N \in Nat /\ N > 0 /\ in \in 0..(N - 1) /\ ring.full \in BOOLEAN
      /\ recent \in Seq(Stored) /\ n \in Nat
      /\ ring.out_offs = IF ring.full THEN in ELSE 0
      /\ n = IF ring.full THEN N ELSE in
      /\ DOMAIN ring.entry = 0..(N - 1)
  BY <1>1, RingTypes DEF Slots, Inv, RingShape, Holds
<1>3. (ring'.full <=> (ring.full \/ wraps)) /\ e \in Stored
  BY <1>1, AddFields
<1>4. ring'.in_offs = IF wraps THEN 0 ELSE in + 1
  BY <1>1, AddFields
<1>5. ring'.out_offs = IF ring.full \/ wraps THEN ring'.in_offs ELSE ring.out_offs
  BY <1>1, AddFields
<1>6. \A j \in 0..(N - 1) : ring'.entry[j] = IF j = in THEN e ELSE ring.entry[j]
  <2>1. ring'.entry = [ring.entry EXCEPT ![ring.in_offs] = e]
    BY <1>1, AddFields
  <2> HIDE DEF e
  <2> QED
    BY <1>2, <2>1
<1>7. recent' = Pushed(recent, e)
  BY <1>1, AddFields DEF Pushed
<1> HIDE DEF e
<1>8. n <= N
  BY <1>2
<1>9. /\ n < N => /\ Len(recent') = n + 1 /\ recent'[n + 1] = e
                  /\ \A i \in 0..(N - 1) : i < n => recent'[i + 1] = recent[i + 1]
      /\ n = N => /\ Len(recent') = N /\ recent'[N] = e
                  /\ \A i \in 0..(N - 1) : i < N - 1 => recent'[i + 1] = recent[i + 2]
  BY <1>2, <1>3, <1>7, <1>8, AddRecent
<1>10. \A i \in 0..(N - 1) : i < n => ring.entry[Wrapped(ring.out_offs + i)] = recent[i + 1]
  BY DEF Inv, Holds
<1>11. ~ring.full => \A j \in 0..(N - 1) : j >= in => ring.entry[j] = NullEntry
  BY DEF Inv, RingShape, Slots
<1> HIDE DEF in, n
<1>12. RingShape'
  <2>1. ring'.out_offs = IF ring'.full THEN ring'.in_offs ELSE 0
    BY <1>2, <1>3, <1>5
  <2>2. ASSUME ~ring'.full, NEW j \in 0..(N - 1), j >= ring'.in_offs
        PROVE  ring'.entry[j] = NullEntry
    <3>1. ~ring.full /\ ~wraps /\ j >= in /\ j # in
      BY <1>2, <1>3, <1>4, <2>2
    <3> QED
      BY <1>6, <1>11, <3>1
  <2> QED
    BY <2>1, <2>2 DEF RingShape, Slots
<1>13. Holds'
  <2>1. CASE ~ring.full
    <3>1. n = in /\ n < N /\ ring.out_offs = 0 /\ ring'.out_offs = 0
      BY <1>2, <1>3, <1>4, <1>5, <2>1
    <3>2. Len(recent') = IF ring'.full THEN N ELSE ring'.in_offs
      BY <1>2, <1>3, <1>4, <1>9, <2>1, <3>1
    <3>3. ASSUME NEW i \in 0..(N - 1), i < Len(recent')
          PROVE  ring'.entry[Wrapped(ring'.out_offs + i)] = recent'[i + 1]
      <4>1. Wrapped(ring'.out_offs + i) = i /\ Wrapped(ring.out_offs + i) = i
        BY <1>2, <3>1 DEF Wrapped
      <4>2. CASE i = n
        BY <1>6, <1>9, <3>1, <4>1, <4>2
      <4>3. CASE i # n
        <5>1. i < n /\ i # in
          BY <1>2, <1>9, <3>1, <3>3, <4>3
        <5> QED
          BY <1>6, <1>9, <1>10, <3>1, <4>1, <5>1
      <4> QED
        BY <4>2, <4>3
    <3> QED
      BY <3>2, <3>3 DEF Holds
  <2>2. CASE ring.full
    <3>1. n = N /\ ring.out_offs = in /\ ring'.full /\ ring'.out_offs = IF wraps THEN 0 ELSE in + 1
      BY <1>2, <1>3, <1>4, <1>5, <2>2
    <3>2. Len(recent') = N
      BY <1>9, <3>1
    <3>3. ASSUME NEW i \in 0..(N - 1)
          PROVE  ring'.entry[Wrapped(ring'.out_offs + i)] = recent'[i + 1]
      <4>0. Wrapped(ring'.out_offs + i) = IF ring'.out_offs + i < N THEN ring'.out_offs + i ELSE ring'.out_offs + i - N
        BY <1>2, <3>1 DEF Wrapped
      <4>1. CASE i = N - 1
        <5>1. Wrapped(ring'.out_offs + i) = in /\ i + 1 = N
          BY <1>2, <3>1, <4>0, <4>1
        <5> QED
          BY <1>2, <1>6, <1>9, <3>1, <5>1
      <4>2. CASE i # N - 1
        <5>1. PICK k \in 0..(N - 1) : k = i + 1
          BY <1>2, <4>2
        <5>2. Wrapped(ring.out_offs + k) = IF in + k < N THEN in + k ELSE in + k - N
          BY <1>2, <3>1 DEF Wrapped
        <5>3. Wrapped(ring'.out_offs + i) = Wrapped(ring.out_offs + k) /\ Wrapped(ring.out_offs + k) # in /\ Wrapped(ring.out_offs + k) \in 0..(N - 1) /\ i < N - 1 /\ k + 1 = i + 2
          BY <1>2, <3>1, <4>0, <4>2, <5>1, <5>2
        <5>4. ring'.entry[Wrapped(ring'.out_offs + i)] = ring.entry[Wrapped(ring.out_offs + k)]
          BY <1>6, <5>3
        <5>5. ring.entry[Wrapped(ring.out_offs + k)] = recent[i + 2]
          <6>1. k < n
            BY <1>2, <3>1, <5>1
          <6> QED
            BY <1>10, <5>3, <6>1
        <5> QED
          BY <1>9, <3>1, <5>3, <5>4, <5>5
      <4> QED
        BY <4>1, <4>2
    <3> QED
      BY <3>1, <3>2, <3>3 DEF Holds
  <2> QED
    BY <1>2, <2>1, <2>2
<1> QED
  BY <1>1, <1>12, <1>13 DEF Inv

LEMMA NextInv == Inv /\ [Next]_vars => Inv'
<1> SUFFICES ASSUME Inv, [Next]_vars PROVE Inv'
  OBVIOUS
<1>1. CASE UNCHANGED vars
  BY <1>1 DEF vars, Inv, TypeOK, RingShape, Holds
<1> QED
  BY <1>1, AddInv DEF Next
-----------------------------------------------------------------------------
(* The concatenation of the entries.                                       *)
Byte == Slots \X Nat

LEMMA BytesFacts ==
    ASSUME TypeOK
    PROVE  /\ Bytes \in Seq(Seq(Byte)) /\ Len(Bytes) = Len(recent)
           /\ \A k \in 1..Len(recent) :
                 /\ recent[k].size \in Nat /\ recent[k].size > 0 /\ recent[k].buffptr \in Slots
                 /\ Len(Bytes[k]) = recent[k].size
                 /\ \A b \in 1..recent[k].size : Bytes[k][b] = <<recent[k].buffptr, b - 1>>
<1>0. recent \in Seq(Stored) /\ Len(recent) \in Nat /\ DOMAIN recent = 1..Len(recent)
  BY RingTypes, LenProperties
<1>1. ASSUME NEW k \in 1..Len(recent)
      PROVE  recent[k].size \in Nat /\ recent[k].size > 0 /\ recent[k].buffptr \in Slots
  <2>1. recent[k] \in Stored
    BY <1>0, ElementOfSeq
  <2> QED
    BY <2>1, MaxSizeAssumption DEF Stored
<1> DEFINE part(k) == [b \in 1..recent[k].size |-> <<recent[k].buffptr, b - 1>>]
<1>2. ASSUME NEW k \in 1..Len(recent)
      PROVE  /\ part(k) \in Seq(Byte) /\ Len(part(k)) = recent[k].size
             /\ \A b \in 1..recent[k].size : part(k)[b] = <<recent[k].buffptr, b - 1>>
  <2>1. PICK m \in Nat, q \in Slots : m = recent[k].size /\ q = recent[k].buffptr
    BY <1>1
  <2> DEFINE u == [b \in 1..m |-> <<q, b - 1>>]
  <2>2. \A b \in 1..m : <<q, b - 1>> \in Byte
    BY DEF Byte
  <2>3. u \in [1..m -> Byte] /\ DOMAIN u = 1..m /\ \A b \in 1..m : u[b] = <<q, b - 1>>
    BY <2>2
  <2>4. part(k) = u
    BY <2>1
  <2> HIDE DEF u
  <2>5. u \in Seq(Byte) /\ Len(u) = m
    BY <2>3
  <2> HIDE DEF part
  <2> QED
    BY <2>1, <2>3, <2>4, <2>5
<1>3. Bytes = [k \in 1..Len(recent) |-> part(k)]
  BY <1>0 DEF Bytes
<1> HIDE DEF part
<1>4. Bytes \in [1..Len(recent) -> Seq(Byte)] /\ DOMAIN Bytes = 1..Len(recent)
      /\ \A k \in 1..Len(recent) : Bytes[k] = part(k)
  BY <1>2, <1>3
<1>5. Bytes \in Seq(Seq(Byte)) /\ Len(Bytes) = Len(recent)
  BY <1>0, <1>4
<1> QED
  BY <1>1, <1>2, <1>4, <1>5

LEMMA Ends ==
    ASSUME TypeOK
    PROVE  /\ EndOf(0) = 0 /\ EndOf(Len(recent)) = Len(Concatenation)
           /\ Len(Concatenation) \in Nat
           /\ \A k \in 1..Len(recent) :
                 /\ EndOf(k - 1) \in Nat /\ EndOf(k) = EndOf(k - 1) + recent[k].size
                 /\ EndOf(k) <= Len(Concatenation)
                 /\ \A b \in 1..recent[k].size :
                       Concatenation[EndOf(k - 1) + b] = <<recent[k].buffptr, b - 1>>
<1>0. /\ Bytes \in Seq(Seq(Byte)) /\ Len(Bytes) = Len(recent) /\ Len(recent) \in Nat
  BY BytesFacts, RingTypes
<1>1. Concatenation \in Seq(Byte) /\ Len(Concatenation) \in Nat
  BY <1>0, FlattenType, LenProperties DEF Concatenation
<1>2. EndOf(0) = 0 /\ EndOf(Len(recent)) = Len(Concatenation)
  BY <1>0, FlattenEnds, EmptySeq DEF EndOf, Concatenation, First
<1>3. ASSUME NEW k \in 1..Len(recent)
      PROVE  /\ EndOf(k - 1) \in Nat /\ EndOf(k) = EndOf(k - 1) + recent[k].size
             /\ EndOf(k) <= Len(Concatenation)
             /\ \A b \in 1..recent[k].size :
                   Concatenation[EndOf(k - 1) + b] = <<recent[k].buffptr, b - 1>>
  <2>1. /\ EndOf(k - 1) \in Nat
        /\ EndOf(k) = EndOf(k - 1) + Len(Bytes[k])
        /\ EndOf(k - 1) + Len(Bytes[k]) <= Len(Concatenation)
        /\ SameAt(Concatenation, EndOf(k - 1), Bytes[k], 0, Len(Bytes[k]))
    BY <1>0, FlattenMember DEF EndOf, Concatenation, First
  <2>2. /\ Len(Bytes[k]) = recent[k].size /\ recent[k].size \in Nat
        /\ \A b \in 1..recent[k].size : Bytes[k][b] = <<recent[k].buffptr, b - 1>>
    BY BytesFacts
  <2>3. \A b \in 1..recent[k].size : Concatenation[EndOf(k - 1) + b] = Bytes[k][0 + b]
    BY <2>1, <2>2 DEF SameAt
  <2>4. \A b \in 1..recent[k].size : Bytes[k][0 + b] = Bytes[k][b]
    BY <2>2
  <2> QED
    BY <2>1, <2>2, <2>3, <2>4
<1> QED
  BY <1>1, <1>2, <1>3

LEMMA EntryAt ==
    ASSUME Inv, NEW i \in 0..(N - 1)
    PROVE  LET e == ring.entry[Wrapped(ring.out_offs + i)]
           IN  /\ i < Len(recent) => e = recent[i + 1] /\ e.buffptr # NULL /\ e.size \in Nat
               /\ i = Len(recent) => e = NullEntry
<1> DEFINE e == ring.entry[Wrapped(ring.out_offs + i)]
<1>1. /\ N \in Nat /\ Len(recent) \in Nat /\ ring.full \in BOOLEAN /\ ring.in_offs \in 0..(N - 1)
      /\ Len(recent) = IF ring.full THEN N ELSE ring.in_offs
      /\ ring.out_offs = IF ring.full THEN ring.in_offs ELSE 0
  BY RingTypes DEF Inv, Holds, RingShape, Slots
<1>2. ASSUME i < Len(recent) PROVE e = recent[i + 1] /\ e.buffptr # NULL /\ e.size \in Nat
  <2>1. e = recent[i + 1]
    BY <1>2 DEF Inv, Holds
  <2>2. i + 1 \in 1..Len(recent)
    BY <1>1, <1>2
  <2>3. recent[i + 1].buffptr \in Slots /\ recent[i + 1].size \in Nat
    BY <2>2, BytesFacts DEF Inv
  <2> HIDE DEF e
  <2> QED
    BY <2>1, <2>3, NullAssumption
<1>3. ASSUME i = Len(recent) PROVE e = NullEntry
  <2>1. ~ring.full /\ ring.out_offs + i = i /\ i >= ring.in_offs /\ i \in Slots
    BY <1>1, <1>3 DEF Slots
  <2>2. Wrapped(ring.out_offs + i) = i
    BY <1>1, <2>1 DEF Wrapped
  <2> QED
    BY <2>1, <2>2 DEF Inv, RingShape
<1> QED
  BY <1>2, <1>3
-----------------------------------------------------------------------------
(* The summing loop.                                                       *)
Sums(r, start, f, n) ==
    f = [i \in 0..n |-> IF i = 0 THEN start ELSE SumIterate(r, f[i - 1])]

LEMMA SumsAt ==
    ASSUME NEW r, NEW start, NEW f, NEW n \in Nat, Sums(r, start, f, n), NEW k \in 0..n
    PROVE  f[k] = IF k = 0 THEN start ELSE SumIterate(r, f[k - 1])
<1> DEFINE e(j) == IF j = 0 THEN start ELSE SumIterate(r, f[j - 1])
<1>1. f = [j \in 0..n |-> e(j)]
  BY DEF Sums
<1> HIDE DEF e
<1>2. f[k] = e(k)
  BY <1>1
<1> QED
  BY <1>2 DEF e

LEMMA SumsExist ==
    ASSUME NEW r, NEW start, NEW n \in Nat PROVE \E f : Sums(r, start, f, n)
<1> DEFINE T == {k \in Nat : ~ \E f : Sums(r, start, f, k)}
<1> SUFFICES ASSUME T # {} PROVE FALSE
  OBVIOUS
<1>1. PICK k \in T : \A y \in T : k <= y
  <2>1. T \in SUBSET Nat
    OBVIOUS
  <2> HIDE DEF T
  <2> QED
    BY <2>1, LeastNumber
<1>2. CASE k = 0
  <2> DEFINE g == [i \in 0..0 |-> start]
  <2>1. g = [i \in 0..0 |-> IF i = 0 THEN start ELSE SumIterate(r, g[i - 1])]
    OBVIOUS
  <2> QED
    BY <1>1, <1>2, <2>1 DEF Sums
<1>3. CASE k # 0
  <2>1. k \in Nat /\ k - 1 \in Nat /\ ~(k - 1 \in T)
    BY <1>1, <1>3
  <2>2. PICK f : Sums(r, start, f, k - 1)
    BY <2>1
  <2>3. \A i \in 0..(k - 1) : f[i] = IF i = 0 THEN start ELSE SumIterate(r, f[i - 1])
    BY <2>1, <2>2, SumsAt
  <2> DEFINE g == [i \in 0..k |-> IF i = k THEN SumIterate(r, f[i - 1]) ELSE f[i]]
  <2>4. ASSUME NEW i \in 0..k
        PROVE  g[i] = IF i = 0 THEN start ELSE SumIterate(r, g[i - 1])
    <3>1. CASE i = k
      <4>1. i - 1 \in 0..k /\ i - 1 # k /\ i # 0
        BY <1>3, <2>1, <3>1
      <4>2. g[i] = SumIterate(r, f[i - 1]) /\ g[i - 1] = f[i - 1]
        BY <3>1, <4>1
      <4> QED
        BY <4>1, <4>2
    <3>2. CASE i # k
      <4>1. i \in 0..(k - 1) /\ g[i] = f[i]
        BY <2>1, <3>2
      <4>2. i # 0 => g[i - 1] = f[i - 1]
        BY <2>1, <3>2
      <4> QED
        BY <2>3, <4>1, <4>2
    <3> QED
      BY <3>1, <3>2
  <2>5. g = [i \in 0..k |-> IF i = 0 THEN start ELSE SumIterate(r, g[i - 1])]
    <3>1. g = [i \in 0..k |-> g[i]]
      OBVIOUS
    <3> HIDE DEF g
    <3> QED
      BY <2>4, <3>1
  <2>6. Sums(r, start, g, k)
    BY <2>5 DEF Sums
  <2> QED
    BY <1>1, <2>6
<1> QED
  BY <1>2, <1>3

(* After j iterations j entries have been counted.                         *)
SumAt(s, j, k) ==
    s.left = k - j /\ s.index = Wrapped(ring.out_offs + j) /\ s.sum = EndOf(j)

LEMMA SumStep ==
    ASSUME Inv, NEW s, NEW k \in 0..Len(recent), NEW j \in 1..k, SumAt(s, j - 1, k)
    PROVE  SumAt(SumIterate(ring, s), j, k)
<1> DEFINE out == ring.out_offs
           t == SumIterate(ring, s)
<1>1. /\ N \in Nat /\ Len(recent) \in Nat /\ Len(recent) <= N /\ out \in 0..(N - 1)
  BY RingTypes DEF Inv, Holds, Slots
<1>2. PICK i \in 0..(N - 1) : i = j - 1
  BY <1>1
<1>3. i < Len(recent) /\ j \in 1..Len(recent) /\ i + 1 = j
  BY <1>1, <1>2
<1>4. ring.entry[s.index] = recent[j]
  <2>1. ring.entry[Wrapped(out + i)] = recent[i + 1]
    BY <1>3, EntryAt
  <2> QED
    BY <1>2, <1>3, <2>1 DEF SumAt
<1>5. /\ t.left = s.left - 1 /\ t.index = NextIndex(s.index) /\ t.sum = s.sum + recent[j].size
  BY <1>4 DEF SumIterate
<1> HIDE DEF t, out
<1>6. s.left = k - i /\ s.index = Wrapped(out + i) /\ s.sum = EndOf(i)
  BY <1>2 DEF SumAt, out
<1>7. t.left = k - j
  BY <1>1, <1>3, <1>5, <1>6
<1>8. t.index = Wrapped(out + j)
  <2>1. Wrapped(out + i) = (IF out + i < N THEN out + i ELSE out + i - N)
    BY <1>1 DEF Wrapped
  <2>2. Wrapped(out + j) = (IF out + j < N THEN out + j ELSE out + j - N)
    BY <1>1 DEF Wrapped
  <2>3. t.index = IF s.index + 1 >= N THEN 0 ELSE s.index + 1
    BY <1>5 DEF NextIndex
  <2> QED
    BY <1>1, <1>3, <1>6, <2>1, <2>2, <2>3
<1>9. t.sum = EndOf(j)
  <2>1. EndOf(j) = EndOf(j - 1) + recent[j].size
    BY <1>3, Ends DEF Inv
  <2> QED
    BY <1>2, <1>5, <1>6, <2>1
<1> QED
  BY <1>7, <1>8, <1>9 DEF SumAt, t, out

LEMMA SumEnds ==
    ASSUME Inv, NEW k \in 0..Len(recent) PROVE SumAt(SumLoop(ring, SumStart(ring, k)), k, k)
<1> DEFINE start == SumStart(ring, k)
           f == CHOOSE g : Sums(ring, start, g, k)
<1>1. /\ N \in Nat /\ Len(recent) \in Nat /\ ring.out_offs \in 0..(N - 1) /\ k \in Nat
  BY RingTypes DEF Inv, Slots
<1>2. start.left = k /\ start.index = ring.out_offs /\ start.sum = 0
  BY DEF SumStart
<1> HIDE DEF start
<1>3. Sums(ring, start, f, k)
  BY <1>1, SumsExist
<1>4. SumLoop(ring, start) = f[k]
  BY <1>2 DEF SumLoop, Sums
<1> HIDE DEF f
<1>5. SumAt(start, 0, k)
  <2>1. Wrapped(ring.out_offs + 0) = ring.out_offs
    BY <1>1 DEF Wrapped
  <2>2. EndOf(0) = 0
    BY Ends DEF Inv
  <2> QED
    BY <1>1, <1>2, <2>1, <2>2 DEF SumAt
<1> DEFINE T == {j \in 0..k : ~SumAt(f[j], j, k)}
<1>6. T = {}
  <2> SUFFICES ASSUME T # {} PROVE FALSE
    OBVIOUS
  <2>1. PICK j \in T : \A y \in T : j <= y
    <3>1. T \in SUBSET Nat
      BY <1>1
    <3> HIDE DEF T
    <3> QED
      BY <3>1, LeastNumber
  <2>2. f[j] = IF j = 0 THEN start ELSE SumIterate(ring, f[j - 1])
    BY <1>1, <1>3, <2>1, SumsAt
  <2>3. j # 0
    BY <1>5, <2>1, <2>2
  <2>4. j \in 1..k /\ j - 1 \in 0..k /\ ~(j <= j - 1)
    BY <1>1, <2>1, <2>3
  <2>5. SumAt(f[j - 1], j - 1, k)
    BY <2>1, <2>4
  <2>6. SumAt(SumIterate(ring, f[j - 1]), j, k)
    BY <2>4, <2>5, SumStep
  <2> QED
    BY <2>1, <2>2, <2>3, <2>6
<1>7. k \in 0..k
  BY <1>1
<1> QED
  BY <1>4, <1>6, <1>7 DEF start
-----------------------------------------------------------------------------
(* The search.                                                             *)
Finds(r, start, f, n) ==
    f = [i \in 0..n |-> IF i = 0 THEN start ELSE FindOn(r, f[i - 1])]

LEMMA FindsAt ==
    ASSUME NEW r, NEW start, NEW f, NEW n \in Nat, Finds(r, start, f, n), NEW k \in 0..n
    PROVE  f[k] = IF k = 0 THEN start ELSE FindOn(r, f[k - 1])
<1> DEFINE e(j) == IF j = 0 THEN start ELSE FindOn(r, f[j - 1])
<1>1. f = [j \in 0..n |-> e(j)]
  BY DEF Finds
<1> HIDE DEF e
<1>2. f[k] = e(k)
  BY <1>1
<1> QED
  BY <1>2 DEF e

LEMMA FindsExist ==
    ASSUME NEW r, NEW start, NEW n \in Nat PROVE \E f : Finds(r, start, f, n)
<1> DEFINE T == {k \in Nat : ~ \E f : Finds(r, start, f, k)}
<1> SUFFICES ASSUME T # {} PROVE FALSE
  OBVIOUS
<1>1. PICK k \in T : \A y \in T : k <= y
  <2>1. T \in SUBSET Nat
    OBVIOUS
  <2> HIDE DEF T
  <2> QED
    BY <2>1, LeastNumber
<1>2. CASE k = 0
  <2> DEFINE g == [i \in 0..0 |-> start]
  <2>1. g = [i \in 0..0 |-> IF i = 0 THEN start ELSE FindOn(r, g[i - 1])]
    OBVIOUS
  <2> QED
    BY <1>1, <1>2, <2>1 DEF Finds
<1>3. CASE k # 0
  <2>1. k \in Nat /\ k - 1 \in Nat /\ ~(k - 1 \in T)
    BY <1>1, <1>3
  <2>2. PICK f : Finds(r, start, f, k - 1)
    BY <2>1
  <2>3. \A i \in 0..(k - 1) : f[i] = IF i = 0 THEN start ELSE FindOn(r, f[i - 1])
    BY <2>1, <2>2, FindsAt
  <2> DEFINE g == [i \in 0..k |-> IF i = k THEN FindOn(r, f[i - 1]) ELSE f[i]]
  <2>4. ASSUME NEW i \in 0..k
        PROVE  g[i] = IF i = 0 THEN start ELSE FindOn(r, g[i - 1])
    <3>1. CASE i = k
      <4>1. i - 1 \in 0..k /\ i - 1 # k /\ i # 0
        BY <1>3, <2>1, <3>1
      <4>2. g[i] = FindOn(r, f[i - 1]) /\ g[i - 1] = f[i - 1]
        BY <3>1, <4>1
      <4> QED
        BY <4>1, <4>2
    <3>2. CASE i # k
      <4>1. i \in 0..(k - 1) /\ g[i] = f[i]
        BY <2>1, <3>2
      <4>2. i # 0 => g[i - 1] = f[i - 1]
        BY <2>1, <3>2
      <4> QED
        BY <2>3, <4>1, <4>2
    <3> QED
      BY <3>1, <3>2
  <2>5. g = [i \in 0..k |-> IF i = 0 THEN start ELSE FindOn(r, g[i - 1])]
    <3>1. g = [i \in 0..k |-> g[i]]
      OBVIOUS
    <3> HIDE DEF g
    <3> QED
      BY <2>4, <3>1
  <2>6. Finds(r, start, g, k)
    BY <2>5 DEF Finds
  <2> QED
    BY <1>1, <2>6
<1> QED
  BY <1>2, <1>3

(* Entry i as current_out_offs_offset counts it, from out_offs and back    *)
(* from it behind the wrap.                                                *)
Offset(i) == IF ring.out_offs + i < N THEN i ELSE i - N

(* After j iterations the search has passed j entries, or has found the    *)
(* one the position is in, or has seen that there is none.                 *)
FindAt(s, j, pos) ==
    \/ /\ s.status = "loop" /\ j < N /\ j <= Len(recent) /\ s.cur = Offset(j)
       /\ s.remaining \in Nat /\ pos = EndOf(j) + s.remaining
    \/ /\ s.status = "found"
       /\ \E m \in 0..(N - 1) :
             /\ m < Len(recent) /\ s.cur = Offset(m)
             /\ s.remaining \in Nat /\ pos = EndOf(m) + s.remaining
             /\ s.remaining < recent[m + 1].size
    \/ s.status = "null" /\ pos >= Len(Concatenation)

(* The arithmetic of the wrap.                                             *)
LEMMA OffsetNext ==
    ASSUME NEW out \in 0..(N - 1), NEW j \in 0..(N - 1), NEW cur, NEW next,
           cur = IF out + j < N THEN j ELSE j - N,
           next = IF out + cur + 1 >= N THEN -out ELSE cur + 1
    PROVE  /\ next = 0 <=> j + 1 = N
           /\ j + 1 < N => next = IF out + (j + 1) < N THEN j + 1 ELSE j + 1 - N
           /\ out + cur = Wrapped(out + j)
BY NAssumption DEF Wrapped

LEMMA FindStep ==
    ASSUME Inv, NEW pos \in Nat, NEW s, NEW j \in 1..N, FindAt(s, j - 1, pos)
    PROVE  FindAt(FindOn(ring, s), j, pos)
<1>1. CASE s.status # "loop"
  <2>1. FindOn(ring, s) = s
    BY <1>1 DEF FindOn
  <2> QED
    BY <1>1, <2>1 DEF FindAt
<1>2. CASE s.status = "loop"
  <2> DEFINE out == ring.out_offs
             n == Len(recent)
             t == FindIterate(ring, s)
             e == ring.entry[FindSlot(ring, s)]
             next == IF out + s.cur + 1 >= N THEN -out ELSE s.cur + 1
  <2>0. FindOn(ring, s) = t
    BY <1>2 DEF FindOn
  <2>1. /\ N \in Nat /\ n \in Nat /\ n <= N /\ out \in 0..(N - 1)
    BY RingTypes DEF Inv, Holds, Slots
  <2>2. PICK i \in 0..(N - 1) : i = j - 1
    BY <2>1
  <2>3. /\ i <= n /\ s.cur = (IF out + i < N THEN i ELSE i - N)
        /\ s.remaining \in Nat /\ pos = EndOf(i) + s.remaining
    BY <1>2, <2>2 DEF FindAt, Offset
  <2>4. /\ next = 0 <=> i + 1 = N
        /\ i + 1 < N => next = IF out + (i + 1) < N THEN i + 1 ELSE i + 1 - N
        /\ out + s.cur = Wrapped(out + i)
    <3>1. PICK o \in 0..(N - 1) : o = out
      BY <2>1
    <3>2. PICK cur : cur = s.cur
      OBVIOUS
    <3>3. PICK nxt : nxt = IF o + cur + 1 >= N THEN -o ELSE cur + 1
      OBVIOUS
    <3>4. cur = IF o + i < N THEN i ELSE i - N
      BY <2>3, <3>1, <3>2
    <3>5. /\ nxt = 0 <=> i + 1 = N
          /\ i + 1 < N => nxt = IF o + (i + 1) < N THEN i + 1 ELSE i + 1 - N
          /\ o + cur = Wrapped(o + i)
      BY ONLY <3>3, <3>4, OffsetNext
    <3>6. nxt = next
      BY <3>1, <3>2, <3>3
    <3> HIDE DEF out, next
    <3> QED
      BY <3>1, <3>2, <3>5, <3>6
  <2>5. /\ t.status = IF e.buffptr = NULL THEN "null"
                      ELSE IF ~(e.buffptr # NULL /\ s.remaining >= e.size) THEN "found"
                      ELSE IF next = 0 THEN "null" ELSE "loop"
        /\ t.remaining = IF e.buffptr # NULL /\ s.remaining >= e.size THEN s.remaining - e.size ELSE s.remaining
        /\ t.cur = IF e.buffptr # NULL /\ s.remaining >= e.size THEN next ELSE s.cur
    BY DEF FindIterate
  <2>6. /\ i < n => e = recent[i + 1] /\ e.buffptr # NULL /\ e.size \in Nat
        /\ i = n => e = NullEntry
    <3>1. FindSlot(ring, s) = Wrapped(out + i)
      BY <2>4 DEF FindSlot
    <3>2. e = ring.entry[Wrapped(out + i)]
      BY <3>1
    <3> QED
      BY <3>2, EntryAt
  <2> HIDE DEF out, t, e, next
  <2>7. /\ EndOf(n) = Len(Concatenation) /\ Len(Concatenation) \in Nat
        /\ i < n => EndOf(i) \in Nat /\ EndOf(i + 1) = EndOf(i) + recent[i + 1].size
    <3>1. EndOf(n) = Len(Concatenation) /\ Len(Concatenation) \in Nat
      BY Ends DEF Inv
    <3>2. ASSUME i < n PROVE EndOf(i) \in Nat /\ EndOf(i + 1) = EndOf(i) + recent[i + 1].size
      <4>1. PICK k \in 1..n : k = i + 1
        BY <2>1, <3>2
      <4>2. EndOf(k - 1) \in Nat /\ EndOf(k) = EndOf(k - 1) + recent[k].size
        BY Ends DEF Inv
      <4>3. k - 1 = i
        BY <2>1, <4>1
      <4> QED
        BY <4>1, <4>2, <4>3
    <3> QED
      BY <3>1, <3>2
  <2>8. CASE i = n
    <3>1. t.status = "null"
      BY <2>5, <2>6, <2>8 DEF NullEntry
    <3>2. pos >= Len(Concatenation)
      BY <2>3, <2>7, <2>8
    <3> QED
      BY <2>0, <3>1, <3>2 DEF FindAt
  <2>9. CASE i < n /\ s.remaining < e.size
    <3>1. t.status = "found" /\ t.remaining = s.remaining /\ t.cur = s.cur
      BY <2>3, <2>5, <2>6, <2>9
    <3>2. /\ t.cur = Offset(i) /\ t.remaining < recent[i + 1].size
      BY <2>3, <2>6, <2>9, <3>1 DEF Offset, out
    <3> QED
      BY <2>0, <2>3, <2>9, <3>1, <3>2 DEF FindAt, n
  <2>10. CASE i < n /\ ~(s.remaining < e.size)
    <3>1. /\ t.status = IF next = 0 THEN "null" ELSE "loop"
          /\ t.remaining = s.remaining - e.size /\ t.cur = next
      BY <2>3, <2>5, <2>6, <2>10
    <3>2. t.remaining \in Nat /\ pos = EndOf(i + 1) + t.remaining
      BY <2>3, <2>6, <2>7, <2>10, <3>1
    <3>3. CASE next = 0
      <4>1. i + 1 = n
        BY <2>1, <2>4, <2>10, <3>3
      <4>2. pos >= Len(Concatenation)
        BY <2>7, <3>2, <4>1
      <4> QED
        BY <2>0, <3>1, <3>3, <4>2 DEF FindAt
    <3>4. CASE next # 0
      <4>1. i + 1 < N /\ j = i + 1 /\ j <= n
        BY <2>1, <2>2, <2>4, <2>10, <3>4
      <4>2. t.cur = Offset(j)
        <5>1. t.cur = IF out + j < N THEN j ELSE j - N
          BY <2>1, <2>4, <3>1, <4>1
        <5> QED
          BY <5>1 DEF Offset, out
      <4> QED
        BY <2>0, <3>1, <3>2, <3>4, <4>1, <4>2 DEF FindAt, n
    <3> QED
      BY <3>3, <3>4
  <2> QED
    BY <2>1, <2>3, <2>8, <2>9, <2>10 DEF n
<1> QED
  BY <1>1, <1>2

LEMMA FindEnds ==
    ASSUME Inv, NEW pos \in Nat PROVE FindAt(FindLoop(ring, FindStart(pos)), N, pos)
<1> DEFINE start == FindStart(pos)
           f == CHOOSE g : Finds(ring, start, g, N)
<1>1. /\ N \in Nat /\ N > 0 /\ Len(recent) \in Nat /\ ring.out_offs \in 0..(N - 1)
  BY RingTypes DEF Inv, Slots
<1>2. start.remaining = pos /\ start.cur = 0 /\ start.status = "loop"
  BY DEF FindStart
<1> HIDE DEF start
<1>3. Finds(ring, start, f, N)
  BY <1>1, FindsExist
<1>4. FindLoop(ring, start) = f[N]
  BY DEF FindLoop, Finds
<1> HIDE DEF f
<1>5. FindAt(start, 0, pos)
  <2>1. Offset(0) = 0 /\ 0 < N /\ 0 <= Len(recent)
    BY <1>1 DEF Offset
  <2>2. EndOf(0) = 0
    BY Ends DEF Inv
  <2>3. pos = EndOf(0) + start.remaining
    BY <1>2, <2>2
  <2> QED
    BY <1>2, <2>1, <2>3 DEF FindAt
<1> DEFINE T == {j \in 0..N : ~FindAt(f[j], j, pos)}
<1>6. T = {}
  <2> SUFFICES ASSUME T # {} PROVE FALSE
    OBVIOUS
  <2>1. PICK j \in T : \A y \in T : j <= y
    <3>1. T \in SUBSET Nat
      BY <1>1
    <3> HIDE DEF T
    <3> QED
      BY <3>1, LeastNumber
  <2>2. f[j] = IF j = 0 THEN start ELSE FindOn(ring, f[j - 1])
    BY <1>1, <1>3, <2>1, FindsAt
  <2>3. j # 0
    BY <1>5, <2>1, <2>2
  <2>4. j \in 1..N /\ j - 1 \in 0..N /\ ~(j <= j - 1)
    BY <1>1, <2>1, <2>3
  <2>5. FindAt(f[j - 1], j - 1, pos)
    BY <2>1, <2>4
  <2>6. FindAt(FindOn(ring, f[j - 1]), j, pos)
    BY <2>4, <2>5, FindStep
  <2> QED
    BY <2>1, <2>2, <2>3, <2>6
<1>7. N \in 0..N
  BY <1>1
<1> QED
  BY <1>4, <1>6, <1>7 DEF start
-----------------------------------------------------------------------------
(* The inductive invariant of the ring holds, however many entries are     *)
(* added.                                                                  *)
THEOREM RingInvariance == Spec => []Inv
<1>1. Inv /\ [Next]_vars => Inv'
  BY NextInv
<1> QED
  BY <1>1, InitInv, PTL DEF Spec

(* in_offs and out_offs stay inside the array.                             *)
THEOREM RingTypeCorrect == Spec => []TypeOK
<1>1. Inv => TypeOK
  BY DEF Inv
<1> QED
  BY <1>1, RingInvariance, PTL

(* add_entry keeps the N most recent entries, oldest first from out_offs,  *)
(* and aesd_llseek counts them.                                            *)
THEOREM HoldsMostRecentHolds == Spec => []HoldsMostRecent
<1>1. Inv => HoldsMostRecent
  <2> SUFFICES ASSUME Inv PROVE HoldsMostRecent
    OBVIOUS
  <2>1. /\ N \in Nat /\ N > 0 /\ Len(recent) \in Nat /\ ring.full \in BOOLEAN
        /\ ring.in_offs \in 0..(N - 1) /\ ring.out_offs \in 0..(N - 1)
        /\ Len(recent) = IF ring.full THEN N ELSE ring.in_offs
        /\ ring.out_offs = IF ring.full THEN ring.in_offs ELSE 0
    BY RingTypes DEF Inv, Holds, RingShape, Slots
  <2>2. NumEntries(ring) = Len(recent)
    BY <2>1 DEF NumEntries
  <2>3. ASSUME NEW i \in 1..Len(recent)
        PROVE  ring.entry[(ring.out_offs + i - 1) % N] = recent[i]
    <3>1. PICK k \in 0..(N - 1) : k = i - 1
      BY <2>1
    <3>2. PICK a \in Nat : a = ring.out_offs + k
      BY <2>1
    <3>3. k < Len(recent) /\ k + 1 = i /\ ring.out_offs + i - 1 = a /\ a < N + N
      BY <2>1, <3>1, <3>2
    <3>4. a % N = Wrapped(a)
      BY <3>3, WrappedMod
    <3>5. ring.entry[Wrapped(ring.out_offs + k)] = recent[k + 1]
      BY <3>3 DEF Inv, Holds
    <3> QED
      BY <3>2, <3>3, <3>4, <3>5
  <2> QED
    BY <2>2, <2>3 DEF HoldsMostRecent
<1> QED
  BY <1>1, RingInvariance, PTL

(* The loop of aesd_llseek and aesd_unlocked_ioctl adds up to where an     *)
(* entry begins in the concatenation, for every number of entries.         *)
THEOREM SumsMatchConcatenationHolds == Spec => []SumsMatchConcatenation
<1>1. Inv => SumsMatchConcatenation
  <2> SUFFICES ASSUME Inv, NEW k \in 0..NumEntries(ring)
               PROVE  LET s == SumLoop(ring, SumStart(ring, k))
                      IN  /\ s.sum = EndOf(k)
                          /\ k < NumEntries(ring) => ring.entry[s.index] = recent[k + 1]
    BY DEF SumsMatchConcatenation
  <2>1. /\ N \in Nat /\ Len(recent) \in Nat /\ Len(recent) <= N /\ ring.full \in BOOLEAN
        /\ ring.in_offs \in 0..(N - 1)
        /\ Len(recent) = IF ring.full THEN N ELSE ring.in_offs
        /\ ring.out_offs = IF ring.full THEN ring.in_offs ELSE 0
    BY RingTypes DEF Inv, Holds, RingShape, Slots
  <2>2. NumEntries(ring) = Len(recent)
    BY <2>1 DEF NumEntries
  <2> DEFINE s == SumLoop(ring, SumStart(ring, k))
  <2>3. SumAt(s, k, k)
    BY <2>2, SumEnds
  <2> HIDE DEF s
  <2>4. ASSUME k < Len(recent) PROVE ring.entry[s.index] = recent[k + 1]
    <3>1. k \in 0..(N - 1)
      BY <2>1, <2>4
    <3>2. ring.entry[Wrapped(ring.out_offs + k)] = recent[k + 1]
      BY <2>4, <3>1, EntryAt
    <3> QED
      BY <2>3, <3>2 DEF SumAt
  <2> QED
    BY <2>2, <2>3, <2>4 DEF SumAt, s
<1> QED
  BY <1>1, RingInvariance, PTL

(* find_entry_offset_for_fpos returns the byte of the concatenation at a   *)
(* position, and NULL from its end on, whatever wraps on the way.          *)
THEOREM FindMatchesConcatenationHolds == Spec => []FindMatchesConcatenation
<1>1. Inv => FindMatchesConcatenation
  <2> SUFFICES ASSUME Inv, NEW pos \in 0..(N * MaxSize + 1)
               PROVE  LET s == FindLoop(ring, FindStart(pos))
                      IN  IF pos < Len(Concatenation)
                          THEN /\ s.status = "found"
                               /\ <<ring.entry[FindSlot(ring, s)].buffptr, s.remaining>>
                                      = Concatenation[pos + 1]
                          ELSE s.status = "null"
    BY DEF FindMatchesConcatenation
  <2> DEFINE s == FindLoop(ring, FindStart(pos))
             n == Len(recent)
             len == Len(Concatenation)
  <2>0. pos \in Nat
    OBVIOUS
  <2>1. /\ N \in Nat /\ n \in Nat /\ n <= N /\ len \in Nat /\ ring.out_offs \in 0..(N - 1)
    BY RingTypes, Ends DEF Inv, Holds, Slots
  <2>2. FindAt(s, N, pos)
    BY <2>0, FindEnds
  <2> HIDE DEF s, n, len
  <2>3. \/ s.status = "null" /\ pos >= len
        \/ /\ s.status = "found"
           /\ \E m \in 0..(N - 1) :
                 /\ m < n /\ s.cur = Offset(m)
                 /\ s.remaining \in Nat /\ pos = EndOf(m) + s.remaining
                 /\ s.remaining < recent[m + 1].size
    BY <2>1, <2>2 DEF FindAt, n, len
  <2>4. CASE s.status = "null" /\ pos >= len
    BY <2>0, <2>1, <2>4 DEF s, len
  <2>5. ASSUME s.status = "found", NEW m \in 0..(N - 1), m < n, s.cur = Offset(m),
               s.remaining \in Nat, pos = EndOf(m) + s.remaining,
               s.remaining < recent[m + 1].size
        PROVE  pos < len /\ <<ring.entry[FindSlot(ring, s)].buffptr, s.remaining>> = Concatenation[pos + 1]
    <3>1. PICK k \in 1..n, b \in Nat : k = m + 1 /\ b = s.remaining + 1
      BY <2>1, <2>5
    <3>2. /\ EndOf(k - 1) \in Nat /\ EndOf(k) = EndOf(k - 1) + recent[k].size /\ EndOf(k) <= len
          /\ \A x \in 1..recent[k].size :
                Concatenation[EndOf(k - 1) + x] = <<recent[k].buffptr, x - 1>>
      BY <2>1, Ends DEF Inv, n, len
    <3>3. recent[k].size \in Nat
      BY BytesFacts DEF Inv, n
    <3>4. k - 1 = m /\ b \in 1..recent[k].size /\ b - 1 = s.remaining
      BY <2>1, <2>5, <3>1, <3>3
    <3>5. pos < len /\ pos + 1 = EndOf(k - 1) + b
      BY <2>1, <2>5, <3>1, <3>2, <3>3, <3>4
    <3>6. Concatenation[pos + 1] = <<recent[k].buffptr, s.remaining>>
      BY <3>2, <3>4, <3>5
    <3>7. FindSlot(ring, s) = Wrapped(ring.out_offs + m)
      BY <2>1, <2>5 DEF FindSlot, Offset, Wrapped
    <3>8. ring.entry[Wrapped(ring.out_offs + m)] = recent[k]
      BY <2>5, <3>1, EntryAt DEF n
    <3> QED
      BY <3>5, <3>6, <3>7, <3>8
  <2> QED
    BY <2>3, <2>4, <2>5 DEF s, len
<1> QED
  BY <1>1, RingInvariance, PTL
=============================================================================
