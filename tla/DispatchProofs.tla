--------------------------- MODULE DispatchProofs ---------------------------
(***************************************************************************)
(* Proofs about Dispatch, for any clients, packets and threads: its types, *)
(* that every event is accounted for, and that a packet is read by one     *)
(* thread.                                                                 *)
(***************************************************************************)
EXTENDS Dispatch, SequenceTheorems, FiniteSetTheorems, TLAPS

USE ConnAssumption, ListenAssumption, EagerAssumption, BoundAssumption
----------------------------------------------------------------------------
(* The inductive invariant.                                                *)

(* The sets that Due and HalfRead count, and the threads in a handler.     *)
Slots(f) == {s \in next .. ret : events[s] = f}
Going(f) ==
    {t \in Thread : \/ thread[t].pc = "start" /\ thread[t].for = f
                    \/ thread[t].pc = "head" /\ thread[t].fd = f}
Halves(c) == {t \in Thread : thread[t].pc = "body" /\ thread[t].fd = c}
Workers(c) == {t \in Thread : thread[t].pc = "work" /\ thread[t].fd = c}

(* A descriptor has one event in ready at most, a connection one place in  *)
(* the backlog.                                                            *)
ReadyOnce == \A i, j \in 1 .. Len(ready) : ready[i] = ready[j] => i = j

BacklogOnce ==
    /\ \A i, j \in 1 .. Len(backlog) : backlog[i] = backlog[j] => i = j
    /\ \A i \in 1 .. Len(backlog) : state[backlog[i]] # "new"

(* Nothing in the server speaks of a connection before it is accepted.     *)
Fresh(c) ==
    /\ c \notin open
    /\ ~Contains(ready, c)
    /\ \A s \in Slot : events[s] # c
    /\ \A t \in Thread : thread[t].for # c /\ thread[t].fd # c
    /\ merged[c] = 0 /\ skew[c] = 0
    /\ Len(rx[c]) = 2 * sent[c]

FreshRight ==
    \A c \in Conn :
        /\ state[c] = "new" => Fresh(c) /\ sent[c] = 0
        /\ Contains(backlog, c) => Fresh(c)

BootRight ==
    phase = "boot" =>
        /\ open = {} /\ ready = << >> /\ backlog = << >>
        /\ ret = 0 /\ next = 1
        /\ \A t \in Thread : thread[t] = Free
        /\ merged[Listen] = 0 /\ skew[Listen] = 0

(* The two parts of the one packet a waiting client has sent: unread, in   *)
(* the hands of a thread that has read the first part, or in a handler.    *)
Live(c) == state[c] # "ended" /\ (c \in open \/ Contains(backlog, c))

PacketRight(c) ==
    /\ Len(rx[c]) + HalfRead(c) + 2 * Cardinality(Workers(c))
          = IF state[c] = "waiting" THEN 2 ELSE 0
    /\ Len(rx[c]) = 1 =>
          /\ rx[c][1] = Part(sent[c], "body")
          /\ \A t \in Halves(c) : thread[t].packet = sent[c]
    /\ Len(rx[c]) = 2 =>
          rx[c] = <<Part(sent[c], "header"), Part(sent[c], "body")>>

PacketsRight == \A c \in Conn \ Eager : Live(c) => PacketRight(c)

IInv ==
    /\ TypeOK /\ ReadyOnce /\ BacklogOnce /\ FreshRight /\ BootRight
    /\ EventsAccounted /\ PacketsRight
----------------------------------------------------------------------------
(* Moving one unit of a balance from one descriptor to another.            *)
LEMMA UnitMoved ==
    ASSUME NEW S, NEW s \in [S -> Int], NEW f \in S, NEW g \in S
    PROVE  [s EXCEPT ![g] = @ + 1, ![f] = @ - 1] \in [S -> Int]
<1>1. \A u \in [S -> Int] : \A x \in S : [u EXCEPT ![x] = @ + 1] \in [S -> Int]
  OBVIOUS
<1>2. \A u \in [S -> Int] : \A x \in S : [u EXCEPT ![x] = @ - 1] \in [S -> Int]
  OBVIOUS
<1> DEFINE u == [s EXCEPT ![g] = @ + 1]
<1>3. u \in [S -> Int]
  BY <1>1
<1> HIDE DEF u
<1>4. [u EXCEPT ![f] = @ - 1] \in [S -> Int]
  BY <1>2, <1>3
<1> QED
  BY <1>4 DEF u

(* Sets of threads.                                                        *)

ThreadRec ==
    [pc : {"free", "start", "head", "body", "work"}, slot : Slot, for : Descriptor,
     fd : Descriptor, packet : 0 .. MaxPackets]
PartRec == [packet : 1 .. MaxPackets, kind : {"header", "body"}]

LEMMA ThreadFinite == \A S \in SUBSET Thread : IsFiniteSet(S) /\ Cardinality(S) \in Nat
<1>1. IsFiniteSet(Thread)
  BY FS_Interval DEF Thread
<1> QED
  BY <1>1, FS_Subset, FS_CardinalityType

(* One element is put in or taken out.                                     *)
LEMMA CountMove ==
    ASSUME NEW A, NEW B, NEW t, IsFiniteSet(A), A \ {t} = B \ {t}
    PROVE  Cardinality(B) = Cardinality(A) - (IF t \in A THEN 1 ELSE 0)
                                           + (IF t \in B THEN 1 ELSE 0)
<1>1. /\ IsFiniteSet(A \ {t})
      /\ Cardinality(A \ {t}) = Cardinality(A) - (IF t \in A THEN 1 ELSE 0)
  BY FS_RemoveElement, FS_CardinalityType
<1>2. CASE t \in B
  <2>1. B = (A \ {t}) \cup {t}
    BY <1>2
  <2>2. Cardinality(B) = Cardinality(A \ {t}) + 1
    BY <1>1, <2>1, FS_AddElement
  <2> QED
    BY <1>1, <1>2, <2>2, FS_CardinalityType
<1>3. CASE t \notin B
  <2>1. B = A \ {t}
    BY <1>3
  <2> QED
    BY <1>1, <1>3, <2>1, FS_CardinalityType
<1> QED
  BY <1>2, <1>3

(* What the steps of one thread do to the counts.                          *)
LEMMA ThreadMove ==
    ASSUME NEW t \in Thread, \A u \in Thread \ {t} : thread'[u] = thread[u], NEW f
    PROVE  /\ InThreads(f)' = InThreads(f) - (IF t \in Going(f) THEN 1 ELSE 0)
                                           + (IF t \in Going(f)' THEN 1 ELSE 0)
           /\ HalfRead(f)' = HalfRead(f) - (IF t \in Halves(f) THEN 1 ELSE 0)
                                         + (IF t \in Halves(f)' THEN 1 ELSE 0)
           /\ Cardinality(Workers(f))' =
                 Cardinality(Workers(f)) - (IF t \in Workers(f) THEN 1 ELSE 0)
                                         + (IF t \in Workers(f)' THEN 1 ELSE 0)
<1>1. /\ InThreads(f) = Cardinality(Going(f)) /\ InThreads(f)' = Cardinality(Going(f)')
      /\ HalfRead(f) = Cardinality(Halves(f)) /\ HalfRead(f)' = Cardinality(Halves(f)')
  BY DEF InThreads, HalfRead, Going, Halves
<1>2. /\ IsFiniteSet(Going(f)) /\ IsFiniteSet(Halves(f)) /\ IsFiniteSet(Workers(f))
  BY ThreadFinite DEF Going, Halves, Workers
<1>3. /\ Going(f) \ {t} = Going(f)' \ {t}
      /\ Halves(f) \ {t} = Halves(f)' \ {t}
      /\ Workers(f) \ {t} = Workers(f)' \ {t}
  BY DEF Going, Halves, Workers
<1>4. Cardinality(Going(f)') = Cardinality(Going(f)) - (IF t \in Going(f) THEN 1 ELSE 0)
                                                   + (IF t \in Going(f)' THEN 1 ELSE 0)
  BY <1>2, <1>3, CountMove
<1>5. Cardinality(Halves(f)') = Cardinality(Halves(f)) - (IF t \in Halves(f) THEN 1 ELSE 0)
                                                     + (IF t \in Halves(f)' THEN 1 ELSE 0)
  BY <1>2, <1>3, CountMove
<1>6. Cardinality(Workers(f)') = Cardinality(Workers(f)) - (IF t \in Workers(f) THEN 1 ELSE 0)
                                                       + (IF t \in Workers(f)' THEN 1 ELSE 0)
  BY <1>2, <1>3, CountMove
<1> QED
  BY <1>1, <1>4, <1>5, <1>6

LEMMA CountTypes ==
    ASSUME TypeOK, NEW f
    PROVE  /\ InReady(f) \in {0, 1} /\ InSlots(f) \in Nat /\ InThreads(f) \in Nat
           /\ HalfRead(f) \in Nat /\ Cardinality(Workers(f)) \in Nat
<1>1. IsFiniteSet(next .. ret)
  BY FS_Interval DEF TypeOK
<1>2. InSlots(f) \in Nat
  BY <1>1, FS_Subset, FS_CardinalityType DEF InSlots
<1>3. InThreads(f) \in Nat /\ HalfRead(f) \in Nat /\ Cardinality(Workers(f)) \in Nat
  BY ThreadFinite DEF InThreads, HalfRead, Workers
<1> QED
  BY <1>2, <1>3 DEF InReady

(* Who is counted somewhere has something counted.                         *)
LEMMA CountPositive ==
    ASSUME TypeOK, NEW f, NEW t \in Thread
    PROVE  /\ t \in Going(f) => InThreads(f) > 0
           /\ t \in Halves(f) => HalfRead(f) > 0
           /\ t \in Workers(f) => Cardinality(Workers(f)) > 0
<1>1. /\ IsFiniteSet(Going(f)) /\ IsFiniteSet(Halves(f)) /\ IsFiniteSet(Workers(f))
  BY ThreadFinite DEF Going, Halves, Workers
<1>2. \A S : IsFiniteSet(S) /\ t \in S => Cardinality(S) \in Nat /\ Cardinality(S) # 0
  BY FS_EmptySet, FS_CardinalityType
<1> QED
  BY <1>1, <1>2 DEF InThreads, HalfRead, Going, Halves
----------------------------------------------------------------------------
(* Sequences in which nothing is twice, and the events in ready.           *)

Once(s) == \A i, j \in 1 .. Len(s) : s[i] = s[j] => i = j

LEMMA AppendOnce ==
    ASSUME NEW S, NEW s \in Seq(S), NEW e \in S, Once(s), ~Contains(s, e)
    PROVE  /\ Append(s, e) \in Seq(S) /\ Once(Append(s, e))
           /\ Len(Append(s, e)) = Len(s) + 1
           /\ \A x : Contains(Append(s, e), x) <=> Contains(s, x) \/ x = e
<1> DEFINE a == Append(s, e)
<1>1. /\ a \in Seq(S) /\ Len(a) = Len(s) + 1 /\ Len(s) \in Nat
      /\ \A i \in 1 .. Len(s) : a[i] = s[i]
      /\ a[Len(s) + 1] = e
  BY AppendProperties, LenProperties
<1> HIDE DEF a
<1>2. Once(a)
  BY <1>1 DEF Once, Contains
<1>3. \A x : Contains(a, x) <=> Contains(s, x) \/ x = e
  BY <1>1 DEF Contains
<1> QED
  BY <1>1, <1>2, <1>3 DEF a

LEMMA RemoveOnce ==
    ASSUME NEW S, NEW s \in Seq(S), NEW k \in 1 .. Len(s), Once(s)
    PROVE  /\ RemoveAt(s, k) \in Seq(S) /\ Once(RemoveAt(s, k))
           /\ \A x : Contains(RemoveAt(s, k), x) <=> Contains(s, x) /\ x # s[k]
<1> DEFINE a == SubSeq(s, 1, k - 1)
           b == SubSeq(s, k + 1, Len(s))
           r == a \o b
<1>1. Len(s) \in Nat /\ k \in Nat /\ 1 <= k /\ k <= Len(s)
  BY LenProperties
<1>2. /\ a \in Seq(S) /\ Len(a) = k - 1
      /\ \A i \in 1 .. k - 1 : a[i] = s[i]
  <2>1. \A j \in 1 .. k - 1 : s[j] \in S
    BY <1>1, ElementOfSeq
  <2>2. /\ a \in Seq(S)
        /\ Len(a) = IF 1 <= k - 1 THEN k - 1 - 1 + 1 ELSE 0
        /\ \A i \in 1 .. k - 1 - 1 + 1 : a[i] = s[1 + i - 1]
    BY <1>1, <2>1, SubSeqProperties
  <2> HIDE DEF a
  <2> QED
    BY <1>1, <2>2
<1>3. /\ b \in Seq(S) /\ Len(b) = Len(s) - k
      /\ \A i \in 1 .. Len(s) - k : b[i] = s[k + i]
  <2>1. \A j \in k + 1 .. Len(s) : s[j] \in S
    BY <1>1, ElementOfSeq
  <2>2. /\ b \in Seq(S)
        /\ Len(b) = IF k + 1 <= Len(s) THEN Len(s) - (k + 1) + 1 ELSE 0
        /\ \A i \in 1 .. Len(s) - (k + 1) + 1 : b[i] = s[k + 1 + i - 1]
    BY <1>1, <2>1, SubSeqProperties
  <2> HIDE DEF b
  <2> QED
    BY <1>1, <2>2
<1> HIDE DEF a, b
<1>4. /\ r \in Seq(S) /\ Len(r) = Len(s) - 1
      /\ \A i \in 1 .. Len(r) : r[i] = IF i < k THEN s[i] ELSE s[i + 1]
  <2>1. /\ r \in Seq(S) /\ Len(r) = Len(a) + Len(b)
        /\ \A i \in 1 .. Len(a) + Len(b) : r[i] = IF i <= Len(a) THEN a[i] ELSE b[i - Len(a)]
    BY <1>2, <1>3, ConcatProperties
  <2> HIDE DEF r
  <2>2. Len(r) = Len(s) - 1
    BY <1>1, <1>2, <1>3, <2>1
  <2>3. ASSUME NEW i \in 1 .. Len(r) PROVE r[i] = IF i < k THEN s[i] ELSE s[i + 1]
    <3>1. CASE i < k
      BY <1>1, <1>2, <1>3, <2>1, <2>2, <3>1
    <3>2. CASE i >= k
      <4>1. r[i] = b[i - (k - 1)] /\ i - (k - 1) \in 1 .. Len(s) - k
        BY <1>1, <1>2, <1>3, <2>1, <2>2, <3>2
      <4> QED
        BY SMTT(60), <1>1, <1>3, <2>2, <3>2, <4>1
    <3> QED
      BY <1>1, <2>2, <3>1, <3>2
  <2> QED
    BY <2>1, <2>2, <2>3
<1> HIDE DEF r
<1>5. Once(r)
  <2> SUFFICES ASSUME NEW i \in 1 .. Len(r), NEW j \in 1 .. Len(r), r[i] = r[j]
               PROVE  i = j
    BY DEF Once
  <2> QED
    BY <1>1, <1>4 DEF Once
<1>6. ASSUME NEW x PROVE Contains(r, x) <=> Contains(s, x) /\ x # s[k]
  <2>1. ASSUME Contains(r, x) PROVE Contains(s, x) /\ x # s[k]
    <3>1. PICK i \in 1 .. Len(r) : r[i] = x
      BY <2>1 DEF Contains
    <3>2. CASE i < k
      BY <1>1, <1>4, <3>1, <3>2 DEF Once, Contains
    <3>3. CASE ~(i < k)
      BY SMTT(60), <1>1, <1>4, <3>1, <3>3 DEF Once, Contains
    <3> QED
      BY <3>2, <3>3
  <2>2. ASSUME Contains(s, x), x # s[k] PROVE Contains(r, x)
    <3>1. PICK i \in 1 .. Len(s) : s[i] = x
      BY <2>2 DEF Contains
    <3>2. CASE i < k
      <4>1. i \in 1 .. Len(r) /\ r[i] = x
        BY <1>1, <1>4, <3>1, <3>2
      <4> QED
        BY <4>1 DEF Contains
    <3>3. CASE i > k
      <4>1. i - 1 \in 1 .. Len(r) /\ r[i - 1] = x
        BY <1>1, <1>4, <3>1, <3>3
      <4> QED
        BY <4>1 DEF Contains
    <3> QED
      BY <1>1, <2>2, <3>1, <3>2, <3>3
  <2> QED
    BY <2>1, <2>2
<1>7. RemoveAt(s, k) = r
  BY DEF RemoveAt, r, a, b
<1> QED
  BY <1>4, <1>5, <1>6, <1>7

LEMMA ArrivalProperties ==
    ASSUME TypeOK, ReadyOnce, NEW f \in Descriptor, Arrival(f)
    PROVE  /\ ready' \in Seq(Descriptor) /\ ReadyOnce'
           /\ merged' \in [Descriptor -> Nat]
           /\ InReady(f)' + merged'[f] = InReady(f) + merged[f] + 1
           /\ \A g \in Descriptor \ {f} : InReady(g)' = InReady(g) /\ merged'[g] = merged[g]
           /\ \A g : Contains(ready, g) => Contains(ready', g)
           /\ \A g : g # f /\ Contains(ready', g) => Contains(ready, g)
<1>1. ready \in Seq(Descriptor) /\ merged \in [Descriptor -> Nat] /\ Once(ready)
  BY DEF TypeOK, ReadyOnce, Once
<1>2. CASE Contains(ready, f)
  BY <1>1, <1>2 DEF Arrival, InReady, ReadyOnce
<1>3. CASE ~Contains(ready, f)
  <2>1. ready' = Append(ready, f) /\ merged' = merged
    BY <1>3 DEF Arrival
  <2>2. /\ ready' \in Seq(Descriptor) /\ Once(ready')
        /\ \A x : Contains(ready', x) <=> Contains(ready, x) \/ x = f
    BY <1>1, <1>3, <2>1, AppendOnce
  <2> QED
    BY <1>1, <1>3, <2>1, <2>2 DEF InReady, ReadyOnce, Once
<1> QED
  BY <1>2, <1>3

LEMMA DropEventProperties ==
    ASSUME TypeOK, ReadyOnce, NEW f, DropEvent(f)
    PROVE  /\ ready' \in Seq(Descriptor) /\ ReadyOnce'
           /\ \A g : Contains(ready', g) <=> Contains(ready, g) /\ g # f
<1>1. ready \in Seq(Descriptor) /\ Once(ready)
  BY DEF TypeOK, ReadyOnce, Once
<1>2. CASE Contains(ready, f)
  <2>1. PICK i \in 1 .. Len(ready) : ready[i] = f /\ ready' = RemoveAt(ready, i)
    BY <1>2 DEF DropEvent
  <2>2. /\ ready' \in Seq(Descriptor) /\ Once(ready')
        /\ \A x : Contains(ready', x) <=> Contains(ready, x) /\ x # ready[i]
    BY <1>1, <2>1, RemoveOnce
  <2> QED
    BY <2>1, <2>2 DEF ReadyOnce, Once
<1>3. CASE ~Contains(ready, f)
  <2>1. ready' = ready
    BY <1>3 DEF DropEvent, Contains
  <2> QED
    BY <1>1, <1>3, <2>1 DEF ReadyOnce
<1> QED
  BY <1>2, <1>3

(* No more events are ready than there are slots.                          *)
LEMMA ReadyFits ==
    ASSUME TypeOK, ReadyOnce
    PROVE  Len(ready) \in 0 .. Cardinality(Conn) + 1
<1>1. ready \in [1 .. Len(ready) -> Descriptor] /\ Len(ready) \in Nat
  BY LenProperties DEF TypeOK
<1>2. IsFiniteSet(Descriptor) /\ Cardinality(Descriptor) = Cardinality(Conn) + 1
  BY FS_AddElement DEF Descriptor
<1>3. IsFiniteSet(1 .. Len(ready)) /\ Cardinality(1 .. Len(ready)) = Len(ready)
  <2> DEFINE n == Len(ready)
  <2>1. n \in Nat
    BY <1>1
  <2> HIDE DEF n
  <2>2. IsFiniteSet(1 .. n) /\ Cardinality(1 .. n) = IF 1 > n THEN 0 ELSE n - 1 + 1
    BY <2>1, FS_Interval
  <2>3. Cardinality(1 .. n) = n
    BY <2>1, <2>2
  <2> QED
    BY <2>2, <2>3 DEF n
<1>4. Cardinality(Conn) \in Nat
  BY FS_CardinalityType
<1>5. ready \in Injection(1 .. Len(ready), Descriptor)
  BY <1>1 DEF Injection, IsInjective, ReadyOnce
<1>6. Len(ready) <= Cardinality(Descriptor)
  BY <1>2, <1>3, <1>5, FS_Injection
<1> QED
  BY <1>1, <1>2, <1>4, <1>6
----------------------------------------------------------------------------
(* What the loop does to the events in the slots.                          *)

LEMMA SlotsServed ==
    ASSUME TypeOK, next <= ret, next' = next + 1, UNCHANGED <<events, ret>>, NEW f
    PROVE  InSlots(f)' = InSlots(f) - (IF events[next] = f THEN 1 ELSE 0)
<1>1. next \in Nat /\ ret \in Nat
  BY DEF TypeOK
<1>2. IsFiniteSet(Slots(f))
  <2>1. IsFiniteSet(next .. ret)
    BY <1>1, FS_Interval
  <2> QED
    BY <2>1, FS_Subset DEF Slots
<1>3. Slots(f)' = Slots(f) \ {next} /\ (next \in Slots(f) <=> events[next] = f)
  BY <1>1 DEF Slots
<1>4. Cardinality(Slots(f)') = Cardinality(Slots(f)) - (IF next \in Slots(f) THEN 1 ELSE 0)
  BY <1>2, <1>3, FS_RemoveElement, FS_CardinalityType
<1> QED
  BY <1>3, <1>4 DEF Slots, InSlots

LEMMA SlotsFetched ==
    ASSUME TypeOK, ReadyOnce, EpollWait, NEW f
    PROVE  InSlots(f) = 0 /\ InSlots(f)' = InReady(f) /\ InReady(f)' = 0
<1>1. /\ next \in Nat /\ ret \in Nat /\ next > ret /\ ready' = << >> /\ next' = 1
      /\ ret' = Len(ready) /\ Len(ready) \in Nat /\ 1 .. Len(ready) \subseteq Slot
      /\ \A s \in 1 .. Len(ready) : events'[s] = ready[s]
  <2>1. Len(ready) \in 0 .. Cardinality(Conn) + 1 /\ Cardinality(Conn) \in Nat
    BY ReadyFits, FS_CardinalityType
  <2>2. 1 .. Len(ready) \subseteq Slot
    BY <2>1 DEF Slot
  <2>3. next \in Nat /\ ret \in Nat
    BY DEF TypeOK
  <2>4. /\ next > ret /\ ready' = << >> /\ next' = 1 /\ ret' = Len(ready)
        /\ \A s \in Slot : events'[s] = IF s <= Len(ready) THEN ready[s] ELSE events[s]
    BY DEF EpollWait
  <2> QED
    BY <2>1, <2>2, <2>3, <2>4
<1>2. InSlots(f) = 0
  <2>1. Slots(f) = {}
    BY <1>1 DEF Slots
  <2> QED
    BY <2>1, FS_EmptySet DEF Slots, InSlots
<1>3. InReady(f)' = 0
  <2>1. Len(<< >>) = 0
    OBVIOUS
  <2> QED
    BY <1>1, <2>1 DEF InReady, Contains
<1>4. Slots(f)' = {s \in 1 .. Len(ready) : ready[s] = f}
  BY <1>1 DEF Slots
<1>5. InSlots(f)' = InReady(f)
  <2>1. CASE Contains(ready, f)
    <3>1. PICK s \in 1 .. Len(ready) : ready[s] = f
      BY <2>1 DEF Contains
    <3>2. Slots(f)' = {s}
      BY <1>4, <3>1 DEF ReadyOnce
    <3> QED
      BY <2>1, <3>2, FS_Singleton DEF Slots, InSlots, InReady
  <2>2. CASE ~Contains(ready, f)
    <3>1. Slots(f)' = {}
      BY <1>4, <2>2 DEF Contains
    <3> QED
      BY <2>2, <3>1, FS_EmptySet DEF Slots, InSlots, InReady
  <2> QED
    BY <2>1, <2>2
<1> QED
  BY <1>2, <1>3, <1>5

(* The counts stand while what they count does.                            *)
LEMMA CountsStand ==
    /\ UNCHANGED ready => \A f : InReady(f)' = InReady(f)
    /\ UNCHANGED loopVars => \A f : InSlots(f)' = InSlots(f)
    /\ UNCHANGED thread => \A f : /\ InThreads(f)' = InThreads(f)
                                  /\ HalfRead(f)' = HalfRead(f)
                                  /\ Cardinality(Workers(f))' = Cardinality(Workers(f))
<1>1. UNCHANGED ready => \A f : InReady(f)' = InReady(f)
  BY DEF InReady
<1>2. UNCHANGED loopVars => \A f : InSlots(f)' = InSlots(f)
  BY DEF InSlots, loopVars
<1>3. UNCHANGED thread => \A f : /\ InThreads(f)' = InThreads(f)
                                 /\ HalfRead(f)' = HalfRead(f)
                                 /\ Cardinality(Workers(f))' = Cardinality(Workers(f))
  BY DEF InThreads, HalfRead, Workers
<1> QED
  BY <1>1, <1>2, <1>3

(* Nothing is counted for who is fresh.                                    *)
LEMMA FreshCounts ==
    ASSUME TypeOK, NEW c \in Conn, Fresh(c)
    PROVE  /\ InReady(c) = 0 /\ InSlots(c) = 0 /\ InThreads(c) = 0
           /\ HalfRead(c) = 0 /\ Cardinality(Workers(c)) = 0
<1>1. next .. ret \subseteq Slot
  <2>1. Cardinality(Conn) \in Nat
    BY FS_CardinalityType
  <2> QED
    BY <2>1 DEF TypeOK, Slot
<1>2. Slots(c) = {} /\ Going(c) = {} /\ Halves(c) = {} /\ Workers(c) = {}
  BY <1>1 DEF Fresh, Slots, Going, Halves, Workers
<1> QED
  BY <1>2, FS_EmptySet DEF Fresh, InReady, InSlots, Slots, InThreads, Going, HalfRead, Halves
----------------------------------------------------------------------------
(* Types.                                                                  *)

LEMMA SlotTypes ==
    /\ Cardinality(Conn) \in Nat /\ 1 \in Slot /\ Listen \in Descriptor
    /\ Free \in ThreadRec
<1>1. Cardinality(Conn) \in Nat
  BY FS_CardinalityType
<1>2. 1 \in Slot /\ Listen \in Descriptor
  BY <1>1 DEF Slot, Descriptor
<1> QED
  BY <1>1, <1>2 DEF Free, ThreadRec

LEMMA CurrentSlot ==
    ASSUME TypeOK, next <= ret
    PROVE  /\ next \in Slot /\ events[next] \in Descriptor
           /\ next + 1 \in 1 .. Cardinality(Conn) + 2
<1>1. next \in Nat /\ 1 <= next /\ ret \in Nat /\ ret <= Cardinality(Conn) + 1
  BY DEF TypeOK
<1>2. next \in 1 .. Cardinality(Conn) + 1 /\ next + 1 \in 1 .. Cardinality(Conn) + 2
  BY <1>1, SlotTypes
<1>3. next \in Slot
  BY <1>2 DEF Slot
<1> QED
  BY <1>2, <1>3 DEF TypeOK

LEMMA UnitsType == ASSUME TypeOK, NEW c \in Conn PROVE Units(c) \in Nat
<1> DEFINE n == Len(rx[c])
<1>1. n \in Nat
  BY LenProperties DEF TypeOK
<1>2. Units(c) = n \div 2 + IF state[c] = "ended" THEN 1 ELSE 0
  BY DEF Units
<1> HIDE DEF n
<1>3. n \div 2 \in Nat
  BY <1>1
<1> QED
  BY <1>2, <1>3

LEMMA TypeStep ==
    ASSUME TypeOK, ReadyOnce, Next
    PROVE  TypeOK'
<1> USE DEF TypeOK
<1>t. thread \in [Thread -> ThreadRec] /\ rx \in [Conn -> Seq(PartRec)]
  BY DEF ThreadRec, PartRec
<1>1. CASE Start
  <2>1. << >> \in Seq(Lines)
    BY EmptySeq
  <2> QED
    BY <1>1, <2>1 DEF Start, loopVars, clientVars, ghostVars, Descriptor
<1>2. CASE EpollWait
  <2>1. << >> \in Seq(Descriptor)
    BY EmptySeq
  <2>2. ret' \in 0 .. Cardinality(Conn) + 1 /\ next' \in 1 .. Cardinality(Conn) + 2
    <3>1. ret' = Len(ready) /\ next' = 1
      BY <1>2 DEF EpollWait
    <3>2. Len(ready) \in 0 .. Cardinality(Conn) + 1
      BY ReadyFits
    <3>3. 1 \in 1 .. Cardinality(Conn) + 2
      BY SlotTypes
    <3> QED
      BY <3>1, <3>2, <3>3
  <2>3. events' \in [Slot -> Descriptor]
    <3>1. ASSUME NEW s \in Slot, s <= Len(ready) PROVE ready[s] \in Descriptor
      BY <3>1, LenProperties, ElementOfSeq DEF Slot
    <3> QED
      BY <1>2, <3>1 DEF EpollWait
  <2> QED
    BY <1>2, <2>1, <2>2, <2>3 DEF EpollWait, clientVars, ghostVars
<1>3. CASE AcceptOne
  <2>1. next' \in 1 .. Cardinality(Conn) + 2
    BY <1>3, CurrentSlot DEF AcceptOne
  <2>2. /\ open' \subseteq Descriptor /\ phase' \in {"boot", "up", "exited"}
        /\ ready' \in Seq(Descriptor) /\ backlog' \in Seq(Conn)
        /\ merged' \in [Descriptor -> Nat]
    <3>1. CASE Listen \in open /\ backlog # << >>
      <4> DEFINE c == Head(backlog)
      <4>1. c \in Conn /\ Tail(backlog) \in Seq(Conn)
        BY <3>1, HeadTailProperties
      <4> HIDE DEF c
      <4>2. Append(ready, c) \in Seq(Descriptor)
        BY <4>1, AppendProperties DEF Descriptor
      <4>3. Units(c) \in Nat
        BY <4>1, UnitsType
      <4>4. Units(c) > 1 => [merged EXCEPT ![c] = Units(c) - 1] \in [Descriptor -> Nat]
        BY SMTT(60), <4>1, <4>3 DEF Descriptor
      <4>5. /\ open' = open \cup {c} /\ backlog' = Tail(backlog) /\ phase' = phase
            /\ ready' = IF Units(c) > 0 THEN Append(ready, c) ELSE ready
            /\ merged' = IF Units(c) > 1
                         THEN [merged EXCEPT ![c] = Units(c) - 1] ELSE merged
        BY <1>3, <3>1 DEF AcceptOne, c
      <4>6. ready' \in Seq(Descriptor) /\ merged' \in [Descriptor -> Nat]
        BY <4>2, <4>4, <4>5
      <4> QED
        BY <4>1, <4>5, <4>6 DEF Descriptor
    <3>2. CASE ~(Listen \in open /\ backlog # << >>)
      BY <1>3, <3>2 DEF AcceptOne
    <3> QED
      BY <3>1, <3>2
  <2> QED
    BY <1>3, <2>1, <2>2 DEF AcceptOne, clientVars
<1>4. CASE StartThread
  <2>1. next' \in 1 .. Cardinality(Conn) + 2
    BY <1>4, CurrentSlot DEF StartThread
  <2>2. thread' \in [Thread -> ThreadRec]
    <3> DEFINE r == [Free EXCEPT !.pc = "start", !.slot = next, !.for = events[next]]
    <3>1. r \in ThreadRec
      BY <1>4, CurrentSlot, SlotTypes DEF StartThread, ThreadRec, Free
    <3>2. PICK t \in Thread : thread' = [thread EXCEPT ![t] = r]
      BY <1>4 DEF StartThread
    <3> HIDE DEF r
    <3> QED
      BY <1>t, <3>1, <3>2
  <2> QED
    BY <1>4, <2>1, <2>2 DEF StartThread, kernelVars, clientVars, ghostVars, ThreadRec
<1>5. ASSUME NEW t \in Thread, Run(t) PROVE TypeOK'
  <2> DEFINE fd == thread[t].fd
  <2>0. thread[t] \in ThreadRec
    BY <1>t
  <2>1. CASE TakeSlot(t)
    <3> DEFINE f == events[thread[t].slot]
           g == thread[t].for
    <3>1. f \in Descriptor /\ g \in Descriptor
      BY <2>0 DEF ThreadRec
    <3>2. thread' = [thread EXCEPT ![t].pc = "head", ![t].fd = f]
      BY <2>1 DEF TakeSlot
    <3>3. skew' = IF f = g THEN skew ELSE [skew EXCEPT ![g] = @ + 1, ![f] = @ - 1]
      BY <2>1 DEF TakeSlot
    <3> HIDE DEF f, g
    <3>4. thread' \in [Thread -> ThreadRec]
      <4>1. [thread[t] EXCEPT !.pc = "head", !.fd = f] \in ThreadRec
        BY <2>0, <3>1 DEF ThreadRec
      <4>2. thread' = [thread EXCEPT ![t] = [thread[t] EXCEPT !.pc = "head", !.fd = f]]
        BY <3>2, <1>t
      <4> QED
        BY <1>t, <4>1, <4>2
    <3>5. skew' \in [Descriptor -> Int]
      <4>1. skew \in [Descriptor -> Int]
        OBVIOUS
      <4>2. [skew EXCEPT ![g] = @ + 1, ![f] = @ - 1] \in [Descriptor -> Int]
        BY ONLY <3>1, <4>1, UnitMoved
      <4> QED
        BY ONLY <3>3, <4>1, <4>2
    <3> QED
      BY <2>1, <3>4, <3>5 DEF TakeSlot, loopVars, kernelVars, clientVars, ThreadRec
  <2>2. ASSUME fd \in Conn, rx[fd] # << >>
        PROVE  Head(rx[fd]).packet \in 0 .. MaxPackets /\ Tail(rx[fd]) \in Seq(PartRec)
    <3>1. Head(rx[fd]) \in PartRec /\ Tail(rx[fd]) \in Seq(PartRec)
      BY <1>t, <2>2, HeadTailProperties
    <3> QED
      BY SMTT(60), <3>1 DEF PartRec
  <2>3. CASE ReadHeader(t)
    <3>1. fd \in Conn /\ rx[fd] # << >>
      BY <2>0, <2>3 DEF ReadHeader, ThreadRec, Descriptor
    <3>2. /\ thread' = [thread EXCEPT ![t].pc = "body", ![t].packet = Head(rx[fd]).packet]
          /\ rx' = [rx EXCEPT ![fd] = Tail(@)]
      BY <2>3 DEF ReadHeader
    <3>3. thread' \in [Thread -> ThreadRec] /\ rx' \in [Conn -> Seq(PartRec)]
      <4> DEFINE p == Head(rx[fd]).packet
                 tail == Tail(rx[fd])
                 r == [thread[t] EXCEPT !.pc = "body", !.packet = p]
      <4>1. p \in 0 .. MaxPackets /\ tail \in Seq(PartRec)
        BY <2>2, <3>1
      <4>2. thread' = [thread EXCEPT ![t] = r] /\ rx' = [rx EXCEPT ![fd] = tail]
        BY <3>1, <3>2, <1>t
      <4> HIDE DEF p, tail
      <4>3. r \in ThreadRec
        BY <2>0, <4>1 DEF ThreadRec
      <4> HIDE DEF r
      <4> QED
        BY <1>t, <3>1, <4>1, <4>2, <4>3
    <3> QED
      BY <2>3, <3>3 DEF ReadHeader, loopVars, clientVars, ghostVars, ThreadRec, PartRec
  <2>4. CASE ReadBody(t)
    <3>1. /\ thread' = [thread EXCEPT ![t].pc = "work"]
          /\ rx' = [rx EXCEPT ![fd] = Tail(@)] /\ rx[fd] # << >>
      BY <2>4 DEF ReadBody
    <3>2. thread' \in [Thread -> ThreadRec] /\ rx' \in [Conn -> Seq(PartRec)]
      <4> DEFINE r == [thread[t] EXCEPT !.pc = "work"]
      <4>1. fd \in Conn => Tail(rx[fd]) \in Seq(PartRec)
        BY <2>2, <3>1
      <4>2. rx' \in [Conn -> Seq(PartRec)]
        BY <1>t, <3>1, <4>1
      <4>3. r \in ThreadRec
        BY <2>0 DEF ThreadRec
      <4>4. thread' = [thread EXCEPT ![t] = r]
        BY <3>1, <1>t
      <4> HIDE DEF r
      <4> QED
        BY <1>t, <4>2, <4>3, <4>4
    <3> QED
      BY <2>4, <3>2 DEF ReadBody, loopVars, clientVars, ghostVars, ThreadRec, PartRec
  <2>5. CASE ReadFails(t)
    <3>1. ready' \in Seq(Descriptor)
      BY <2>5, DropEventProperties DEF ReadFails
    <3>2. thread' \in [Thread -> ThreadRec]
      BY <1>t, <2>5, SlotTypes DEF ReadFails
    <3> QED
      BY <2>5, <3>1, <3>2 DEF ReadFails, loopVars, clientVars, ghostVars, ThreadRec
  <2>6. CASE Answer(t)
    <3>1. thread' \in [Thread -> ThreadRec]
      BY <1>t, <2>6, SlotTypes DEF Answer
    <3>2. state' \in [Conn -> {"new", "idle", "waiting", "ended"}]
      BY <2>6 DEF Answer
    <3> QED
      BY <2>6, <3>1, <3>2 DEF Answer, loopVars, kernelVars, ghostVars, ThreadRec
  <2> QED
    BY <1>5, <2>1, <2>3, <2>4, <2>5, <2>6 DEF Run
<1>6. ASSUME NEW c \in Conn, Connect(c) PROVE TypeOK'
  <2>1. backlog' \in Seq(Conn)
    BY <1>6, AppendProperties DEF Connect
  <2>2. ready' \in Seq(Descriptor) /\ merged' \in [Descriptor -> Nat]
    BY <1>6, ArrivalProperties, SlotTypes DEF Connect
  <2> QED
    BY <1>6, <2>1, <2>2 DEF Connect, loopVars
<1>7. ASSUME NEW c \in Conn, IF c \in open THEN Arrival(c) ELSE UNCHANGED <<ready, merged>>
      PROVE  ready' \in Seq(Descriptor) /\ merged' \in [Descriptor -> Nat]
  BY <1>7, ArrivalProperties DEF Descriptor
<1>8. ASSUME NEW c \in Conn, Send(c) PROVE TypeOK'
  <2>1. ready' \in Seq(Descriptor) /\ merged' \in [Descriptor -> Nat]
    BY <1>7, <1>8 DEF Send
  <2>2. sent[c] + 1 \in 1 .. MaxPackets
    BY <1>8 DEF Send
  <2> DEFINE two == <<Part(sent[c] + 1, "header"), Part(sent[c] + 1, "body")>>
  <2>3. two \in Seq(PartRec)
    BY <2>2 DEF Part, PartRec
  <2>4. rx' = [rx EXCEPT ![c] = @ \o two]
    BY <1>8 DEF Send
  <2> HIDE DEF two
  <2>5. rx' \in [Conn -> Seq(PartRec)]
    BY <1>t, <2>3, <2>4, ConcatProperties
  <2>6. sent' \in [Conn -> 0 .. MaxPackets]
    BY <1>8, <2>2 DEF Send
  <2> QED
    BY <1>8, <2>1, <2>5, <2>6 DEF Send, loopVars, PartRec
<1>9. ASSUME NEW c \in Conn, End(c) PROVE TypeOK'
  BY <1>7, <1>9 DEF End, loopVars
<1> QED
  BY <1>1, <1>2, <1>3, <1>4, <1>5, <1>6, <1>8, <1>9 DEF Next, Main
----------------------------------------------------------------------------
(* The events and the connections that wait.                               *)

LEMMA OldestConnection ==
    ASSUME TypeOK, BacklogOnce, FreshRight, backlog # << >>
    PROVE  /\ Head(backlog) \in Conn /\ Fresh(Head(backlog))
           /\ state[Head(backlog)] # "new" /\ Contains(backlog, Head(backlog))
           /\ Len(Tail(backlog)) = Len(backlog) - 1 /\ Once(Tail(backlog))
           /\ \A x : Contains(Tail(backlog), x)
                        <=> Contains(backlog, x) /\ x # Head(backlog)
<1> DEFINE c == Head(backlog)
           b == Tail(backlog)
<1>1. /\ c \in Conn /\ b \in Seq(Conn) /\ Len(b) = Len(backlog) - 1
      /\ \A i \in 1 .. Len(b) : b[i] = backlog[i + 1]
      /\ c = backlog[1]
  BY HeadTailProperties DEF TypeOK
<1>2. Len(backlog) \in Nat \ {0}
  BY EmptySeq DEF TypeOK
<1> HIDE DEF c, b
<1>3. Contains(backlog, c) /\ state[c] # "new"
  BY <1>1, <1>2 DEF Contains, BacklogOnce
<1>4. Once(b)
  <2> SUFFICES ASSUME NEW i \in 1 .. Len(b), NEW j \in 1 .. Len(b), b[i] = b[j]
               PROVE  i = j
    BY DEF Once
  <2>1. i + 1 \in 1 .. Len(backlog) /\ j + 1 \in 1 .. Len(backlog)
    BY <1>1, <1>2
  <2> QED
    BY <1>1, <1>2, <2>1 DEF BacklogOnce
<1>5. ASSUME NEW x PROVE Contains(b, x) <=> Contains(backlog, x) /\ x # c
  <2>1. ASSUME Contains(b, x) PROVE Contains(backlog, x) /\ x # c
    <3>1. PICK i \in 1 .. Len(b) : b[i] = x
      BY <2>1 DEF Contains
    <3>2. i + 1 \in 1 .. Len(backlog) /\ backlog[i + 1] = x /\ i + 1 # 1
      BY <1>1, <1>2, <3>1
    <3> QED
      BY <1>1, <1>2, <3>2 DEF Contains, BacklogOnce
  <2>2. ASSUME Contains(backlog, x), x # c PROVE Contains(b, x)
    <3>1. PICK i \in 1 .. Len(backlog) : backlog[i] = x
      BY <2>2 DEF Contains
    <3>2. i - 1 \in 1 .. Len(b) /\ b[i - 1] = x
      BY <1>1, <1>2, <2>2, <3>1
    <3> QED
      BY <3>2 DEF Contains
  <2> QED
    BY <2>1, <2>2
<1> QED
  BY <1>1, <1>3, <1>4, <1>5 DEF c, b, FreshRight

LEMMA ReadyStep ==
    ASSUME TypeOK, ReadyOnce, BacklogOnce, FreshRight, Next
    PROVE  ReadyOnce'
<1>1. CASE EpollWait
  BY <1>1 DEF EpollWait, ReadyOnce
<1>2. CASE AcceptOne
  <2> DEFINE c == Head(backlog)
  <2>1. ASSUME ready' = Append(ready, c), backlog # << >> PROVE ReadyOnce'
    <3>1. c \in Descriptor /\ ~Contains(ready, c)
      BY <2>1, OldestConnection DEF Fresh, Descriptor
    <3>2. ready \in Seq(Descriptor) /\ Once(ready)
      BY DEF TypeOK, ReadyOnce, Once
    <3> HIDE DEF c
    <3>3. Once(Append(ready, c))
      BY <3>1, <3>2, AppendOnce
    <3> QED
      BY <2>1, <3>3 DEF ReadyOnce, Once
  <2>2. CASE ready' = ready
    BY <2>2 DEF ReadyOnce
  <2>3. ready' = ready \/ (ready' = Append(ready, c) /\ backlog # << >>)
    <3>1. \/ /\ backlog # << >>
             /\ ready' = IF Units(c) > 0 THEN Append(ready, c) ELSE ready
          \/ ready' = ready
      BY <1>2 DEF AcceptOne
    <3> QED
      BY <3>1
  <2> HIDE DEF c
  <2> QED
    BY <2>1, <2>2, <2>3
<1>3. ASSUME NEW t \in Thread, ReadFails(t) PROVE ReadyOnce'
  BY <1>3, DropEventProperties DEF ReadFails
<1>4. ASSUME NEW f \in Descriptor, Arrival(f) PROVE ReadyOnce'
  BY <1>4, ArrivalProperties
<1>5. ASSUME NEW c \in Conn, Connect(c) \/ Send(c) \/ End(c) PROVE ReadyOnce'
  <2>1. Arrival(Listen) \/ Arrival(c) \/ ready' = ready
    BY <1>5 DEF Connect, Send, End
  <2>2. Listen \in Descriptor /\ c \in Descriptor
    BY DEF Descriptor
  <2>3. ready' = ready => ReadyOnce'
    BY DEF ReadyOnce
  <2> QED
    BY <1>4, <2>1, <2>2, <2>3
<1>6. ASSUME NEW t \in Thread, TakeSlot(t) \/ ReadHeader(t) \/ ReadBody(t) \/ Answer(t)
      PROVE  ready' = ready
  BY <1>6 DEF TakeSlot, ReadHeader, ReadBody, Answer, kernelVars
<1>7. Start \/ StartThread => ready' = ready
  BY DEF Start, StartThread, kernelVars
<1>8. ready' = ready => ReadyOnce'
  BY DEF ReadyOnce
<1> QED
  BY <1>1, <1>2, <1>3, <1>5, <1>6, <1>7, <1>8 DEF Next, Main, Run

LEMMA BacklogStep ==
    ASSUME TypeOK, BacklogOnce, FreshRight, Next
    PROVE  BacklogOnce'
<1>1. backlog \in Seq(Conn) /\ state \in [Conn -> {"new", "idle", "waiting", "ended"}]
  BY DEF TypeOK
<1>2. \A i \in 1 .. Len(backlog) : backlog[i] \in Conn
  BY <1>1, ElementOfSeq
<1>3. ASSUME backlog' = backlog, \A c \in Conn : state[c] # "new" => state'[c] # "new"
      PROVE  BacklogOnce'
  BY <1>2, <1>3 DEF BacklogOnce
<1>4. CASE AcceptOne
  <2>1. CASE backlog # << >> /\ backlog' = Tail(backlog)
    <3>1. Once(backlog') /\ \A x : Contains(backlog', x) => Contains(backlog, x)
      BY <2>1, OldestConnection
    <3>2. state' = state
      BY <1>4 DEF AcceptOne, clientVars
    <3> QED
      BY <3>1, <3>2 DEF BacklogOnce, Once, Contains
  <2>2. CASE backlog' = backlog
    BY <1>3, <1>4, <2>2 DEF AcceptOne, clientVars
  <2> QED
    BY <1>4, <2>1, <2>2 DEF AcceptOne
<1>5. ASSUME NEW c \in Conn, Connect(c) PROVE BacklogOnce'
  <2>1. /\ state[c] = "new" /\ backlog' = Append(backlog, c)
        /\ state' = [state EXCEPT ![c] = "idle"]
    BY <1>5 DEF Connect
  <2>2. ~Contains(backlog, c)
    BY <2>1 DEF BacklogOnce, Contains
  <2>3. Once(backlog)
    BY DEF BacklogOnce, Once
  <2>4. Once(backlog') /\ \A x : Contains(backlog', x) => Contains(backlog, x) \/ x = c
    BY <1>1, <2>1, <2>2, <2>3, AppendOnce
  <2>5. \A i \in 1 .. Len(backlog') : state'[backlog'[i]] # "new"
    <3> SUFFICES ASSUME NEW i \in 1 .. Len(backlog') PROVE state'[backlog'[i]] # "new"
      OBVIOUS
    <3>1. Contains(backlog', backlog'[i])
      BY DEF Contains
    <3>2. CASE backlog'[i] = c
      BY <1>1, <2>1, <3>2
    <3>3. CASE Contains(backlog, backlog'[i]) /\ backlog'[i] # c
      <4>1. PICK j \in 1 .. Len(backlog) : backlog[j] = backlog'[i]
        BY <3>3 DEF Contains
      <4> QED
        BY <1>1, <1>2, <2>1, <3>3, <4>1 DEF BacklogOnce
    <3> QED
      BY <2>4, <3>1, <3>2, <3>3
  <2> QED
    BY <2>4, <2>5 DEF BacklogOnce, Once
<1>6. ASSUME NEW c \in Conn, Send(c) \/ End(c)
      PROVE  backlog' = backlog /\ \A d \in Conn : state[d] # "new" => state'[d] # "new"
  BY <1>1, <1>6 DEF Send, End
<1>7. ASSUME NEW t \in Thread, Run(t)
      PROVE  backlog' = backlog /\ \A d \in Conn : state[d] # "new" => state'[d] # "new"
  BY <1>1, <1>7 DEF Run, TakeSlot, ReadHeader, ReadBody, ReadFails, Answer, kernelVars, clientVars
<1>8. Start \/ EpollWait \/ StartThread => backlog' = backlog /\ state' = state
  BY DEF Start, EpollWait, StartThread, kernelVars, clientVars
<1> QED
  BY <1>3, <1>4, <1>5, <1>6, <1>7, <1>8 DEF Next, Main
----------------------------------------------------------------------------
(* Who is not accepted yet stays unknown to the server until it is.        *)

LEMMA FreshKept ==
    ASSUME TypeOK, ReadyOnce, BacklogOnce, FreshRight, Next, NEW c \in Conn, Fresh(c),
           ~(AcceptOne /\ Listen \in open /\ backlog # << >> /\ c = Head(backlog))
    PROVE  Fresh(c)'
<1>1. /\ c # Listen /\ c \notin open /\ ~Contains(ready, c)
      /\ \A s \in Slot : events[s] # c
      /\ \A t \in Thread : thread[t].for # c /\ thread[t].fd # c
      /\ merged[c] = 0 /\ skew[c] = 0 /\ Len(rx[c]) = 2 * sent[c]
  BY DEF Fresh
<1>2. /\ thread \in [Thread -> ThreadRec] /\ merged \in [Descriptor -> Nat]
      /\ skew \in [Descriptor -> Int] /\ sent \in [Conn -> 0 .. MaxPackets]
      /\ rx \in [Conn -> Seq(PartRec)] /\ events \in [Slot -> Descriptor]
      /\ c \in Descriptor /\ ready \in Seq(Descriptor) /\ Len(ready) \in Nat
  BY LenProperties DEF TypeOK, ThreadRec, PartRec, Descriptor
<1>3. ASSUME UNCHANGED <<events, skew>>, UNCHANGED <<rx, sent>>, UNCHANGED thread,
             c \notin open', ~Contains(ready', c), merged'[c] = 0
      PROVE  Fresh(c)'
  BY <1>1, <1>3 DEF Fresh
<1>4. CASE Start
  BY <1>1, <1>3, <1>4 DEF Start, loopVars, ghostVars, clientVars
<1>5. CASE EpollWait
  <2>1. \A s \in Slot : events'[s] # c
    <3> SUFFICES ASSUME NEW s \in Slot PROVE events'[s] # c
      OBVIOUS
    <3>1. events'[s] = IF s <= Len(ready) THEN ready[s] ELSE events[s]
      BY <1>5 DEF EpollWait
    <3>2. s \in Int /\ 1 <= s
      BY SlotTypes DEF Slot
    <3> QED
      BY <1>1, <1>2, <3>1, <3>2 DEF Contains
  <2>2. ~Contains(ready', c)
    <3>1. Len(<< >>) = 0
      OBVIOUS
    <3> QED
      BY <1>5, <3>1 DEF EpollWait, Contains
  <2> QED
    BY <1>1, <1>5, <2>1, <2>2 DEF EpollWait, Fresh, clientVars, ghostVars
<1>6. CASE AcceptOne
  <2>1. CASE backlog # << >> /\ Listen \in open
    <3> DEFINE d == Head(backlog)
    <3>1. d \in Conn /\ d # c /\ Fresh(d)
      BY <1>6, <2>1, OldestConnection
    <3>2. /\ open' = open \cup {d}
          /\ ready' = IF Units(d) > 0 THEN Append(ready, d) ELSE ready
          /\ merged' = IF Units(d) > 1
                       THEN [merged EXCEPT ![d] = Units(d) - 1] ELSE merged
      BY <1>6, <2>1 DEF AcceptOne
    <3> HIDE DEF d
    <3>3. ~Contains(ready', c)
      <4>1. d \in Descriptor /\ ~Contains(ready, d) /\ Once(ready)
        BY <3>1 DEF Fresh, ReadyOnce, Once, Descriptor
      <4>2. Contains(Append(ready, d), c) <=> Contains(ready, c) \/ c = d
        BY <1>2, <4>1, AppendOnce
      <4> QED
        BY <1>1, <3>1, <3>2, <4>2
    <3>4. merged'[c] = 0
      BY <1>1, <1>2, <3>1, <3>2
    <3> QED
      BY <1>1, <1>3, <1>6, <3>1, <3>2, <3>3, <3>4 DEF AcceptOne, clientVars
  <2>2. CASE UNCHANGED <<open, ready, merged>>
    BY <1>1, <1>3, <1>6, <2>2 DEF AcceptOne, clientVars
  <2> QED
    BY <1>6, <2>1, <2>2 DEF AcceptOne
<1>7. ASSUME UNCHANGED <<events, open, merged, sent>>, ~Contains(ready', c),
             \A t \in Thread : thread'[t].for # c /\ thread'[t].fd # c,
             skew'[c] = 0, rx'[c] = rx[c]
      PROVE  Fresh(c)'
  BY <1>1, <1>7 DEF Fresh
<1>8. ASSUME NEW t \in Thread, NEW r, thread' = [thread EXCEPT ![t] = r],
             r.for # c, r.fd # c
      PROVE  \A u \in Thread : thread'[u].for # c /\ thread'[u].fd # c
  BY <1>1, <1>2, <1>8
<1>9. Free.for # c /\ Free.fd # c
  BY <1>1 DEF Free
<1>10. CASE StartThread
  <2> DEFINE r == [Free EXCEPT !.pc = "start", !.slot = next, !.for = events[next]]
  <2>1. r.for # c /\ r.fd # c
    BY <1>1, <1>10, CurrentSlot DEF StartThread, Free
  <2>2. PICK t \in Thread : thread' = [thread EXCEPT ![t] = r]
    BY <1>10 DEF StartThread
  <2> HIDE DEF r
  <2>3. \A u \in Thread : thread'[u].for # c /\ thread'[u].fd # c
    BY <1>8, <2>1, <2>2
  <2> QED
    BY <1>1, <1>7, <1>10, <2>3 DEF StartThread, kernelVars, clientVars, ghostVars
<1>11. ASSUME NEW t \in Thread, TakeSlot(t) PROVE Fresh(c)'
  <2> DEFINE f == events[thread[t].slot]
             r == [thread[t] EXCEPT !.pc = "head", !.fd = f]
             g == thread[t].for
  <2>1. thread[t].slot \in Slot /\ thread[t] \in ThreadRec /\ g \in Descriptor
    BY <1>2 DEF ThreadRec
  <2>2. f # c /\ f \in Descriptor /\ g # c
    BY <1>1, <1>2, <2>1
  <2>3. thread' = [thread EXCEPT ![t] = r]
    BY <1>2, <1>11 DEF TakeSlot
  <2>4. r.for # c /\ r.fd # c
    BY <2>1, <2>2 DEF ThreadRec
  <2>5. skew' = IF f = g THEN skew ELSE [skew EXCEPT ![g] = @ + 1, ![f] = @ - 1]
    BY <1>11 DEF TakeSlot
  <2> HIDE DEF r, f, g
  <2>6. skew'[c] = 0
    BY <1>1, <1>2, <2>1, <2>2, <2>5
  <2>7. \A u \in Thread : thread'[u].for # c /\ thread'[u].fd # c
    BY <1>8, <2>3, <2>4
  <2> QED
    BY <1>1, <1>7, <1>11, <2>6, <2>7 DEF TakeSlot, loopVars, kernelVars, clientVars
<1>12. ASSUME NEW t \in Thread, ReadHeader(t) \/ ReadBody(t) PROVE Fresh(c)'
  <2>1. thread[t].fd # c /\ thread[t] \in ThreadRec
    BY <1>1, <1>2
  <2>2. rx'[c] = rx[c]
    BY <1>2, <1>12, <2>1 DEF ReadHeader, ReadBody
  <2>3. \A u \in Thread : thread'[u].for # c /\ thread'[u].fd # c
    <3> SUFFICES ASSUME NEW u \in Thread PROVE thread'[u].for # c /\ thread'[u].fd # c
      OBVIOUS
    <3>1. thread[u] \in ThreadRec
      BY <1>2
    <3>2. thread'[u].for = thread[u].for /\ thread'[u].fd = thread[u].fd
      <4>1. CASE u # t
        BY <1>2, <1>12, <4>1 DEF ReadHeader, ReadBody
      <4>2. CASE u = t /\ ReadHeader(t)
        BY <1>2, <3>1, <4>2 DEF ReadHeader, ThreadRec
      <4>3. CASE u = t /\ ReadBody(t)
        BY <1>2, <3>1, <4>3 DEF ReadBody, ThreadRec
      <4> QED
        BY <1>12, <4>1, <4>2, <4>3
    <3> QED
      BY <1>1, <3>2
  <2> QED
    BY <1>1, <1>7, <1>12, <2>2, <2>3
       DEF ReadHeader, ReadBody, loopVars, clientVars, ghostVars
<1>13. ASSUME NEW t \in Thread, ReadFails(t) PROVE Fresh(c)'
  <2>1. \A u \in Thread : thread'[u].for # c /\ thread'[u].fd # c
    BY <1>8, <1>9, <1>13 DEF ReadFails
  <2>2. ~Contains(ready', c)
    BY <1>1, <1>13, DropEventProperties DEF ReadFails
  <2> QED
    BY <1>1, <1>13, <2>1, <2>2 DEF ReadFails, Fresh, loopVars, clientVars, ghostVars
<1>14. ASSUME NEW t \in Thread, Answer(t) PROVE Fresh(c)'
  <2>1. \A u \in Thread : thread'[u].for # c /\ thread'[u].fd # c
    BY <1>8, <1>9, <1>14 DEF Answer
  <2> QED
    BY <1>1, <1>7, <1>14, <2>1 DEF Answer, loopVars, kernelVars, ghostVars
<1>15. ASSUME NEW f \in Descriptor, f # c, Arrival(f)
       PROVE  ~Contains(ready', c) /\ merged'[c] = 0
  BY <1>1, <1>2, <1>15, ArrivalProperties
<1>16. ASSUME NEW d \in Conn, Connect(d) PROVE Fresh(c)'
  <2>1. ~Contains(ready', c) /\ merged'[c] = 0
    BY <1>1, <1>15, <1>16, SlotTypes DEF Connect
  <2> QED
    BY <1>1, <1>3, <1>16, <2>1 DEF Connect, loopVars
<1>17. ASSUME NEW d \in Conn, IF d \in open THEN Arrival(d) ELSE UNCHANGED <<ready, merged>>
       PROVE  ~Contains(ready', c) /\ merged'[c] = 0
  BY <1>1, <1>15, <1>17 DEF Descriptor
<1>18. ASSUME NEW d \in Conn, Send(d) PROVE Fresh(c)'
  <2>1. ~Contains(ready', c) /\ merged'[c] = 0
    BY <1>17, <1>18 DEF Send
  <2>2. Len(rx'[c]) = 2 * sent'[c]
    <3>1. CASE d # c
      BY <1>1, <1>2, <1>18, <3>1 DEF Send
    <3>2. CASE d = c
      <4> DEFINE two == <<Part(sent[c] + 1, "header"), Part(sent[c] + 1, "body")>>
      <4>1. sent[c] + 1 \in 1 .. MaxPackets
        BY <1>2, <1>18, <3>2 DEF Send
      <4>2. two \in Seq(PartRec) /\ Len(two) = 2
        BY <4>1 DEF Part, PartRec
      <4>3. rx'[c] = rx[c] \o two /\ sent'[c] = sent[c] + 1
        BY <1>2, <1>18, <3>2 DEF Send
      <4> HIDE DEF two
      <4>4. Len(rx'[c]) = Len(rx[c]) + 2
        <5>1. rx[c] \in Seq(PartRec)
          BY <1>2
        <5>2. Len(rx[c] \o two) = Len(rx[c]) + Len(two)
          BY <4>2, <5>1, ConcatProperties
        <5> QED
          BY <4>2, <4>3, <5>2
      <4> QED
        BY <1>1, <1>2, <4>3, <4>4
    <3> QED
      BY <3>1, <3>2
  <2> QED
    BY <1>1, <1>18, <2>1, <2>2 DEF Send, Fresh, loopVars
<1>19. ASSUME NEW d \in Conn, End(d) PROVE Fresh(c)'
  <2>1. ~Contains(ready', c) /\ merged'[c] = 0
    BY <1>17, <1>19 DEF End
  <2> QED
    BY <1>1, <1>3, <1>19, <2>1 DEF End, loopVars
<1> QED
  BY <1>4, <1>5, <1>6, <1>10, <1>11, <1>12, <1>13, <1>14, <1>16, <1>18, <1>19
     DEF Next, Main, Run

LEMMA FreshStep ==
    ASSUME TypeOK, ReadyOnce, BacklogOnce, FreshRight, Next
    PROVE  FreshRight'
<1>1. /\ backlog \in Seq(Conn) /\ state \in [Conn -> {"new", "idle", "waiting", "ended"}]
      /\ sent \in [Conn -> 0 .. MaxPackets]
  BY DEF TypeOK
<1>2. ASSUME NEW c \in Conn
      PROVE  state'[c] = "new" => state[c] = "new" /\ sent'[c] = sent[c]
  <2>2. ASSUME NEW t \in Thread, Run(t) PROVE sent' = sent
    BY <2>2 DEF Run, TakeSlot, ReadHeader, ReadBody, ReadFails, Answer, clientVars
  <2>3. Start \/ Main => state' = state /\ sent' = sent
    BY DEF Start, Main, EpollWait, AcceptOne, StartThread, clientVars
  <2>4. ASSUME NEW d \in Conn, Connect(d) \/ Send(d) \/ End(d)
        PROVE  state'[c] = "new" => state[c] = "new" /\ sent'[c] = sent[c]
    BY <1>1, <2>4 DEF Connect, Send, End
  <2>5. ASSUME NEW t \in Thread, Run(t) PROVE state'[c] = "new" => state[c] = "new"
    BY <1>1, <2>5 DEF Run, TakeSlot, ReadHeader, ReadBody, ReadFails, Answer, clientVars
  <2> QED
    BY <2>2, <2>3, <2>4, <2>5 DEF Next
<1>3. ASSUME NEW c \in Conn, Contains(backlog', c)
      PROVE  /\ state[c] = "new" \/ Contains(backlog, c)
             /\ ~(AcceptOne /\ Listen \in open /\ backlog # << >> /\ c = Head(backlog))
  <2>1. CASE AcceptOne
    <3>1. \/ backlog # << >> /\ backlog' = Tail(backlog)
          \/ backlog' = backlog /\ Listen \notin open
      BY <2>1 DEF AcceptOne
    <3>2. CASE backlog # << >> /\ backlog' = Tail(backlog)
      BY <1>3, <3>2, OldestConnection
    <3>3. CASE backlog' = backlog /\ Listen \notin open
      BY <1>3, <3>3
    <3> QED
      BY <3>1, <3>2, <3>3
  <2>2. CASE ~AcceptOne
    <3>1. ASSUME NEW d \in Conn, Connect(d) PROVE state[c] = "new" \/ Contains(backlog, c)
      <4>1. state[d] = "new" /\ backlog' = Append(backlog, d) /\ Once(backlog)
        BY <3>1 DEF Connect, BacklogOnce, Once
      <4>2. ~Contains(backlog, d)
        BY <4>1 DEF BacklogOnce, Contains
      <4>3. Contains(backlog', c) <=> Contains(backlog, c) \/ c = d
        BY <1>1, <4>1, <4>2, AppendOnce
      <4> QED
        BY <1>3, <4>1, <4>3
    <3>2. ASSUME NEW d \in Conn, Send(d) \/ End(d) PROVE backlog' = backlog
      BY <3>2 DEF Send, End
    <3>3. ASSUME NEW t \in Thread, Run(t) PROVE backlog' = backlog
      BY <3>3 DEF Run, TakeSlot, ReadHeader, ReadBody, ReadFails, Answer, kernelVars
    <3>4. Start \/ EpollWait \/ StartThread => backlog' = backlog
      BY DEF Start, EpollWait, StartThread, kernelVars
    <3> QED
      BY <1>3, <2>2, <3>1, <3>2, <3>3, <3>4 DEF Next, Main
  <2> QED
    BY <2>1, <2>2
<1>4. ASSUME NEW c \in Conn, state'[c] = "new" PROVE Fresh(c)' /\ sent'[c] = 0
  <2>1. state[c] = "new" /\ sent'[c] = sent[c] /\ Fresh(c) /\ sent[c] = 0
    BY <1>2, <1>4 DEF FreshRight
  <2>2. backlog # << >> => c # Head(backlog)
    BY <2>1, OldestConnection
  <2> QED
    BY <2>1, <2>2, FreshKept
<1>5. ASSUME NEW c \in Conn, Contains(backlog', c) PROVE Fresh(c)'
  BY <1>3, <1>5, FreshKept DEF FreshRight
<1> QED
  BY <1>4, <1>5 DEF FreshRight

LEMMA BootStep ==
    ASSUME TypeOK, BootRight, Next
    PROVE  BootRight'
<1> SUFFICES ASSUME phase' = "boot"
             PROVE  /\ open' = {} /\ ready' = << >> /\ backlog' = << >>
                    /\ ret' = 0 /\ next' = 1 /\ \A t \in Thread : thread'[t] = Free
                    /\ merged'[Listen] = 0 /\ skew'[Listen] = 0
  BY DEF BootRight
<1>1. ~Start /\ ~Main /\ \A t \in Thread : ~Run(t)
  BY DEF Start, Main, EpollWait, AcceptOne, StartThread, Run, TakeSlot, ReadHeader,
         ReadBody, ReadFails, Answer, up
<1>2. PICK c \in Conn : Connect(c) \/ Send(c) \/ End(c)
  BY <1>1 DEF Next
<1>3. phase = "boot"
  BY <1>2 DEF Connect, Send, End
<1>4. CASE Connect(c)
  BY <1>3, <1>4 DEF Connect, BootRight
<1>5. CASE Send(c)
  BY <1>3, <1>5 DEF Send, BootRight, loopVars
<1>6. CASE End(c)
  BY <1>3, <1>6 DEF End, BootRight, loopVars
<1> QED
  BY <1>2, <1>4, <1>5, <1>6
----------------------------------------------------------------------------
(* Every event is accounted for.                                           *)

GoingTo(r, f) == (r.pc = "start" /\ r.for = f) \/ (r.pc = "head" /\ r.fd = f)

LEMMA ThreadBecomes ==
    ASSUME NEW t \in Thread, NEW r, thread'[t] = r, NEW f,
           \A u \in Thread \ {t} : thread'[u] = thread[u]
    PROVE  /\ InThreads(f)' = InThreads(f) - (IF GoingTo(thread[t], f) THEN 1 ELSE 0)
                                           + (IF GoingTo(r, f) THEN 1 ELSE 0)
           /\ HalfRead(f)' =
                 HalfRead(f) - (IF thread[t].pc = "body" /\ thread[t].fd = f THEN 1 ELSE 0)
                             + (IF r.pc = "body" /\ r.fd = f THEN 1 ELSE 0)
           /\ Cardinality(Workers(f))' =
                 Cardinality(Workers(f))
                    - (IF thread[t].pc = "work" /\ thread[t].fd = f THEN 1 ELSE 0)
                    + (IF r.pc = "work" /\ r.fd = f THEN 1 ELSE 0)
<1>1. /\ t \in Going(f) <=> GoingTo(thread[t], f)
      /\ t \in Going(f)' <=> GoingTo(r, f)
      /\ t \in Halves(f) <=> thread[t].pc = "body" /\ thread[t].fd = f
      /\ t \in Halves(f)' <=> r.pc = "body" /\ r.fd = f
      /\ t \in Workers(f) <=> thread[t].pc = "work" /\ thread[t].fd = f
      /\ t \in Workers(f)' <=> r.pc = "work" /\ r.fd = f
  BY DEF Going, Halves, Workers, GoingTo
<1> QED
  BY <1>1, ThreadMove

(* What has come for f is what will be served, and what will not.          *)
Balance(f) == merged[f] + Due(f) + skew[f]

Arrived(c) == Len(rx[c]) + IF state[c] = "ended" THEN 2 ELSE 0

LEMMA AccountMeans ==
    EventsAccounted
       <=> /\ up /\ Listen \in open => Len(backlog) = Balance(Listen)
           /\ \A c \in Conn \cap open : up => Arrived(c) = 2 * Balance(c) + HalfRead(c)
  BY DEF EventsAccounted, Balance, Arrived

LEMMA BalanceTypes ==
    ASSUME TypeOK, NEW f \in Descriptor
    PROVE  Balance(f) \in Int /\ HalfRead(f) \in Nat /\ Due(f) \in Nat
           /\ InReady(f) \in Nat /\ InSlots(f) \in Nat /\ InThreads(f) \in Nat
           /\ merged[f] \in Nat /\ skew[f] \in Int
           /\ (f \in Conn => Len(rx[f]) \in Nat /\ Arrived(f) \in Nat)
<1>1. /\ InReady(f) \in Nat /\ InSlots(f) \in Nat /\ InThreads(f) \in Nat
      /\ HalfRead(f) \in Nat
  BY CountTypes
<1>2. merged[f] \in Nat /\ skew[f] \in Int
  BY DEF TypeOK
<1>3. f \in Conn => Len(rx[f]) \in Nat
  BY LenProperties DEF TypeOK
<1>4. Due(f) \in Nat /\ Balance(f) \in Int
  BY <1>1, <1>2 DEF Balance, Due
<1>5. f \in Conn => Arrived(f) \in Nat
  <2> DEFINE n == Len(rx[f])
  <2>1. Arrived(f) = n + IF state[f] = "ended" THEN 2 ELSE 0
    BY DEF Arrived
  <2>2. f \in Conn => n \in Nat
    BY <1>3
  <2> HIDE DEF n
  <2> QED
    BY <2>1, <2>2
<1> QED
  BY <1>1, <1>2, <1>3, <1>4, <1>5

(* The steps of the loop and of the threads that only pass an event on.    *)
LEMMA PassedOn ==
    ASSUME TypeOK, ReadyOnce, NEW f \in Descriptor
    PROVE  /\ EpollWait => Balance(f)' = Balance(f) /\ HalfRead(f)' = HalfRead(f)
           /\ StartThread => Balance(f)' = Balance(f) /\ HalfRead(f)' = HalfRead(f)
           /\ \A t \in Thread :
                 /\ TakeSlot(t) => Balance(f)' = Balance(f) /\ HalfRead(f)' = HalfRead(f)
                 /\ Answer(t) => Balance(f)' = Balance(f) /\ HalfRead(f)' = HalfRead(f)
                 /\ ReadFails(t) /\ f # thread[t].fd =>
                       Balance(f)' = Balance(f) /\ HalfRead(f)' = HalfRead(f)
<1>0. /\ InReady(f) \in Nat /\ InSlots(f) \in Nat /\ InThreads(f) \in Nat
      /\ HalfRead(f) \in Nat /\ merged[f] \in Nat /\ skew[f] \in Int
  BY BalanceTypes
<1>t. thread \in [Thread -> ThreadRec] /\ skew \in [Descriptor -> Int]
      /\ events \in [Slot -> Descriptor]
  BY DEF TypeOK, ThreadRec
<1>1. ASSUME EpollWait PROVE Balance(f)' = Balance(f) /\ HalfRead(f)' = HalfRead(f)
  <2>1. InSlots(f) = 0 /\ InSlots(f)' = InReady(f) /\ InReady(f)' = 0
    BY <1>1, SlotsFetched
  <2>2. InThreads(f)' = InThreads(f) /\ HalfRead(f)' = HalfRead(f)
        /\ merged' = merged /\ skew' = skew
    BY <1>1, CountsStand DEF EpollWait, ghostVars
  <2> QED
    BY <1>0, <2>1, <2>2 DEF Balance, Due
<1>2. ASSUME StartThread PROVE Balance(f)' = Balance(f) /\ HalfRead(f)' = HalfRead(f)
  <2>0. PICK r : r = [Free EXCEPT !.pc = "start", !.slot = next, !.for = events[next]]
    OBVIOUS
  <2>1. PICK t \in Thread : thread[t].pc = "free" /\ thread' = [thread EXCEPT ![t] = r]
    BY <1>2, <2>0 DEF StartThread
  <2>2. r.pc = "start" /\ r.for = events[next]
    BY <2>0 DEF Free
  <2>3. ~GoingTo(thread[t], f) /\ (GoingTo(r, f) <=> events[next] = f)
    BY <2>1, <2>2 DEF GoingTo
  <2>4. /\ InThreads(f)' = InThreads(f) + (IF events[next] = f THEN 1 ELSE 0)
        /\ HalfRead(f)' = HalfRead(f)
    <3>1. /\ InThreads(f)' = InThreads(f) - (IF GoingTo(thread[t], f) THEN 1 ELSE 0)
                                          + (IF GoingTo(r, f) THEN 1 ELSE 0)
          /\ HalfRead(f)' =
                HalfRead(f) - (IF thread[t].pc = "body" /\ thread[t].fd = f THEN 1 ELSE 0)
                            + (IF r.pc = "body" /\ r.fd = f THEN 1 ELSE 0)
      <4>1. thread'[t] = r /\ \A u \in Thread \ {t} : thread'[u] = thread[u]
        BY <1>t, <2>1
      <4> QED
        BY <4>1, ThreadBecomes
    <3>2. thread[t].pc # "body" /\ r.pc # "body"
      BY <2>1, <2>2
    <3> QED
      BY <1>0, <2>3, <3>1, <3>2
  <2>5. InSlots(f)' = InSlots(f) - (IF events[next] = f THEN 1 ELSE 0)
    BY <1>2, SlotsServed DEF StartThread
  <2>6. InReady(f)' = InReady(f) /\ merged' = merged /\ skew' = skew
    BY <1>2 DEF StartThread, kernelVars, ghostVars, InReady
  <2> QED
    BY <1>0, <2>4, <2>5, <2>6 DEF Balance, Due
<1>3. ASSUME NEW t \in Thread, TakeSlot(t)
      PROVE  Balance(f)' = Balance(f) /\ HalfRead(f)' = HalfRead(f)
  <2> DEFINE g == events[thread[t].slot]
             h == thread[t].for
  <2>0. PICK r : r = [thread[t] EXCEPT !.pc = "head", !.fd = g]
    OBVIOUS
  <2>1. thread' = [thread EXCEPT ![t] = r] /\ thread[t].pc = "start"
    BY <1>t, <1>3, <2>0 DEF TakeSlot
  <2>2. r.pc = "head" /\ r.fd = g /\ g \in Descriptor /\ h \in Descriptor
    BY <1>t, <2>0 DEF ThreadRec
  <2>3. skew' = IF g = h THEN skew ELSE [skew EXCEPT ![h] = @ + 1, ![g] = @ - 1]
    BY <1>3 DEF TakeSlot
  <2>4. GoingTo(thread[t], f) <=> h = f
    BY <2>1 DEF GoingTo
  <2>5. InSlots(f)' = InSlots(f) /\ InReady(f)' = InReady(f) /\ merged' = merged
    BY <1>3, CountsStand DEF TakeSlot, kernelVars
  <2> HIDE DEF g, h
  <2>6. GoingTo(r, f) <=> g = f
    BY <2>2 DEF GoingTo
  <2>7. /\ InThreads(f)' = InThreads(f) - (IF h = f THEN 1 ELSE 0)
                                        + (IF g = f THEN 1 ELSE 0)
        /\ HalfRead(f)' = HalfRead(f)
    <3>1. /\ InThreads(f)' = InThreads(f) - (IF GoingTo(thread[t], f) THEN 1 ELSE 0)
                                          + (IF GoingTo(r, f) THEN 1 ELSE 0)
          /\ HalfRead(f)' =
                HalfRead(f) - (IF thread[t].pc = "body" /\ thread[t].fd = f THEN 1 ELSE 0)
                            + (IF r.pc = "body" /\ r.fd = f THEN 1 ELSE 0)
      <4>1. thread'[t] = r /\ \A u \in Thread \ {t} : thread'[u] = thread[u]
        BY <1>t, <2>1
      <4> QED
        BY <4>1, ThreadBecomes
    <3>2. thread[t].pc # "body" /\ r.pc # "body"
      BY <2>1, <2>2
    <3> QED
      BY <1>0, <2>4, <2>6, <3>1, <3>2
  <2>8. skew'[f] = skew[f] + (IF h = f THEN 1 ELSE 0) - (IF g = f THEN 1 ELSE 0)
    BY <1>0, <1>t, <2>2, <2>3
  <2> QED
    <3>1. Due(f)' = Due(f) - (IF h = f THEN 1 ELSE 0) + (IF g = f THEN 1 ELSE 0)
      BY <1>0, <2>5, <2>7 DEF Due
    <3>2. Due(f) \in Nat
      BY BalanceTypes
    <3> QED
      BY <1>0, <2>5, <2>7, <2>8, <3>1, <3>2 DEF Balance
<1>4. ASSUME NEW t \in Thread, thread' = [thread EXCEPT ![t] = Free]
      PROVE  /\ ~GoingTo(thread[t], f) => InThreads(f)' = InThreads(f)
             /\ ~(thread[t].pc = "body" /\ thread[t].fd = f) => HalfRead(f)' = HalfRead(f)
  <2>1. Free.pc = "free" /\ ~GoingTo(Free, f)
    BY DEF Free, GoingTo
  <2>2. thread'[t] = Free /\ \A u \in Thread \ {t} : thread'[u] = thread[u]
    BY <1>t, <1>4
  <2>3. /\ InThreads(f)' = InThreads(f) - (IF GoingTo(thread[t], f) THEN 1 ELSE 0)
                                        + (IF GoingTo(Free, f) THEN 1 ELSE 0)
        /\ HalfRead(f)' =
              HalfRead(f) - (IF thread[t].pc = "body" /\ thread[t].fd = f THEN 1 ELSE 0)
                          + (IF Free.pc = "body" /\ Free.fd = f THEN 1 ELSE 0)
    BY <2>2, ThreadBecomes
  <2> QED
    BY <1>0, <2>1, <2>3
<1>5. ASSUME NEW t \in Thread, Answer(t)
      PROVE  Balance(f)' = Balance(f) /\ HalfRead(f)' = HalfRead(f)
  <2>1. ~GoingTo(thread[t], f) /\ thread[t].pc # "body"
    BY <1>5 DEF Answer, GoingTo
  <2>2. InThreads(f)' = InThreads(f) /\ HalfRead(f)' = HalfRead(f)
    BY <1>4, <1>5, <2>1 DEF Answer
  <2>3. /\ InSlots(f)' = InSlots(f) /\ InReady(f)' = InReady(f)
        /\ merged' = merged /\ skew' = skew
    BY <1>5, CountsStand DEF Answer, kernelVars, ghostVars
  <2> QED
    BY <2>2, <2>3 DEF Balance, Due
<1>6. ASSUME NEW t \in Thread, ReadFails(t), f # thread[t].fd
      PROVE  Balance(f)' = Balance(f) /\ HalfRead(f)' = HalfRead(f)
  <2>1. ~GoingTo(thread[t], f)
    BY <1>6 DEF ReadFails, GoingTo
  <2>2. InThreads(f)' = InThreads(f) /\ HalfRead(f)' = HalfRead(f)
    BY <1>4, <1>6, <2>1 DEF ReadFails
  <2>3. InReady(f)' = InReady(f)
    BY <1>6, DropEventProperties DEF ReadFails, InReady
  <2>4. InSlots(f)' = InSlots(f) /\ merged' = merged /\ skew' = skew
    BY <1>6, CountsStand DEF ReadFails, ghostVars
  <2> QED
    BY <2>2, <2>3, <2>4 DEF Balance, Due
<1> QED
  BY <1>1, <1>2, <1>3, <1>5, <1>6

(* The two reads: the event, and then the half that is read, is used up.   *)
LEMMA OneRead ==
    ASSUME TypeOK, NEW t \in Thread, ReadHeader(t) \/ ReadBody(t), NEW c \in Conn
    PROVE  Arrived(c) = 2 * Balance(c) + HalfRead(c)
              => Arrived(c)' = 2 * Balance(c)' + HalfRead(c)'
<1>0. /\ InReady(c) \in Nat /\ InSlots(c) \in Nat /\ InThreads(c) \in Nat
      /\ HalfRead(c) \in Nat /\ merged[c] \in Nat /\ skew[c] \in Int
      /\ Due(c) \in Nat /\ Balance(c) \in Int /\ Len(rx[c]) \in Nat /\ Arrived(c) \in Nat
  BY BalanceTypes DEF Descriptor
<1>t. /\ thread \in [Thread -> ThreadRec] /\ rx \in [Conn -> Seq(PartRec)]
      /\ thread[t] \in ThreadRec
  BY DEF TypeOK, ThreadRec, PartRec
<1>1. PICK r : r = thread'[t]
  OBVIOUS
<1>2. /\ InThreads(c)' = InThreads(c) - (IF GoingTo(thread[t], c) THEN 1 ELSE 0)
                                      + (IF GoingTo(r, c) THEN 1 ELSE 0)
      /\ HalfRead(c)' =
            HalfRead(c) - (IF thread[t].pc = "body" /\ thread[t].fd = c THEN 1 ELSE 0)
                        + (IF r.pc = "body" /\ r.fd = c THEN 1 ELSE 0)
  <2>1. thread'[t] = r /\ \A u \in Thread \ {t} : thread'[u] = thread[u]
    BY <1>1, <1>t DEF ReadHeader, ReadBody
  <2> QED
    BY <2>1, ThreadBecomes
<1>3. /\ InReady(c)' = InReady(c) /\ InSlots(c)' = InSlots(c)
      /\ merged' = merged /\ skew' = skew /\ state' = state
  BY CountsStand DEF ReadHeader, ReadBody, clientVars, ghostVars
<1> DEFINE mine == IF thread[t].fd = c THEN 1 ELSE 0
<1>4. Len(rx'[c]) = Len(rx[c]) - mine
  <2>1. /\ rx' = [rx EXCEPT ![thread[t].fd] = Tail(@)] /\ rx[thread[t].fd] # << >>
    BY DEF ReadHeader, ReadBody
  <2>2. CASE thread[t].fd = c
    <3>1. rx'[c] = Tail(rx[c]) /\ rx[c] # << >> /\ rx[c] \in Seq(PartRec)
      BY <1>t, <2>1, <2>2
    <3>2. Len(Tail(rx[c])) = Len(rx[c]) - 1
      BY <3>1, HeadTailProperties
    <3> QED
      BY <2>2, <3>1, <3>2
  <2>3. CASE thread[t].fd # c
    <3>1. rx'[c] = rx[c]
      BY <1>t, <2>1, <2>3
    <3> QED
      BY <1>0, <2>3, <3>1
  <2> QED
    BY <2>2, <2>3
<1>5. mine \in {0, 1}
  OBVIOUS
<1>6. Arrived(c)' = Arrived(c) - mine
  <2> DEFINE n == Len(rx[c])
             m == Len(rx'[c])
  <2>1. /\ Arrived(c) = n + IF state[c] = "ended" THEN 2 ELSE 0
        /\ Arrived(c)' = m + IF state[c] = "ended" THEN 2 ELSE 0
    BY <1>3 DEF Arrived
  <2>2. n \in Nat /\ m = n - mine
    BY <1>0, <1>4
  <2> HIDE DEF n, m, mine
  <2> QED
    BY <1>5, <2>1, <2>2
<1>7. CASE ReadHeader(t)
  <2>1. thread[t].pc = "head" /\ r.pc = "body" /\ r.fd = thread[t].fd
    BY <1>1, <1>t, <1>7 DEF ReadHeader, ThreadRec
  <2>2. InThreads(c)' = InThreads(c) - mine
    BY <1>0, <1>2, <2>1 DEF GoingTo
  <2>3. HalfRead(c)' = HalfRead(c) + mine
    BY <1>0, <1>2, <2>1
  <2> HIDE DEF mine
  <2>4. Due(c)' = Due(c) - mine
    BY <1>0, <1>3, <1>5, <2>2 DEF Due
  <2>5. Balance(c)' = Balance(c) - mine
    BY SMTT(60), <1>0, <1>3, <1>5, <2>4 DEF Balance
  <2> QED
    BY <1>0, <1>5, <1>6, <2>3, <2>5
<1>8. CASE ReadBody(t)
  <2>1. thread[t].pc = "body" /\ r.pc = "work" /\ r.fd = thread[t].fd
    BY <1>1, <1>t, <1>8 DEF ReadBody, ThreadRec
  <2>2. InThreads(c)' = InThreads(c)
    BY <1>0, <1>2, <2>1 DEF GoingTo
  <2>3. HalfRead(c)' = HalfRead(c) - mine
    BY <1>0, <1>2, <2>1
  <2> HIDE DEF mine
  <2>4. Balance(c)' = Balance(c)
    BY <1>3, <2>2 DEF Balance, Due
  <2> QED
    BY <1>0, <1>5, <1>6, <2>3, <2>4
<1> QED
  BY <1>7, <1>8

(* A connection is accepted with the events of what it sent before.        *)
LEMMA OneAccepted ==
    ASSUME TypeOK, ReadyOnce, BacklogOnce, FreshRight, AcceptOne,
           Listen \in open, backlog # << >>, NEW c, c = Head(backlog)
    PROVE  /\ c \in Conn /\ Arrived(c)' = 2 * Balance(c)' + HalfRead(c)'
           /\ \A f \in Descriptor \ {c} :
                 /\ Balance(f)' = Balance(f) - (IF f = Listen THEN 1 ELSE 0)
                 /\ HalfRead(f)' = HalfRead(f)
<1>2. c \in Conn /\ Fresh(c) /\ c \in Descriptor /\ c # Listen
  BY OldestConnection DEF Descriptor
<1>3. /\ ready' = IF Units(c) > 0 THEN Append(ready, c) ELSE ready
      /\ merged' = IF Units(c) > 1 THEN [merged EXCEPT ![c] = Units(c) - 1] ELSE merged
      /\ next <= ret /\ next' = next + 1 /\ UNCHANGED <<events, ret>>
      /\ events[next] = Listen /\ thread' = thread /\ skew' = skew
      /\ rx' = rx /\ state' = state
  BY DEF AcceptOne, clientVars
<1>4. /\ ready \in Seq(Descriptor) /\ merged \in [Descriptor -> Nat] /\ Once(ready)
      /\ Units(c) \in Nat
  BY <1>2, UnitsType DEF TypeOK, ReadyOnce, Once
<1>5. /\ InSlots(c) = 0 /\ InThreads(c) = 0 /\ HalfRead(c) = 0 /\ ~Contains(ready, c)
      /\ merged[c] = 0 /\ skew[c] = 0 /\ Len(rx[c]) = 2 * sent[c] /\ sent[c] \in Nat
  <2>1. InSlots(c) = 0 /\ InThreads(c) = 0 /\ HalfRead(c) = 0
    BY <1>2, FreshCounts
  <2>2. sent[c] \in Nat
    BY <1>2 DEF TypeOK
  <2> QED
    BY <1>2, <2>1, <2>2 DEF Fresh
<1>6. \A f : /\ InThreads(f)' = InThreads(f) /\ HalfRead(f)' = HalfRead(f)
             /\ InSlots(f)' = InSlots(f) - (IF events[next] = f THEN 1 ELSE 0)
  BY <1>3, CountsStand, SlotsServed
<1>7. \A f : Contains(ready', f) <=> Contains(ready, f) \/ (f = c /\ Units(c) > 0)
  <2>1. \A f : Contains(Append(ready, c), f) <=> Contains(ready, f) \/ f = c
    BY <1>2, <1>4, <1>5, AppendOnce
  <2> QED
    BY <1>3, <2>1
<1>8. ASSUME NEW f \in Descriptor \ {c}
      PROVE  /\ Balance(f)' = Balance(f) - (IF f = Listen THEN 1 ELSE 0)
             /\ HalfRead(f)' = HalfRead(f)
  <2>1. InReady(f)' = InReady(f) /\ merged'[f] = merged[f]
    BY <1>3, <1>4, <1>7, <1>8 DEF InReady
  <2>2. /\ InReady(f) \in Nat /\ InSlots(f) \in Nat /\ InThreads(f) \in Nat
        /\ merged[f] \in Nat /\ skew[f] \in Int /\ Due(f) \in Nat
    BY BalanceTypes
  <2>3. Due(f)' = Due(f) - (IF f = Listen THEN 1 ELSE 0)
    BY <1>3, <1>6, <2>1, <2>2 DEF Due
  <2> QED
    <3>1. /\ Balance(f) = merged[f] + Due(f) + skew[f]
          /\ Balance(f)' = merged[f] + Due(f)' + skew[f]
      BY <1>3, <2>1 DEF Balance
    <3> QED
      BY SMTT(60), <1>6, <2>2, <2>3, <3>1
<1>9. Arrived(c)' = 2 * Balance(c)' + HalfRead(c)'
  <2>1. InReady(c)' + merged'[c] = Units(c)
    <3>1. InReady(c)' = IF Units(c) > 0 THEN 1 ELSE 0
      BY <1>5, <1>7 DEF InReady
    <3>2. merged'[c] = IF Units(c) > 1 THEN Units(c) - 1 ELSE 0
      BY <1>2, <1>3, <1>4, <1>5
    <3> QED
      BY <1>4, <3>1, <3>2
  <2>2. InSlots(c)' = 0 /\ InThreads(c)' = 0 /\ HalfRead(c)' = 0 /\ skew'[c] = 0
    BY <1>2, <1>3, <1>5, <1>6
  <2>3. InReady(c)' \in Nat /\ merged'[c] \in Nat
    BY <1>2, <1>3, <1>4, <1>5 DEF InReady
  <2>4. Balance(c)' = Units(c)
    BY <1>4, <2>1, <2>2, <2>3 DEF Balance, Due
  <2>5. Arrived(c)' = 2 * Units(c)
    <3> DEFINE n == Len(rx[c])
    <3>1. /\ Arrived(c)' = n + IF state[c] = "ended" THEN 2 ELSE 0
          /\ Units(c) = n \div 2 + IF state[c] = "ended" THEN 1 ELSE 0
      BY <1>3 DEF Arrived, Units
    <3>2. n = 2 * sent[c]
      BY <1>5
    <3> HIDE DEF n
    <3>3. n \div 2 = sent[c]
      BY <1>5, <3>2
    <3> QED
      BY <1>5, <3>1, <3>2, <3>3
  <2> QED
    BY <1>4, <2>2, <2>4, <2>5
<1> QED
  BY <1>2, <1>8, <1>9

(* What comes for f adds one to its balance and to no other.               *)
LEMMA OneArrival ==
    ASSUME TypeOK, ReadyOnce, NEW f \in Descriptor, Arrival(f),
           UNCHANGED loopVars, UNCHANGED thread, UNCHANGED skew, NEW g \in Descriptor
    PROVE  /\ Balance(g)' = Balance(g) + (IF g = f THEN 1 ELSE 0)
           /\ HalfRead(g)' = HalfRead(g)
<1>1. /\ InSlots(g)' = InSlots(g) /\ InThreads(g)' = InThreads(g)
      /\ HalfRead(g)' = HalfRead(g) /\ skew'[g] = skew[g]
  BY CountsStand
<1>2. InReady(g)' + merged'[g] = InReady(g) + merged[g] + (IF g = f THEN 1 ELSE 0)
  <2>1. /\ InReady(f)' + merged'[f] = InReady(f) + merged[f] + 1
        /\ g # f => InReady(g)' = InReady(g) /\ merged'[g] = merged[g]
    BY ArrivalProperties
  <2>2. InReady(g) \in Nat /\ merged[g] \in Nat
    BY BalanceTypes
  <2> QED
    BY <2>1, <2>2
<1>3. /\ InReady(g)' \in Nat /\ merged'[g] \in Nat
  BY ArrivalProperties DEF InReady
<1>4. /\ InReady(g) \in Nat /\ InSlots(g) \in Nat /\ InThreads(g) \in Nat
      /\ merged[g] \in Nat /\ skew[g] \in Int
  BY BalanceTypes
<1>5. /\ Balance(g) = merged[g] + (InReady(g) + InSlots(g) + InThreads(g)) + skew[g]
      /\ Balance(g)' = merged'[g] + (InReady(g)' + InSlots(g) + InThreads(g)) + skew[g]
  BY <1>1 DEF Balance, Due
<1> QED
  BY <1>1, <1>2, <1>3, <1>4, <1>5

LEMMA OneSent ==
    ASSUME TypeOK, NEW c \in Conn, Send(c) \/ End(c), NEW d \in Conn
    PROVE  Arrived(d)' = Arrived(d) + (IF d = c THEN 2 ELSE 0)
<1>1. /\ rx \in [Conn -> Seq(PartRec)] /\ state \in [Conn -> {"new", "idle", "waiting", "ended"}]
      /\ sent \in [Conn -> 0 .. MaxPackets]
  BY DEF TypeOK, PartRec
<1> DEFINE n == Len(rx[d])
           m == Len(rx'[d])
           e == IF state[d] = "ended" THEN 2 ELSE 0
           k == IF state'[d] = "ended" THEN 2 ELSE 0
<1>2. Arrived(d) = n + e /\ Arrived(d)' = m + k
  BY DEF Arrived
<1>3. n \in Nat
  BY <1>1, LenProperties
<1>4. CASE Send(c)
  <2>1. k = e
    BY <1>1, <1>4 DEF Send
  <2>2. m = n + (IF d = c THEN 2 ELSE 0)
    <3> DEFINE two == <<Part(sent[c] + 1, "header"), Part(sent[c] + 1, "body")>>
    <3>1. sent[c] + 1 \in 1 .. MaxPackets
      BY <1>1, <1>4 DEF Send
    <3>2. two \in Seq(PartRec) /\ Len(two) = 2
      BY <3>1 DEF Part, PartRec
    <3>3. rx' = [rx EXCEPT ![c] = @ \o two]
      BY <1>4 DEF Send
    <3> HIDE DEF two
    <3>4. CASE d = c
      <4>1. rx'[d] = rx[d] \o two /\ rx[d] \in Seq(PartRec)
        BY <1>1, <3>3, <3>4
      <4>2. Len(rx[d] \o two) = Len(rx[d]) + Len(two)
        BY <3>2, <4>1, ConcatProperties
      <4> QED
        BY <3>2, <3>4, <4>1, <4>2
    <3>5. CASE d # c
      <4>1. rx'[d] = rx[d]
        BY <1>1, <3>3, <3>5
      <4> QED
        BY <1>3, <3>5, <4>1
    <3> QED
      BY <3>4, <3>5
  <2>3. e \in Nat
    OBVIOUS
  <2> HIDE DEF n, m, e, k
  <2> QED
    BY <1>2, <1>3, <2>1, <2>2, <2>3
<1>5. CASE End(c)
  <2>1. k = e + (IF d = c THEN 2 ELSE 0)
    BY <1>1, <1>5 DEF End
  <2>2. m = n
    BY <1>5 DEF End
  <2>3. e \in Nat
    OBVIOUS
  <2> HIDE DEF n, m, e, k
  <2> QED
    BY <1>2, <1>3, <2>1, <2>2, <2>3
<1> QED
  BY <1>4, <1>5

LEMMA ListenNotRead ==
    ASSUME TypeOK, NEW t \in Thread, ReadHeader(t) \/ ReadBody(t)
    PROVE  Balance(Listen)' = Balance(Listen)
<1>t. thread \in [Thread -> ThreadRec]
  BY DEF TypeOK, ThreadRec
<1>1. PICK r : r = thread'[t]
  OBVIOUS
<1>2. InThreads(Listen)' = InThreads(Listen)
                              - (IF GoingTo(thread[t], Listen) THEN 1 ELSE 0)
                              + (IF GoingTo(r, Listen) THEN 1 ELSE 0)
  <2>1. thread'[t] = r /\ \A u \in Thread \ {t} : thread'[u] = thread[u]
    BY <1>1, <1>t DEF ReadHeader, ReadBody
  <2> QED
    BY <2>1, ThreadBecomes
<1>3. ~GoingTo(thread[t], Listen)
  BY DEF ReadHeader, ReadBody, GoingTo
<1>4. r.pc \in {"body", "work"}
  BY <1>1, <1>t DEF ReadHeader, ReadBody, ThreadRec
<1>5. InThreads(Listen) \in Nat /\ ~GoingTo(r, Listen)
  BY <1>4, SlotTypes, BalanceTypes DEF GoingTo
<1>6. /\ InReady(Listen)' = InReady(Listen) /\ InSlots(Listen)' = InSlots(Listen)
      /\ merged' = merged /\ skew' = skew
  BY CountsStand DEF ReadHeader, ReadBody, ghostVars
<1> QED
  BY <1>2, <1>3, <1>5, <1>6 DEF Balance, Due

LEMMA EventsStep ==
    ASSUME TypeOK, ReadyOnce, BacklogOnce, FreshRight, BootRight, EventsAccounted, Next
    PROVE  EventsAccounted'
<1> SUFFICES ASSUME up'
             PROVE  /\ Listen \in open' => Len(backlog') = Balance(Listen)'
                    /\ \A c \in Conn \cap open' : Arrived(c)' = 2 * Balance(c)' + HalfRead(c)'
  BY DEF EventsAccounted, Balance, Arrived
<1>1. up => /\ Listen \in open => Len(backlog) = Balance(Listen)
            /\ \A c \in Conn \cap open : Arrived(c) = 2 * Balance(c) + HalfRead(c)
  BY AccountMeans
<1>2. Conn \subseteq Descriptor /\ Listen \in Descriptor /\ \A c \in Conn : c # Listen
  BY DEF Descriptor
<1>3. ASSUME up, open' \subseteq open, backlog' = backlog,
             \A f \in open' : Balance(f)' = Balance(f) /\ HalfRead(f)' = HalfRead(f),
             \A c \in Conn : Arrived(c)' = Arrived(c)
      PROVE  /\ Listen \in open' => Len(backlog') = Balance(Listen)'
             /\ \A c \in Conn \cap open' : Arrived(c)' = 2 * Balance(c)' + HalfRead(c)'
  BY <1>1, <1>3
<1>4. open \subseteq Descriptor /\ open' \subseteq Descriptor
  BY TypeStep DEF TypeOK
<1>5. rx' = rx /\ state' = state => \A c \in Conn : Arrived(c)' = Arrived(c)
  BY DEF Arrived
<1>6. CASE Start
  <2>1. /\ phase = "boot" /\ open' = {Listen}
        /\ UNCHANGED <<loopVars, thread, ready, backlog, ghostVars>>
    BY <1>6 DEF Start, up
  <2>2. /\ ready = << >> /\ backlog = << >> /\ ret = 0 /\ next = 1
        /\ \A t \in Thread : thread[t] = Free
        /\ merged[Listen] = 0 /\ skew[Listen] = 0
    BY <2>1 DEF BootRight
  <2>3. Len(backlog) = 0 /\ Len(ready) = 0
    BY <2>2
  <2>4. Slots(Listen) = {} /\ Going(Listen) = {}
    BY <2>2 DEF Slots, Going, Free
  <2>5. InReady(Listen) = 0 /\ InSlots(Listen) = 0 /\ InThreads(Listen) = 0
    <3>1. InReady(Listen) = 0
      BY <2>3 DEF InReady, Contains
    <3>2. InSlots(Listen) = Cardinality(Slots(Listen))
          /\ InThreads(Listen) = Cardinality(Going(Listen))
      BY DEF InSlots, Slots, InThreads, Going
    <3> QED
      BY <2>4, <3>1, <3>2, FS_EmptySet
  <2>6. Balance(Listen)' = Balance(Listen)
    BY <2>1, CountsStand DEF Balance, Due, ghostVars
  <2>7. Balance(Listen) = 0
    BY <2>2, <2>5 DEF Balance, Due
  <2> QED
    BY <1>2, <2>1, <2>3, <2>6, <2>7
<1>7. CASE EpollWait
  <2>1. rx' = rx /\ state' = state /\ open' = open /\ backlog' = backlog /\ up
    BY <1>7 DEF EpollWait, clientVars
  <2>2. \A f \in open' : Balance(f)' = Balance(f) /\ HalfRead(f)' = HalfRead(f)
    BY <1>4, <1>7, PassedOn
  <2> QED
    BY <1>3, <1>5, <2>1, <2>2
<1>8. CASE AcceptOne
  <2>1. up /\ rx' = rx /\ state' = state
    BY <1>8 DEF AcceptOne, clientVars
  <2>2. PICK c : c = Head(backlog)
    OBVIOUS
  <2>3. Listen \in open /\ backlog # << >> /\ open' = open \cup {c} /\ backlog' = Tail(backlog)
    BY <1>8, <2>2 DEF AcceptOne, up
  <2>4. /\ c \in Conn /\ Arrived(c)' = 2 * Balance(c)' + HalfRead(c)'
        /\ \A f \in Descriptor \ {c} :
              /\ Balance(f)' = Balance(f) - (IF f = Listen THEN 1 ELSE 0)
              /\ HalfRead(f)' = HalfRead(f)
    BY <1>8, <2>2, <2>3, OneAccepted
  <2>5. Len(backlog') = Balance(Listen)'
    <3>1. Len(backlog') = Len(backlog) - 1
      BY <2>3, OldestConnection
    <3>2. Balance(Listen)' = Balance(Listen) - 1
      BY <1>2, <2>4
    <3> QED
      BY <1>1, <2>1, <2>3, <3>1, <3>2
  <2>6. ASSUME NEW d \in Conn \cap open'
        PROVE  Arrived(d)' = 2 * Balance(d)' + HalfRead(d)'
    <3>1. CASE d = c
      BY <2>4, <3>1
    <3>2. CASE d # c
      <4>1. d \in open /\ d \in Descriptor \ {c} /\ d # Listen
        BY <1>2, <2>3, <3>2
      <4>2. Balance(d)' = Balance(d) /\ HalfRead(d)' = HalfRead(d) /\ Arrived(d)' = Arrived(d)
        BY <1>5, <2>1, <2>4, <4>1, BalanceTypes
      <4> QED
        BY <1>1, <2>1, <4>1, <4>2
    <3> QED
      BY <3>1, <3>2
  <2> QED
    BY <2>5, <2>6
<1>9. CASE StartThread
  <2>1. rx' = rx /\ state' = state /\ open' = open /\ backlog' = backlog /\ up
    BY <1>9 DEF StartThread, clientVars, kernelVars
  <2>2. \A f \in open' : Balance(f)' = Balance(f) /\ HalfRead(f)' = HalfRead(f)
    BY <1>4, <1>9, PassedOn
  <2> QED
    BY <1>3, <1>5, <2>1, <2>2
<1>10. ASSUME NEW t \in Thread, Run(t)
       PROVE  /\ Listen \in open' => Len(backlog') = Balance(Listen)'
              /\ \A c \in Conn \cap open' : Arrived(c)' = 2 * Balance(c)' + HalfRead(c)'
  <2>1. CASE TakeSlot(t)
    <3>1. rx' = rx /\ state' = state /\ open' = open /\ backlog' = backlog /\ up
      BY <2>1 DEF TakeSlot, clientVars, kernelVars
    <3>2. \A f \in open' : Balance(f)' = Balance(f) /\ HalfRead(f)' = HalfRead(f)
      BY <1>4, <2>1, PassedOn
    <3> QED
      BY <1>3, <1>5, <3>1, <3>2
  <2>2. CASE ReadHeader(t) \/ ReadBody(t)
    <3>1. up /\ open' = open /\ backlog' = backlog
      BY <2>2 DEF ReadHeader, ReadBody
    <3>2. ASSUME NEW c \in Conn \cap open'
          PROVE  Arrived(c)' = 2 * Balance(c)' + HalfRead(c)'
      <4>1. Arrived(c) = 2 * Balance(c) + HalfRead(c)
        BY <1>1, <3>1
      <4> QED
        BY <2>2, <4>1, OneRead
    <3>3. Listen \in open' => Balance(Listen)' = Balance(Listen)
      BY <2>2, ListenNotRead
    <3> QED
      BY <1>1, <3>1, <3>2, <3>3
  <2>3. CASE ReadFails(t)
    <3>1. /\ rx' = rx /\ state' = state /\ open' = open \ {thread[t].fd}
          /\ backlog' = backlog /\ up
      BY <2>3 DEF ReadFails, clientVars
    <3>2. \A f \in open' : Balance(f)' = Balance(f) /\ HalfRead(f)' = HalfRead(f)
      BY <1>4, <2>3, <3>1, PassedOn
    <3> QED
      BY <1>3, <1>5, <3>1, <3>2
  <2>4. CASE Answer(t)
    <3>1. rx' = rx /\ open' = open /\ backlog' = backlog /\ up
      BY <2>4 DEF Answer, clientVars, kernelVars
    <3>2. \A f \in open' : Balance(f)' = Balance(f) /\ HalfRead(f)' = HalfRead(f)
      BY <1>4, <2>4, PassedOn
    <3>3. \A c \in Conn : state'[c] = "ended" <=> state[c] = "ended"
      BY <2>4 DEF Answer, TypeOK
    <3>4. \A c \in Conn : Arrived(c)' = Arrived(c)
      BY <3>1, <3>3 DEF Arrived
    <3> QED
      BY <1>3, <3>1, <3>2, <3>4
  <2> QED
    BY <1>10, <2>1, <2>2, <2>3, <2>4 DEF Run
<1>11. ASSUME NEW c \in Conn, Connect(c)
       PROVE  /\ Listen \in open' => Len(backlog') = Balance(Listen)'
              /\ \A d \in Conn \cap open' : Arrived(d)' = 2 * Balance(d)' + HalfRead(d)'
  <2>1. /\ up /\ open' = open /\ backlog' = Append(backlog, c) /\ Listen \in open
        /\ state[c] = "new" /\ state' = [state EXCEPT ![c] = "idle"] /\ rx' = rx
        /\ Arrival(Listen) /\ UNCHANGED loopVars /\ UNCHANGED thread /\ UNCHANGED skew
    BY <1>11 DEF Connect, up
  <2>2. \A g \in Descriptor : /\ Balance(g)' = Balance(g) + (IF g = Listen THEN 1 ELSE 0)
                              /\ HalfRead(g)' = HalfRead(g)
    BY <1>2, <2>1, OneArrival
  <2>3. \A d \in Conn : Arrived(d)' = Arrived(d)
    <3>1. \A d \in Conn : state'[d] = "ended" <=> state[d] = "ended"
      BY <2>1 DEF TypeOK
    <3> QED
      BY <2>1, <3>1 DEF Arrived
  <2>4. Len(backlog') = Len(backlog) + 1
    BY <2>1, AppendProperties DEF TypeOK
  <2>5. Balance(Listen)' = Balance(Listen) + 1
    BY <1>2, <2>2
  <2>6. \A d \in Conn : Balance(d)' = Balance(d) /\ HalfRead(d)' = HalfRead(d)
    <3> SUFFICES ASSUME NEW d \in Conn
                 PROVE  Balance(d)' = Balance(d) /\ HalfRead(d)' = HalfRead(d)
      OBVIOUS
    <3>1. d \in Descriptor /\ d # Listen
      BY <1>2
    <3> QED
      BY <2>2, <3>1, BalanceTypes
  <2> QED
    BY <1>1, <2>1, <2>3, <2>4, <2>5, <2>6
<1>12. ASSUME NEW c \in Conn, Send(c) \/ End(c)
       PROVE  /\ Listen \in open' => Len(backlog') = Balance(Listen)'
              /\ \A d \in Conn \cap open' : Arrived(d)' = 2 * Balance(d)' + HalfRead(d)'
  <2>1. /\ up /\ open' = open /\ backlog' = backlog
        /\ IF c \in open THEN Arrival(c) ELSE UNCHANGED <<ready, merged>>
        /\ UNCHANGED loopVars /\ UNCHANGED thread /\ UNCHANGED skew
    BY <1>12 DEF Send, End, up
  <2>2. ASSUME NEW g \in Descriptor
        PROVE  /\ Balance(g)' = Balance(g) + (IF g = c /\ c \in open THEN 1 ELSE 0)
               /\ HalfRead(g)' = HalfRead(g)
    <3>1. CASE c \in open
      BY <1>2, <2>1, <3>1, OneArrival
    <3>2. CASE c \notin open
      <4>1. Balance(g)' = Balance(g) /\ HalfRead(g)' = HalfRead(g)
        BY <2>1, <3>2, CountsStand DEF Balance, Due
      <4> QED
        BY <3>2, <4>1, BalanceTypes
    <3> QED
      BY <3>1, <3>2
  <2>3. \A d \in Conn : Arrived(d)' = Arrived(d) + (IF d = c THEN 2 ELSE 0)
    BY <1>12, OneSent
  <2>4. Balance(Listen)' = Balance(Listen)
    BY <1>2, <2>2, BalanceTypes
  <2>5. ASSUME NEW d \in Conn \cap open'
        PROVE  Arrived(d)' = 2 * Balance(d)' + HalfRead(d)'
    <3>1. d \in open /\ d \in Descriptor /\ Arrived(d) = 2 * Balance(d) + HalfRead(d)
      BY <1>1, <1>2, <2>1
    <3>2. Balance(d) \in Int /\ HalfRead(d) \in Nat
      BY <3>1, BalanceTypes
    <3>3. /\ Balance(d)' = Balance(d) + (IF d = c THEN 1 ELSE 0)
          /\ HalfRead(d)' = HalfRead(d)
          /\ Arrived(d)' = Arrived(d) + (IF d = c THEN 2 ELSE 0)
      BY <2>2, <2>3, <3>1
    <3> QED
      BY <3>1, <3>2, <3>3
  <2> QED
    BY <1>1, <2>1, <2>4, <2>5
<1> QED
  BY <1>6, <1>7, <1>8, <1>9, <1>10, <1>11, <1>12 DEF Next, Main
----------------------------------------------------------------------------
(* The parts of a packet.                                                  *)

LEMMA PacketTypes ==
    ASSUME TypeOK, NEW c \in Conn
    PROVE  /\ rx[c] \in Seq(PartRec) /\ Len(rx[c]) \in Nat
           /\ HalfRead(c) \in Nat /\ Cardinality(Workers(c)) \in Nat
           /\ sent[c] \in 0 .. MaxPackets
<1>1. rx[c] \in Seq(PartRec) /\ sent[c] \in 0 .. MaxPackets
  BY DEF TypeOK, PartRec
<1>2. Len(rx[c]) \in Nat
  BY <1>1, LenProperties
<1> QED
  BY <1>1, <1>2, CountTypes

(* A step that does not touch c's packet.                                  *)
LEMMA PacketKept ==
    ASSUME TypeOK, NEW c \in Conn, PacketRight(c),
           rx'[c] = rx[c], state'[c] = state[c], sent'[c] = sent[c],
           \A t \in Thread :
              \/ thread'[t] = thread[t]
              \/ /\ ~(thread[t].pc \in {"body", "work"} /\ thread[t].fd = c)
                 /\ ~(thread'[t].pc \in {"body", "work"} /\ thread'[t].fd = c)
    PROVE  PacketRight(c)'
<1>1. Halves(c)' = Halves(c) /\ Workers(c)' = Workers(c)
  BY DEF Halves, Workers
<1>2. \A t \in Halves(c) : thread'[t] = thread[t]
  BY DEF Halves
<1>3. HalfRead(c)' = HalfRead(c)
  BY <1>1 DEF HalfRead, Halves
<1> QED
  BY <1>1, <1>2, <1>3 DEF PacketRight

LEMMA TwoParts ==
    ASSUME NEW n \in Nat, NEW h \in Nat, NEW w \in Nat, n + h + 2 * w = 2, n > 0
    PROVE  w = 0 /\ ((n = 2 /\ h = 0) \/ (n = 1 /\ h = 1))
  OBVIOUS

(* What is left when no single part is unread.                             *)
LEMMA PacketLeft ==
    ASSUME NEW c,
           Len(rx'[c]) + HalfRead(c)' + 2 * Cardinality(Workers(c))'
              = (IF state'[c] = "waiting" THEN 2 ELSE 0),
           Len(rx'[c]) # 1,
           Len(rx'[c]) = 2 =>
              rx'[c] = <<Part(sent'[c], "header"), Part(sent'[c], "body")>>
    PROVE  PacketRight(c)'
  BY DEF PacketRight

(* The first part is read, or the second by who was to read it first.      *)
LEMMA PacketHeader ==
    ASSUME TypeOK, NEW t \in Thread, ReadHeader(t), NEW c \in Conn, c = thread[t].fd,
           PacketRight(c)
    PROVE  PacketRight(c)'
<1>0. /\ rx[c] \in Seq(PartRec) /\ Len(rx[c]) \in Nat
      /\ HalfRead(c) \in Nat /\ Cardinality(Workers(c)) \in Nat
      /\ sent[c] \in 0 .. MaxPackets
  BY PacketTypes
<1>t. thread \in [Thread -> ThreadRec] /\ thread[t] \in ThreadRec
      /\ rx \in [Conn -> Seq(PartRec)]
  BY DEF TypeOK, ThreadRec, PartRec
<1>1. /\ rx[c] # << >> /\ rx'[c] = Tail(rx[c]) /\ state' = state /\ sent' = sent
      /\ thread[t].pc = "head" /\ thread'[t].pc = "body" /\ thread'[t].fd = c
      /\ thread'[t].packet = Head(rx[c]).packet
      /\ \A u \in Thread \ {t} : thread'[u] = thread[u]
  BY <1>t DEF ReadHeader, clientVars, ThreadRec
<1>2. Len(rx[c]) > 0 /\ Len(rx'[c]) = Len(rx[c]) - 1
      /\ \A i \in 1 .. Len(rx'[c]) : rx'[c][i] = rx[c][i + 1]
  <2>1. Len(rx[c]) \in Nat \ {0}
    BY <1>0, <1>1, EmptySeq
  <2> QED
    BY <1>0, <1>1, <2>1, HeadTailProperties
<1>3. HalfRead(c)' = HalfRead(c) + 1 /\ Cardinality(Workers(c))' = Cardinality(Workers(c))
  <2>1. PICK r : r = thread'[t]
    OBVIOUS
  <2>2. /\ HalfRead(c)' =
              HalfRead(c) - (IF thread[t].pc = "body" /\ thread[t].fd = c THEN 1 ELSE 0)
                          + (IF r.pc = "body" /\ r.fd = c THEN 1 ELSE 0)
        /\ Cardinality(Workers(c))' =
              Cardinality(Workers(c))
                 - (IF thread[t].pc = "work" /\ thread[t].fd = c THEN 1 ELSE 0)
                 + (IF r.pc = "work" /\ r.fd = c THEN 1 ELSE 0)
    BY <1>1, <2>1, ThreadBecomes
  <2> QED
    BY <1>0, <1>1, <2>1, <2>2
<1>4. /\ Len(rx[c]) + HalfRead(c) + 2 * Cardinality(Workers(c)) = 2
      /\ state[c] = "waiting"
  BY <1>0, <1>2 DEF PacketRight
<1>5. CASE Len(rx[c]) = 2
  <2>1. HalfRead(c) = 0
    BY <1>0, <1>4, <1>5
  <2>2. rx[c] = <<Part(sent[c], "header"), Part(sent[c], "body")>>
    BY <1>5 DEF PacketRight
  <2>3. Head(rx[c]).packet = sent[c] /\ rx[c][2] = Part(sent[c], "body")
    BY <2>2 DEF Part
  <2>4. Len(rx'[c]) = 1 /\ rx'[c][1] = Part(sent[c], "body")
    BY <1>2, <1>5, <2>3
  <2>5. ASSUME NEW u \in Halves(c)' PROVE thread'[u].packet = sent[c]
    <3>1. CASE u = t
      BY <1>1, <2>3, <3>1
    <3>2. CASE u # t
      <4>1. u \in Thread /\ u \in Halves(c)
        BY <1>1, <2>5, <3>2 DEF Halves
      <4>2. HalfRead(c) > 0
        BY <4>1, CountPositive
      <4> QED
        BY <2>1, <4>2
    <3> QED
      BY <3>1, <3>2
  <2>6. Len(rx'[c]) + HalfRead(c)' + 2 * Cardinality(Workers(c))' = 2
    BY SMTT(60), <1>0, <1>2, <1>3, <1>4
  <2>7. state'[c] = "waiting" /\ sent'[c] = sent[c]
    BY <1>1, <1>4
  <2> QED
    BY <2>4, <2>5, <2>6, <2>7 DEF PacketRight
<1>6. CASE Len(rx[c]) # 2
  <2>1. Len(rx[c]) = 1 /\ HalfRead(c) = 1 /\ Cardinality(Workers(c)) = 0
    <3> DEFINE n == Len(rx[c])
             h == HalfRead(c)
             w == Cardinality(Workers(c))
    <3>1. n \in Nat /\ h \in Nat /\ w \in Nat /\ n + h + 2 * w = 2 /\ n > 0 /\ n # 2
      BY <1>0, <1>2, <1>4, <1>6
    <3> HIDE DEF n, h, w
    <3>2. n = 1 /\ h = 1 /\ w = 0
      BY <3>1, TwoParts
    <3> QED
      BY <3>2 DEF n, h, w
  <2>2. Len(rx'[c]) = 0 /\ HalfRead(c)' = 2 /\ Cardinality(Workers(c))' = 0
    BY <1>2, <1>3, <2>1
  <2>3. state'[c] = "waiting"
    BY <1>1, <1>4
  <2>4. Len(rx'[c]) + HalfRead(c)' + 2 * Cardinality(Workers(c))'
           = (IF state'[c] = "waiting" THEN 2 ELSE 0)
    BY <2>2, <2>3
  <2>5. Len(rx'[c]) # 1 /\ (Len(rx'[c]) = 2 =>
           rx'[c] = <<Part(sent'[c], "header"), Part(sent'[c], "body")>>)
    BY <2>2, <2>3
  <2> QED
    BY <2>4, <2>5, PacketLeft
<1> QED
  BY <1>5, <1>6

LEMMA PacketBody ==
    ASSUME TypeOK, NEW t \in Thread, ReadBody(t), NEW c \in Conn, c = thread[t].fd,
           PacketRight(c)
    PROVE  PacketRight(c)'
<1>0. /\ rx[c] \in Seq(PartRec) /\ Len(rx[c]) \in Nat
      /\ HalfRead(c) \in Nat /\ Cardinality(Workers(c)) \in Nat
  BY PacketTypes
<1>t. thread \in [Thread -> ThreadRec] /\ thread[t] \in ThreadRec
      /\ rx \in [Conn -> Seq(PartRec)]
  BY DEF TypeOK, ThreadRec, PartRec
<1>1. /\ rx[c] # << >> /\ rx'[c] = Tail(rx[c]) /\ state' = state /\ sent' = sent
      /\ thread[t].pc = "body" /\ thread'[t].pc = "work" /\ thread'[t].fd = c
      /\ \A u \in Thread \ {t} : thread'[u] = thread[u]
  BY <1>t DEF ReadBody, clientVars, ThreadRec
<1>2. Len(rx[c]) > 0 /\ Len(rx'[c]) = Len(rx[c]) - 1
  <2>1. Len(rx[c]) \in Nat \ {0}
    BY <1>0, <1>1, EmptySeq
  <2> QED
    BY <1>0, <1>1, <2>1, HeadTailProperties
<1>3. /\ HalfRead(c)' = HalfRead(c) - 1
      /\ Cardinality(Workers(c))' = Cardinality(Workers(c)) + 1
  <2>1. PICK r : r = thread'[t]
    OBVIOUS
  <2>2. /\ HalfRead(c)' =
              HalfRead(c) - (IF thread[t].pc = "body" /\ thread[t].fd = c THEN 1 ELSE 0)
                          + (IF r.pc = "body" /\ r.fd = c THEN 1 ELSE 0)
        /\ Cardinality(Workers(c))' =
              Cardinality(Workers(c))
                 - (IF thread[t].pc = "work" /\ thread[t].fd = c THEN 1 ELSE 0)
                 + (IF r.pc = "work" /\ r.fd = c THEN 1 ELSE 0)
    BY <1>1, <2>1, ThreadBecomes
  <2> QED
    BY <1>0, <1>1, <2>1, <2>2
<1>4. HalfRead(c) > 0
  BY <1>1, CountPositive DEF Halves
<1>5. /\ Len(rx[c]) + HalfRead(c) + 2 * Cardinality(Workers(c)) = 2
      /\ state[c] = "waiting"
  BY SMTT(60), <1>0, <1>2 DEF PacketRight
<1>6. Len(rx[c]) = 1 /\ HalfRead(c) = 1 /\ Cardinality(Workers(c)) = 0
  <2> DEFINE n == Len(rx[c])
           h == HalfRead(c)
           w == Cardinality(Workers(c))
  <2>1. n \in Nat /\ h \in Nat /\ w \in Nat /\ n + h + 2 * w = 2 /\ n > 0 /\ h > 0
    BY <1>0, <1>2, <1>4, <1>5
  <2> HIDE DEF n, h, w
  <2>2. n = 1 /\ h = 1 /\ w = 0
    BY <2>1, TwoParts
  <2> QED
    BY <2>2 DEF n, h, w
<1>7. Len(rx'[c]) = 0 /\ HalfRead(c)' = 0 /\ Cardinality(Workers(c))' = 1
  BY <1>2, <1>3, <1>6
<1>8. state'[c] = "waiting"
  BY <1>1, <1>5
<1>9. Len(rx'[c]) + HalfRead(c)' + 2 * Cardinality(Workers(c))'
         = (IF state'[c] = "waiting" THEN 2 ELSE 0)
  BY <1>7, <1>8
<1>10. Len(rx'[c]) # 1 /\ (Len(rx'[c]) = 2 =>
         rx'[c] = <<Part(sent'[c], "header"), Part(sent'[c], "body")>>)
  BY <1>7, <1>8
<1> QED
  BY <1>9, <1>10, PacketLeft

(* Whoever a handler answers has been waiting, and has nothing unread.     *)
LEMMA PacketAnswered ==
    ASSUME TypeOK, NEW t \in Thread, Answer(t), NEW c \in Conn, c = thread[t].fd,
           PacketRight(c), c \in open
    PROVE  PacketRight(c)'
<1>0. /\ Len(rx[c]) \in Nat /\ HalfRead(c) \in Nat /\ Cardinality(Workers(c)) \in Nat
  BY PacketTypes
<1>1. Cardinality(Workers(c)) > 0
  BY CountPositive DEF Answer, Workers
<1>2. /\ Len(rx[c]) = 0 /\ HalfRead(c) = 0 /\ Cardinality(Workers(c)) = 1
      /\ state[c] = "waiting"
  BY SMTT(60), <1>0, <1>1 DEF PacketRight
<1>3. /\ rx' = rx /\ sent' = sent /\ state'[c] = "idle"
      /\ thread[t].pc = "work" /\ thread'[t].pc = "free"
      /\ \A u \in Thread \ {t} : thread'[u] = thread[u]
  BY <1>2 DEF Answer, kernelVars, TypeOK, Free
<1>4. HalfRead(c)' = 0 /\ Cardinality(Workers(c))' = 0
  <2>1. PICK r : r = thread'[t]
    OBVIOUS
  <2>2. /\ HalfRead(c)' =
              HalfRead(c) - (IF thread[t].pc = "body" /\ thread[t].fd = c THEN 1 ELSE 0)
                          + (IF r.pc = "body" /\ r.fd = c THEN 1 ELSE 0)
        /\ Cardinality(Workers(c))' =
              Cardinality(Workers(c))
                 - (IF thread[t].pc = "work" /\ thread[t].fd = c THEN 1 ELSE 0)
                 + (IF r.pc = "work" /\ r.fd = c THEN 1 ELSE 0)
    BY <1>3, <2>1, ThreadBecomes
  <2> QED
    BY <1>2, <1>3, <2>1, <2>2
<1> QED
  BY <1>2, <1>3, <1>4 DEF PacketRight

(* A client that waits for its answers sends when nothing of it is left.   *)
LEMMA PacketSent ==
    ASSUME TypeOK, NEW c \in Conn \ Eager, Send(c), PacketRight(c)
    PROVE  PacketRight(c)'
<1>0. /\ rx[c] \in Seq(PartRec) /\ Len(rx[c]) \in Nat
      /\ HalfRead(c) \in Nat /\ Cardinality(Workers(c)) \in Nat
      /\ sent[c] \in 0 .. MaxPackets
  BY PacketTypes
<1> DEFINE two == <<Part(sent[c] + 1, "header"), Part(sent[c] + 1, "body")>>
<1>1. /\ state[c] = "idle" /\ state'[c] = "waiting" /\ sent'[c] = sent[c] + 1
      /\ rx'[c] = rx[c] \o two /\ thread' = thread /\ sent[c] < MaxPackets
  BY DEF Send, TypeOK
<1>2. Len(rx[c]) = 0 /\ HalfRead(c) = 0 /\ Cardinality(Workers(c)) = 0
  BY <1>0, <1>1 DEF PacketRight
<1>3. rx'[c] = two /\ Len(two) = 2
  <2>1. two \in Seq(PartRec)
    BY <1>0, <1>1 DEF Part, PartRec
  <2>2. rx[c] = << >>
    BY <1>0, <1>2, EmptySeq
  <2> QED
    BY <1>1, <2>1, <2>2, ConcatEmptySeq
<1>4. HalfRead(c)' = 0 /\ Cardinality(Workers(c))' = 0
  BY <1>1, <1>2, CountsStand
<1>5. /\ Len(rx'[c]) = 2 /\ state'[c] = "waiting"
      /\ rx'[c] = <<Part(sent'[c], "header"), Part(sent'[c], "body")>>
  BY <1>1, <1>3
<1>6. Len(rx'[c]) + HalfRead(c)' + 2 * Cardinality(Workers(c))'
         = (IF state'[c] = "waiting" THEN 2 ELSE 0)
  BY <1>4, <1>5
<1>7. Len(rx'[c]) # 1 /\ (Len(rx'[c]) = 2 =>
         rx'[c] = <<Part(sent'[c], "header"), Part(sent'[c], "body")>>)
  BY <1>4, <1>5
<1> QED
  BY <1>6, <1>7, PacketLeft

LEMMA PacketsStep ==
    ASSUME TypeOK, ReadyOnce, BacklogOnce, FreshRight, PacketsRight, Next
    PROVE  PacketsRight'
<1> SUFFICES ASSUME NEW c \in Conn \ Eager, state'[c] # "ended",
                    c \in open' \/ Contains(backlog', c)
             PROVE  PacketRight(c)'
  BY DEF PacketsRight, Live
<1>t. /\ thread \in [Thread -> ThreadRec] /\ rx \in [Conn -> Seq(PartRec)]
      /\ state \in [Conn -> {"new", "idle", "waiting", "ended"}]
      /\ sent \in [Conn -> 0 .. MaxPackets] /\ backlog \in Seq(Conn) /\ c # Listen
  BY DEF TypeOK, ThreadRec, PartRec
<1>1. (c \in open \/ Contains(backlog, c)) /\ state[c] # "ended" => PacketRight(c)
  BY DEF PacketsRight, Live
<1>2. \A t \in Thread : thread[t].fd = c => ~Contains(backlog, c)
  BY DEF FreshRight, Fresh
<1>3. ASSUME state[c] # "ended", c \in open \/ Contains(backlog, c),
             rx'[c] = rx[c], state'[c] = state[c], sent'[c] = sent[c],
             \A t \in Thread :
                \/ thread'[t] = thread[t]
                \/ /\ ~(thread[t].pc \in {"body", "work"} /\ thread[t].fd = c)
                   /\ ~(thread'[t].pc \in {"body", "work"} /\ thread'[t].fd = c)
      PROVE  PacketRight(c)'
  BY <1>1, <1>3, PacketKept
<1>4. CASE Start \/ EpollWait
  <2>1. /\ UNCHANGED <<thread, rx, state, sent, backlog>>
        /\ open' \in {open, {Listen}}
    BY <1>4 DEF Start, EpollWait, clientVars
  <2> QED
    BY <1>3, <1>t, <2>1
<1>5. CASE AcceptOne
  <2>1. UNCHANGED <<thread, rx, state, sent>>
    BY <1>5 DEF AcceptOne, clientVars
  <2>2. c \in open \/ Contains(backlog, c)
    <3>1. CASE Listen \in open /\ backlog # << >>
      <4>1. /\ open' = open \cup {Head(backlog)} /\ backlog' = Tail(backlog)
        BY <1>5, <3>1 DEF AcceptOne
      <4>2. /\ Contains(backlog, Head(backlog))
            /\ Contains(Tail(backlog), c) => Contains(backlog, c)
        BY <3>1, OldestConnection
      <4> QED
        BY <4>1, <4>2
    <3>2. CASE ~(Listen \in open /\ backlog # << >>)
      BY <1>5, <3>2 DEF AcceptOne
    <3> QED
      BY <3>1, <3>2
  <2> QED
    BY <1>3, <2>1, <2>2
<1>6. CASE StartThread
  <2>0. PICK r : r = [Free EXCEPT !.pc = "start", !.slot = next, !.for = events[next]]
    OBVIOUS
  <2>1. r.pc = "start"
    BY <2>0 DEF Free
  <2>2. PICK t \in Thread : thread[t].pc = "free" /\ thread' = [thread EXCEPT ![t] = r]
    BY <1>6, <2>0 DEF StartThread
  <2>3. thread'[t] = r /\ \A u \in Thread \ {t} : thread'[u] = thread[u]
    BY <1>t, <2>2
  <2>4. \A u \in Thread :
           \/ thread'[u] = thread[u]
           \/ /\ ~(thread[u].pc \in {"body", "work"} /\ thread[u].fd = c)
              /\ ~(thread'[u].pc \in {"body", "work"} /\ thread'[u].fd = c)
    BY <2>1, <2>2, <2>3
  <2>5. UNCHANGED <<rx, state, sent, open, backlog>>
    BY <1>6 DEF StartThread, clientVars, kernelVars
  <2> QED
    BY <1>3, <2>4, <2>5
<1>7. ASSUME NEW t \in Thread, NEW p, thread'[t].pc = p,
             \A u \in Thread \ {t} : thread'[u] = thread[u],
             thread[t].pc \notin {"body", "work"} \/ thread[t].fd # c,
             p \notin {"body", "work"} \/ thread'[t].fd # c
      PROVE  \A u \in Thread :
                \/ thread'[u] = thread[u]
                \/ /\ ~(thread[u].pc \in {"body", "work"} /\ thread[u].fd = c)
                   /\ ~(thread'[u].pc \in {"body", "work"} /\ thread'[u].fd = c)
  BY <1>7
<1>8. ASSUME NEW t \in Thread, TakeSlot(t) PROVE PacketRight(c)'
  <2>1. /\ thread'[t].pc = "head" /\ thread[t].pc = "start"
        /\ \A u \in Thread \ {t} : thread'[u] = thread[u]
    BY <1>t, <1>8 DEF TakeSlot, ThreadRec
  <2>2. UNCHANGED <<rx, state, sent, open, backlog>>
    BY <1>8 DEF TakeSlot, clientVars, kernelVars
  <2> QED
    BY <1>3, <1>7, <2>1, <2>2
<1>9. ASSUME NEW t \in Thread, ReadHeader(t) \/ ReadBody(t) PROVE PacketRight(c)'
  <2>1. UNCHANGED <<state, sent, open, backlog>>
    BY <1>9 DEF ReadHeader, ReadBody, clientVars
  <2>2. CASE thread[t].fd = c
    BY <1>1, <1>9, <2>1, <2>2, PacketHeader, PacketBody
  <2>3. CASE thread[t].fd # c
    <3>1. thread'[t].fd = thread[t].fd /\ \A u \in Thread \ {t} : thread'[u] = thread[u]
      <4>1. thread[t] \in ThreadRec
        BY <1>t
      <4>2. CASE ReadHeader(t)
        BY <1>t, <4>1, <4>2 DEF ReadHeader, ThreadRec
      <4>3. CASE ReadBody(t)
        BY <1>t, <4>1, <4>3 DEF ReadBody, ThreadRec
      <4> QED
        BY <1>9, <4>2, <4>3
    <3>2. rx'[c] = rx[c]
      BY <1>t, <1>9, <2>3 DEF ReadHeader, ReadBody
    <3> QED
      BY <1>3, <1>7, <2>1, <2>3, <3>1, <3>2
  <2> QED
    BY <2>2, <2>3
<1>10. ASSUME NEW t \in Thread, ReadFails(t) PROVE PacketRight(c)'
  <2>1. /\ UNCHANGED <<rx, state, sent, backlog>> /\ open' = open \ {thread[t].fd}
        /\ thread' = [thread EXCEPT ![t] = Free]
    BY <1>10 DEF ReadFails, clientVars
  <2>2. thread[t].fd # c
    BY <1>2, <2>1
  <2>3. /\ thread'[t].pc = "free" /\ \A u \in Thread \ {t} : thread'[u] = thread[u]
    BY <1>t, <2>1 DEF Free
  <2> QED
    BY <1>3, <1>7, <2>1, <2>2, <2>3
<1>11. ASSUME NEW t \in Thread, Answer(t) PROVE PacketRight(c)'
  <2>1. UNCHANGED <<rx, sent, open, backlog>> /\ thread' = [thread EXCEPT ![t] = Free]
    BY <1>11 DEF Answer, kernelVars
  <2>2. CASE thread[t].fd = c
    <3>1. c \in open /\ state[c] # "ended"
      BY <1>2, <1>11, <1>t, <2>1, <2>2 DEF Answer
    <3> QED
      BY <1>1, <1>11, <2>2, <3>1, PacketAnswered
  <2>3. CASE thread[t].fd # c
    <3>1. state'[c] = state[c]
      BY <1>11, <1>t, <2>3 DEF Answer
    <3>2. /\ thread'[t].pc = "free" /\ \A u \in Thread \ {t} : thread'[u] = thread[u]
      BY <1>t, <2>1 DEF Free
    <3> QED
      BY <1>3, <1>7, <2>1, <2>3, <3>1, <3>2
  <2> QED
    BY <2>2, <2>3
<1>12. ASSUME NEW d \in Conn, Connect(d) PROVE PacketRight(c)'
  <2>1. /\ state[d] = "new" /\ state' = [state EXCEPT ![d] = "idle"]
        /\ backlog' = Append(backlog, d) /\ UNCHANGED <<thread, rx, sent, open>>
    BY <1>12 DEF Connect
  <2>2. CASE d = c
    <3>1. Fresh(c) /\ sent[c] = 0
      BY <2>1, <2>2 DEF FreshRight
    <3>2. Len(rx[c]) = 0 /\ HalfRead(c) = 0 /\ Cardinality(Workers(c)) = 0
      BY <3>1, FreshCounts DEF Fresh
    <3>3. /\ Len(rx'[c]) = 0 /\ HalfRead(c)' = 0 /\ Cardinality(Workers(c))' = 0
          /\ state'[c] = "idle"
      BY <1>t, <2>1, <2>2, <3>2, CountsStand
    <3>4. /\ Len(rx'[c]) + HalfRead(c)' + 2 * Cardinality(Workers(c))'
                = (IF state'[c] = "waiting" THEN 2 ELSE 0)
          /\ Len(rx'[c]) # 1 /\ Len(rx'[c]) # 2
      BY <3>3
    <3> QED
      BY <3>4, PacketLeft
  <2>3. CASE d # c
    <3>1. Contains(backlog', c) => Contains(backlog, c)
      <4>1. Once(backlog) /\ ~Contains(backlog, d)
        BY <2>1 DEF BacklogOnce, Once, Contains
      <4>2. Contains(backlog', c) <=> Contains(backlog, c) \/ c = d
        BY <1>t, <2>1, <4>1, AppendOnce
      <4> QED
        BY <2>3, <4>2
    <3> QED
      BY <1>3, <1>t, <2>1, <2>3, <3>1
  <2> QED
    BY <2>2, <2>3
<1>13. ASSUME NEW d \in Conn, Send(d) PROVE PacketRight(c)'
  <2>1. UNCHANGED <<thread, open, backlog>>
    BY <1>13 DEF Send
  <2>2. CASE d = c
    <3>1. state[c] # "ended"
      BY <1>13, <2>2 DEF Send
    <3> QED
      BY <1>1, <1>13, <2>1, <2>2, <3>1, PacketSent
  <2>3. CASE d # c
    <3>1. rx'[c] = rx[c] /\ state'[c] = state[c] /\ sent'[c] = sent[c]
      BY <1>13, <1>t, <2>3 DEF Send
    <3> QED
      BY <1>3, <2>1, <3>1
  <2> QED
    BY <2>2, <2>3
<1>14. ASSUME NEW d \in Conn, End(d) PROVE PacketRight(c)'
  <2>1. /\ UNCHANGED <<thread, open, backlog, rx, sent>>
        /\ state' = [state EXCEPT ![d] = "ended"]
    BY <1>14 DEF End
  <2>2. d # c
    BY <1>t, <2>1
  <2>3. state'[c] = state[c]
    BY <1>t, <2>1, <2>2
  <2> QED
    BY <1>3, <2>1, <2>3
<1> QED
  BY <1>4, <1>5, <1>6, <1>8, <1>9, <1>10, <1>11, <1>12, <1>13, <1>14 DEF Next, Main, Run
----------------------------------------------------------------------------
(* The invariant holds.                                                    *)

LEMMA InitIInv == Init => IInv
<1> SUFFICES ASSUME Init PROVE IInv
  OBVIOUS
<1> USE DEF Init
<1>1. TypeOK
  <2>1. Cardinality(Conn) \in Nat
    BY FS_CardinalityType
  <2>2. ret \in 0 .. Cardinality(Conn) + 1 /\ next \in 1 .. Cardinality(Conn) + 2
    BY <2>1
  <2>3. events \in [Slot -> Descriptor]
    BY SlotTypes
  <2>4. thread \in [Thread -> ThreadRec]
    BY SlotTypes
  <2>5. conf \in Seq(Lines)
    <3>1. PICK m \in 0 .. MaxLines : conf \in [1 .. m -> Lines]
      BY DEF BoundedSeq, SeqOf
    <3> QED
      BY <3>1, BoundAssumption
  <2>6. /\ ready \in Seq(Descriptor) /\ backlog \in Seq(Conn)
        /\ rx \in [Conn -> Seq([packet : 1 .. MaxPackets, kind : {"header", "body"}])]
    BY EmptySeq
  <2>7. /\ state \in [Conn -> {"new", "idle", "waiting", "ended"}]
        /\ sent \in [Conn -> 0 .. MaxPackets]
        /\ merged \in [Descriptor -> Nat] /\ skew \in [Descriptor -> Int]
    OBVIOUS
  <2>8. phase \in {"boot", "up", "exited"} /\ open \subseteq Descriptor
    OBVIOUS
  <2> QED
    BY <2>2, <2>3, <2>4, <2>5, <2>6, <2>7, <2>8 DEF TypeOK, ThreadRec
<1>2. Len(<< >>) = 0
  OBVIOUS
<1>3. ReadyOnce /\ BacklogOnce
  BY <1>2 DEF ReadyOnce, BacklogOnce
<1>4. FreshRight
  <2> SUFFICES ASSUME NEW c \in Conn PROVE Fresh(c) /\ sent[c] = 0
    BY DEF FreshRight
  <2>1. c # Listen /\ c \in Descriptor
    BY DEF Descriptor
  <2>2. ~Contains(ready, c)
    BY <1>2 DEF Contains
  <2>3. \A t \in Thread : thread[t].for # c /\ thread[t].fd # c
    BY <2>1 DEF Free
  <2>4. Len(rx[c]) = 2 * sent[c]
    BY <1>2
  <2> QED
    BY <2>1, <2>2, <2>3, <2>4 DEF Fresh
<1>5. BootRight
  BY DEF BootRight, Descriptor
<1>6. EventsAccounted
  BY DEF EventsAccounted, up
<1>7. PacketsRight
  <2> SUFFICES ASSUME NEW c \in Conn PROVE ~Live(c)
    BY DEF PacketsRight
  <2> QED
    BY <1>2 DEF Live, Contains
<1> QED
  BY <1>1, <1>3, <1>4, <1>5, <1>6, <1>7 DEF IInv

LEMMA NextIInv == IInv /\ [Next]_vars => IInv'
<1> SUFFICES ASSUME IInv, [Next]_vars PROVE IInv'
  OBVIOUS
<1>1. CASE Next
  <2> USE DEF IInv
  <2>1. TypeOK'
    BY <1>1, TypeStep
  <2>2. ReadyOnce'
    BY <1>1, ReadyStep
  <2>3. BacklogOnce'
    BY <1>1, BacklogStep
  <2>4. FreshRight'
    BY <1>1, FreshStep
  <2>5. BootRight'
    BY <1>1, BootStep
  <2>6. EventsAccounted'
    BY <1>1, EventsStep
  <2>7. PacketsRight'
    BY <1>1, PacketsStep
  <2> QED
    BY <2>1, <2>2, <2>3, <2>4, <2>5, <2>6, <2>7
<1>2. CASE UNCHANGED vars
  <2>1. UNCHANGED <<events, ret, next, thread, phase, conf, open, ready, backlog, rx,
                    state, sent, merged, skew>>
    BY <1>2 DEF vars, loopVars, kernelVars, clientVars, ghostVars
  <2>0. TypeOK'
    BY <2>1 DEF IInv, TypeOK
  <2>2. ReadyOnce' /\ BacklogOnce' /\ BootRight'
    BY <2>1 DEF IInv, ReadyOnce, BacklogOnce, BootRight
  <2>3. FreshRight'
    BY <2>1 DEF IInv, FreshRight, Fresh
  <2>4. EventsAccounted'
    BY <2>1 DEF IInv, EventsAccounted, Due, InReady, InSlots, InThreads, HalfRead, up
  <2>5. PacketsRight'
    BY <2>1 DEF IInv, PacketsRight, Live, PacketRight, HalfRead, Halves, Workers
  <2> QED
    BY <2>0, <2>2, <2>3, <2>4, <2>5 DEF IInv
<1> QED
  BY <1>1, <1>2

LEMMA Invariance == Spec => []IInv
  BY InitIInv, NextIInv, PTL DEF Spec
----------------------------------------------------------------------------
(* The variables keep their types: in particular the loop never passes the *)
(* slots epoll_wait may fill (server.c:28-45), nor a thread the packets    *)
(* that were sent.                                                         *)
THEOREM TypeCorrect == Spec => []TypeOK
<1>1. IInv => TypeOK
  BY DEF IInv
<1> QED
  BY <1>1, Invariance, PTL

(* What lies unread on a descriptor, or unaccepted in the backlog, has an  *)
(* event on its way, but for the arrivals that shared one (server.c:33,    *)
(* :64) and the threads that were sent elsewhere by their slot (:41).      *)
THEOREM EventsCorrect == Spec => []EventsAccounted
<1>1. IInv => EventsAccounted
  BY DEF IInv
<1> QED
  BY <1>1, Invariance, PTL

LEMMA PacketsWhole == IInv => WholePackets
<1> SUFFICES ASSUME IInv, NEW t \in Thread, NEW c, c = thread[t].fd, up,
                    c \in (Conn \cap open) \ Eager, ~Overtaken,
                    state[c] # "ended", rx[c] # << >>
             PROVE  /\ thread[t].pc = "head" => Head(rx[c]).kind = "header"
                    /\ thread[t].pc = "body" =>
                          Head(rx[c]) = Part(thread[t].packet, "body")
  BY DEF WholePackets
<1>1. TypeOK /\ PacketRight(c) /\ c \in Conn /\ c \in Descriptor
  BY DEF IInv, PacketsRight, Live, Descriptor
<1>2. /\ rx[c] \in Seq(PartRec) /\ Len(rx[c]) \in Nat /\ HalfRead(c) \in Nat
      /\ Cardinality(Workers(c)) \in Nat
  BY <1>1, PacketTypes
<1>3. Len(rx[c]) > 0 /\ Head(rx[c]) = rx[c][1]
  <2>1. Len(rx[c]) \in Nat \ {0}
    BY <1>2, EmptySeq
  <2> QED
    BY <1>2, <2>1
<1>4. (Len(rx[c]) = 2 /\ HalfRead(c) = 0) \/ (Len(rx[c]) = 1 /\ HalfRead(c) = 1)
  <2> DEFINE n == Len(rx[c])
             h == HalfRead(c)
             w == Cardinality(Workers(c))
  <2>1. n \in Nat /\ h \in Nat /\ w \in Nat /\ n > 0
        /\ n + h + 2 * w = IF state[c] = "waiting" THEN 2 ELSE 0
    BY <1>1, <1>2, <1>3 DEF PacketRight
  <2> HIDE DEF n, h, w
  <2>2. (n = 2 /\ h = 0) \/ (n = 1 /\ h = 1)
    BY <2>1, TwoParts
  <2> QED
    BY <2>2 DEF n, h, w
<1>5. ASSUME thread[t].pc = "head" PROVE Head(rx[c]).kind = "header"
  <2>1. InThreads(c) > 0
    BY <1>1, <1>5, CountPositive DEF Going
  <2>2. /\ InReady(c) \in Nat /\ InSlots(c) \in Nat /\ InThreads(c) \in Nat
        /\ merged[c] \in Nat
    BY <1>1, BalanceTypes
  <2>3. skew[c] = 0
    BY <1>1 DEF Overtaken
  <2>4. Balance(c) \in Nat /\ Balance(c) > 0
    BY <2>1, <2>2, <2>3 DEF Balance, Due
  <2>5. Arrived(c) = 2 * Balance(c) + HalfRead(c)
    BY <1>1, AccountMeans DEF IInv
  <2>6. Arrived(c) = Len(rx[c])
    BY <1>2 DEF Arrived
  <2>7. Len(rx[c]) # 1
    <3>1. Arrived(c) = 1 => HalfRead(c) = 1
      BY <1>4, <2>6
    <3>2. Arrived(c) # 1
      BY <1>2, <2>4, <2>5, <3>1
    <3> QED
      BY <2>6, <3>2
  <2>8. rx[c] = <<Part(sent[c], "header"), Part(sent[c], "body")>>
    BY <1>1, <1>4, <2>7 DEF PacketRight
  <2> QED
    BY <1>3, <2>8 DEF Part
<1>6. ASSUME thread[t].pc = "body"
      PROVE  Head(rx[c]) = Part(thread[t].packet, "body")
  <2>1. t \in Halves(c)
    BY <1>6 DEF Halves
  <2>2. HalfRead(c) > 0
    BY <1>1, <2>1, CountPositive
  <2>3. Len(rx[c]) = 1
    BY <1>4, <2>2
  <2> QED
    BY <1>1, <1>3, <2>1, <2>3 DEF PacketRight
<1> QED
  BY <1>5, <1>6

(* The two reads that take a packet (socket.c:136, :150) are those of one  *)
(* thread, for every client that waits for its answers, unless a thread    *)
(* came to the wrong descriptor.                                           *)
THEOREM PacketsCorrect == Spec => []WholePackets
  BY PacketsWhole, Invariance, PTL
============================================================================
