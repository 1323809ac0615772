-------------------------- MODULE OnlineListProofs --------------------------
(***************************************************************************)
(* Proofs about OnlineList for any number of threads, nodes and entries:   *)
(* its invariants, and that it implements OnlineUsers.                     *)
(***************************************************************************)
EXTENDS OnlineList, TLAPS

(* A walk's cursor is at position i of the chain (Len + 1: the sentinel),  *)
(* and every entry it has passed, which are the newer ones, fails the      *)
(* comparison.                                                             *)
At(i) == IF i = Len(chain) + 1 THEN Sentinel ELSE chain[i]

Before(i) == IF i = 1 THEN NULL ELSE chain[i - 1]

ScanInv ==
    \A t \in Thread : pc[t] \in Walking =>
        \E i \in 1 .. Len(chain) + 1 :
            /\ phead[t] = At(i)
            /\ \A j \in i .. Len(chain) : ~Matches(chain[j], arg[t])

(* The node a thread is adding carries the caller's entry, and the one it  *)
(* is freeing is a node.                                                   *)
OwnedInv ==
    /\ \A t \in Thread : pc[t] \in {"add_link", "del_free"} => pnode[t] \in Node
    /\ \A t \in Thread : pc[t] = "add_link" => val[pnode[t]] = arg[t]
    /\ \A n \in heap : val[n] \in Entry

IInv ==
    /\ TypeOK
    /\ ListWellFormed
    /\ MemoryAccounted
    /\ ScanInv
    /\ OwnedInv

USE ThreadAssumption, NodeAssumption, EntryAssumption
----------------------------------------------------------------------------
(* Removing the i-th element of a sequence.                                *)
LEMMA WithoutProperties ==
    ASSUME NEW S, NEW s \in Seq(S), NEW i \in 1 .. Len(s)
    PROVE  /\ Abs!Without(s, i) \in Seq(S)
           /\ Len(Abs!Without(s, i)) = Len(s) - 1
           /\ \A j \in 1 .. Len(s) - 1 :
                 Abs!Without(s, i)[j] = IF j < i THEN s[j] ELSE s[j + 1]
<1>1. Len(s) \in Nat /\ Len(s) - 1 \in Nat
  OBVIOUS
<1>2. \A j \in 1 .. Len(s) - 1 : (IF j < i THEN s[j] ELSE s[j + 1]) \in S
  OBVIOUS
<1>3. Abs!Without(s, i) \in [1 .. Len(s) - 1 -> S]
  BY <1>2 DEF Abs!Without
<1>4. Abs!Without(s, i) \in Seq(S) /\ Len(Abs!Without(s, i)) = Len(s) - 1
  BY <1>1, <1>3
<1> QED
  BY <1>4 DEF Abs!Without

(* What a reader with the mutex reads is the node before, in age, the one  *)
(* it stands on.                                                           *)
LEMMA ReadAt ==
    ASSUME IInv, NEW i \in 1 .. Len(chain) + 1
    PROVE  /\ At(i) \in Node \cup {Sentinel}
           /\ ReadNext(At(i)) = {Before(i)}
           /\ Before(i) = NULL <=> i = 1
<1>1. chain \in Seq(Node) /\ Len(chain) \in Nat
  BY DEF IInv, TypeOK
<1>2. \A k \in 1 .. Len(chain) : chain[k] \in Node /\ chain[k] # NULL
  BY <1>1
<1>3. \A k \in 1 .. Len(chain) : chain[k] \in heap
  BY DEF IInv, MemoryAccounted, Linked
<1>4. CASE i = Len(chain) + 1
  BY <1>1, <1>2, <1>4 DEF IInv, ListWellFormed, ReadNext, At, Before
<1>5. CASE i \in 1 .. Len(chain)
  BY <1>1, <1>2, <1>3, <1>5 DEF IInv, ListWellFormed, ReadNext, At, Before
<1> QED
  BY <1>1, <1>4, <1>5

(* At most one thread is inside the mutex.                                 *)
LEMMA OneLocked ==
    ASSUME TypeOK, NEW t \in Thread, NEW u \in Thread,
           pc[t] \in Locked, pc[u] \in Locked
    PROVE  t = u
  BY DEF TypeOK

(* The empty list satisfies the inductive invariant.                       *)
LEMMA InitIInv == Init => IInv
<1> SUFFICES ASSUME Init PROVE IInv
  OBVIOUS
<1>1. TypeOK
  BY DEF Init, TypeOK, PC, Locked
<1>2. Linked = {} /\ Owned = {}
  BY DEF Init, Linked, Owned
<1> QED
  BY <1>1, <1>2 DEF Init, IInv, ListWellFormed, MemoryAccounted, ScanInv,
     OwnedInv, Walking

(* Steps that leave the list and the owned nodes alone, and move no cursor *)
(* of a walk: what is left to check of them is their types.                *)
LEMMA UntouchedIInv ==
    ASSUME IInv, UNCHANGED <<next, val, heap, chain>>, TypeOK',
           \A t \in Thread : pc'[t] \in Walking =>
              pc[t] \in Walking /\ phead'[t] = phead[t] /\ arg'[t] = arg[t],
           \A t \in Thread :
              /\ pc'[t] = "add_link" <=> pc[t] = "add_link"
              /\ pc'[t] = "del_free" <=> pc[t] = "del_free"
              /\ pc[t] \in {"add_link", "del_free"} =>
                    pnode'[t] = pnode[t] /\ arg'[t] = arg[t]
    PROVE  IInv'
<1>1. Owned' = Owned /\ Linked' = Linked
  BY DEF Owned, Linked
<1>2. ListWellFormed' /\ MemoryAccounted'
  BY <1>1 DEF IInv, ListWellFormed, MemoryAccounted
<1>3. ScanInv'
  BY DEF IInv, ScanInv, Matches, At
<1>4. OwnedInv'
  BY DEF IInv, OwnedInv
<1> QED
  BY <1>2, <1>3, <1>4 DEF IInv

(* add_list up to its malloc: the new node is the only owned one.          *)
LEMMA AddEnterIInv ==
    ASSUME IInv, NEW t \in Thread, NEW e \in Entry, AddEnter(t, e)
    PROVE  IInv'
<1> USE DEF IInv
<1>1. PICK n \in Node \ heap :
         /\ heap' = heap \cup {n}
         /\ val' = [val EXCEPT ![n] = e]
         /\ pnode' = [pnode EXCEPT ![t] = n]
  BY DEF AddEnter
<1>2. /\ pc[t] = "idle" /\ pc' = [pc EXCEPT ![t] = "add_link"]
      /\ mutex = NoThread /\ mutex' = t
      /\ arg' = [arg EXCEPT ![t] = e]
      /\ UNCHANGED <<next, phead, chain>>
  BY DEF AddEnter, Enter, Goto
<1>3. \A u \in Thread : pc[u] \notin Locked
  BY <1>2 DEF TypeOK
<1>4. TypeOK'
  BY <1>1, <1>2, <1>3 DEF TypeOK, PC, Locked
<1>5. Linked' = Linked /\ Owned = {} /\ Owned' = {n}
  BY <1>1, <1>2, <1>3 DEF TypeOK, Linked, Owned, Locked
<1>6. n \notin Linked
  BY DEF MemoryAccounted
<1>7. MemoryAccounted'
  BY <1>1, <1>5, <1>6 DEF MemoryAccounted
<1>8. ListWellFormed'
  BY <1>2 DEF ListWellFormed
<1>9. ScanInv'
  BY <1>2, <1>3 DEF TypeOK, ScanInv, Walking, Locked
<1>10. OwnedInv'
  BY <1>1, <1>2, <1>3 DEF TypeOK, OwnedInv, Locked
<1> QED
  BY <1>4, <1>7, <1>8, <1>9, <1>10

(* add_list links its node behind the sentinel: the chain grows by one.    *)
LEMMA AddLinkIInv ==
    ASSUME IInv, NEW t \in Thread, AddLink(t)
    PROVE  IInv'
<1> USE DEF IInv
<1> DEFINE n == pnode[t]
<1>1. /\ pc[t] = "add_link" /\ pc' = [pc EXCEPT ![t] = "idle"]
      /\ next' = [next EXCEPT ![n] = next[Sentinel], ![Sentinel] = n]
      /\ chain' = Append(chain, n)
      /\ arg' = [arg EXCEPT ![t] = NoArg]
      /\ phead' = [phead EXCEPT ![t] = Sentinel]
      /\ pnode' = [pnode EXCEPT ![t] = NULL]
      /\ mutex' = NoThread
      /\ UNCHANGED <<val, heap>>
  BY DEF AddLink, Leave, Unlock
<1>2. n \in Node /\ n \in Owned
  BY <1>1 DEF OwnedInv, Owned
<1>3. \A u \in Thread : pc[u] \in Locked => u = t
  BY <1>1, OneLocked DEF Locked
<1>4. /\ chain' \in Seq(Node) /\ Len(chain') = Len(chain) + 1
      /\ \A i \in 1 .. Len(chain) : chain'[i] = chain[i]
      /\ chain'[Len(chain) + 1] = n
  BY <1>1, <1>2 DEF TypeOK
<1>5. TypeOK'
  BY <1>1, <1>2, <1>3, <1>4 DEF TypeOK, PC, Locked
<1>6. Owned = {n} /\ Owned' = {}
  BY <1>1, <1>2, <1>3, <1>5 DEF TypeOK, Owned, Locked
<1>13. \A i : i \in 1 .. Len(chain') <=>
                (i \in 1 .. Len(chain) \/ i = Len(chain) + 1)
  BY <1>4 DEF TypeOK
<1>7. Linked' = Linked \cup {n}
  <2>1. ASSUME NEW x \in Linked' PROVE x \in Linked \cup {n}
    BY <1>4, <1>13 DEF Linked
  <2>2. ASSUME NEW x \in Linked \cup {n} PROVE x \in Linked'
    BY <1>4, <1>13 DEF Linked
  <2> QED
    BY <2>1, <2>2
<1>8. MemoryAccounted'
  BY <1>1, <1>6, <1>7 DEF MemoryAccounted
<1>9. \A i \in 1 .. Len(chain) : chain[i] \in Node /\ chain[i] # n
  BY <1>2 DEF TypeOK, MemoryAccounted, Linked
<1>10. ListWellFormed'
  <2>1. Len(chain) \in Nat /\ chain \in Seq(Node)
    BY DEF TypeOK
  <2>2. chain' # << >> /\ chain'[Len(chain')] = n /\ Len(chain') \in Nat
    BY <1>4, <2>1
  <2>3. next'[Sentinel] = n /\ next'[n] = next[Sentinel]
    BY <1>1, <1>2 DEF TypeOK
  <2>4. \A i, j \in 1 .. Len(chain') : chain'[i] = chain'[j] => i = j
    <3> TAKE i, j \in 1 .. Len(chain')
    <3>1. CASE i = Len(chain) + 1 \/ j = Len(chain) + 1
      BY <1>4, <1>9, <1>13, <3>1
    <3>2. CASE i \in 1 .. Len(chain) /\ j \in 1 .. Len(chain)
      BY <1>4, <3>2 DEF ListWellFormed
    <3> QED
      BY <1>13, <3>1, <3>2
  <2>5. ASSUME NEW i \in 1 .. Len(chain')
        PROVE  next'[chain'[i]] = IF i = 1 THEN NULL ELSE chain'[i - 1]
    <3>1. CASE i \in 1 .. Len(chain)
      <4>1. next'[chain[i]] = next[chain[i]]
        BY <1>1, <1>9, <3>1 DEF TypeOK
      <4>2. i # 1 => i - 1 \in 1 .. Len(chain)
        BY <3>1, <2>1
      <4> QED
        BY <1>4, <2>1, <3>1, <4>1, <4>2 DEF ListWellFormed
    <3>2. CASE i = Len(chain) + 1
      <4>1. next'[chain'[i]] = next[Sentinel]
        BY <1>4, <2>3, <3>2
      <4>2. chain = << >> <=> i = 1
        BY <2>1, <3>2
      <4>3. i # 1 => i - 1 = Len(chain) /\ i - 1 \in 1 .. Len(chain)
        BY <2>1, <3>2
      <4> QED
        BY <1>4, <4>1, <4>2, <4>3 DEF ListWellFormed
    <3> QED
      BY <1>4, <2>1, <3>1, <3>2
  <2> QED
    BY <2>2, <2>3, <2>4, <2>5 DEF ListWellFormed
<1>11. ScanInv'
  BY <1>1, <1>3 DEF TypeOK, ScanInv, Walking, Locked
<1>12. OwnedInv'
  BY <1>1, <1>3 DEF TypeOK, OwnedInv, Locked
<1> QED
  BY <1>5, <1>8, <1>10, <1>11, <1>12

(* A walk starts at the sentinel, with nothing passed yet.                 *)
LEMMA WalkEnterIInv ==
    ASSUME IInv, NEW t \in Thread, NEW to \in Walking, NEW k \in Key,
           WalkEnter(t, to, k)
    PROVE  IInv'
<1> USE DEF IInv
<1>1. /\ pc[t] = "idle" /\ pc' = [pc EXCEPT ![t] = to]
      /\ mutex = NoThread /\ mutex' = t
      /\ arg' = [arg EXCEPT ![t] = k]
      /\ phead' = [phead EXCEPT ![t] = Sentinel]
      /\ pnode' = [pnode EXCEPT ![t] = NULL]
      /\ UNCHANGED <<next, val, heap, chain>>
  BY DEF WalkEnter, Enter, Goto
<1>2. \A u \in Thread : pc[u] \notin Locked
  BY <1>1 DEF TypeOK
<1>3. TypeOK'
  BY <1>1, <1>2 DEF TypeOK, PC, Locked, Walking
<1>4. Linked' = Linked /\ Owned = {} /\ Owned' = {}
  BY <1>1, <1>2 DEF TypeOK, Linked, Owned, Locked, Walking
<1>5. ListWellFormed' /\ MemoryAccounted'
  BY <1>1, <1>4 DEF ListWellFormed, MemoryAccounted
<1>6. ASSUME NEW u \in Thread, pc'[u] \in Walking
      PROVE  u = t /\ phead'[u] = At(Len(chain) + 1)
  BY <1>1, <1>2, <1>6 DEF TypeOK, Walking, Locked, At
<1>7. ScanInv'
  <2>1. Len(chain) \in Nat /\ At(Len(chain) + 1)' = At(Len(chain) + 1)
    BY <1>1 DEF TypeOK, At
  <2> QED
    BY <1>1, <1>6, <2>1 DEF ScanInv
<1>8. OwnedInv'
  BY <1>1, <1>2 DEF TypeOK, OwnedInv, Walking, Locked
<1> QED
  BY <1>3, <1>5, <1>7, <1>8

(* A walk that ends without a match only gives the mutex back.             *)
LEMMA WalkMissIInv ==
    ASSUME IInv, NEW t \in Thread, WalkMiss(t)
    PROVE  IInv'
<1>1. /\ pc[t] \in Walking /\ pc' = [pc EXCEPT ![t] = "idle"]
      /\ arg' = [arg EXCEPT ![t] = NoArg]
      /\ phead' = [phead EXCEPT ![t] = Sentinel]
      /\ mutex' = NoThread
      /\ UNCHANGED <<next, val, heap, pnode, chain>>
  BY DEF WalkMiss, Leave, Unlock
<1>2. \A u \in Thread : pc[u] \in Locked => u = t
  BY <1>1, OneLocked DEF IInv, Locked, Walking
<1>3. TypeOK'
  BY <1>1, <1>2 DEF IInv, TypeOK, PC, Locked, Walking
<1> QED
  BY <1>1, <1>2, <1>3, UntouchedIInv DEF IInv, TypeOK, Locked, Walking

(* search_list gives the mutex back before it returns its match.           *)
LEMMA SearchMatchIInv ==
    ASSUME IInv, NEW t \in Thread, SearchMatch(t)
    PROVE  IInv'
<1>1. /\ pc[t] = "srch_walk" /\ pc' = [pc EXCEPT ![t] = "srch_return"]
      /\ mutex' = NoThread
      /\ UNCHANGED <<next, val, heap, arg, phead, pnode, chain>>
  BY DEF SearchMatch, Goto, Unlock
<1>2. \A u \in Thread : pc[u] \in Locked => u = t
  BY <1>1, OneLocked DEF IInv, Locked
<1>3. TypeOK'
  BY <1>1, <1>2 DEF IInv, TypeOK, PC, Locked
<1> QED
  BY <1>1, <1>3, UntouchedIInv DEF IInv, TypeOK, Walking

(* What next reads as, in a freed node too, is a node or NULL.             *)
LEMMA ReadNextType ==
    ASSUME TypeOK, NEW n \in Node \cup {Sentinel}
    PROVE  ReadNext(n) \subseteq Node \cup {NULL}
  BY DEF TypeOK, ReadNext

(* The read after the unlock changes only the caller's own pointer.        *)
LEMMA SearchReturnIInv ==
    ASSUME IInv, NEW t \in Thread, SearchReturn(t)
    PROVE  IInv'
<1>1. PICK n \in ReadNext(phead[t]) : pnode' = [pnode EXCEPT ![t] = n]
  BY DEF SearchReturn
<1>2. /\ pc[t] = "srch_return" /\ pc' = [pc EXCEPT ![t] = "idle"]
      /\ arg' = [arg EXCEPT ![t] = NoArg]
      /\ phead' = [phead EXCEPT ![t] = Sentinel]
      /\ UNCHANGED <<mutex, next, val, heap, chain>>
  BY DEF SearchReturn, Leave
<1>3. n \in Node \cup {NULL}
  BY ReadNextType DEF IInv, TypeOK
<1>4. TypeOK'
  BY <1>1, <1>2, <1>3 DEF IInv, TypeOK, PC, Locked
<1> QED
  BY <1>1, <1>2, <1>4, UntouchedIInv DEF IInv, TypeOK, Walking

(* show_list starts without the mutex.                                     *)
LEMMA ShowEnterIInv ==
    ASSUME IInv, NEW t \in Thread, ShowEnter(t)
    PROVE  IInv'
<1>1. /\ pc[t] = "idle" /\ pc' = [pc EXCEPT ![t] = "show_walk"]
      /\ phead' = [phead EXCEPT ![t] = Sentinel]
      /\ pnode' = [pnode EXCEPT ![t] = NULL]
      /\ UNCHANGED <<mutex, next, val, heap, arg, chain>>
  BY DEF ShowEnter, Goto
<1>2. TypeOK'
  BY <1>1 DEF IInv, TypeOK, PC, Locked
<1> QED
  BY <1>1, <1>2, UntouchedIInv DEF IInv, TypeOK, Walking

(* show_list reads without the mutex and writes nothing.                   *)
LEMMA ShowStepIInv ==
    ASSUME IInv, NEW t \in Thread, ShowStep(t)
    PROVE  IInv'
<1>1. pc[t] = "show_walk" /\ UNCHANGED <<mutex, next, val, heap, arg, pnode, chain>>
  BY DEF ShowStep
<1>2. PICK n \in ReadNext(phead[t]) :
        \/ /\ n # NULL
           /\ phead' = [phead EXCEPT ![t] = n]
           /\ UNCHANGED pc
        \/ /\ n = NULL
           /\ Goto(t, "show_walk", "idle")
           /\ phead' = [phead EXCEPT ![t] = Sentinel]
  BY DEF ShowStep
<1>3. n \in Node \cup {NULL}
  BY ReadNextType DEF IInv, TypeOK
<1>4. TypeOK'
  BY <1>1, <1>2, <1>3 DEF IInv, TypeOK, PC, Locked, Goto
<1> QED
  BY <1>1, <1>2, <1>4, UntouchedIInv DEF IInv, TypeOK, Walking, Goto

(* Where a walk stands, and what it reads there.                           *)
LEMMA WalkRead ==
    ASSUME IInv, NEW t \in Thread, pc[t] \in Walking,
           NEW n \in ReadNext(phead[t]), n # NULL
    PROVE  \E k \in 1 .. Len(chain) :
              /\ n = chain[k]
              /\ phead[t] = At(k + 1)
              /\ \A j \in k + 1 .. Len(chain) : ~Matches(chain[j], arg[t])
<1>1. Len(chain) \in Nat
  BY DEF IInv, TypeOK
<1>2. PICK i \in 1 .. Len(chain) + 1 :
         /\ phead[t] = At(i)
         /\ \A j \in i .. Len(chain) : ~Matches(chain[j], arg[t])
  BY DEF IInv, ScanInv
<1>3. n = Before(i) /\ i # 1
  BY <1>2, ReadAt
<1>4. i - 1 \in 1 .. Len(chain) /\ (i - 1) + 1 = i
  BY <1>1, <1>3
<1> QED
  BY <1>2, <1>3, <1>4 DEF Before

(* A walk moves on: the entry it passes is one that fails to match.        *)
LEMMA WalkStepIInv ==
    ASSUME IInv, NEW t \in Thread, WalkStep(t)
    PROVE  IInv'
<1>1. /\ pc[t] \in Walking
      /\ UNCHANGED <<mutex, next, val, heap, pc, arg, pnode, chain>>
  BY DEF WalkStep
<1>2. PICK n \in ReadNext(phead[t]) :
         /\ n # NULL /\ ~Matches(n, arg[t])
         /\ phead' = [phead EXCEPT ![t] = n]
  BY DEF WalkStep
<1>3. PICK k \in 1 .. Len(chain) :
         /\ n = chain[k]
         /\ \A j \in k + 1 .. Len(chain) : ~Matches(chain[j], arg[t])
  BY <1>1, <1>2, WalkRead
<1>4. Len(chain) \in Nat /\ n \in Node
  BY <1>3 DEF IInv, TypeOK
<1>5. TypeOK'
  BY <1>1, <1>2, <1>4 DEF IInv, TypeOK
<1>6. /\ n = At(k) /\ k \in 1 .. Len(chain) + 1
      /\ \A j \in k .. Len(chain) : ~Matches(chain[j], arg[t])
  BY <1>2, <1>3, <1>4 DEF At
<1>7. ScanInv'
  <2>1. \A m \in Node : Matches(m, arg[t])' = Matches(m, arg[t])
    BY <1>1 DEF Matches
  <2>2. \A u \in Thread : u # t => phead'[u] = phead[u]
    BY <1>2 DEF IInv, TypeOK
  <2>3. phead'[t] = n
    BY <1>2 DEF IInv, TypeOK
  <2>4. \A u \in Thread : pc[u] \in Walking => u = t
    BY <1>1, OneLocked DEF IInv, Locked, Walking
  <2> QED
    BY <1>1, <1>6, <2>3, <2>4 DEF ScanInv, Matches, At
<1>8. Owned' = Owned /\ Linked' = Linked
  BY <1>1 DEF Owned, Linked
<1>9. ListWellFormed' /\ MemoryAccounted' /\ OwnedInv'
  BY <1>1, <1>8 DEF IInv, ListWellFormed, MemoryAccounted, OwnedInv
<1> QED
  BY <1>5, <1>7, <1>9 DEF IInv

(* del_list frees the node it has unlinked, which nothing links to.        *)
LEMMA DelFreeIInv ==
    ASSUME IInv, NEW t \in Thread, DelFree(t)
    PROVE  IInv'
<1> USE DEF IInv
<1> DEFINE n == pnode[t]
<1>1. /\ pc[t] = "del_free" /\ pc' = [pc EXCEPT ![t] = "idle"]
      /\ heap' = heap \ {n}
      /\ next' = [next EXCEPT ![n] = NULL]
      /\ val' = [val EXCEPT ![n] = NoEntry]
      /\ arg' = [arg EXCEPT ![t] = NoArg]
      /\ phead' = [phead EXCEPT ![t] = Sentinel]
      /\ pnode' = [pnode EXCEPT ![t] = NULL]
      /\ mutex' = NoThread
      /\ UNCHANGED chain
  BY DEF DelFree, Leave, Unlock
<1>2. n \in Node
  BY <1>1 DEF OwnedInv
<1>3. \A u \in Thread : pc[u] \in Locked => u = t
  BY <1>1, OneLocked DEF Locked
<1>4. TypeOK'
  BY <1>1, <1>2, <1>3 DEF TypeOK, PC, Locked
<1>5. Owned = {n} /\ Owned' = {} /\ Linked' = Linked
  BY <1>1, <1>2, <1>3 DEF TypeOK, Owned, Locked, Linked
<1>6. MemoryAccounted'
  BY <1>1, <1>5 DEF MemoryAccounted
<1>7. \A i \in 1 .. Len(chain) : chain[i] \in Node /\ chain[i] # n
  BY <1>5 DEF TypeOK, MemoryAccounted, Linked
<1>8. next'[Sentinel] = next[Sentinel]
      /\ \A i \in 1 .. Len(chain) : next'[chain[i]] = next[chain[i]]
  BY <1>1, <1>2, <1>7 DEF TypeOK
<1>9. ListWellFormed'
  BY <1>1, <1>8 DEF ListWellFormed
<1>10. ScanInv'
  BY <1>1, <1>3 DEF TypeOK, ScanInv, Walking, Locked
<1>11. OwnedInv'
  BY <1>1, <1>2, <1>3 DEF TypeOK, OwnedInv, Locked
<1> QED
  BY <1>4, <1>6, <1>9, <1>10, <1>11

(* The node unlinked is the newest match, and chain loses exactly it.      *)
LEMMA DelUnlinkRemoves ==
    ASSUME IInv, NEW t \in Thread, DelUnlink(t)
    PROVE  \E k \in 1 .. Len(chain) :
              /\ Matches(chain[k], arg[t])
              /\ \A j \in k + 1 .. Len(chain) : ~Matches(chain[j], arg[t])
              /\ phead[t] = At(k + 1)
              /\ pnode' = [pnode EXCEPT ![t] = chain[k]]
              /\ next' = [next EXCEPT ![At(k + 1)] = Before(k)]
              /\ chain' = Abs!Without(chain, k)
<1>1. pc[t] \in Walking
  BY DEF DelUnlink, Goto, Walking
<1>2. PICK n \in ReadNext(phead[t]) :
         /\ n # NULL /\ Matches(n, arg[t])
         /\ next' = [next EXCEPT ![phead[t]] = next[n]]
         /\ pnode' = [pnode EXCEPT ![t] = n]
         /\ chain' = Abs!Without(chain, CHOOSE i \in DOMAIN chain : chain[i] = n)
  BY DEF DelUnlink
<1>3. PICK k \in 1 .. Len(chain) :
         /\ n = chain[k]
         /\ phead[t] = At(k + 1)
         /\ \A j \in k + 1 .. Len(chain) : ~Matches(chain[j], arg[t])
  BY <1>1, <1>2, WalkRead
<1>4. DOMAIN chain = 1 .. Len(chain)
  BY DEF IInv, TypeOK
<1>5. k = CHOOSE i \in DOMAIN chain : chain[i] = n
  BY <1>3, <1>4 DEF IInv, ListWellFormed
<1>6. next[n] = Before(k)
  BY <1>3 DEF IInv, ListWellFormed, Before
<1> QED
  BY <1>2, <1>3, <1>5, <1>6

(* del_list unlinks its match: the chain closes up over it.                *)
LEMMA DelUnlinkIInv ==
    ASSUME IInv, NEW t \in Thread, DelUnlink(t)
    PROVE  IInv'
<1> USE DEF IInv
<1> DEFINE L == Len(chain)
<1>1. /\ pc[t] = "del_walk" /\ pc' = [pc EXCEPT ![t] = "del_free"]
      /\ UNCHANGED <<mutex, val, heap, arg, phead>>
  BY DEF DelUnlink, Goto
<1>2. PICK k \in 1 .. L :
         /\ pnode' = [pnode EXCEPT ![t] = chain[k]]
         /\ next' = [next EXCEPT ![At(k + 1)] = Before(k)]
         /\ chain' = Abs!Without(chain, k)
  BY DelUnlinkRemoves
<1> DEFINE n == chain[k]
<1>3. L \in Nat /\ chain \in Seq(Node)
  BY DEF TypeOK
<1>4. /\ chain' \in Seq(Node) /\ Len(chain') = L - 1
      /\ \A j \in 1 .. L - 1 : chain'[j] = IF j < k THEN chain[j] ELSE chain[j + 1]
  BY <1>2, <1>3, WithoutProperties
<1>5. \A i \in 1 .. L : chain[i] \in Node /\ chain[i] # Sentinel
  BY <1>3
<1>6. At(k + 1) \in Node \cup {Sentinel} /\ Before(k) \in Node \cup {NULL}
  BY <1>3, <1>5 DEF At, Before
<1>7. \A u \in Thread : pc[u] \in Locked => u = t
  BY <1>1, OneLocked DEF Locked
<1>8. TypeOK'
  <2>1. next' \in [Node \cup {Sentinel} -> Node \cup {NULL}]
    BY <1>2, <1>6 DEF TypeOK
  <2>2. pnode' \in [Thread -> Node \cup {NULL}]
    BY <1>2, <1>5 DEF TypeOK
  <2> QED
    BY <1>1, <1>4, <2>1, <2>2 DEF TypeOK, PC, Locked
<1>9. \A i, j \in 1 .. L : chain[i] = chain[j] => i = j
  BY DEF ListWellFormed
<1>10. Linked' = Linked \ {n}
  <2>1. ASSUME NEW x \in Linked' PROVE x \in Linked \ {n}
    <3>1. PICK j \in 1 .. L - 1 : x = chain'[j]
      BY <1>4 DEF Linked
    <3>2. CASE j < k
      BY <1>3, <1>4, <1>9, <3>1, <3>2 DEF Linked
    <3>3. CASE ~(j < k)
      <4>1. j + 1 \in 1 .. L /\ j + 1 # k
        BY <1>3, <3>3
      <4> QED
        BY <1>4, <1>9, <3>1, <3>3, <4>1 DEF Linked
    <3> QED
      BY <3>2, <3>3
  <2>2. ASSUME NEW x \in Linked \ {n} PROVE x \in Linked'
    <3>1. PICK i \in 1 .. L : x = chain[i] /\ i # k
      BY DEF Linked
    <3>2. CASE i < k
      <4>1. i \in 1 .. L - 1
        BY <1>3, <3>2
      <4> QED
        BY <1>4, <3>1, <3>2, <4>1 DEF Linked
    <3>3. CASE i > k
      <4>1. i - 1 \in 1 .. L - 1 /\ ~(i - 1 < k) /\ (i - 1) + 1 = i
        BY <1>3, <3>3
      <4> QED
        BY <1>4, <3>1, <4>1 DEF Linked
    <3> QED
      BY <1>3, <3>1, <3>2, <3>3
  <2> QED
    BY <2>1, <2>2
<1>11. Owned = {} /\ Owned' = {n}
  BY <1>1, <1>2, <1>7 DEF TypeOK, Owned, Locked
<1>12. n \in Linked
  BY DEF Linked
<1>13. MemoryAccounted'
  BY <1>1, <1>10, <1>11, <1>12 DEF MemoryAccounted
<1>14. ListWellFormed'
  <2>1. ASSUME NEW i \in 1 .. L - 1, NEW j \in 1 .. L - 1, chain'[i] = chain'[j]
        PROVE  i = j
    <3> DEFINE old(x) == IF x < k THEN x ELSE x + 1
    <3>1. \A x \in 1 .. L - 1 : old(x) \in 1 .. L /\ chain'[x] = chain[old(x)]
      BY <1>3, <1>4
    <3>2. old(i) = old(j)
      BY <1>9, <2>1, <3>1
    <3> QED
      BY <1>3, <3>2
  <2>2. next'[Sentinel] = IF chain' = << >> THEN NULL ELSE chain'[L - 1]
    <3>1. chain' = << >> <=> L = 1
      BY <1>3, <1>4
    <3>2. CASE k = L
      <4>1. next'[Sentinel] = Before(k)
        BY <1>2, <1>6, <3>2 DEF TypeOK, At
      <4>2. L # 1 => L - 1 \in 1 .. L - 1 /\ L - 1 < k
        BY <1>3, <3>2
      <4> QED
        BY <1>4, <3>1, <3>2, <4>1, <4>2 DEF Before
    <3>3. CASE k # L
      <4>1. k + 1 \in 1 .. L /\ L - 1 \in 1 .. L - 1 /\ ~(L - 1 < k)
        BY <1>3, <3>3
      <4>2. At(k + 1) # Sentinel
        BY <1>3, <1>5, <4>1, <3>3 DEF At
      <4>3. next'[Sentinel] = next[Sentinel] /\ next[Sentinel] = chain[L]
        BY <1>2, <1>3, <4>1, <4>2 DEF TypeOK, ListWellFormed
      <4> QED
        BY <1>3, <1>4, <3>1, <4>1, <4>3
    <3> QED
      BY <3>2, <3>3
  <2>3. ASSUME NEW i \in 1 .. L - 1
        PROVE  next'[chain'[i]] = IF i = 1 THEN NULL ELSE chain'[i - 1]
    <3>1. i # 1 => i - 1 \in 1 .. L - 1
      BY <1>3
    <3>2. CASE i < k
      <4>1. chain'[i] = chain[i] /\ (i # 1 => chain'[i - 1] = chain[i - 1])
        BY <1>3, <1>4, <3>1, <3>2
      <4>2. chain[i] # At(k + 1)
        BY <1>3, <1>5, <1>9, <3>2 DEF At
      <4>3. next'[chain[i]] = next[chain[i]]
        BY <1>2, <1>3, <1>5, <4>2 DEF TypeOK
      <4> QED
        BY <1>3, <4>1, <4>3 DEF ListWellFormed
    <3>3. CASE i = k
      <4>1. chain'[i] = chain[k + 1] /\ chain[k + 1] = At(k + 1)
        BY <1>3, <1>4, <3>3 DEF At
      <4>2. next'[chain'[i]] = Before(k)
        BY <1>2, <1>6, <4>1 DEF TypeOK
      <4>3. i # 1 => chain'[i - 1] = chain[k - 1]
        BY <1>3, <1>4, <3>1, <3>3
      <4> QED
        BY <3>3, <4>2, <4>3 DEF Before
    <3>4. CASE i > k
      <4>1. /\ i + 1 \in 1 .. L /\ i + 1 # k + 1 /\ i # 1
            /\ ~(i < k) /\ ~(i - 1 < k) /\ (i - 1) + 1 = i
        BY <1>3, <3>4
      <4>2. chain'[i] = chain[i + 1] /\ chain'[i - 1] = chain[i]
        BY <1>4, <3>1, <4>1
      <4>3. chain[i + 1] # At(k + 1)
        BY <1>3, <1>5, <1>9, <3>4, <4>1 DEF At
      <4>4. next'[chain[i + 1]] = next[chain[i + 1]]
        BY <1>2, <1>5, <4>1, <4>3 DEF TypeOK
      <4>5. next[chain[i + 1]] = chain[i]
        BY <1>3, <4>1 DEF ListWellFormed
      <4> QED
        BY <4>1, <4>2, <4>4, <4>5
    <3> QED
      BY <1>3, <3>2, <3>3, <3>4
  <2> QED
    BY <1>4, <2>1, <2>2, <2>3 DEF ListWellFormed
<1>15. ScanInv'
  BY <1>1, <1>7 DEF TypeOK, ScanInv, Walking, Locked
<1>16. OwnedInv'
  BY <1>1, <1>2, <1>5, <1>7 DEF TypeOK, OwnedInv, Locked
<1> QED
  BY <1>8, <1>13, <1>14, <1>15, <1>16
----------------------------------------------------------------------------
(* The inductive step, one step per action of Next.                        *)
LEMMA NextIInv == IInv /\ [Next]_vars => IInv'
<1> SUFFICES ASSUME IInv, [Next]_vars PROVE IInv'
  OBVIOUS
<1>1. ASSUME NEW t \in Thread, NEW e \in Entry, AddEnter(t, e) PROVE IInv'
  BY <1>1, AddEnterIInv
<1>2. ASSUME NEW t \in Thread, NEW k \in Key, NEW to \in Walking, WalkEnter(t, to, k)
      PROVE  IInv'
  BY <1>2, WalkEnterIInv
<1>3. ASSUME NEW t \in Thread, ShowEnter(t) PROVE IInv'
  BY <1>3, ShowEnterIInv
<1>4. ASSUME NEW t \in Thread, AddLink(t) PROVE IInv'
  BY <1>4, AddLinkIInv
<1>5. ASSUME NEW t \in Thread, DelUnlink(t) PROVE IInv'
  BY <1>5, DelUnlinkIInv
<1>6. ASSUME NEW t \in Thread, DelFree(t) PROVE IInv'
  BY <1>6, DelFreeIInv
<1>7. ASSUME NEW t \in Thread, WalkStep(t) PROVE IInv'
  BY <1>7, WalkStepIInv
<1>8. ASSUME NEW t \in Thread, WalkMiss(t) PROVE IInv'
  BY <1>8, WalkMissIInv
<1>9. ASSUME NEW t \in Thread, SearchMatch(t) PROVE IInv'
  BY <1>9, SearchMatchIInv
<1>10. ASSUME NEW t \in Thread, SearchReturn(t) PROVE IInv'
  BY <1>10, SearchReturnIInv
<1>11. ASSUME NEW t \in Thread, ShowStep(t) PROVE IInv'
  BY <1>11, ShowStepIInv
<1>12. CASE UNCHANGED vars
  <2>1. TypeOK'
    BY <1>12 DEF IInv, TypeOK, vars
  <2> QED
    BY <1>12, <2>1, UntouchedIInv DEF vars
<1> QED
  BY <1>1, <1>2, <1>3, <1>4, <1>5, <1>6, <1>7, <1>8, <1>9, <1>10, <1>11, <1>12
  DEF Next, Start, Run

(* Whatever calls interleave, and however many threads there are, the      *)
(* inductive invariant of linklist.c holds.                                *)
THEOREM Invariance == Spec => []IInv
<1> QED
  BY InitIInv, NextIInv, PTL DEF Spec

(* The types, and the mutex held exactly between lock and unlock.          *)
THEOREM TypeCorrect == Spec => []TypeOK
<1>1. IInv => TypeOK
  BY DEF IInv
<1> QED
  BY Invariance, <1>1, PTL

(* add_list and del_list keep the list a chain from the sentinel to NULL.  *)
THEOREM ListCorrect == Spec => []ListWellFormed
<1>1. IInv => ListWellFormed
  BY DEF IInv
<1> QED
  BY Invariance, <1>1, PTL

(* They leak no node and free none twice.                                  *)
THEOREM NoLeakNoDoubleFree == Spec => []MemoryAccounted
<1>1. IInv => MemoryAccounted
  BY DEF IInv
<1> QED
  BY Invariance, <1>1, PTL

(* A walk under the mutex stays on linked nodes.                           *)
THEOREM WalkCorrect == Spec => []LockedWalkSafe
<1>1. IInv => LockedWalkSafe
  BY DEF IInv, TypeOK, ScanInv, LockedWalkSafe, Linked, At
<1> QED
  BY Invariance, <1>1, PTL
----------------------------------------------------------------------------
(* Refinement: the abstract state of a thread is a function of its pc.     *)
LEMMA PhaseValues ==
    /\ Phase("idle") = "none"
    /\ Phase("show_walk") = "none"
    /\ Phase("add_link") = "add"
    /\ Phase("del_walk") = "del"
    /\ Phase("del_free") = "deleted"
    /\ Phase("srch_walk") = "search"
    /\ Phase("srch_return") = "found"
  BY DEF Phase

(* The abstract entry i is the value of the chain's node i.                *)
LEMMA ContentsLen ==
    ASSUME TypeOK
    PROVE  /\ Len(Contents) = Len(chain) /\ Len(chain) \in Nat
           /\ \A i \in 1 .. Len(chain) : Contents[i] = val[chain[i]]
  BY DEF TypeOK, Contents

(* The abstract entries depend on the chain and the values only.           *)
LEMMA ContentsSame ==
    ASSUME UNCHANGED <<chain, val>>
    PROVE  Contents' = Contents
  BY DEF Contents

(* The end of a loop is the instant at which no entry matches.             *)
LEMMA MissMeansNone ==
    ASSUME IInv, NEW t \in Thread, pc[t] \in Walking, NULL \in ReadNext(phead[t])
    PROVE  Abs!NoneMatches(Contents, arg[t])
<1>1. PICK i \in 1 .. Len(chain) + 1 :
         /\ phead[t] = At(i)
         /\ \A j \in i .. Len(chain) : ~Matches(chain[j], arg[t])
  BY DEF IInv, ScanInv
<1>2. i = 1
  BY <1>1, ReadAt
<1> QED
  BY <1>1, <1>2, ContentsLen DEF IInv, Matches, Abs!NoneMatches

(* The empty list is the empty sequence.                                   *)
LEMMA InitRefines == Init => Abs!Init
<1> SUFFICES ASSUME Init PROVE Abs!Init
  OBVIOUS
<1>1. Contents = << >>
  BY DEF Init, Contents
<1>2. AbsOp = [t \in Thread |-> "none"]
  BY PhaseValues DEF Init, AbsOp
<1> QED
  BY <1>1, <1>2 DEF Init, Abs!Init

(* Entering add_list is the abstract call: its malloc changes no entry.    *)
LEMMA AddEnterRefines ==
    ASSUME IInv, NEW t \in Thread, NEW e \in Entry, AddEnter(t, e)
    PROVE  Abs!Call(t, "add", e)
<1>1. PICK n \in Node \ heap : val' = [val EXCEPT ![n] = e]
  BY DEF AddEnter
<1>2. /\ pc[t] = "idle" /\ pc' = [pc EXCEPT ![t] = "add_link"]
      /\ arg' = [arg EXCEPT ![t] = e] /\ chain' = chain
  BY DEF AddEnter, Enter, Goto
<1>3. \A i \in 1 .. Len(chain) : chain[i] \in Node /\ chain[i] # n
  BY DEF IInv, TypeOK, MemoryAccounted, Linked
<1>4. Contents' = Contents
  BY <1>1, <1>2, <1>3 DEF IInv, TypeOK, Contents
<1> QED
  BY <1>2, <1>4, PhaseValues DEF IInv, TypeOK, AbsOp, Abs!Call

(* Linking the node is the abstract addition.                              *)
LEMMA AddLinkRefines ==
    ASSUME IInv, NEW t \in Thread, AddLink(t)
    PROVE  Abs!Add(t)
<1>1. /\ pc[t] = "add_link" /\ pc' = [pc EXCEPT ![t] = "idle"]
      /\ chain' = Append(chain, pnode[t])
      /\ arg' = [arg EXCEPT ![t] = NoArg]
      /\ UNCHANGED val
  BY DEF AddLink, Leave
<1>2. pnode[t] \in Node /\ val[pnode[t]] = arg[t]
  BY <1>1 DEF IInv, OwnedInv
<1>3. Contents' = Append(Contents, arg[t])
  BY <1>1, <1>2 DEF IInv, TypeOK, Contents
<1>4. AbsOp' = [AbsOp EXCEPT ![t] = "none"] /\ AbsOp[t] = "add"
  BY <1>1, PhaseValues DEF IInv, TypeOK, AbsOp
<1> QED
  BY <1>1, <1>3, <1>4 DEF Abs!Add, Abs!Become

(* Entering del_list or search_list is the abstract call.                  *)
LEMMA WalkEnterRefines ==
    ASSUME IInv, NEW t \in Thread, NEW to \in Walking, NEW k \in Key,
           WalkEnter(t, to, k)
    PROVE  \E name \in {"del", "search"} : Abs!Call(t, name, k)
<1>1. /\ pc[t] = "idle" /\ pc' = [pc EXCEPT ![t] = to]
      /\ arg' = [arg EXCEPT ![t] = k] /\ UNCHANGED <<chain, val>>
  BY DEF WalkEnter, Enter, Goto
<1>3. AbsOp' = [AbsOp EXCEPT ![t] = Phase(to)] /\ AbsOp[t] = "none"
  BY <1>1, PhaseValues DEF IInv, TypeOK, AbsOp
<1>2. Abs!Call(t, Phase(to), k)
  BY <1>1, <1>3, ContentsSame DEF Abs!Call
<1> QED
  BY <1>2, PhaseValues DEF Walking

(* A walk that ends with NULL is the abstract answer "none".               *)
LEMMA WalkMissRefines ==
    ASSUME IInv, NEW t \in Thread, WalkMiss(t)
    PROVE  Abs!DeleteMiss(t) \/ Abs!Absent(t)
<1>1. /\ pc[t] \in Walking /\ pc' = [pc EXCEPT ![t] = "idle"]
      /\ arg' = [arg EXCEPT ![t] = NoArg]
      /\ UNCHANGED <<val, chain>>
  BY DEF WalkMiss, Leave
<1>2. Abs!NoneMatches(Contents, arg[t])
  BY <1>1, MissMeansNone DEF WalkMiss
<1>3. AbsOp[t] = Phase(pc[t]) /\ AbsOp' = [AbsOp EXCEPT ![t] = "none"]
  BY <1>1, PhaseValues DEF IInv, TypeOK, AbsOp
<1>5. Contents' = Contents
  BY <1>1, ContentsSame
<1>4. AbsOp[t] \in {"del", "search"}
  BY <1>1, <1>3, PhaseValues DEF Walking
<1> QED
  BY <1>1, <1>2, <1>3, <1>4, <1>5 DEF Abs!DeleteMiss, Abs!Absent, Abs!Become

(* A comparison that succeeds is the abstract answer "there is one".       *)
LEMMA SearchMatchRefines ==
    ASSUME IInv, NEW t \in Thread, SearchMatch(t)
    PROVE  Abs!Found(t)
<1>1. /\ pc[t] = "srch_walk" /\ pc' = [pc EXCEPT ![t] = "srch_return"]
      /\ UNCHANGED <<val, arg, chain>>
  BY DEF SearchMatch, Goto
<1>2. PICK n \in ReadNext(phead[t]) : n # NULL /\ Matches(n, arg[t])
  BY DEF SearchMatch
<1>3. PICK k \in 1 .. Len(chain) : n = chain[k]
  BY <1>1, <1>2, WalkRead DEF Walking
<1>4. ~Abs!NoneMatches(Contents, arg[t])
  BY <1>2, <1>3, ContentsLen DEF IInv, Abs!NoneMatches, Matches
<1>5. AbsOp' = [AbsOp EXCEPT ![t] = "found"] /\ AbsOp[t] = "search"
  BY <1>1, PhaseValues DEF IInv, TypeOK, AbsOp
<1> QED
  BY <1>1, <1>4, <1>5, ContentsSame DEF Abs!Found, Abs!Become

(* The free of del_list and the late read of search_list only return.      *)
LEMMA ReturnRefines ==
    ASSUME IInv, NEW t \in Thread, DelFree(t) \/ SearchReturn(t)
    PROVE  Abs!Return(t)
<1>1. /\ pc[t] \in {"del_free", "srch_return"}
      /\ pc' = [pc EXCEPT ![t] = "idle"]
      /\ arg' = [arg EXCEPT ![t] = NoArg]
      /\ UNCHANGED chain
  BY DEF DelFree, SearchReturn, Leave
<1>2. Contents' = Contents
  <2>1. CASE SearchReturn(t)
    BY <2>1, ContentsSame DEF SearchReturn
  <2>2. CASE DelFree(t)
    <3>1. pc[t] = "del_free" /\ val' = [val EXCEPT ![pnode[t]] = NoEntry]
      BY <2>2 DEF DelFree, Leave
    <3>2. \A i \in 1 .. Len(chain) : chain[i] \in Node /\ chain[i] # pnode[t]
      BY <3>1, SMTT(60) DEF IInv, TypeOK, MemoryAccounted, Linked, Owned
    <3> QED
      BY <1>1, <3>1, <3>2 DEF IInv, TypeOK, Contents
  <2> QED
    BY <2>1, <2>2
<1>3. AbsOp' = [AbsOp EXCEPT ![t] = "none"] /\ AbsOp[t] \in {"deleted", "found"}
  BY <1>1, PhaseValues DEF IInv, TypeOK, AbsOp
<1> QED
  BY <1>1, <1>2, <1>3 DEF Abs!Return, Abs!Become

(* Unlinking the match is the abstract removal of the newest match.        *)
LEMMA DelUnlinkRefines ==
    ASSUME IInv, NEW t \in Thread, DelUnlink(t)
    PROVE  Abs!Delete(t)
<1>1. /\ pc[t] = "del_walk" /\ pc' = [pc EXCEPT ![t] = "del_free"]
      /\ UNCHANGED <<val, arg>>
  BY DEF DelUnlink, Goto
<1>2. PICK k \in 1 .. Len(chain) :
         /\ Matches(chain[k], arg[t])
         /\ \A j \in k + 1 .. Len(chain) : ~Matches(chain[j], arg[t])
         /\ chain' = Abs!Without(chain, k)
  BY DelUnlinkRemoves
<1>3. Len(chain) \in Nat /\ chain \in Seq(Node) /\ Len(Contents) = Len(chain)
  BY ContentsLen DEF IInv, TypeOK
<1>4. Abs!IsNewest(Contents, k, arg[t])
  BY <1>2, <1>3, ContentsLen DEF IInv, Abs!IsNewest, Matches
<1>5. Contents' = Abs!Without(Contents, k)
  <2>1. /\ Len(chain') = Len(chain) - 1
        /\ \A j \in 1 .. Len(chain) - 1 :
              chain'[j] = IF j < k THEN chain[j] ELSE chain[j + 1]
    BY <1>2, <1>3, WithoutProperties
  <2>2. \A j \in 1 .. Len(chain) - 1 :
           val[chain'[j]] = IF j < k THEN Contents[j] ELSE Contents[j + 1]
    BY <1>3, <2>1 DEF Contents
  <2> QED
    BY <1>1, <1>3, <2>1, <2>2 DEF Contents, Abs!Without
<1>6. AbsOp' = [AbsOp EXCEPT ![t] = "deleted"] /\ AbsOp[t] = "del"
  BY <1>1, PhaseValues DEF IInv, TypeOK, AbsOp
<1> QED
  BY <1>1, <1>3, <1>4, <1>5, <1>6 DEF Abs!Delete, Abs!Become

(* Every step of the pointers is a step of the contract, or none of it.    *)
LEMMA StepRefines == IInv /\ [Next]_vars => [Abs!Next]_Abs!vars
<1> SUFFICES ASSUME IInv, [Next]_vars PROVE [Abs!Next]_Abs!vars
  OBVIOUS
<1>1. ASSUME NEW t \in Thread, NEW e \in Entry, AddEnter(t, e) PROVE Abs!Next
  BY <1>1, AddEnterRefines DEF Abs!Next
<1>2. ASSUME NEW t \in Thread, NEW k \in Key, NEW to \in Walking, WalkEnter(t, to, k)
      PROVE  Abs!Next
  BY <1>2, WalkEnterRefines DEF Key, Abs!Next
<1>3. ASSUME NEW t \in Thread, ShowEnter(t) \/ ShowStep(t) PROVE UNCHANGED Abs!vars
  <2>1. UNCHANGED Contents
    BY <1>3, ContentsSame DEF ShowEnter, ShowStep
  <2>2. UNCHANGED <<AbsOp, arg>>
    BY <1>3, PhaseValues DEF ShowEnter, ShowStep, Goto, AbsOp, IInv, TypeOK
  <2> QED
    BY <2>1, <2>2 DEF Abs!vars
<1>4. ASSUME NEW t \in Thread, AddLink(t) PROVE Abs!Next
  BY <1>4, AddLinkRefines DEF Abs!Next
<1>5. ASSUME NEW t \in Thread, DelUnlink(t) PROVE Abs!Next
  BY <1>5, DelUnlinkRefines DEF Abs!Next
<1>6. ASSUME NEW t \in Thread, DelFree(t) \/ SearchReturn(t) PROVE Abs!Next
  BY <1>6, ReturnRefines DEF Abs!Next
<1>7. ASSUME NEW t \in Thread, WalkStep(t) PROVE UNCHANGED Abs!vars
  <2>1. UNCHANGED <<val, chain, pc, arg>>
    BY <1>7 DEF WalkStep
  <2> QED
    BY <2>1, ContentsSame DEF AbsOp, Abs!vars
<1>8. ASSUME NEW t \in Thread, WalkMiss(t) PROVE Abs!Next
  BY <1>8, WalkMissRefines DEF Abs!Next
<1>9. ASSUME NEW t \in Thread, SearchMatch(t) PROVE Abs!Next
  BY <1>9, SearchMatchRefines DEF Abs!Next
<1>10. CASE UNCHANGED vars
  BY <1>10, ContentsSame DEF vars, AbsOp, Abs!vars
<1> QED
  BY <1>1, <1>2, <1>3, <1>4, <1>5, <1>6, <1>7, <1>8, <1>9, <1>10
  DEF Next, Start, Run

(* The linked list implements the sequence of entries: a delete removes    *)
(* the newest match and nothing else, and a call that reports no match is  *)
(* right at one instant between its start and its return.                  *)
THEOREM Refinement == Spec => ImplementsOnlineUsers
<1> QED
  BY InitRefines, StepRefines, Invariance, PTL
  DEF Spec, ImplementsOnlineUsers, Abs!Spec
============================================================================
