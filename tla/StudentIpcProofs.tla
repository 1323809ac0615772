-------------------------- MODULE StudentIpcProofs --------------------------
(***************************************************************************)
(* Proofs about StudentIpc for any number of clients, requests, rows and   *)
(* restarts, and any failing queries: its types, and that neither replies  *)
(* nor semaphore posts run ahead of those who wait for them.               *)
(***************************************************************************)
EXTENDS StudentIpc, FiniteSetTheorems, SequenceTheorems, TLAPS

IInv == TypeOK /\ NoSpareReplies /\ NoSparePosts

USE ClientAssumption, BoundAssumption
----------------------------------------------------------------------------
(* By how much a move of one client changes a number of clients.           *)
Gain(from, to, at) == (IF to \in at THEN 1 ELSE 0) - (IF from \in at THEN 1 ELSE 0)

(* How many clients are at certain points changes by the one that moves.   *)
LEMMA CountMove ==
    ASSUME NEW c \in Client, NEW from, NEW to, NEW at, pc \in [Client -> Places],
           pc[c] = from, pc' = [pc EXCEPT ![c] = to]
    PROVE  /\ Number(at) \in Nat
           /\ Number(at)' = Number(at) + Gain(from, to, at)
<1> DEFINE S == {x \in Client : pc[x] \in at}
           T == {x \in Client : pc'[x] \in at}
<1>1. IsFiniteSet(S) /\ Cardinality(S) \in Nat
  BY FS_Subset, FS_CardinalityType
<1>2. Number(at) = Cardinality(S) /\ Number(at)' = Cardinality(T)
  BY DEF Number
<1>3. CASE to \in at /\ from \notin at
  <2>1. T = S \cup {c} /\ c \notin S
    BY <1>3
  <2>2. Cardinality(T) = Cardinality(S) + 1
    BY <1>1, <2>1, FS_AddElement
  <2> QED
    BY <1>1, <1>2, <1>3, <2>2 DEF Gain
<1>4. CASE to \notin at /\ from \in at
  <2>1. T = S \ {c} /\ c \in S
    BY <1>4
  <2> HIDE DEF S, T
  <2>2. Cardinality(T) = Cardinality(S) - 1
    BY <1>1, <2>1, FS_RemoveElement
  <2> QED
    BY <1>1, <1>2, <1>4, <2>2 DEF Gain
<1>5. CASE to \in at <=> from \in at
  <2>1. T = S
    BY <1>5
  <2> QED
    BY <1>1, <1>2, <1>5, <2>1 DEF Gain
<1> QED
  BY <1>3, <1>4, <1>5

(* A step of the server moves no client.                                   *)
LEMMA CountSame ==
    ASSUME NEW at, UNCHANGED pc
    PROVE  Number(at) \in Nat /\ Number(at)' = Number(at)
<1>1. IsFiniteSet({x \in Client : pc[x] \in at})
  BY FS_Subset
<1> QED
  BY <1>1, FS_CardinalityType DEF Number

(* The two counts of what is due are numbers.                              *)
LEMMA DueNat ==
    ASSUME TypeOK
    PROVE  RepliesDue \in Nat /\ PostsDue \in Nat
<1>1. /\ Len(fifo) \in Nat /\ Len(loginq) \in Nat
      /\ sem \in Nat /\ Len(regq.msgs) \in Nat
  BY DEF TypeOK, KernelTypeOK, QueuesTypeOK
<1>2. RepliesDue \in Nat
  <2>1. CASE main.at \in Answering
    BY <1>1, <2>1 DEF RepliesDue
  <2>2. CASE main.at \notin Answering
    BY <1>1, <2>2 DEF RepliesDue
  <2> QED
    BY <2>1, <2>2
<1>3. PostsDue \in Nat
  <2>1. CASE reg.at \in Registering
    BY <1>1, <2>1 DEF PostsDue
  <2>2. CASE reg.at \notin Registering
    BY <1>1, <2>2 DEF PostsDue
  <2> QED
    BY <2>1, <2>2
<1> QED
  BY <1>2, <1>3

(* What the server does, it does without moving a client or ending a wait: *)
(* the two counts must not grow.                                           *)
LEMMA ServerIInv ==
    ASSUME IInv, TypeOK', UNCHANGED <<pc, ghostVars>>,
           RepliesDue' <= RepliesDue, PostsDue' <= PostsDue
    PROVE  IInv'
<1>1. /\ Number({"log_wait"})' = Number({"log_wait"})
      /\ Number({"reg_sent", "reg_wait"})' = Number({"reg_sent", "reg_wait"})
      /\ Number({"log_wait"}) \in Nat /\ Number({"reg_sent", "reg_wait"}) \in Nat
  BY CountSame
<1>2. RepliesDue \in Nat /\ PostsDue \in Nat
  BY DueNat DEF IInv
<1>3. RepliesDue' \in Nat /\ PostsDue' \in Nat
  <2>1. /\ Len(fifo') \in Nat /\ Len(loginq') \in Nat
        /\ sem' \in Nat /\ Len(regq'.msgs) \in Nat
    BY DEF TypeOK, KernelTypeOK, QueuesTypeOK
  <2> QED
    BY <2>1 DEF RepliesDue, PostsDue
<1>4. cutLogin' = cutLogin /\ cutReg' = cutReg /\ cutLogin \in Nat /\ cutReg \in Nat
  BY DEF IInv, TypeOK, ClientTypeOK, ghostVars
<1>5. NoSpareReplies'
  BY <1>1, <1>2, <1>3, <1>4 DEF IInv, NoSpareReplies
<1>6. NoSparePosts'
  BY <1>1, <1>2, <1>3, <1>4 DEF IInv, NoSparePosts
<1> QED
  BY <1>5, <1>6 DEF IInv
----------------------------------------------------------------------------
(* The server's steps.                                                     *)

(* A server that starts has taken nothing yet.                             *)
LEMMA ServerStartIInv ==
    ASSUME IInv, ServerStart
    PROVE  IInv'
<1> USE DEF IInv, TypeOK, ServerStart, MainIdle, RegIdle
<1>2. QueuesTypeOK'
  BY DEF QueuesTypeOK, kernelVars
<1>3. KernelTypeOK'
  BY DEF KernelTypeOK, kernelVars, RegTypeOK
<1>4. StudentTypeOK'
  BY DEF StudentTypeOK
<1>5. MainTypeOK'
  BY DEF MainTypeOK, Answering
<1>6. RegTypeOK'
  BY DEF RegTypeOK, QueuesTypeOK, StudentTypeOK, Registering
<1>7. ClientTypeOK'
  BY DEF ClientTypeOK, clientVars, ghostVars
<1>8. RepliesDue' <= RepliesDue
  BY DueNat DEF QueuesTypeOK, RepliesDue, Answering, kernelVars
<1>9. PostsDue' <= PostsDue
  BY DueNat DEF QueuesTypeOK, KernelTypeOK, PostsDue, Registering, kernelVars
<1> QED
  BY <1>2, <1>3, <1>4, <1>5, <1>6, <1>7, <1>8, <1>9, ServerIInv DEF clientVars

(* A server that ends takes what it was working on with it.                *)
LEMMA ServerEndsIInv ==
    ASSUME IInv, ServerEnds
    PROVE  IInv'
<1> USE DEF IInv, TypeOK, ServerEnds, MainIdle, RegIdle
<1>2. QueuesTypeOK'
  BY DEF QueuesTypeOK, kernelVars
<1>3. KernelTypeOK'
  BY DEF KernelTypeOK, kernelVars, RegTypeOK
<1>4. StudentTypeOK'
  BY DEF StudentTypeOK
<1>5. MainTypeOK'
  BY DEF MainTypeOK, Answering
<1>6. RegTypeOK'
  BY DEF RegTypeOK, QueuesTypeOK, StudentTypeOK, Registering
<1>7. ClientTypeOK'
  BY DEF ClientTypeOK, clientVars, ghostVars
<1>8. RepliesDue' <= RepliesDue
  BY DueNat DEF QueuesTypeOK, RepliesDue, Answering, kernelVars
<1>9. PostsDue' <= PostsDue
  BY DueNat DEF QueuesTypeOK, KernelTypeOK, PostsDue, Registering, kernelVars
<1> QED
  BY <1>2, <1>3, <1>4, <1>5, <1>6, <1>7, <1>8, <1>9, ServerIInv DEF clientVars

(* main takes a request from the FIFO: it is still owed one reply.         *)
LEMMA MainReadIInv ==
    ASSUME IInv, MainRead
    PROVE  IInv'
<1> USE DEF IInv, TypeOK, MainRead
<1>1. Head(fifo) \in Request /\ Tail(fifo) \in Seq(Request) /\ Len(Tail(fifo)) = Len(fifo) - 1
  BY HeadTailProperties DEF QueuesTypeOK
<1>2. QueuesTypeOK'
  BY <1>1 DEF QueuesTypeOK, kernelVars
<1>3. KernelTypeOK'
  BY DEF KernelTypeOK, kernelVars, RegTypeOK
<1>4. StudentTypeOK'
  BY <1>1 DEF StudentTypeOK
<1>5. MainTypeOK'
  BY <1>1 DEF MainTypeOK, Answering
<1>6. RegTypeOK'
  BY <1>1 DEF RegTypeOK, QueuesTypeOK, StudentTypeOK, Registering
<1>7. ClientTypeOK'
  BY DEF ClientTypeOK, clientVars, ghostVars
<1>8. RepliesDue' <= RepliesDue
  BY <1>1, DueNat DEF QueuesTypeOK, RepliesDue, Answering, kernelVars
<1>9. PostsDue' <= PostsDue
  BY <1>1, DueNat DEF QueuesTypeOK, KernelTypeOK, PostsDue, Registering, kernelVars
<1> QED
  BY <1>2, <1>3, <1>4, <1>5, <1>6, <1>7, <1>8, <1>9, ServerIInv DEF clientVars

(* main makes up its answer: one, whatever the query has said.             *)
LEMMA MainQueryIInv ==
    ASSUME IInv, MainQuery
    PROVE  IInv'
<1> USE DEF IInv, TypeOK, MainQuery
<1>2. QueuesTypeOK'
  BY DEF QueuesTypeOK, kernelVars
<1>3. KernelTypeOK'
  BY DEF KernelTypeOK, kernelVars, RegTypeOK
<1>4. StudentTypeOK'
  BY DEF StudentTypeOK
<1>5. MainTypeOK'
  BY DEF MainTypeOK, Answering
<1>6. RegTypeOK'
  BY DEF RegTypeOK, QueuesTypeOK, StudentTypeOK, Registering
<1>7. ClientTypeOK'
  BY DEF ClientTypeOK, clientVars, ghostVars
<1>8. RepliesDue' <= RepliesDue
  BY DueNat DEF QueuesTypeOK, RepliesDue, Answering, kernelVars
<1>9. PostsDue' <= PostsDue
  BY DueNat DEF QueuesTypeOK, KernelTypeOK, PostsDue, Registering, kernelVars
<1> QED
  BY <1>2, <1>3, <1>4, <1>5, <1>6, <1>7, <1>8, <1>9, ServerIInv DEF clientVars

(* main sends the one reply it owes.                                       *)
LEMMA MainSendIInv ==
    ASSUME IInv, MainSend
    PROVE  IInv'
<1> USE DEF IInv, TypeOK, MainSend, MainIdle
<1> DEFINE r == [id |-> main.ans, tag |-> main.req.tag]
<1>1. /\ r \in Reply /\ Append(loginq, r) \in Seq(Reply)
      /\ Len(Append(loginq, r)) = Len(loginq) + 1
  BY AppendProperties DEF QueuesTypeOK, MainTypeOK, Answering, Request, Reply
<1>2. QueuesTypeOK'
  BY <1>1 DEF QueuesTypeOK, kernelVars
<1>3. KernelTypeOK'
  BY DEF KernelTypeOK, kernelVars, RegTypeOK
<1>4. StudentTypeOK'
  BY <1>1 DEF StudentTypeOK
<1>5. MainTypeOK'
  BY <1>1 DEF MainTypeOK, Answering
<1>6. RegTypeOK'
  BY <1>1 DEF RegTypeOK, QueuesTypeOK, StudentTypeOK, Registering
<1>7. ClientTypeOK'
  BY DEF ClientTypeOK, clientVars, ghostVars
<1>8. RepliesDue' <= RepliesDue
  BY <1>1, DueNat DEF QueuesTypeOK, RepliesDue, Answering, kernelVars
<1>9. PostsDue' <= PostsDue
  BY <1>1, DueNat DEF QueuesTypeOK, KernelTypeOK, PostsDue, Registering, kernelVars
<1> QED
  BY <1>2, <1>3, <1>4, <1>5, <1>6, <1>7, <1>8, <1>9, ServerIInv DEF clientVars

(* A new queue is empty.                                                   *)
LEMMA RegGetIInv ==
    ASSUME IInv, RegGet
    PROVE  IInv'
<1> USE DEF IInv, TypeOK, RegGet
<1>1. /\ Created \in [gen : Nat, exists : BOOLEAN, msgs : Seq(RegMsg)]
      /\ Len(Created.msgs) <= Len(regq.msgs) /\ Len(Created.msgs) \in Nat
  <2>1. << >> \in Seq(RegMsg) /\ Len(<< >>) = 0
    OBVIOUS
  <2> QED
    BY <2>1 DEF Created, QueuesTypeOK
<1>10. Created.gen \in Nat
  BY <1>1
<1>2. QueuesTypeOK'
  BY <1>1 DEF QueuesTypeOK, kernelVars
<1>3. KernelTypeOK'
  BY DEF KernelTypeOK, kernelVars, RegTypeOK
<1>4. StudentTypeOK'
  BY <1>1 DEF StudentTypeOK
<1>5. MainTypeOK'
  BY <1>1 DEF MainTypeOK, Answering
<1>6. RegTypeOK'
  BY <1>10 DEF RegTypeOK, Registering
<1>7. ClientTypeOK'
  BY DEF ClientTypeOK, clientVars, ghostVars
<1>8. RepliesDue' <= RepliesDue
  BY <1>1, DueNat DEF QueuesTypeOK, RepliesDue, Answering, kernelVars
<1>9. PostsDue' <= PostsDue
  BY <1>1, DueNat DEF QueuesTypeOK, KernelTypeOK, PostsDue, Registering, kernelVars
<1> QED
  BY <1>2, <1>3, <1>4, <1>5, <1>6, <1>7, <1>8, <1>9, ServerIInv DEF clientVars

(* register_action takes a message: it owes one post.                      *)
LEMMA RegRecvIInv ==
    ASSUME IInv, RegRecv
    PROVE  IInv'
<1> USE DEF IInv, TypeOK, RegRecv
<1>1. /\ regq.msgs \in Seq(RegMsg) /\ regq.msgs # << >>
      /\ Head(regq.msgs) \in RegMsg /\ Tail(regq.msgs) \in Seq(RegMsg)
      /\ Len(Tail(regq.msgs)) = Len(regq.msgs) - 1
  BY HeadTailProperties DEF QueuesTypeOK
<1>2. QueuesTypeOK'
  BY <1>1 DEF QueuesTypeOK, kernelVars
<1>3. KernelTypeOK'
  BY DEF KernelTypeOK, kernelVars, RegTypeOK
<1>4. StudentTypeOK'
  BY <1>1 DEF StudentTypeOK
<1>5. MainTypeOK'
  BY <1>1 DEF MainTypeOK, Answering
<1>6. RegTypeOK'
  BY <1>1 DEF RegTypeOK, QueuesTypeOK, StudentTypeOK, Registering
<1>7. ClientTypeOK'
  BY DEF ClientTypeOK, clientVars, ghostVars
<1>8. RepliesDue' <= RepliesDue
  BY <1>1, DueNat DEF QueuesTypeOK, RepliesDue, Answering, kernelVars
<1>9. PostsDue' <= PostsDue
  BY <1>1, DueNat DEF QueuesTypeOK, KernelTypeOK, PostsDue, Registering, kernelVars
<1> QED
  BY <1>2, <1>3, <1>4, <1>5, <1>6, <1>7, <1>8, <1>9, ServerIInv DEF clientVars

(* With the queue its messages are gone, and no post is owed for them.     *)
LEMMA RegRmidIInv ==
    ASSUME IInv, RegRmid
    PROVE  IInv'
<1> USE DEF IInv, TypeOK, RegRmid
<1>1. << >> \in Seq(RegMsg) /\ Len(<< >>) = 0
  OBVIOUS
<1>2. QueuesTypeOK'
  BY <1>1 DEF QueuesTypeOK, kernelVars
<1>3. KernelTypeOK'
  BY DEF KernelTypeOK, kernelVars, RegTypeOK
<1>4. StudentTypeOK'
  BY <1>1 DEF StudentTypeOK
<1>5. MainTypeOK'
  BY <1>1 DEF MainTypeOK, Answering
<1>6. RegTypeOK'
  BY <1>1 DEF RegTypeOK, QueuesTypeOK, StudentTypeOK, Registering
<1>7. ClientTypeOK'
  BY DEF ClientTypeOK, clientVars, ghostVars
<1>8. RepliesDue' <= RepliesDue
  BY <1>1, DueNat DEF QueuesTypeOK, RepliesDue, Answering, kernelVars
<1>9. PostsDue' <= PostsDue
  BY <1>1, DueNat DEF QueuesTypeOK, KernelTypeOK, PostsDue, Registering, kernelVars
<1> QED
  BY <1>2, <1>3, <1>4, <1>5, <1>6, <1>7, <1>8, <1>9, ServerIInv DEF clientVars

(* The insert changes the table only.                                      *)
LEMMA RegInsertIInv ==
    ASSUME IInv, RegInsert
    PROVE  IInv'
<1> USE DEF IInv, TypeOK, RegInsert
<1> DEFINE r == [pwd |-> reg.msg.pwd, by |-> reg.msg.tag]
<1>1. /\ r \in Row /\ Append(student, r) \in Seq(Row)
      /\ Len(Append(student, r)) = Len(student) + 1
  BY AppendProperties DEF StudentTypeOK, RegTypeOK, Registering, RegMsg, Row
<1>2. QueuesTypeOK'
  BY <1>1 DEF QueuesTypeOK, kernelVars
<1>3. KernelTypeOK'
  BY DEF KernelTypeOK, kernelVars, RegTypeOK
<1>4. StudentTypeOK'
  BY <1>1, SMTT(60) DEF StudentTypeOK
<1>5. MainTypeOK'
  BY <1>1 DEF MainTypeOK, Answering
<1>6. RegTypeOK'
  BY <1>1 DEF RegTypeOK, QueuesTypeOK, StudentTypeOK, Registering
<1>7. ClientTypeOK'
  BY DEF ClientTypeOK, clientVars, ghostVars
<1>8. RepliesDue' <= RepliesDue
  BY <1>1, DueNat DEF QueuesTypeOK, RepliesDue, Answering, kernelVars
<1>9. PostsDue' <= PostsDue
  BY <1>1, DueNat DEF QueuesTypeOK, KernelTypeOK, PostsDue, Registering, kernelVars
<1> QED
  BY <1>2, <1>3, <1>4, <1>5, <1>6, <1>7, <1>8, <1>9, ServerIInv DEF clientVars

(* A failed query leaves the registration without its post.                *)
LEMMA RegSelectIInv ==
    ASSUME IInv, RegSelect
    PROVE  IInv'
<1> USE DEF IInv, TypeOK, RegSelect, RegIdle
<1>2. QueuesTypeOK'
  BY DEF QueuesTypeOK, kernelVars
<1>3. KernelTypeOK'
  BY DEF KernelTypeOK, kernelVars, RegTypeOK
<1>4. StudentTypeOK'
  BY DEF StudentTypeOK
<1>5. MainTypeOK'
  BY DEF MainTypeOK, Answering
<1>6. RegTypeOK'
  <2>1. Len(student) \in 0 .. MaxRows
    BY DEF StudentTypeOK
  <2>2. CASE reg' = [reg EXCEPT !.at = "r_kill", !.id = Len(student)]
    BY <2>1, <2>2 DEF RegTypeOK, Registering
  <2>3. CASE reg' = RegIdle
    BY <2>3 DEF RegTypeOK, Registering
  <2> QED
    BY <2>2, <2>3
<1>7. ClientTypeOK'
  BY DEF ClientTypeOK, clientVars, ghostVars
<1>8. RepliesDue' <= RepliesDue
  BY DueNat DEF QueuesTypeOK, RepliesDue, Answering, kernelVars
<1>9. PostsDue' <= PostsDue
  BY DueNat DEF QueuesTypeOK, KernelTypeOK, PostsDue, Registering, kernelVars
<1> QED
  BY <1>2, <1>3, <1>4, <1>5, <1>6, <1>7, <1>8, <1>9, ServerIInv DEF clientVars

(* The signal changes nothing that is counted.                             *)
LEMMA RegKillIInv ==
    ASSUME IInv, RegKill
    PROVE  IInv'
<1> USE DEF IInv, TypeOK, RegKill
<1>2. QueuesTypeOK'
  BY DEF QueuesTypeOK, kernelVars
<1>3. KernelTypeOK'
  BY DEF KernelTypeOK, kernelVars, RegTypeOK
<1>4. StudentTypeOK'
  BY DEF StudentTypeOK
<1>5. MainTypeOK'
  BY DEF MainTypeOK, Answering
<1>6. RegTypeOK'
  BY DEF RegTypeOK, QueuesTypeOK, StudentTypeOK, Registering
<1>7. ClientTypeOK'
  BY DEF ClientTypeOK, clientVars, ghostVars
<1>8. RepliesDue' <= RepliesDue
  BY DueNat DEF QueuesTypeOK, RepliesDue, Answering, kernelVars
<1>9. PostsDue' <= PostsDue
  BY DueNat DEF QueuesTypeOK, KernelTypeOK, PostsDue, Registering, kernelVars
<1> QED
  BY <1>2, <1>3, <1>4, <1>5, <1>6, <1>7, <1>8, <1>9, ServerIInv DEF clientVars

(* The shared memory holds an id of the table.                             *)
LEMMA RegShmIInv ==
    ASSUME IInv, RegShm
    PROVE  IInv'
<1>1. CASE ServerEnds
  BY <1>1, ServerEndsIInv
<1>2. CASE ~ServerEnds
  <2> USE DEF IInv, TypeOK
  <2>1. /\ reg.at = "r_shm" /\ reg.id # 0 /\ shm' = reg.id
        /\ reg' = [reg EXCEPT !.at = "r_post"]
        /\ UNCHANGED <<student, up, starts, main, regq, loginq, fifo, writer, sem,
                       sig, clientVars, ghostVars>>
    BY <1>2 DEF RegShm
  <2>2. QueuesTypeOK'
    BY <2>1 DEF QueuesTypeOK, kernelVars
  <2>3. KernelTypeOK'
    BY <2>1 DEF KernelTypeOK, kernelVars, RegTypeOK
  <2>4. StudentTypeOK'
    BY <2>1 DEF StudentTypeOK
  <2>5. MainTypeOK'
    BY <2>1 DEF MainTypeOK, Answering
  <2>6. RegTypeOK'
    BY <2>1 DEF RegTypeOK, QueuesTypeOK, StudentTypeOK, Registering
  <2>7. ClientTypeOK'
    BY <2>1 DEF ClientTypeOK, clientVars, ghostVars
  <2>8. RepliesDue' <= RepliesDue
    BY <2>1, DueNat DEF QueuesTypeOK, RepliesDue, Answering, kernelVars
  <2>9. PostsDue' <= PostsDue
    BY <2>1, DueNat DEF QueuesTypeOK, KernelTypeOK, PostsDue, Registering, kernelVars
  <2> QED
    BY <2>1, <2>2, <2>3, <2>4, <2>5, <2>6, <2>7, <2>8, <2>9, ServerIInv DEF clientVars
<1> QED
  BY <1>1, <1>2

(* register_action posts what it owes.                                     *)
LEMMA RegPostIInv ==
    ASSUME IInv, RegPost
    PROVE  IInv'
<1> USE DEF IInv, TypeOK, RegPost, RegIdle
<1>2. QueuesTypeOK'
  BY DEF QueuesTypeOK, kernelVars
<1>3. KernelTypeOK'
  BY DEF KernelTypeOK, kernelVars, RegTypeOK
<1>4. StudentTypeOK'
  BY DEF StudentTypeOK
<1>5. MainTypeOK'
  BY DEF MainTypeOK, Answering
<1>6. RegTypeOK'
  BY DEF RegTypeOK, QueuesTypeOK, StudentTypeOK, Registering
<1>7. ClientTypeOK'
  BY DEF ClientTypeOK, clientVars, ghostVars
<1>8. RepliesDue' <= RepliesDue
  BY DueNat DEF QueuesTypeOK, RepliesDue, Answering, kernelVars
<1>9. PostsDue' <= PostsDue
  BY DueNat DEF QueuesTypeOK, KernelTypeOK, PostsDue, Registering, kernelVars
<1> QED
  BY <1>2, <1>3, <1>4, <1>5, <1>6, <1>7, <1>8, <1>9, ServerIInv DEF clientVars

----------------------------------------------------------------------------
(* The clients' steps.                                                    *)

(* What a client does must not add more to what is due than to the waits   *)
(* for it and the waits cut short.                                         *)
LEMMA ClientIInv ==
    ASSUME IInv, TypeOK', NEW c \in Client, NEW from, NEW to,
           pc[c] = from, pc' = [pc EXCEPT ![c] = to],
           RepliesDue' + cutLogin <= RepliesDue + cutLogin' + Gain(from, to, {"log_wait"}),
           PostsDue' + cutReg <= PostsDue + cutReg' + Gain(from, to, {"reg_sent", "reg_wait"})
    PROVE  IInv'
<1>1. pc \in [Client -> Places]
  BY DEF IInv, TypeOK, ClientTypeOK
<1>2. /\ Number({"log_wait"}) \in Nat
      /\ Number({"log_wait"})' = Number({"log_wait"}) + Gain(from, to, {"log_wait"})
  BY <1>1, CountMove
<1>3. /\ Number({"reg_sent", "reg_wait"}) \in Nat
      /\ Number({"reg_sent", "reg_wait"})' =
            Number({"reg_sent", "reg_wait"}) + Gain(from, to, {"reg_sent", "reg_wait"})
  BY <1>1, CountMove
<1>4. RepliesDue \in Nat /\ PostsDue \in Nat
  BY DueNat DEF IInv
<1>5. RepliesDue' \in Nat /\ PostsDue' \in Nat
  <2>1. /\ Len(fifo') \in Nat /\ Len(loginq') \in Nat
        /\ sem' \in Nat /\ Len(regq'.msgs) \in Nat
    BY DEF TypeOK, KernelTypeOK, QueuesTypeOK
  <2> QED
    BY <2>1 DEF RepliesDue, PostsDue
<1>6. cutLogin \in Nat /\ cutReg \in Nat
  BY DEF IInv, TypeOK, ClientTypeOK
<1>7. cutLogin' \in Nat /\ cutReg' \in Nat
  BY DEF TypeOK, ClientTypeOK
<1>8. \A at : Gain(from, to, at) \in Int
  BY DEF Gain
<1>9. NoSpareReplies'
  BY <1>2, <1>4, <1>5, <1>6, <1>7, <1>8 DEF IInv, NoSpareReplies
<1>10. NoSparePosts'
  BY <1>3, <1>4, <1>5, <1>6, <1>7, <1>8 DEF IInv, NoSparePosts
<1> QED
  BY <1>9, <1>10 DEF IInv

(* A client that begins to register waits for nothing yet.                 *)
LEMMA RegisterIInv ==
    ASSUME IInv, NEW c \in Client, Register(c)
    PROVE  IInv'
<1> USE DEF IInv, TypeOK, Register, Step, Goto
<1>1. /\ Created \in [gen : Nat, exists : BOOLEAN, msgs : Seq(RegMsg)]
      /\ Len(Created.msgs) <= Len(regq.msgs) /\ Len(Created.msgs) \in Nat
  <2>1. << >> \in Seq(RegMsg) /\ Len(<< >>) = 0
    OBVIOUS
  <2> QED
    BY <2>1 DEF Created, QueuesTypeOK
<1>2. QueuesTypeOK'
  BY <1>1 DEF QueuesTypeOK, kernelVars
<1>3. KernelTypeOK'
  BY DEF KernelTypeOK, kernelVars
<1>4. StudentTypeOK' /\ RegTypeOK'
  BY DEF StudentTypeOK, RegTypeOK, serverVars
<1>5. MainTypeOK'
  BY DEF MainTypeOK, Answering, serverVars
<1>6. ClientTypeOK'
  BY <1>1 DEF ClientTypeOK, ghostVars, QueuesTypeOK, Places
<1>7. RepliesDue' + cutLogin <= RepliesDue + cutLogin' + Gain("menu", "reg_send", {"log_wait"})
  BY <1>1, DueNat, SMTT(60)
  DEF QueuesTypeOK, MainTypeOK, ClientTypeOK, RepliesDue, Answering, Gain,
     kernelVars, serverVars, ghostVars
<1>8. PostsDue' + cutReg <=
         PostsDue + cutReg' + Gain("menu", "reg_send", {"reg_sent", "reg_wait"})
  BY <1>1, DueNat DEF QueuesTypeOK, KernelTypeOK, ClientTypeOK, PostsDue, Registering, Gain,
     kernelVars, serverVars, ghostVars
<1> QED
  BY <1>2, <1>3, <1>4, <1>5, <1>6, <1>7, <1>8, ClientIInv

(* A message in the queue is one client more that will wait.               *)
LEMMA RegisterSendIInv ==
    ASSUME IInv, NEW c \in Client, RegisterSend(c)
    PROVE  IInv'
<1> USE DEF IInv, TypeOK, RegisterSend, Step, Goto
<1>1. /\ regq' \in [gen : Nat, exists : BOOLEAN, msgs : Seq(RegMsg)]
      /\ Len(regq.msgs) \in Nat /\ Len(regq'.msgs) \in Nat
      /\ Len(regq'.msgs) <= Len(regq.msgs) + 1
  <2>1. CASE ~(regq.exists /\ regq.gen = msgid[c])
    <3>1. UNCHANGED regq
      BY <2>1
    <3> QED
      BY <3>1 DEF QueuesTypeOK
  <2>2. CASE regq.exists /\ regq.gen = msgid[c]
    <3>1. PICK pwd \in Pwd :
             regq' = [regq EXCEPT !.msgs =
                        Append(@, [pid |-> c, pwd |-> pwd, tag |-> Tag(c)])]
      BY <2>2
    <3>2. [pid |-> c, pwd |-> pwd, tag |-> Tag(c)] \in RegMsg
      BY DEF RegMsg, Tag, Tags, ClientTypeOK
    <3>3. regq.msgs \in Seq(RegMsg) /\ regq'.msgs =
             Append(regq.msgs, [pid |-> c, pwd |-> pwd, tag |-> Tag(c)])
      BY <3>1 DEF QueuesTypeOK
    <3>4. regq'.msgs \in Seq(RegMsg) /\ Len(regq'.msgs) = Len(regq.msgs) + 1
      BY <3>2, <3>3, AppendProperties
    <3>5. /\ regq' = [regq EXCEPT !.msgs = regq'.msgs]
          /\ regq \in [gen : Nat, exists : BOOLEAN, msgs : Seq(RegMsg)]
      BY <3>1, <3>3 DEF QueuesTypeOK
    <3>6. Len(regq.msgs) \in Nat /\ Len(regq'.msgs) \in Nat
      BY <3>4, <3>5
    <3> HIDE DEF IInv, TypeOK, RegisterSend
    <3>7. regq' \in [gen : Nat, exists : BOOLEAN, msgs : Seq(RegMsg)]
      BY <3>4, <3>5
    <3> QED
      BY <3>4, <3>6, <3>7
  <2> QED
    BY <2>1, <2>2
<1>2. QueuesTypeOK'
  BY <1>1 DEF QueuesTypeOK, kernelVars
<1>3. KernelTypeOK'
  BY DEF KernelTypeOK, kernelVars
<1>4. StudentTypeOK' /\ RegTypeOK'
  BY DEF StudentTypeOK, RegTypeOK, serverVars
<1>5. MainTypeOK'
  BY DEF MainTypeOK, Answering, serverVars
<1>6. ClientTypeOK'
  BY <1>1 DEF ClientTypeOK, ghostVars, QueuesTypeOK, Places
<1>7. RepliesDue' + cutLogin <= RepliesDue + cutLogin' + Gain("reg_send", "reg_sent", {"log_wait"})
  BY <1>1, DueNat, SMTT(60)
  DEF QueuesTypeOK, MainTypeOK, ClientTypeOK, RepliesDue, Answering, Gain,
     kernelVars, serverVars, ghostVars
<1>8. PostsDue' + cutReg <=
         PostsDue + cutReg' + Gain("reg_send", "reg_sent", {"reg_sent", "reg_wait"})
  <2>1. UNCHANGED <<sem, reg, cutReg>> /\ sem \in Nat /\ cutReg \in Nat
    BY DEF serverVars, ghostVars, KernelTypeOK, ClientTypeOK
  <2> HIDE DEF IInv, TypeOK, RegisterSend
  <2>2. PostsDue' <= PostsDue + 1 /\ PostsDue \in Nat /\ PostsDue' \in Nat
    <3>1. CASE reg.at \in Registering
      BY <1>1, <2>1, <3>1 DEF PostsDue
    <3>2. CASE reg.at \notin Registering
      BY <1>1, <2>1, <3>2 DEF PostsDue
    <3> QED
      BY <3>1, <3>2
  <2>3. Gain("reg_send", "reg_sent", {"reg_sent", "reg_wait"}) = 1
    BY DEF Gain
  <2> QED
    BY <2>1, <2>2, <2>3
<1> QED
  BY <1>2, <1>3, <1>4, <1>5, <1>6, <1>7, <1>8, ClientIInv

(* The client goes on to wait.                                             *)
LEMMA RegisterWaitIInv ==
    ASSUME IInv, NEW c \in Client, RegisterWait(c)
    PROVE  IInv'
<1> USE DEF IInv, TypeOK, RegisterWait, Step, Goto
<1>2. QueuesTypeOK'
  BY DEF QueuesTypeOK, kernelVars
<1>3. KernelTypeOK'
  BY DEF KernelTypeOK, kernelVars
<1>4. StudentTypeOK' /\ RegTypeOK'
  BY DEF StudentTypeOK, RegTypeOK, serverVars
<1>5. MainTypeOK'
  BY DEF MainTypeOK, Answering, serverVars
<1>6. ClientTypeOK'
  BY DEF ClientTypeOK, ghostVars, QueuesTypeOK, Places
<1>7. RepliesDue' + cutLogin <= RepliesDue + cutLogin' + Gain("reg_sent", "reg_wait", {"log_wait"})
  BY DueNat DEF QueuesTypeOK, MainTypeOK, ClientTypeOK, RepliesDue, Answering, Gain,
     kernelVars, serverVars, ghostVars
<1>8. PostsDue' + cutReg <=
         PostsDue + cutReg' + Gain("reg_sent", "reg_wait", {"reg_sent", "reg_wait"})
  BY DueNat DEF QueuesTypeOK, KernelTypeOK, ClientTypeOK, PostsDue, Registering, Gain,
     kernelVars, serverVars, ghostVars
<1> QED
  BY <1>2, <1>3, <1>4, <1>5, <1>6, <1>7, <1>8, ClientIInv

(* A client takes its post: one less due, one less that waits.             *)
LEMMA RegisterTakeIInv ==
    ASSUME IInv, NEW c \in Client, RegisterTake(c)
    PROVE  IInv'
<1> USE DEF IInv, TypeOK, RegisterTake, Step, Goto
<1>2. QueuesTypeOK'
  BY DEF QueuesTypeOK, kernelVars
<1>3. KernelTypeOK'
  BY DEF KernelTypeOK, kernelVars
<1>4. StudentTypeOK' /\ RegTypeOK'
  BY DEF StudentTypeOK, RegTypeOK, serverVars
<1>5. MainTypeOK'
  BY DEF MainTypeOK, Answering, serverVars
<1>6. ClientTypeOK'
  BY DEF ClientTypeOK, ghostVars, QueuesTypeOK, Places
<1>7. RepliesDue' + cutLogin <= RepliesDue + cutLogin' + Gain("reg_wait", "reg_print", {"log_wait"})
  BY DueNat DEF QueuesTypeOK, MainTypeOK, ClientTypeOK, RepliesDue, Answering, Gain,
     kernelVars, serverVars, ghostVars
<1>8. PostsDue' + cutReg <=
         PostsDue + cutReg' + Gain("reg_wait", "reg_print", {"reg_sent", "reg_wait"})
  BY DueNat DEF QueuesTypeOK, KernelTypeOK, ClientTypeOK, PostsDue, Registering, Gain,
     kernelVars, serverVars, ghostVars
<1> QED
  BY <1>2, <1>3, <1>4, <1>5, <1>6, <1>7, <1>8, ClientIInv

(* Printing changes nothing that is counted.                               *)
LEMMA RegisterPrintIInv ==
    ASSUME IInv, NEW c \in Client, RegisterPrint(c)
    PROVE  IInv'
<1> USE DEF IInv, TypeOK, RegisterPrint, Step, Goto
<1>2. QueuesTypeOK'
  BY DEF QueuesTypeOK, kernelVars
<1>3. KernelTypeOK'
  BY DEF KernelTypeOK, kernelVars
<1>4. StudentTypeOK' /\ RegTypeOK'
  BY DEF StudentTypeOK, RegTypeOK, serverVars
<1>5. MainTypeOK'
  BY DEF MainTypeOK, Answering, serverVars
<1>6. ClientTypeOK'
  BY DEF ClientTypeOK, ghostVars, QueuesTypeOK, Places
<1>7. RepliesDue' + cutLogin <= RepliesDue + cutLogin' + Gain("reg_print", "menu", {"log_wait"})
  BY DueNat DEF QueuesTypeOK, MainTypeOK, ClientTypeOK, RepliesDue, Answering, Gain,
     kernelVars, serverVars, ghostVars
<1>8. PostsDue' + cutReg <=
         PostsDue + cutReg' + Gain("reg_print", "menu", {"reg_sent", "reg_wait"})
  BY DueNat DEF QueuesTypeOK, KernelTypeOK, ClientTypeOK, PostsDue, Registering, Gain,
     kernelVars, serverVars, ghostVars
<1> QED
  BY <1>2, <1>3, <1>4, <1>5, <1>6, <1>7, <1>8, ClientIInv

(* A client that begins to log in waits for nothing yet.                   *)
LEMMA LoginIInv ==
    ASSUME IInv, NEW c \in Client, Login(c)
    PROVE  IInv'
<1> USE DEF IInv, TypeOK, Login, Step, Goto
<1>2. QueuesTypeOK'
  BY DEF QueuesTypeOK, kernelVars
<1>3. KernelTypeOK'
  BY DEF KernelTypeOK, kernelVars
<1>4. StudentTypeOK' /\ RegTypeOK'
  BY DEF StudentTypeOK, RegTypeOK, serverVars
<1>5. MainTypeOK'
  BY DEF MainTypeOK, Answering, serverVars
<1>6. ClientTypeOK'
  BY DEF ClientTypeOK, ghostVars, QueuesTypeOK, Places
<1>7. RepliesDue' + cutLogin <= RepliesDue + cutLogin' + Gain("menu", "log_open", {"log_wait"})
  BY DueNat DEF QueuesTypeOK, MainTypeOK, ClientTypeOK, RepliesDue, Answering, Gain,
     kernelVars, serverVars, ghostVars
<1>8. PostsDue' + cutReg <=
         PostsDue + cutReg' + Gain("menu", "log_open", {"reg_sent", "reg_wait"})
  BY DueNat DEF QueuesTypeOK, KernelTypeOK, ClientTypeOK, PostsDue, Registering, Gain,
     kernelVars, serverVars, ghostVars
<1> QED
  BY <1>2, <1>3, <1>4, <1>5, <1>6, <1>7, <1>8, ClientIInv

(* Opening the FIFO changes nothing that is counted.                       *)
LEMMA LoginOpenIInv ==
    ASSUME IInv, NEW c \in Client, LoginOpen(c)
    PROVE  IInv'
<1> USE DEF IInv, TypeOK, LoginOpen, Step, Goto
<1>2. QueuesTypeOK'
  BY DEF QueuesTypeOK, kernelVars
<1>3. KernelTypeOK'
  BY DEF KernelTypeOK, kernelVars
<1>4. StudentTypeOK' /\ RegTypeOK'
  BY DEF StudentTypeOK, RegTypeOK, serverVars
<1>5. MainTypeOK'
  BY DEF MainTypeOK, Answering, serverVars
<1>6. ClientTypeOK'
  BY DEF ClientTypeOK, ghostVars, QueuesTypeOK, Places
<1>7. RepliesDue' + cutLogin <= RepliesDue + cutLogin' + Gain("log_open", "log_write", {"log_wait"})
  BY DueNat, SMTT(60)
  DEF QueuesTypeOK, MainTypeOK, ClientTypeOK, RepliesDue, Answering, Gain,
     kernelVars, serverVars, ghostVars
<1>8. PostsDue' + cutReg <=
         PostsDue + cutReg' + Gain("log_open", "log_write", {"reg_sent", "reg_wait"})
  BY DueNat, SMTT(60)
  DEF QueuesTypeOK, KernelTypeOK, ClientTypeOK, PostsDue, Registering, Gain,
     kernelVars, serverVars, ghostVars
<1> QED
  BY <1>2, <1>3, <1>4, <1>5, <1>6, <1>7, <1>8, ClientIInv

(* A request in the FIFO is one client more that waits.                    *)
LEMMA LoginWriteIInv ==
    ASSUME IInv, NEW c \in Client, LoginWrite(c)
    PROVE  IInv'
<1> USE DEF IInv, TypeOK, LoginWrite, Step, Goto
<1>1. /\ fifo' \in Seq(Request) /\ Len(fifo') = Len(fifo) + 1
  <2>1. PICK id \in 1 .. MaxRows, pwd \in Pwd :
           fifo' = Append(fifo, [id |-> id, pwd |-> pwd, tag |-> Tag(c)])
    OBVIOUS
  <2>2. [id |-> id, pwd |-> pwd, tag |-> Tag(c)] \in Request
    BY DEF Request, Tag, Tags, ClientTypeOK
  <2> QED
    BY <2>1, <2>2, AppendProperties DEF QueuesTypeOK
<1>2. QueuesTypeOK'
  BY <1>1 DEF QueuesTypeOK, kernelVars
<1>3. KernelTypeOK'
  BY DEF KernelTypeOK, kernelVars
<1>4. StudentTypeOK' /\ RegTypeOK'
  BY DEF StudentTypeOK, RegTypeOK, serverVars
<1>5. MainTypeOK'
  BY DEF MainTypeOK, Answering, serverVars
<1>6. ClientTypeOK'
  BY <1>1 DEF ClientTypeOK, ghostVars, QueuesTypeOK, Places
<1>7. RepliesDue' + cutLogin <= RepliesDue + cutLogin' + Gain("log_write", "log_wait", {"log_wait"})
  BY <1>1, DueNat DEF QueuesTypeOK, MainTypeOK, ClientTypeOK, RepliesDue, Answering, Gain,
     kernelVars, serverVars, ghostVars
<1>8. PostsDue' + cutReg <=
         PostsDue + cutReg' + Gain("log_write", "log_wait", {"reg_sent", "reg_wait"})
  BY <1>1, DueNat DEF QueuesTypeOK, KernelTypeOK, ClientTypeOK, PostsDue, Registering, Gain,
     kernelVars, serverVars, ghostVars
<1> QED
  BY <1>2, <1>3, <1>4, <1>5, <1>6, <1>7, <1>8, ClientIInv

(* A client takes a reply: one less due, one less that waits.              *)
LEMMA LoginTakeIInv ==
    ASSUME IInv, NEW c \in Client, LoginTake(c)
    PROVE  IInv'
<1> USE DEF IInv, TypeOK, LoginTake, Step, Goto
<1>1. Tail(loginq) \in Seq(Reply) /\ Len(Tail(loginq)) = Len(loginq) - 1
  BY HeadTailProperties DEF QueuesTypeOK
<1>2. QueuesTypeOK'
  BY <1>1 DEF QueuesTypeOK, kernelVars
<1>3. KernelTypeOK'
  BY DEF KernelTypeOK, kernelVars
<1>4. StudentTypeOK' /\ RegTypeOK'
  BY DEF StudentTypeOK, RegTypeOK, serverVars
<1>5. MainTypeOK'
  BY DEF MainTypeOK, Answering, serverVars
<1>6. ClientTypeOK'
  BY <1>1 DEF ClientTypeOK, ghostVars, QueuesTypeOK, Places
<1>7. RepliesDue' + cutLogin <= RepliesDue + cutLogin' + Gain("log_wait", "menu", {"log_wait"})
  BY <1>1, DueNat, SMTT(60)
  DEF QueuesTypeOK, MainTypeOK, ClientTypeOK, RepliesDue, Answering, Gain,
     kernelVars, serverVars, ghostVars
<1>8. PostsDue' + cutReg <=
         PostsDue + cutReg' + Gain("log_wait", "menu", {"reg_sent", "reg_wait"})
  BY <1>1, DueNat DEF QueuesTypeOK, KernelTypeOK, ClientTypeOK, PostsDue, Registering, Gain,
     kernelVars, serverVars, ghostVars
<1> QED
  BY <1>2, <1>3, <1>4, <1>5, <1>6, <1>7, <1>8, ClientIInv

(* A handler that has run ends the wait it has come into: the wait is      *)
(* counted as cut short.  Anywhere else it changes nothing.                *)
LEMMA InterruptedIInv ==
    ASSUME IInv, NEW c \in Client, Interrupted(c)
    PROVE  IInv'
<1> USE DEF IInv, TypeOK
<1>1. /\ sig' = [sig EXCEPT ![c] = FALSE]
      /\ UNCHANGED <<msgid, asked, regq, loginq, fifo, writer, shm, sem, serverVars>>
  BY DEF Interrupted
<1>2. QueuesTypeOK'
  BY <1>1 DEF QueuesTypeOK
<1>3. KernelTypeOK'
  BY <1>1 DEF KernelTypeOK
<1>4. StudentTypeOK' /\ RegTypeOK'
  BY <1>1 DEF StudentTypeOK, RegTypeOK, serverVars
<1>5. MainTypeOK'
  BY <1>1 DEF MainTypeOK, Answering, serverVars
<1>6. /\ RepliesDue' = RepliesDue /\ PostsDue' = PostsDue
      /\ RepliesDue \in Nat /\ PostsDue \in Nat
  BY <1>1, DueNat DEF RepliesDue, PostsDue, serverVars
<1>7. cutLogin \in Nat /\ cutReg \in Nat
  BY DEF ClientTypeOK
<1>8. CASE Goto(c, "reg_wait", "reg_print") /\ cutReg' = cutReg + 1 /\ UNCHANGED cutLogin
  <2>1. ClientTypeOK'
    BY <1>1, <1>8 DEF ClientTypeOK, Goto, Places
  <2>2. /\ RepliesDue' + cutLogin <=
              RepliesDue + cutLogin' + Gain("reg_wait", "reg_print", {"log_wait"})
        /\ PostsDue' + cutReg <=
              PostsDue + cutReg' + Gain("reg_wait", "reg_print", {"reg_sent", "reg_wait"})
    BY <1>6, <1>7, <1>8 DEF Gain
  <2> QED
    BY <1>2, <1>3, <1>4, <1>5, <1>8, <2>1, <2>2, ClientIInv DEF Goto
<1>9. CASE Goto(c, "log_wait", "menu") /\ cutLogin' = cutLogin + 1 /\ UNCHANGED cutReg
  <2>1. ClientTypeOK'
    BY <1>1, <1>9 DEF ClientTypeOK, Goto, Places
  <2>2. /\ RepliesDue' + cutLogin <=
              RepliesDue + cutLogin' + Gain("log_wait", "menu", {"log_wait"})
        /\ PostsDue' + cutReg <=
              PostsDue + cutReg' + Gain("log_wait", "menu", {"reg_sent", "reg_wait"})
    BY <1>6, <1>7, <1>9 DEF Gain
  <2> QED
    BY <1>2, <1>3, <1>4, <1>5, <1>9, <2>1, <2>2, ClientIInv DEF Goto
<1>10. CASE UNCHANGED <<pc, cutLogin, cutReg>>
  <2>1. ClientTypeOK'
    BY <1>1, <1>10 DEF ClientTypeOK
  <2> QED
    BY <1>2, <1>3, <1>4, <1>5, <1>6, <1>10, <2>1, ServerIInv DEF ghostVars
<1> QED
  BY <1>8, <1>9, <1>10 DEF Interrupted

(* A client that ends while it waits leaves its reply or its post behind:  *)
(* the wait is counted as cut short.                                       *)
LEMMA KilledIInv ==
    ASSUME IInv, NEW c \in Client, Killed(c)
    PROVE  IInv'
<1> USE DEF IInv, TypeOK
<1>1. /\ fifo' \in Seq(Request) /\ Len(fifo') <= Len(fifo)
      /\ Len(fifo) \in Nat /\ Len(fifo') \in Nat
  <2>1. fifo' = fifo \/ fifo' = << >>
    BY DEF Killed
  <2>2. << >> \in Seq(Request) /\ Len(<< >>) = 0
    OBVIOUS
  <2>3. fifo \in Seq(Request) /\ Len(fifo) \in Nat
    BY DEF QueuesTypeOK
  <2>4. CASE fifo' = fifo
    BY <2>3, <2>4
  <2>5. CASE fifo' = << >>
    BY <2>2, <2>3, <2>5
  <2> QED
    BY <2>1, <2>4, <2>5
<1>2. QueuesTypeOK'
  BY <1>1 DEF QueuesTypeOK, Killed
<1>3. KernelTypeOK'
  BY DEF KernelTypeOK, Killed
<1>4. StudentTypeOK' /\ RegTypeOK'
  BY DEF StudentTypeOK, RegTypeOK, serverVars, Killed
<1>5. MainTypeOK'
  BY DEF MainTypeOK, Answering, serverVars, Killed
<1>6. ClientTypeOK'
  BY DEF ClientTypeOK, Killed, Places
<1>7. RepliesDue' <= RepliesDue /\ PostsDue' = PostsDue
  <2>1. UNCHANGED <<regq, loginq, sem, main, reg>>
    BY DEF Killed, serverVars
  <2>2. Len(loginq) \in Nat
    BY DEF QueuesTypeOK
  <2> QED
    BY <1>1, <2>1, <2>2 DEF RepliesDue, PostsDue
<1>8. RepliesDue \in Nat /\ PostsDue \in Nat /\ RepliesDue' \in Nat /\ PostsDue' \in Nat
  <2>1. TypeOK'
    BY <1>2, <1>3, <1>4, <1>5, <1>6
  <2>2. /\ Len(fifo') \in Nat /\ Len(loginq') \in Nat
        /\ sem' \in Nat /\ Len(regq'.msgs) \in Nat
    BY <2>1 DEF KernelTypeOK, QueuesTypeOK
  <2> QED
    BY <2>2, DueNat DEF RepliesDue, PostsDue
<1>9. /\ cutLogin \in Nat /\ cutReg \in Nat
      /\ cutLogin' = IF pc[c] = "log_wait" THEN cutLogin + 1 ELSE cutLogin
      /\ cutReg' = IF pc[c] \in {"reg_sent", "reg_wait"} THEN cutReg + 1 ELSE cutReg
  BY DEF ClientTypeOK, Killed
<1>10. RepliesDue' + cutLogin <= RepliesDue + cutLogin' + Gain(pc[c], "dead", {"log_wait"})
  <2>1. CASE pc[c] = "log_wait"
    <3>1. Gain(pc[c], "dead", {"log_wait"}) = -1 /\ cutLogin' = cutLogin + 1
      BY <1>9, <2>1 DEF Gain
    <3> QED
      BY <1>7, <1>8, <1>9, <3>1
  <2>2. CASE pc[c] # "log_wait"
    <3>1. Gain(pc[c], "dead", {"log_wait"}) = 0 /\ cutLogin' = cutLogin
      BY <1>9, <2>2 DEF Gain
    <3> QED
      BY <1>7, <1>8, <1>9, <3>1
  <2> QED
    BY <2>1, <2>2
<1>11. PostsDue' + cutReg <=
          PostsDue + cutReg' + Gain(pc[c], "dead", {"reg_sent", "reg_wait"})
  BY <1>7, <1>8, <1>9 DEF Gain
<1> QED
  BY <1>2, <1>3, <1>4, <1>5, <1>6, <1>10, <1>11, ClientIInv DEF Killed
----------------------------------------------------------------------------
(* In the beginning nothing is due.                                        *)
LEMMA InitIInv ==
    ASSUME Init
    PROVE  IInv
<1> USE DEF Init, MainIdle, RegIdle
<1>1. \A S : << >> \in Seq(S) /\ Len(<< >>) = 0
  OBVIOUS
<1>2. QueuesTypeOK /\ KernelTypeOK
  BY <1>1 DEF QueuesTypeOK, KernelTypeOK
<1>3. StudentTypeOK
  <2>1. << >> \in Seq(Row) /\ Len(<< >>) <= MaxRows
    BY <1>1
  <2>2. 0 \in 0 .. MaxStarts
    OBVIOUS
  <2>3. student = << >> /\ up = FALSE /\ starts = 0
    OBVIOUS
  <2> HIDE DEF Init
  <2> QED
    BY <2>1, <2>2, <2>3 DEF StudentTypeOK
<1>4. MainTypeOK /\ RegTypeOK
  BY DEF MainTypeOK, RegTypeOK, Answering, Registering
<1>5. ClientTypeOK
  BY DEF ClientTypeOK, Places
<1>6. \A at : Number(at) \in Nat
  <2>1. \A at : IsFiniteSet({c \in Client : pc[c] \in at})
    BY FS_Subset
  <2> QED
    BY <2>1, FS_CardinalityType DEF Number
<1>7. RepliesDue = 0 /\ PostsDue = 0
  BY <1>1 DEF RepliesDue, PostsDue, Answering, Registering
<1>8. NoSpareReplies /\ NoSparePosts
  BY <1>6, <1>7 DEF NoSpareReplies, NoSparePosts
<1> QED
  BY <1>2, <1>3, <1>4, <1>5, <1>8 DEF IInv, TypeOK

(* A step that changes nothing keeps the invariant.                        *)
LEMMA StutterIInv ==
    ASSUME IInv, UNCHANGED vars
    PROVE  IInv'
<1> USE DEF vars, kernelVars, serverVars, clientVars, ghostVars
<1>1. TypeOK'
  BY DEF IInv, TypeOK, QueuesTypeOK, KernelTypeOK, StudentTypeOK, MainTypeOK,
         RegTypeOK, ClientTypeOK
<1>2. /\ RepliesDue' = RepliesDue /\ PostsDue' = PostsDue
      /\ RepliesDue \in Nat /\ PostsDue \in Nat
  BY DueNat DEF RepliesDue, PostsDue, IInv
<1> QED
  BY <1>1, <1>2, ServerIInv

(* Every step keeps the invariant, one action at a time.                   *)
LEMMA NextIInv ==
    ASSUME IInv, [Next]_vars
    PROVE  IInv'
<1>1. CASE ServerStart
  BY <1>1, ServerStartIInv
<1>2. CASE MainStep
  BY <1>2, MainReadIInv, MainQueryIInv, MainSendIInv, ServerEndsIInv DEF MainStep, MainEof
<1>3. CASE RegStep
  BY <1>3, RegGetIInv, RegRecvIInv, RegRmidIInv, RegInsertIInv, RegSelectIInv, RegKillIInv,
     RegShmIInv, RegPostIInv DEF RegStep
<1>4. CASE QueryEnds
  BY <1>4, ServerEndsIInv DEF QueryEnds
<1>5. ASSUME NEW c \in Client, ClientStep(c)
      PROVE  IInv'
  BY <1>5, RegisterSendIInv, RegisterWaitIInv, RegisterTakeIInv, RegisterPrintIInv,
     LoginOpenIInv, LoginWriteIInv, LoginTakeIInv, InterruptedIInv DEF ClientStep
<1>6. ASSUME NEW c \in Client, Register(c) \/ Login(c) \/ Killed(c)
      PROVE  IInv'
  BY <1>6, RegisterIInv, LoginIInv, KilledIInv
<1>7. CASE UNCHANGED vars
  BY <1>7, StutterIInv
<1> QED
  BY <1>1, <1>2, <1>3, <1>4, <1>5, <1>6, <1>7 DEF Next

(* The types and the two counts hold in every state of every behaviour.    *)
THEOREM Invariance == Spec => []IInv
<1>1. Init => IInv
  BY InitIInv
<1>2. IInv /\ [Next]_vars => IInv'
  BY NextIInv
<1> QED
  BY <1>1, <1>2, PTL DEF Spec

(* Every variable has its type; in particular the id that is on its way to *)
(* a client is never more than the table has room for.                     *)
THEOREM TypeCorrect == Spec => []TypeOK
<1>1. IInv => TypeOK
  BY DEF IInv
<1> QED
  BY <1>1, Invariance, PTL

(* The break at server.c:66 does what its comment wants: requests, answers *)
(* under way and replies are together never more than the clients that     *)
(* wait for a reply and the waits that were cut short, for any number of   *)
(* clients and of restarts of the server.                                  *)
THEOREM RepliesInStep == Spec => []NoSpareReplies
<1>1. IInv => NoSpareReplies
  BY DEF IInv
<1> QED
  BY <1>1, Invariance, PTL

(* Registrations under way and posts of the semaphore are together never   *)
(* more than the clients that wait for one and the waits that were cut     *)
(* short.                                                                  *)
THEOREM PostsInStep == Spec => []NoSparePosts
<1>1. IInv => NoSparePosts
  BY DEF IInv
<1> QED
  BY <1>1, Invariance, PTL
============================================================================
