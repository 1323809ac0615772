----------------------------- MODULE StudentIpc -----------------------------
(***************************************************************************)
(* UNIX-8-5/test: a registry of students.  Clients log in through a FIFO   *)
(* and get their reply from a message queue (0x2000); they register        *)
(* through another queue (0x1000), are signalled, and read their id from   *)
(* shared memory once a semaphore lets them.  The server's main thread     *)
(* serves logins, its second thread registrations.                         *)
(*                                                                         *)
(* Queues, shared memory and semaphore belong to the kernel: they outlive  *)
(* both programs.  A step is one system call or query.                     *)
(***************************************************************************)
EXTENDS Integers, Sequences, FiniteSets

CONSTANTS
    Client,        \* the client processes
    Pwd,           \* passwords
    MaxRows,       \* bounds the table student
    MaxRequests,   \* bounds what a client asks for
    MaxStarts,     \* bounds how often the server is started
    Faults         \* the queries that may fail

ASSUME ClientAssumption == IsFiniteSet(Client)
ASSUME BoundAssumption  == MaxRows \in Nat /\ MaxRequests \in Nat /\ MaxStarts \in Nat
ASSUME FaultAssumption  == Faults \subseteq {"insert", "select", "login"}

VARIABLES
    student,   \* the table: student[i] is the row with id i
    regq,      \* queue 0x1000: its identifier, whether it exists, its messages
    loginq,    \* queue 0x2000: the replies
    fifo,      \* the requests in ./fifo
    writer,    \* writer[c]: c has ./fifo open for writing
    shm, sem,  \* the shared int; the semaphore
    sig,       \* sig[c]: a SIGHUP is pending
    up, starts,
    main,      \* main's position, request and answer
    reg,       \* register_action's position, msgid, message and id
    pc,        \* pc[c]: where client c is
    msgid,     \* msgid[c]: what register_fun's msgget returned
    asked,     \* asked[c]: the requests c has made
    cutLogin,  \* ghost: the waits for a login reply that ended without one
    cutReg     \* ghost: the waits for the semaphore that ended without it

kernelVars == <<regq, loginq, fifo, writer, shm, sem, sig>>
serverVars == <<student, up, starts, main, reg>>
clientVars == <<pc, msgid, asked>>
ghostVars == <<cutLogin, cutReg>>
vars == <<kernelVars, serverVars, clientVars, ghostVars>>

(* A request is known, to the properties alone, by who made it and when.   *)
Tag(c) == <<c, asked[c]>>
Tags == Client \X (0 .. MaxRequests)

Row == [pwd : Pwd, by : Tags]
RegMsg == [pid : Client, pwd : Pwd, tag : Tags]
Request == [id : 1 .. MaxRows, pwd : Pwd, tag : Tags]
Reply == [id : -2 .. MaxRows, tag : Tags]

(* No request, no message.                                                 *)
Nothing == << >>

(* A thread has taken a request, and is to send a reply or a post for it.  *)
Answering == {"m_query", "m_send"}
Registering == {"r_rmid", "r_insert", "r_select", "r_kill", "r_shm", "r_post"}

(* Where a client is.                                                      *)
Places == {"menu", "reg_send", "reg_sent", "reg_wait", "reg_print",
           "log_open", "log_write", "log_wait", "dead"}

MainIdle(at) == [at |-> at, req |-> Nothing, ans |-> 0]
RegIdle == [at |-> "r_get", msgid |-> 0, msg |-> Nothing, id |-> 0]

(* msgget(IPC_CREAT): the queue there is, or a new one under a new         *)
(* identifier.                                                             *)
Created == IF regq.exists THEN regq
           ELSE [gen |-> regq.gen + 1, exists |-> TRUE, msgs |-> << >>]

Init ==
    /\ student = << >>
    /\ regq = [gen |-> 0, exists |-> FALSE, msgs |-> << >>]
    /\ loginq = << >> /\ fifo = << >>
    /\ writer = [c \in Client |-> FALSE]
    /\ shm = 0 /\ sem = 0
    /\ sig = [c \in Client |-> FALSE]
    /\ up = FALSE /\ starts = 0
    /\ main = MainIdle("m_open") /\ reg = RegIdle
    /\ pc = [c \in Client |-> "menu"]
    /\ msgid = [c \in Client |-> 0]
    /\ asked = [c \in Client |-> 0]
    /\ cutLogin = 0 /\ cutReg = 0
----------------------------------------------------------------------------
(* The server's process begins and ends, both threads with it.  What is in *)
(* a FIFO that nobody has open is gone.                                    *)
ServerStart ==
    /\ ~up /\ starts < MaxStarts
    /\ up' = TRUE /\ starts' = starts + 1
    /\ main' = MainIdle(IF \E c \in Client : writer[c] THEN "m_read" ELSE "m_open")
    /\ reg' = RegIdle
    /\ UNCHANGED <<student, kernelVars, clientVars, ghostVars>>

ServerEnds ==
    /\ up' = FALSE
    /\ main' = MainIdle("m_open") /\ reg' = RegIdle
    /\ fifo' = IF \E c \in Client : writer[c] THEN fifo ELSE << >>
    /\ UNCHANGED <<student, starts, regq, loginq, writer, shm, sem, sig,
                   clientVars, ghostVars>>

(* Main: read.                                                             *)
MainRead ==
    /\ up /\ main.at = "m_read" /\ fifo # << >>
    /\ main' = [main EXCEPT !.at = "m_query", !.req = Head(fifo)]
    /\ fifo' = Tail(fifo)
    /\ UNCHANGED <<student, up, starts, reg, regq, loginq, writer, shm, sem, sig,
                   clientVars, ghostVars>>

(* Mutant: at the end of file no break, but a reply.                       *)
MainEofAnswers ==
    /\ up /\ main.at = "m_read" /\ fifo = << >>
    /\ \A c \in Client : ~writer[c]
    /\ Len(loginq) < MaxRequests
    /\ loginq' = Append(loginq, [id |-> -1, tag |-> <<CHOOSE c \in Client : TRUE, 0>>])
    /\ UNCHANGED <<regq, fifo, writer, shm, sem, sig, serverVars, clientVars, ghostVars>>

(* The last client that had the FIFO open has ended: break, and main       *)
(* returns.                                                                *)
MainEof ==
    /\ up /\ main.at = "m_read" /\ fifo = << >>
    /\ \A c \in Client : ~writer[c]
    /\ ServerEnds

(* The row of the id, or none (-1); the password (-2).                     *)
Answer(q) ==
    IF q.id \notin DOMAIN student THEN -1
    ELSE IF student[q.id].pwd # q.pwd THEN -2 ELSE q.id

(* The result of mysql_go is not looked at: after a failure res is         *)
(* whatever it was.                                                        *)
MainQuery ==
    /\ up /\ main.at = "m_query"
    /\ \E a \in -2 .. MaxRows :
          /\ a = Answer(main.req) \/ ("login" \in Faults /\ a # 0)
          /\ main' = [main EXCEPT !.at = "m_send", !.ans = a]
    /\ UNCHANGED <<student, up, starts, reg, kernelVars, clientVars, ghostVars>>

(* ... or crashes, or there is no connection to the database: exit(0).     *)
QueryEnds ==
    /\ up
    /\ \/ main.at = "m_query" /\ "login" \in Faults
       \/ reg.at = "r_insert" /\ "insert" \in Faults
       \/ reg.at = "r_select" /\ "select" \in Faults
    /\ ServerEnds

(* Mutant: `continue' when there is no such row.                           *)
MainSendFound ==
    /\ up /\ main.at = "m_send"
    /\ loginq' = IF main.ans = -1 THEN loginq
                 ELSE Append(loginq, [id |-> main.ans, tag |-> main.req.tag])
    /\ main' = MainIdle("m_read")
    /\ UNCHANGED <<student, up, starts, reg, regq, fifo, writer, shm, sem, sig,
                   clientVars, ghostVars>>

MainSend ==
    /\ up /\ main.at = "m_send"
    /\ loginq' = Append(loginq, [id |-> main.ans, tag |-> main.req.tag])
    /\ main' = MainIdle("m_read")
    /\ UNCHANGED <<student, up, starts, reg, regq, fifo, writer, shm, sem, sig,
                   clientVars, ghostVars>>
----------------------------------------------------------------------------
(* register_action: msgget; msgrcv of the queue it got; msgctl(IPC_RMID).  *)
RegGet ==
    /\ up /\ reg.at = "r_get"
    /\ regq' = Created
    /\ reg' = [reg EXCEPT !.at = "r_recv", !.msgid = Created.gen]
    /\ UNCHANGED <<student, up, starts, main, loginq, fifo, writer, shm, sem, sig,
                   clientVars, ghostVars>>

RegRecv ==
    /\ up /\ reg.at = "r_recv" /\ regq.msgs # << >>
    /\ reg' = [reg EXCEPT !.at = "r_rmid", !.msg = Head(regq.msgs)]
    /\ regq' = [regq EXCEPT !.msgs = Tail(@)]
    /\ UNCHANGED <<student, up, starts, main, loginq, fifo, writer, shm, sem, sig,
                   clientVars, ghostVars>>

(* The other messages go with the queue.                                   *)
RegRmid ==
    /\ up /\ reg.at = "r_rmid"
    /\ regq' = [regq EXCEPT !.exists = FALSE, !.msgs = << >>]
    /\ reg' = [reg EXCEPT !.at = "r_insert"]
    /\ UNCHANGED <<student, up, starts, main, loginq, fifo, writer, shm, sem, sig,
                   clientVars, ghostVars>>

(* write_to_sql: what becomes of the insert is not looked at.              *)
RegInsert ==
    /\ up /\ reg.at = "r_insert"
    /\ \/ /\ Len(student) < MaxRows
          /\ student' = Append(student, [pwd |-> reg.msg.pwd, by |-> reg.msg.tag])
       \/ /\ "insert" \in Faults \/ Len(student) = MaxRows
          /\ UNCHANGED student
    /\ reg' = [reg EXCEPT !.at = "r_select"]
    /\ UNCHANGED <<up, starts, main, kernelVars, clientVars, ghostVars>>

(* Mutant: the next id instead of the last.                                *)
RegSelectNext ==
    /\ up /\ reg.at = "r_select"
    /\ reg' = [reg EXCEPT !.at = "r_kill", !.id = Len(student) + 1]
    /\ UNCHANGED <<student, up, starts, main, kernelVars, clientVars, ghostVars>>

(* The row with max(id).  After a failure nobody is told anything.         *)
RegSelect ==
    /\ up /\ reg.at = "r_select"
    /\ \/ reg' = [reg EXCEPT !.at = "r_kill", !.id = Len(student)]
       \/ "select" \in Faults /\ reg' = RegIdle
    /\ UNCHANGED <<student, up, starts, main, kernelVars, clientVars, ghostVars>>

(* kill(pid, 1): without effect on a process that has ended.               *)
RegKill ==
    /\ up /\ reg.at = "r_kill"
    /\ sig' = [sig EXCEPT ![reg.msg.pid] = pc[reg.msg.pid] # "dead"]
    /\ reg' = [reg EXCEPT !.at = "r_shm"]
    /\ UNCHANGED <<student, up, starts, main, regq, loginq, fifo, writer, shm, sem,
                   clientVars, ghostVars>>

(* *shmemory = atoi(row[0]): without any row, row is NULL.                 *)
RegShm ==
    /\ up /\ reg.at = "r_shm"
    /\ \/ /\ reg.id # 0
          /\ shm' = reg.id
          /\ reg' = [reg EXCEPT !.at = "r_post"]
          /\ UNCHANGED <<student, up, starts, main, regq, loginq, fifo, writer, sem,
                         sig, clientVars, ghostVars>>
       \/ reg.id = 0 /\ ServerEnds

RegPost ==
    /\ up /\ reg.at = "r_post"
    /\ sem' = sem + 1
    /\ reg' = RegIdle
    /\ UNCHANGED <<student, up, starts, main, regq, loginq, fifo, writer, shm, sig,
                   clientVars, ghostVars>>
----------------------------------------------------------------------------
Goto(c, from, to) == pc[c] = from /\ pc' = [pc EXCEPT ![c] = to]

(* A step of a client that no signal is waiting for: signal_fun runs before*)
(* the client's next instruction.                                          *)
Step(c, from, to) == ~sig[c] /\ Goto(c, from, to)

(* register_fun: msgget ...                                                *)
Register(c) ==
    /\ Step(c, "menu", "reg_send")
    /\ asked[c] < MaxRequests
    /\ asked' = [asked EXCEPT ![c] = @ + 1]
    /\ regq' = Created
    /\ msgid' = [msgid EXCEPT ![c] = Created.gen]
    /\ UNCHANGED <<loginq, fifo, writer, shm, sem, sig, serverVars, ghostVars>>

(* ... and msgsnd, whose failure on a removed queue is not looked at.      *)
RegisterSend(c) ==
    /\ Step(c, "reg_send", "reg_sent")
    /\ IF regq.exists /\ regq.gen = msgid[c]
       THEN \E pwd \in Pwd :
               regq' = [regq EXCEPT !.msgs =
                          Append(@, [pid |-> c, pwd |-> pwd, tag |-> Tag(c)])]
       ELSE UNCHANGED regq
    /\ UNCHANGED <<msgid, asked, loginq, fifo, writer, shm, sem, sig, serverVars,
                   ghostVars>>

(* semop: wait, take one, go on to read the shared memory.                 *)
RegisterWait(c) ==
    /\ Step(c, "reg_sent", "reg_wait")
    /\ UNCHANGED <<msgid, asked, kernelVars, serverVars, ghostVars>>

(* Mutant: sem_op = 0 does not take anything.                              *)
RegisterTakeNone(c) ==
    /\ Goto(c, "reg_wait", "reg_print")
    /\ sem > 0
    /\ UNCHANGED <<msgid, asked, kernelVars, serverVars, ghostVars>>

RegisterTake(c) ==
    /\ Goto(c, "reg_wait", "reg_print")
    /\ sem > 0 /\ sem' = sem - 1
    /\ UNCHANGED <<msgid, asked, regq, loginq, fifo, writer, shm, sig, serverVars,
                   ghostVars>>

(* "your id is %d".                                                        *)
RegisterPrint(c) ==
    /\ Step(c, "reg_print", "menu")
    /\ UNCHANGED <<msgid, asked, kernelVars, serverVars, ghostVars>>

(* login_fun: open, which waits for a reader and ends the reader's wait    *)
(* for a writer.                                                           *)
Login(c) ==
    /\ Step(c, "menu", "log_open")
    /\ asked[c] < MaxRequests
    /\ asked' = [asked EXCEPT ![c] = @ + 1]
    /\ UNCHANGED <<msgid, kernelVars, serverVars, ghostVars>>

LoginOpen(c) ==
    /\ Step(c, "log_open", "log_write")
    /\ up
    /\ writer' = [writer EXCEPT ![c] = TRUE]
    /\ main' = IF main.at = "m_open" THEN [main EXCEPT !.at = "m_read"] ELSE main
    /\ UNCHANGED <<msgid, asked, regq, loginq, fifo, shm, sem, sig, student, up,
                   starts, reg, ghostVars>>

(* The request, with an id and a password the user has typed.              *)
LoginWrite(c) ==
    /\ Step(c, "log_write", "log_wait")
    /\ up
    /\ \E id \in 1 .. MaxRows, pwd \in Pwd :
          fifo' = Append(fifo, [id |-> id, pwd |-> pwd, tag |-> Tag(c)])
    /\ UNCHANGED <<msgid, asked, regq, loginq, writer, shm, sem, sig, serverVars,
                   ghostVars>>

(* msgrcv of type 2: the next reply, whoever's it is.                      *)
LoginTake(c) ==
    /\ Goto(c, "log_wait", "menu")
    /\ loginq # << >> /\ loginq' = Tail(loginq)
    /\ UNCHANGED <<msgid, asked, regq, fifo, writer, shm, sem, sig, serverVars,
                   ghostVars>>

(* signal_fun runs.  semop and msgrcv are never restarted: they return     *)
(* EINTR, and neither caller makes anything of it.                         *)
Interrupted(c) ==
    /\ sig[c] /\ sig' = [sig EXCEPT ![c] = FALSE]
    /\ \/ /\ Goto(c, "reg_wait", "reg_print")
          /\ cutReg' = cutReg + 1 /\ UNCHANGED cutLogin
       \/ /\ Goto(c, "log_wait", "menu")
          /\ cutLogin' = cutLogin + 1 /\ UNCHANGED cutReg
       \/ /\ pc[c] \notin {"reg_wait", "log_wait", "dead"}
          /\ UNCHANGED <<pc, cutLogin, cutReg>>
    /\ UNCHANGED <<msgid, asked, regq, loginq, fifo, writer, shm, sem, serverVars>>

(* The process ends: it is killed, or it has written to a FIFO that nobody *)
(* reads (SIGPIPE).  The menu itself has no way out.                       *)
Killed(c) ==
    /\ pc[c] # "dead" /\ pc' = [pc EXCEPT ![c] = "dead"]
    /\ writer' = [writer EXCEPT ![c] = FALSE]
    /\ sig' = [sig EXCEPT ![c] = FALSE]
    /\ fifo' = IF up \/ \E d \in Client \ {c} : writer[d] THEN fifo ELSE << >>
    /\ cutLogin' = IF pc[c] = "log_wait" THEN cutLogin + 1 ELSE cutLogin
    /\ cutReg' = IF pc[c] \in {"reg_sent", "reg_wait"} THEN cutReg + 1 ELSE cutReg
    /\ UNCHANGED <<msgid, asked, regq, loginq, shm, sem, serverVars>>
----------------------------------------------------------------------------
MainStep == MainRead \/ MainQuery \/ MainSend \/ MainEof
RegStep ==
    \/ RegGet \/ RegRecv \/ RegRmid \/ RegInsert \/ RegSelect
    \/ RegKill \/ RegShm \/ RegPost
ClientStep(c) ==
    \/ RegisterSend(c) \/ RegisterWait(c) \/ RegisterTake(c) \/ RegisterPrint(c)
    \/ LoginOpen(c) \/ LoginWrite(c) \/ LoginTake(c) \/ Interrupted(c)

Next ==
    \/ ServerStart \/ MainStep \/ RegStep \/ QueryEnds
    \/ \E c \in Client : ClientStep(c) \/ Register(c) \/ Login(c) \/ Killed(c)

Spec == Init /\ [][Next]_vars

(* Threads and processes that can go on do.  Nobody has to ask for         *)
(* anything, end, or start the server.                                     *)
FairSpec ==
    /\ Spec
    /\ WF_vars(MainStep) /\ WF_vars(RegStep)
    /\ \A c \in Client : WF_vars(ClientStep(c))
----------------------------------------------------------------------------
QueuesTypeOK ==
    /\ regq \in [gen : Nat, exists : BOOLEAN, msgs : Seq(RegMsg)]
    /\ loginq \in Seq(Reply) /\ fifo \in Seq(Request)

KernelTypeOK ==
    /\ writer \in [Client -> BOOLEAN] /\ sig \in [Client -> BOOLEAN]
    /\ shm \in 0 .. MaxRows /\ sem \in Nat

StudentTypeOK ==
    /\ student \in Seq(Row) /\ Len(student) <= MaxRows
    /\ up \in BOOLEAN /\ starts \in 0 .. MaxStarts

MainTypeOK ==
    /\ main \in [at : {"m_open", "m_read"} \cup Answering,
                 req : Request \cup {Nothing}, ans : -2 .. MaxRows]
    /\ main.at \in Answering => main.req \in Request

RegTypeOK ==
    /\ reg \in [at : {"r_get", "r_recv"} \cup Registering, msgid : Nat,
                msg : RegMsg \cup {Nothing}, id : 0 .. MaxRows]
    /\ reg.at \in Registering => reg.msg \in RegMsg

ClientTypeOK ==
    /\ pc \in [Client -> Places]
    /\ msgid \in [Client -> Nat]
    /\ asked \in [Client -> 0 .. MaxRequests]
    /\ cutLogin \in Nat /\ cutReg \in Nat

(* Every variable has its type; no id is told that the table does not have *)
(* room for.                                                               *)
TypeOK ==
    /\ QueuesTypeOK /\ KernelTypeOK /\ StudentTypeOK
    /\ MainTypeOK /\ RegTypeOK /\ ClientTypeOK

Number(at) == Cardinality({c \in Client : pc[c] \in at})

(* The replies there are and those to come; the same for the semaphore.    *)
RepliesDue ==
    Len(fifo) + Len(loginq) + (IF main.at \in Answering THEN 1 ELSE 0)
PostsDue ==
    sem + Len(regq.msgs) + (IF reg.at \in Registering THEN 1 ELSE 0)

(* server.c:57-66 explains at length that a reply nobody waits for would   *)
(* be read by the next login, and that main breaks on an end of file to    *)
(* keep requests and replies in step: the replies there are and are to     *)
(* come are never more than the clients waiting for one, but for waits     *)
(* that a signal or the end of the client cut short.                       *)
NoSpareReplies == RepliesDue <= Number({"log_wait"}) + cutLogin

(* register_action posts once for each registration it works on: the       *)
(* semaphore is ahead of the clients that wait for it only by the waits    *)
(* that were cut short.                                                    *)
NoSparePosts == PostsDue <= Number({"reg_sent", "reg_wait"}) + cutReg

(* A client that has written its login gets a reply from the server it was *)
(* written to while that lives, though other clients take replies that are *)
(* not theirs.  (After a restart not any more: a request that was lost     *)
(* with the first server leaves one wait more than there are replies.)     *)
LoginAnswered ==
    \A c \in Client :
        up /\ starts = 1 /\ pc[c] = "log_wait" ~> pc[c] # "log_wait" \/ ~up

(* "use share memory to return the id of student" (server.c:108): the id   *)
(* a client prints at the end of a registration is that of its own row.    *)
ToldOwnId ==
    [][\A c \in Client : RegisterPrint(c) =>
          shm \in DOMAIN student /\ student[shm].by = Tag(c)]_vars
============================================================================
