------------------------------ MODULE Dispatch ------------------------------
(***************************************************************************)
(* How the chat server comes to run a handler: the loop of server.c over   *)
(* edge-triggered epoll events, the thread it starts for each, and the two *)
(* reads by which that thread takes a packet (socket.c).  ChatServer has   *)
(* what the handlers do; here a handler answers, or closes the descriptor. *)
(*                                                                         *)
(* A thread is given a pointer into events[], which the next epoll_wait    *)
(* overwrites.  Descriptors are named after their connections and are not  *)
(* given out again (ChatServer has that).  A packet is one small write and *)
(* arrives in one piece.  The server starts from its configuration file.   *)
(***************************************************************************)
EXTENDS ConfParser, FiniteSets

CONSTANTS
    Conn,         \* the clients, each with one connection
    Listen,       \* the listening socket
    Eager,        \* the clients that do not wait for an answer to go on
    Lines,        \* the lines a configuration file may have
    MaxLines,     \* bounds their number
    Behind,       \* what may lie behind the file in the parser's buffer
    MaxPackets,   \* bounds the packets of a client
    MaxThreads    \* bounds the threads alive at a time

ASSUME ConnAssumption   == IsFiniteSet(Conn)
ASSUME ListenAssumption == Listen \notin Conn
ASSUME EagerAssumption  == Eager \subseteq Conn
ASSUME BoundAssumption  == MaxPackets \in Nat /\ MaxThreads \in Nat /\ MaxLines \in Nat

VARIABLES
    events,    \* events[]: what the slots hold; none is read before it is set
    ret, next, \* what epoll_wait returned; the loop's i
    thread,    \* the handler threads
    phase,     \* "boot" - server_init, "up" - the loop, "exited"
    conf,      \* the lines of server.conf, once read forgotten
    \* The kernel
    open,      \* the open descriptors
    ready,     \* the events epoll_wait has not returned yet, oldest first
    backlog,   \* the connections not yet accepted
    rx,        \* rx[c]: the headers and bodies the server has not read
    \* The clients
    state,     \* state[c]: what c is doing
    sent,      \* sent[c]: the packets c has sent
    \* Ghosts
    merged,    \* merged[f]: the arrivals that found f's event in ready
    skew       \* skew[f]: the threads started for f that went elsewhere, less
               \*   those that came to f

loopVars == <<events, ret, next>>
kernelVars == <<open, ready, backlog, rx>>
clientVars == <<state, sent>>
ghostVars == <<merged, skew>>
vars == <<loopVars, thread, phase, conf, kernelVars, clientVars, ghostVars>>

up == phase = "up"

Descriptor == Conn \cup {Listen}
Slot == 1 .. Cardinality(Conn) + 1
Thread == 1 .. MaxThreads

(* What a thread is doing: "start" - it holds the pointer; "head", "body"  *)
(* - before its first and its second read; "work" - in the handler.        *)
(* `for' is the descriptor of the event it was started for, `fd' the one   *)
(* it has read from the slot, `packet' the header it has read.             *)
Free == [pc |-> "free", slot |-> 1, for |-> Listen, fd |-> Listen, packet |-> 0]

(* One of the two parts of c's n-th packet.                                *)
Part(n, kind) == [packet |-> n, kind |-> kind]

(* Something has come for f: an event, unless one is there.                *)
Arrival(f) ==
    IF Contains(ready, f)
    THEN UNCHANGED ready /\ merged' = [merged EXCEPT ![f] = @ + 1]
    ELSE ready' = Append(ready, f) /\ UNCHANGED merged

(* What has come for c before EPOLL_CTL_ADD makes one event in all.        *)
Units(c) == Len(rx[c]) \div 2 + IF state[c] = "ended" THEN 1 ELSE 0

----------------------------------------------------------------------------
Init ==
    /\ events = [s \in Slot |-> Listen]
    /\ ret = 0 /\ next = 1
    /\ thread = [t \in Thread |-> Free]
    /\ phase = "boot"
    /\ conf \in BoundedSeq(Lines, MaxLines)
    /\ open = {} /\ ready = << >> /\ backlog = << >>
    /\ rx = [c \in Conn |-> << >>]
    /\ state = [c \in Conn |-> "new"]
    /\ sent = [c \in Conn |-> 0]
    /\ merged = [f \in Descriptor |-> 0]
    /\ skew = [f \in Descriptor |-> 0]

(* server_init and epoll_init.  Without a port in the file, or with an     *)
(* address that is none, what is bound is left to chance; and Socket, Bind *)
(* or Listen may fail, which ends the program as a bad line does.          *)
Start ==
    /\ phase = "boot"
    /\ \/ /\ \E beyond \in Behind : Parse(Text(conf), beyond).ok
          /\ phase' = "up" /\ open' = {Listen}
       \/ phase' = "exited" /\ UNCHANGED open
    /\ conf' = << >>
    /\ UNCHANGED <<loopVars, thread, ready, backlog, rx, clientVars, ghostVars>>

(* Mutant: the loop starts before the first slot.                          *)
EpollWaitZero ==
    /\ up /\ next > ret
    /\ ready # << >>
    /\ events' = [s \in Slot |-> IF s <= Len(ready) THEN ready[s] ELSE events[s]]
    /\ ret' = Len(ready) /\ next' = 0
    /\ ready' = << >>
    /\ UNCHANGED <<thread, phase, conf, open, backlog, rx, clientVars, ghostVars>>

(* Mutant: the loop goes on where the last one ended.                       *)
EpollWaitNoReset ==
    /\ up /\ next > ret
    /\ ready # << >>
    /\ events' = [s \in Slot |-> IF s <= Len(ready) THEN ready[s] ELSE events[s]]
    /\ ret' = Len(ready) /\ UNCHANGED next
    /\ ready' = << >>
    /\ UNCHANGED <<thread, phase, conf, open, backlog, rx, clientVars, ghostVars>>

(* Mutant: a client's event, without EPOLLET, is returned again.           *)
EpollWaitLevel ==
    /\ up /\ next > ret
    /\ ready # << >>
    /\ events' = [s \in Slot |-> IF s <= Len(ready) THEN ready[s] ELSE events[s]]
    /\ ret' = Len(ready) /\ next' = 1
    /\ ready' = SelectSeq(ready, LAMBDA f : f # Listen)
    /\ UNCHANGED <<thread, phase, conf, open, backlog, rx, clientVars, ghostVars>>

EpollWait ==
    /\ up /\ next > ret
    /\ ready # << >>
    /\ events' = [s \in Slot |-> IF s <= Len(ready) THEN ready[s] ELSE events[s]]
    /\ ret' = Len(ready) /\ next' = 1
    /\ ready' = << >>
    /\ UNCHANGED <<thread, phase, conf, open, backlog, rx, clientVars, ghostVars>>

(* One accept for one event.  If the listening socket has been closed,     *)
(* Accept ends the server.                                                 *)
AcceptOne ==
    /\ up /\ next <= ret /\ events[next] = Listen
    /\ next' = next + 1
    /\ \/ /\ Listen \in open /\ backlog # << >>
          /\ LET c == Head(backlog)
             IN  /\ open' = open \cup {c}
                 /\ ready' = IF Units(c) > 0 THEN Append(ready, c) ELSE ready
                 /\ merged' = IF Units(c) > 1
                              THEN [merged EXCEPT ![c] = Units(c) - 1] ELSE merged
          /\ backlog' = Tail(backlog)
          /\ UNCHANGED phase
       \/ /\ Listen \notin open
          /\ phase' = "exited"
          /\ UNCHANGED <<open, ready, backlog, merged>>
    /\ UNCHANGED <<events, ret, thread, conf, rx, clientVars, skew>>

(* pthread_create with the address of the slot.                            *)
StartThread ==
    /\ up /\ next <= ret /\ events[next] # Listen
    /\ next' = next + 1
    /\ \E t \in Thread :
          /\ thread[t].pc = "free"
          /\ \A u \in 1 .. t - 1 : thread[u].pc # "free"
          /\ thread' = [thread EXCEPT ![t] =
                [Free EXCEPT !.pc = "start", !.slot = next, !.for = events[next]]]
    /\ UNCHANGED <<events, ret, phase, conf, kernelVars, clientVars, ghostVars>>

(* The thread reads the slot: `for' has been replaced if epoll_wait has    *)
(* returned since.                                                         *)
TakeSlot(t) ==
    /\ up /\ thread[t].pc = "start"
    /\ LET f == events[thread[t].slot]
       IN  /\ thread' = [thread EXCEPT ![t].pc = "head", ![t].fd = f]
           /\ skew' = IF f = thread[t].for THEN skew
                      ELSE [skew EXCEPT ![thread[t].for] = @ + 1, ![f] = @ - 1]
    /\ UNCHANGED <<loopVars, phase, conf, kernelVars, clientVars, merged>>

(* The first read takes what comes first, header or not.                   *)
ReadHeader(t) ==
    LET fd == thread[t].fd IN
    /\ up /\ thread[t].pc = "head"
    /\ fd \in open /\ fd # Listen /\ rx[fd] # << >>
    /\ thread' = [thread EXCEPT ![t].pc = "body", ![t].packet = Head(rx[fd]).packet]
    /\ rx' = [rx EXCEPT ![fd] = Tail(@)]
    /\ UNCHANGED <<loopVars, phase, conf, open, ready, backlog, clientVars, ghostVars>>

ReadBody(t) ==
    LET fd == thread[t].fd IN
    /\ up /\ thread[t].pc = "body"
    /\ fd \in open /\ rx[fd] # << >>
    /\ thread' = [thread EXCEPT ![t].pc = "work"]
    /\ rx' = [rx EXCEPT ![fd] = Tail(@)]
    /\ UNCHANGED <<loopVars, phase, conf, open, ready, backlog, clientVars, ghostVars>>

(* The event of f, if there is one, goes.                                  *)
DropEvent(f) ==
    \/ \E i \in 1 .. Len(ready) : ready[i] = f /\ ready' = RemoveAt(ready, i)
    \/ ~Contains(ready, f) /\ UNCHANGED ready

(* A read that fails: the client has ended, another thread has closed the  *)
(* descriptor, or it is the listening socket.  The error path of           *)
(* Read_server runs offline_action, which closes it; its events go.        *)
ReadFails(t) ==
    LET fd == thread[t].fd IN
    /\ up /\ thread[t].pc \in {"head", "body"}
    /\ \/ fd = Listen \/ fd \notin open
       \/ fd \in Conn /\ state[fd] = "ended" /\ rx[fd] = << >>
    /\ open' = open \ {fd}
    /\ DropEvent(fd)
    /\ thread' = [thread EXCEPT ![t] = Free]
    /\ UNCHANGED <<loopVars, phase, conf, backlog, rx, clientVars, ghostVars>>

(* The handler's answer ends the thread.                                   *)
Answer(t) ==
    LET fd == thread[t].fd IN
    /\ up /\ thread[t].pc = "work"
    /\ thread' = [thread EXCEPT ![t] = Free]
    /\ state' = IF state[fd] = "waiting" /\ fd \in open
                THEN [state EXCEPT ![fd] = "idle"] ELSE state
    /\ UNCHANGED <<loopVars, phase, conf, kernelVars, sent, ghostVars>>
----------------------------------------------------------------------------
Connect(c) ==
    /\ state[c] = "new" /\ Listen \in open
    /\ state' = [state EXCEPT ![c] = "idle"]
    /\ backlog' = Append(backlog, c)
    /\ Arrival(Listen)
    /\ UNCHANGED <<loopVars, thread, phase, conf, open, rx, sent, skew>>

(* Write: header and body in one write.  Before main has registered the    *)
(* descriptor there is no event.                                           *)
Send(c) ==
    /\ \/ state[c] = "idle"
       \/ state[c] = "waiting" /\ c \in Eager
    /\ sent[c] < MaxPackets
    /\ sent' = [sent EXCEPT ![c] = @ + 1]
    /\ state' = [state EXCEPT ![c] = "waiting"]
    /\ rx' = [rx EXCEPT ![c] =
                 @ \o <<Part(sent[c] + 1, "header"), Part(sent[c] + 1, "body")>>]
    /\ IF c \in open THEN Arrival(c) ELSE UNCHANGED <<ready, merged>>
    /\ UNCHANGED <<loopVars, thread, phase, conf, open, backlog, skew>>

(* The client's process ends.                                              *)
End(c) ==
    /\ state[c] \in {"idle", "waiting"}
    /\ state' = [state EXCEPT ![c] = "ended"]
    /\ IF c \in open THEN Arrival(c) ELSE UNCHANGED <<ready, merged>>
    /\ UNCHANGED <<loopVars, thread, phase, conf, open, backlog, rx, sent, skew>>

Main == EpollWait \/ AcceptOne \/ StartThread

Run(t) == TakeSlot(t) \/ ReadHeader(t) \/ ReadBody(t) \/ ReadFails(t) \/ Answer(t)

Next ==
    \/ Start \/ Main
    \/ \E t \in Thread : Run(t)
    \/ \E c \in Conn : Connect(c) \/ Send(c) \/ End(c)

Spec == Init /\ [][Next]_vars

(* The loop and every thread go on when they can; clients need do nothing. *)
FairSpec == Spec /\ WF_vars(Main) /\ \A t \in Thread : WF_vars(Run(t))
----------------------------------------------------------------------------
TypeOK ==
    /\ events \in [Slot -> Descriptor]
    /\ ret \in 0 .. Cardinality(Conn) + 1 /\ next \in 1 .. Cardinality(Conn) + 2
    /\ thread \in [Thread -> [pc : {"free", "start", "head", "body", "work"},
                              slot : Slot, for : Descriptor, fd : Descriptor,
                              packet : 0 .. MaxPackets]]
    /\ phase \in {"boot", "up", "exited"}
    /\ conf \in Seq(Lines)
    /\ open \subseteq Descriptor
    /\ ready \in Seq(Descriptor) /\ backlog \in Seq(Conn)
    /\ rx \in [Conn -> Seq([packet : 1 .. MaxPackets, kind : {"header", "body"}])]
    /\ state \in [Conn -> {"new", "idle", "waiting", "ended"}]
    /\ sent \in [Conn -> 0 .. MaxPackets]
    /\ merged \in [Descriptor -> Nat]
    /\ skew \in [Descriptor -> Int]

(* The parser consumes characters before it knows what they are, and stops *)
(* after 15 or 5 of a value whether it is over or not (init.c:42-66).  Of  *)
(* a file it may be given, each line ended, it still makes what the lines  *)
(* say; what lies behind the file does not matter.                         *)
ConfRight ==
    phase = "boot" =>
        \A beyond \in Behind : Parse(Text(conf), beyond) = Meaning(conf)

(* The events of f that are still to be served: in ready, in a slot the    *)
(* loop has not come to, or in the hands of a thread that has read nothing *)
(* - which serves what is in its slot, once it has looked.                 *)
InReady(f) == IF Contains(ready, f) THEN 1 ELSE 0
InSlots(f) == Cardinality({s \in next .. ret : events[s] = f})
InThreads(f) ==
    Cardinality({t \in Thread : \/ thread[t].pc = "start" /\ thread[t].for = f
                                \/ thread[t].pc = "head" /\ thread[t].fd = f})
Due(f) == InReady(f) + InSlots(f) + InThreads(f)

HalfRead(c) == Cardinality({t \in Thread : thread[t].pc = "body" /\ thread[t].fd = c})

(* Every event starts one accept or one thread, which takes one packet or  *)
(* one end of file: what lies unread with nobody coming for it is what     *)
(* arrived while an event was waiting to be fetched (server.c:33, :64 -    *)
(* one accept, one packet per edge), or what a thread left that was sent   *)
(* elsewhere by its slot (server.c:41).                                    *)
EventsAccounted ==
    /\ up /\ Listen \in open =>
          Len(backlog) = merged[Listen] + Due(Listen) + skew[Listen]
    /\ \A c \in Conn \cap open : up =>
          Len(rx[c]) + (IF state[c] = "ended" THEN 2 ELSE 0)
             = 2 * (merged[c] + Due(c) + skew[c]) + HalfRead(c)

Overtaken == \E f \in Descriptor : skew[f] # 0

(* Two reads take a packet (socket.c:136, :150) and nothing makes them one *)
(* step.  A client that waits for its answers, as the register and login   *)
(* dialogues do, still has every packet read by one thread: unless a       *)
(* thread came to the wrong descriptor, or the client is killed while it   *)
(* waits and the thread for its end takes the body.                        *)
WholePackets ==
    \A t \in Thread :
        LET fd == thread[t].fd IN
        /\ up /\ fd \in (Conn \cap open) \ Eager /\ ~Overtaken
        /\ state[fd] # "ended" /\ rx[fd] # << >>
        => CASE thread[t].pc = "head" -> Head(rx[fd]).kind = "header"
             [] thread[t].pc = "body" -> Head(rx[fd]) = Part(thread[t].packet, "body")
             [] OTHER -> TRUE

(* Such a client is answered, unless its connection is one of those that   *)
(* arrived with another's and were left in the backlog (server.c:33).      *)
Served ==
    \A c \in Conn \ Eager :
        state[c] = "waiting" ~>
            state[c] # "waiting" \/ Overtaken \/ merged[Listen] > 0
============================================================================
