----------------------------- MODULE AddrServer -----------------------------
(***************************************************************************)
(* UNIX-8-11/TCP_UDP/server.c: one thread that keeps the addresses of all  *)
(* connected clients, gives each an id, and writes the whole list to every *)
(* client whenever one comes or goes.                                      *)
(*                                                                         *)
(* The server never closes a descriptor, so a number stands for one        *)
(* connection for ever.  A client connects once: its name also stands for  *)
(* its connection, the descriptor accept() returns and its address.        *)
(***************************************************************************)
EXTENDS Integers, Sequences, SequencesExt

CONSTANTS
    Client,   \* the client processes
    Listen    \* the listening socket

ASSUME ListenAssumption == Listen \notin Client

VARIABLES
    online,    \* the list, newest first
    events,    \* what epoll_wait has returned and the loop has not handled
    wcli,      \* the receivers write_cli has still to come to
    serverUp,
    given,     \* ghost: given[c] is the id c's entry was added with, or 0
    \* The kernel
    backlog,   \* connections that are not accepted yet
    ready,     \* the edge-triggered events not yet fetched, oldest first
    chan,      \* chan[c]: what has been written to c and not read
    ended,     \* the clients that have ended after connecting
    hit        \* the ended clients that have been written to

processVars == <<online, events, wcli, serverUp, given>>
kernelVars == <<backlog, ready, chan, ended, hit>>
serverVars == <<processVars, kernelVars>>

FirstId == 1001

Entry == [id : Nat, cli : Client]

(* A node as it is sent: of the server's pointer, a client can use only    *)
(* whether it is NULL, which marks the end of a list.                      *)
Node == [id : Nat, cli : Client, last : BOOLEAN]

(* An event for f, unless one is waiting to be fetched already.            *)
Wake(f) == IF Contains(ready, f) THEN ready ELSE Append(ready, f)

(* Mutant: the id is counted from the length of the list.                  *)
NewIdCounted == FirstId + Len(online)

NewId == IF online = << >> THEN FirstId ELSE online[1].id + 1

AddList(c) == <<[id |-> NewId, cli |-> c]>> \o online

(* The list without its i-th entry.                                        *)
Unlink(i) ==
    [j \in 1 .. Len(online) - 1 |-> IF j < i THEN online[j] ELSE online[j + 1]]

(* del_list takes away the first entry of the descriptor.                  *)
IsFirst(i, c) ==
    /\ online[i].cli = c
    /\ \A j \in 1 .. i - 1 : online[j].cli # c

(* The nodes of a list, as they go over the wire.                          *)
Frame(list) ==
    [i \in 1 .. Len(list) |->
        [id |-> list[i].id, cli |-> list[i].cli, last |-> i = Len(list)]]

(* Mutant: the node at the end of the list, as if it had been appended.    *)
OwnNodeOldest(list) == Frame(list)[Len(list)]

(* What a new client is told of itself: the newest node.                   *)
OwnNode(list) == Frame(list)[1]

Receivers(list) == [i \in 1 .. Len(list) |-> list[i].cli]

(* Nodes written to c.  The first write to a client that has ended is      *)
(* answered by an RST, or returns the error of one that has come: only a   *)
(* second one can raise SIGPIPE, and nobody handles that.                  *)
Write(c, nodes) ==
    \/ /\ c \notin ended
       /\ chan' = [chan EXCEPT ![c] = @ \o nodes]
       /\ UNCHANGED <<hit, serverUp>>
    \/ /\ c \in ended
       /\ hit' = hit \cup {c}
       /\ \/ UNCHANGED serverUp
          \/ (c \in hit \/ Len(nodes) > 1) /\ serverUp' = FALSE
       /\ UNCHANGED chan

Running == serverUp /\ wcli = << >>
----------------------------------------------------------------------------
ServerInit ==
    /\ online = << >> /\ events = << >> /\ wcli = << >>
    /\ serverUp = TRUE
    /\ given = [c \in Client |-> 0]
    /\ backlog = << >> /\ ready = << >>
    /\ chan = [c \in Client |-> << >>]
    /\ ended = {} /\ hit = {}

EpollWait ==
    /\ Running
    /\ events = << >> /\ ready # << >>
    /\ events' = ready
    /\ ready' = << >>
    /\ UNCHANGED <<online, wcli, serverUp, given, backlog, chan, ended, hit>>

(* One accept for one event, however many connections wait.  The new       *)
(* client is told of itself before write_cli begins.  EPOLL_CTL_ADD finds  *)
(* a connection that has ended already.                                    *)
Accept ==
    /\ Running
    /\ events # << >> /\ Head(events) = Listen
    /\ events' = Tail(events)
    /\ backlog # << >>
    /\ LET c == Head(backlog)
           list == AddList(c)
       IN  /\ online' = list
           /\ given' = [given EXCEPT ![c] = list[1].id]
           /\ wcli' = Receivers(list)
           /\ Write(c, <<OwnNode(list)>>)
           /\ ready' = IF c \in ended THEN Wake(c) ELSE ready
    /\ backlog' = Tail(backlog)
    /\ UNCHANGED ended

(* Mutant: nobody is told.                                                 *)
ReadGoneSilent ==
    /\ Running
    /\ events # << >> /\ Head(events) # Listen
    /\ events' = Tail(events)
    /\ \E i \in 1 .. Len(online) : IsFirst(i, Head(events)) /\ online' = Unlink(i)
    /\ UNCHANGED <<wcli, serverUp, given, kernelVars>>

(* read() returns 0 or an error; clients never send anything.              *)
ReadGone ==
    /\ Running
    /\ events # << >> /\ Head(events) # Listen
    /\ events' = Tail(events)
    /\ LET c == Head(events)
       IN  \/ \E i \in 1 .. Len(online) :
                 /\ IsFirst(i, c)
                 /\ online' = Unlink(i)
                 /\ wcli' = Receivers(Unlink(i))
           \/ /\ \A i \in 1 .. Len(online) : online[i].cli # c
              /\ wcli' = Receivers(online)
              /\ UNCHANGED online
    /\ UNCHANGED <<serverUp, given, kernelVars>>

(* One turn of write_cli's outer loop: all nodes to one client.            *)
WriteCli ==
    /\ serverUp /\ wcli # << >>
    /\ wcli' = Tail(wcli)
    /\ Write(Head(wcli), Frame(online))
    /\ UNCHANGED <<online, events, given, backlog, ready, ended>>

ServerNext == EpollWait \/ Accept \/ ReadGone \/ WriteCli
============================================================================
