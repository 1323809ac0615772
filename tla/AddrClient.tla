----------------------------- MODULE AddrClient -----------------------------
(***************************************************************************)
(* UNIX-8-11/TCP_UDP/client.c: the main thread reads the client's own node *)
(* and then UDP messages; server_con replaces the list of peers with every *)
(* list the server sends; send_cli looks up the id the user types and      *)
(* sends a message to the address found.  The threads share the list and   *)
(* no lock.                                                                *)
(***************************************************************************)
EXTENDS AddrServer

CONSTANTS
    NoNode,     \* no node read yet
    Leaver,     \* the clients that may end at any moment
    Talker,     \* the clients whose user types ids
    MaxSends    \* bounds the ids users type

ASSUME NodeAssumption == NoNode \notin Node
ASSUME UserAssumption ==
    Leaver \subseteq Client /\ Talker \subseteq Client /\ MaxSends \in Nat

VARIABLES
    main,      \* main[c]: where c's main thread is
    mycnode,   \* mycnode[c]: the node c has read about itself
    view,      \* view[c]: c's list
    flag,      \* flag[c]: the next node read starts a new list
    talk,      \* talk[c]: send_cli: its position, the id typed, the nodes its
               \*   pointer can reach, and whether these have been freed
    udp,       \* the messages under way
    sends      \* the ids typed so far

clientVars == <<main, mycnode, view, flag, talk, udp, sends>>

MainPc == {"connect", "own", "recv", "gone"}

(* A message: whom it goes to, the id it was meant for, and whether its    *)
(* address was read from freed memory.                                     *)
Message == [to : Client, id : Nat, freed : BOOLEAN]

Talk == [pc : {"id", "search", "text"}, id : Nat,
         nodes : Seq(Node), freed : BOOLEAN]

Idle == [pc |-> "id", id |-> 0, nodes |-> << >>, freed |-> FALSE]

Alive(c) == main[c] \notin {"connect", "gone"}

(* The end of c's process: its memory goes, and what it has not read; the  *)
(* server's kernel sees a hang-up.                                         *)
HangUp(c) ==
    /\ main' = [main EXCEPT ![c] = "gone"]
    /\ mycnode' = [mycnode EXCEPT ![c] = NoNode]
    /\ view' = [view EXCEPT ![c] = << >>]
    /\ flag' = [flag EXCEPT ![c] = TRUE]
    /\ talk' = [talk EXCEPT ![c] = Idle]
    /\ chan' = [chan EXCEPT ![c] = << >>]
    /\ ended' = ended \cup {c}
    /\ ready' = IF given[c] # 0 THEN Wake(c) ELSE ready
----------------------------------------------------------------------------
ClientInit ==
    /\ main = [c \in Client |-> "connect"]
    /\ mycnode = [c \in Client |-> NoNode]
    /\ view = [c \in Client |-> << >>]
    /\ flag = [c \in Client |-> TRUE]
    /\ talk = [c \in Client |-> Idle]
    /\ udp = {} /\ sends = 0

Connect(c) ==
    /\ main[c] = "connect"
    /\ \/ /\ serverUp
          /\ main' = [main EXCEPT ![c] = "own"]
          /\ backlog' = Append(backlog, c)
          /\ ready' = Wake(Listen)
       \/ /\ ~serverUp
          /\ main' = [main EXCEPT ![c] = "gone"]
          /\ UNCHANGED <<backlog, ready>>
    /\ UNCHANGED <<processVars, chan, ended, hit,
                   mycnode, view, flag, talk, udp, sends>>

(* Mutant: myid is set, mycnode is not (a local variable of that name).    *)
ReadOwnLocal(c) ==
    /\ main[c] = "own" /\ chan[c] # << >>
    /\ chan' = [chan EXCEPT ![c] = Tail(@)]
    /\ main' = [main EXCEPT ![c] = "recv"]
    /\ UNCHANGED <<processVars, backlog, ready, ended, hit,
                   mycnode, view, flag, talk, udp, sends>>

(* The first node is the client itself.  Then the UDP socket is bound to   *)
(* its address and the two threads start; a bind that fails is a Leave.    *)
ReadOwn(c) ==
    /\ main[c] = "own" /\ chan[c] # << >>
    /\ mycnode' = [mycnode EXCEPT ![c] = Head(chan[c])]
    /\ chan' = [chan EXCEPT ![c] = Tail(@)]
    /\ main' = [main EXCEPT ![c] = "recv"]
    /\ UNCHANGED <<processVars, backlog, ready, ended, hit,
                   view, flag, talk, udp, sends>>

(* The server has gone before it told the client of itself.                *)
ReadOwnFails(c) ==
    /\ main[c] = "own" /\ chan[c] = << >> /\ ~serverUp
    /\ HangUp(c)
    /\ UNCHANGED <<processVars, backlog, hit, udp, sends>>

(* Mutant: flag is set once, outside of receive_from_server.               *)
ReadNodeOnce(c) ==
    /\ main[c] = "recv" /\ chan[c] # << >>
    /\ view' = [view EXCEPT ![c] = <<Head(chan[c])>> \o @]
    /\ flag' = [flag EXCEPT ![c] = FALSE]
    /\ chan' = [chan EXCEPT ![c] = Tail(@)]
    /\ UNCHANGED <<processVars, backlog, ready, ended, hit,
                   main, mycnode, talk, udp, sends>>

(* A turn of receive_from_server: the first node destroys the old list,    *)
(* each is put in front of the others, and the last one ends the call.  At *)
(* the end of file the thread runs in circles and changes nothing.         *)
ReadNode(c) ==
    /\ main[c] = "recv" /\ chan[c] # << >>
    /\ LET node == Head(chan[c])
           kept == IF flag[c] THEN << >> ELSE view[c]
       IN  /\ view' = [view EXCEPT ![c] = <<node>> \o kept]
           /\ flag' = [flag EXCEPT ![c] = node.last]
    /\ talk' = IF flag[c] /\ talk[c].nodes # << >>
               THEN [talk EXCEPT ![c].freed = TRUE, ![c].nodes = << >>]
               ELSE talk
    /\ chan' = [chan EXCEPT ![c] = Tail(@)]
    /\ UNCHANGED <<processVars, backlog, ready, ended, hit,
                   main, mycnode, udp, sends>>

(* The user types an id and search() takes the first node of the list.     *)
TypeId(c, i) ==
    /\ main[c] = "recv" /\ talk[c].pc = "id"
    /\ c \in Talker /\ sends < MaxSends
    /\ sends' = sends + 1
    /\ talk' = [talk EXCEPT ![c] =
           [pc |-> "search", id |-> i, nodes |-> view[c], freed |-> FALSE]]
    /\ UNCHANGED <<serverVars, main, mycnode, view, flag, udp>>

(* search() ends on the first node with the id, or on NULL.                *)
Found(c) ==
    /\ main[c] = "recv" /\ talk[c].pc = "search" /\ ~talk[c].freed
    /\ \E k \in 1 .. Len(talk[c].nodes) :
          /\ talk[c].nodes[k].id = talk[c].id
          /\ \A j \in 1 .. k - 1 : talk[c].nodes[j].id # talk[c].id
          /\ talk' = [talk EXCEPT ![c].pc = "text",
                                  ![c].nodes = <<talk[c].nodes[k]>>]
    /\ UNCHANGED <<serverVars, main, mycnode, view, flag, udp, sends>>

NotOnline(c) ==
    /\ main[c] = "recv" /\ talk[c].pc = "search"
    /\ \/ talk[c].freed
       \/ \A k \in 1 .. Len(talk[c].nodes) : talk[c].nodes[k].id # talk[c].id
    /\ talk' = [talk EXCEPT ![c] = Idle]
    /\ UNCHANGED <<serverVars, main, mycnode, view, flag, udp, sends>>

(* A walk over freed nodes may also stop on one of them.                   *)
FoundFreed(c) ==
    /\ main[c] = "recv" /\ talk[c].pc = "search" /\ talk[c].freed
    /\ talk' = [talk EXCEPT ![c].pc = "text"]
    /\ UNCHANGED <<serverVars, main, mycnode, view, flag, udp, sends>>

(* sendto() to the address in the node found.  A freed node may have been  *)
(* given to another client's entry, or hold no address any more.           *)
SendTo(c) ==
    /\ main[c] = "recv" /\ talk[c].pc = "text"
    /\ \/ /\ ~talk[c].freed
          /\ udp' = udp \cup {[to |-> talk[c].nodes[1].cli, id |-> talk[c].id,
                               freed |-> FALSE]}
       \/ /\ talk[c].freed
          /\ \E d \in Client :
                udp' = udp \cup {[to |-> d, id |-> talk[c].id, freed |-> TRUE]}
       \/ talk[c].freed /\ UNCHANGED udp
    /\ talk' = [talk EXCEPT ![c] = Idle]
    /\ UNCHANGED <<serverVars, main, mycnode, view, flag, sends>>

RecvFrom(c) ==
    /\ main[c] = "recv"
    /\ \E m \in udp : m.to = c /\ udp' = udp \ {m}
    /\ UNCHANGED <<serverVars, main, mycnode, view, flag, talk, sends>>

(* Nobody is bound to the address, or the network drops the message.       *)
LoseMessage(m) ==
    /\ udp' = udp \ {m}
    /\ UNCHANGED <<serverVars, main, mycnode, view, flag, talk, sends>>

(* The user ends the program; or a search ends it, over freed nodes or     *)
(* before server_con has made the list at all (client.c:178).              *)
Leave(c) ==
    /\ Alive(c)
    /\ \/ c \in Leaver
       \/ talk[c].pc = "search" /\ (talk[c].freed \/ view[c] = << >>)
    /\ HangUp(c)
    /\ UNCHANGED <<processVars, backlog, hit, udp, sends>>

(* What users type: any id that has been given out, be its client gone.    *)
Typed == {given[c] : c \in Client} \ {0}

ClientNext ==
    \/ \E c \in Client :
          \/ Connect(c) \/ ReadOwn(c) \/ ReadOwnFails(c) \/ ReadNode(c)
          \/ \E i \in Typed : TypeId(c, i)
          \/ Found(c) \/ NotOnline(c) \/ FoundFreed(c) \/ SendTo(c)
          \/ RecvFrom(c) \/ Leave(c)
    \/ \E m \in udp : LoseMessage(m)
============================================================================
