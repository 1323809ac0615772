----------------------------- MODULE AddrSystem -----------------------------
(***************************************************************************)
(* The server and the clients of UNIX-8-11/TCP_UDP together, and what they *)
(* owe each other: a list of peers that is whole and becomes right, and    *)
(* messages that reach whoever has the id.                                 *)
(***************************************************************************)
EXTENDS AddrClient

vars == <<serverVars, clientVars>>

Init == ServerInit /\ ClientInit

Next == (ServerNext /\ UNCHANGED clientVars) \/ ClientNext

Spec == Init /\ [][Next]_vars

(* The server's loop and each client's threads go on when they can.        *)
(* Nobody has to start, to end, or to type anything.                       *)
FairSpec ==
    /\ Spec
    /\ WF_vars(ServerNext /\ UNCHANGED clientVars)
    /\ \A c \in Client :
          /\ WF_vars(ReadOwn(c) \/ ReadOwnFails(c))
          /\ WF_vars(ReadNode(c))
----------------------------------------------------------------------------
Accepted(c) == given[c] # 0

TypeOK ==
    /\ online \in Seq(Entry)
    /\ events \in Seq(Client \cup {Listen})
    /\ wcli \in Seq(Client)
    /\ serverUp \in BOOLEAN
    /\ given \in [Client -> Nat]
    /\ backlog \in Seq(Client)
    /\ ready \in Seq(Client \cup {Listen})
    /\ chan \in [Client -> Seq(Node)]
    /\ ended \subseteq Client /\ hit \subseteq Client
    /\ main \in [Client -> MainPc]
    /\ mycnode \in [Client -> Node \cup {NoNode}]
    /\ \A c \in Client : main[c] = "recv" => mycnode[c] \in Node
    /\ view \in [Client -> Seq(Node)]
    /\ flag \in [Client -> BOOLEAN]
    /\ talk \in [Client -> Talk]
    /\ udp \subseteq Message
    /\ sends \in Nat

(* server.c:126 takes the newest entry's id and adds one, and del_list may *)
(* take away any entry: still no two clients that are online have one id,  *)
(* and none is listed twice.                                               *)
IdsDistinct ==
    \A i, j \in 1 .. Len(online) :
        i # j => /\ online[i].id # online[j].id
                 /\ online[i].cli # online[j].cli

(* The nodes server_con has still to read.                                 *)
Pending(c) == IF main[c] = "own" THEN Tail(chan[c]) ELSE chan[c]

(* What is under way to c ends where a list ends.                          *)
Whole(c) ==
    LET s == Pending(c) IN IF s = << >> THEN flag[c] ELSE s[Len(s)].last

(* After the first m nodes under way comes the list, and what comes before *)
(* it - the m-th node, or what has been read - ends where a list ends.     *)
Before(s, list, m, f) ==
    /\ \A k \in 1 .. Len(list) : s[m + k] = list[k]
    /\ IF m = 0 THEN f ELSE s[m].last

(* All that is under way belongs to the list, n nodes of which are read.   *)
Reading(s, list, n, f, v) ==
    /\ \A k \in 1 .. Len(s) : s[k] = list[k + n]
    /\ f = (s = << >>)
    /\ v = [k \in 1 .. n |-> list[1 + n - k]]

(* What is under way to c ends with the server's list; or c has begun to   *)
(* read that list, and holds what it has read of it.                       *)
Current(c) ==
    LET s == Pending(c)
        list == Frame(online)
    IN  IF Len(s) >= Len(list)
        THEN Before(s, list, Len(s) - Len(list), flag[c])
        ELSE Reading(s, list, Len(list) - Len(s), flag[c], view[c])

(* The nodes of all lists share one stream, cut by the mark of the last    *)
(* node alone (client.c:213).  The cuts never slip: once a client has read *)
(* what is under way, it stands between two lists, and holds exactly the   *)
(* server's if write_cli has no more to send it.                           *)
InStep ==
    \A c \in Client : serverUp /\ Alive(c) /\ Accepted(c) =>
        Whole(c) /\ (~Contains(wcli, c) => Current(c))

(* A message on its way to c was meant for the id c has been told is its   *)
(* own (client.c:55), unless its address was read from a list server_con   *)
(* was freeing (client.c:242).                                             *)
ForOwner ==
    \A m \in udp :
        ~m.freed /\ mycnode[m.to] # NoNode => mycnode[m.to].id = m.id

(* When the comings and goings are over, the server lists exactly the      *)
(* clients it has accepted and that live, and each of them holds that list *)
(* - unless the server has died of SIGPIPE, writing to one that had gone.  *)
Settled ==
    serverUp =>
        /\ {online[i].cli : i \in DOMAIN online} = {c \in Client : Alive(c) /\ Accepted(c)}
        /\ \A c \in Client : Alive(c) /\ Accepted(c)
              => view[c] = Reverse(Frame(online))

Converges == <>[]Settled
============================================================================
