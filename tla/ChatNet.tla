------------------------------ MODULE ChatNet ------------------------------
(***************************************************************************)
(* The TCP connections between the server and the client processes of      *)
(* project/, and the packets of comtype.h.  A client process connects once *)
(* in its life, so a connection also names the process, and stands for its *)
(* address in the Online_node packets.                                     *)
(*                                                                         *)
(* A packet is one PACK_HEADER with its body; Write sends it by one write. *)
(***************************************************************************)
EXTENDS Integers, Sequences

CONSTANTS
    Conn, NoConn,  \* the connections; no connection
    Fd, NoFd,      \* the server's descriptors, and a number that is none
    Id, Pwd        \* user ids (bounds the user table); passwords

ASSUME ConnAssumption == NoConn \notin Conn
ASSUME FdAssumption   == Fd \subseteq Nat /\ NoFd \in Int \ Nat
ASSUME IdAssumption   == Id \subseteq Nat \ {0}

VARIABLES
    link,  \* link[c]: the state of the connection, below
    rx,    \* rx[c]: sent by the client, not yet read by the server
    tx     \* tx[c]: sent by the server, not yet read by the client

netVars == <<link, rx, tx>>

(* "none"    not connected           "syn"   connected, not yet accepted   *)
(* "open"    both ends open          "shut"  the server has closed its end *)
(* "gone"    the client's process has ended and the server has an event    *)
(*           for it                                                        *)
(* "reaped"  a server thread has taken that event                          *)
(* "dead"    both ends closed                                              *)
LinkState == {"none", "syn", "open", "shut", "gone", "reaped", "dead"}

(* What the server knows of an online user: an Online_node.                *)
Entry == [id : Id \cup {0}, fd : Fd \cup {NoFd}, addr : Conn \cup {NoConn}]

(* The content of a node after free(), when its memory has no new owner.   *)
Garbage == [id |-> 0, fd |-> NoFd, addr |-> NoConn]

ToServer ==
    [op : {"REGISTER"}, pwd : Pwd]
        \cup [op : {"LOGIN"}, id : Id, pwd : Pwd]
        \cup [op : {"OFFLINE"}, id : Id]
        \cup [op : {"ADD_FRIEND"}, src : Id, dst : Id]
        \cup [op : {"ALLOW_ADDF"}, src : Id, dst : Id, ans : 0 .. 1]

ToClient ==
    [op : {"REGISTER_SUCCESS"}, id : Id \cup {-1}]
        \cup [op : {"LOGIN_FEEDBACK"}, flag : -3 .. 0]
        \cup [op : {"ONLINE"}, who : Entry]
        \cup [op : {"OFFLINE"}, id : Id \cup {0}]
        \cup [op : {"ALLOW_DISCONNECT"}]
        \cup [op : {"ADD_FRIEND"}, src : Id, dst : Id]
        \cup [op : {"ALLOW_ADDF"}, src : Id, dst : Id, ans : 0 .. 4]

NetTypeOK ==
    /\ link \in [Conn -> LinkState]
    /\ rx \in [Conn -> Seq(ToServer)]
    /\ tx \in [Conn -> Seq(ToClient)]

NetInit ==
    /\ link = [c \in Conn |-> "none"]
    /\ rx = [c \in Conn |-> << >>]
    /\ tx = [c \in Conn |-> << >>]

(* The client's Write_client: nobody reads what is sent to a closed end.   *)
ClientSend(c, packet) ==
    /\ rx' = IF link[c] \in {"syn", "open"}
             THEN [rx EXCEPT ![c] = Append(@, packet)] ELSE rx
    /\ UNCHANGED link

(* The client's process ends: its kernel closes the connection.            *)
ClientGone(c) ==
    /\ link' = [link EXCEPT ![c] = IF @ = "open" THEN "gone" ELSE "dead"]
    /\ tx' = [tx EXCEPT ![c] = << >>]
    /\ UNCHANGED rx

(* close() of the server's end.                                            *)
ServerClosed(c) ==
    /\ link' = [link EXCEPT ![c] = IF @ = "open" THEN "shut" ELSE "dead"]
    /\ rx' = [rx EXCEPT ![c] = << >>]

(* The server's process ends: its kernel closes every connection.          *)
ServerGone ==
    /\ link' = [c \in Conn |->
                  CASE link[c] \in {"syn", "open"}    -> "shut"
                    [] link[c] \in {"gone", "reaped"} -> "dead"
                    [] OTHER                          -> link[c]]
    /\ rx' = [c \in Conn |-> << >>]
    /\ UNCHANGED tx
============================================================================
