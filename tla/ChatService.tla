---------------------------- MODULE ChatService ----------------------------
(***************************************************************************)
(* What the chat of project/ promises its users about accounts and         *)
(* friendships, whichever handlers run at the same time, whichever queries *)
(* fail and whoever hangs up: accounts appear whole and one at a time, a   *)
(* new id is shown to one user only, a friendship holds for both sides or  *)
(* for none, and nobody is told of a friendship that does not hold.        *)
(*                                                                         *)
(* The server of ChatServer does each of these things by several queries   *)
(* of server_action.c and a packet, between which everything else goes on; *)
(* here each is one step.  ChatSystem says how the two correspond.         *)
(***************************************************************************)
CONSTANTS
    Conn,          \* the clients
    Id,            \* user ids, 0 not among them
    InitAccounts,  \* the accounts and friendships of earlier runs
    InitPairs

VARIABLES
    accounts,  \* the ids that have both their row in user and their table
    free,      \* those registered in this run that no user has been shown
    shown,     \* shown[c]: the id on the screen of a user who registered, or 0
    pairs,     \* <<a, b>>: a and b are in the tables of each other
    agreed     \* agreed[c]: <<a, b>>: user a has read at c that b accepted

vars == <<accounts, free, shown, pairs, agreed>>

Init ==
    /\ accounts = InitAccounts
    /\ free = {}
    /\ shown = [c \in Conn |-> 0]
    /\ pairs = InitPairs
    /\ agreed = [c \in Conn |-> {}]

(* A registration makes an account that did not exist.                     *)
Create(id) ==
    /\ id \notin accounts
    /\ accounts' = accounts \cup {id}
    /\ free' = free \cup {id}
    /\ UNCHANGED <<shown, pairs, agreed>>

(* Its id is displayed, to a single user ...                               *)
Show(c, id) ==
    /\ id \in free
    /\ free' = free \ {id}
    /\ shown' = [shown EXCEPT ![c] = id]
    /\ UNCHANGED <<accounts, pairs, agreed>>

(* ... or to none: the reply cannot be sent, or nobody waits for it.       *)
Lose(id) ==
    /\ free' = free \ {id}
    /\ UNCHANGED <<accounts, shown, pairs, agreed>>

(* The user goes back to the registration dialogue.                        *)
Clear(c) ==
    /\ shown' = [shown EXCEPT ![c] = 0]
    /\ UNCHANGED <<accounts, free, pairs, agreed>>

(* A friendship begins, for both at once.                                  *)
Befriend(a, b) ==
    /\ {a, b} \subseteq accounts
    /\ <<a, b>> \notin pairs
    /\ pairs' = pairs \cup {<<a, b>>, <<b, a>>}
    /\ UNCHANGED <<accounts, free, shown, agreed>>

(* A user reads that a request was accepted.                               *)
Hear(c, p) ==
    /\ p \in pairs
    /\ agreed' = [agreed EXCEPT ![c] = @ \cup {p}]
    /\ UNCHANGED <<accounts, free, shown, pairs>>

(* A client ends, and the replies on their way to it are lost.             *)
Leave(c) ==
    /\ shown' = [shown EXCEPT ![c] = 0]
    /\ agreed' = [agreed EXCEPT ![c] = {}]
    /\ free' \in SUBSET free
    /\ UNCHANGED <<accounts, pairs>>

Next ==
    \/ \E id \in Id : Create(id) \/ Lose(id)
    \/ \E a, b \in Id : Befriend(a, b)
    \/ \E c \in Conn : Clear(c) \/ Leave(c)
    \/ \E c \in Conn, id \in Id : Show(c, id)
    \/ \E c \in Conn, p \in Id \X Id : Hear(c, p)

Spec == Init /\ [][Next]_vars
----------------------------------------------------------------------------
(* What follows for the users: an account shown to one is not kept for     *)
(* another, nor shown to two, and what a user has read of friendships is   *)
(* so.                                                                     *)
ShownOnce ==
    /\ \A c \in Conn : shown[c] # 0 => shown[c] \in accounts \ free
    /\ \A c, d \in Conn : shown[c] # 0 /\ shown[c] = shown[d] => c = d

AgreedHolds == \A c \in Conn : agreed[c] \subseteq pairs
============================================================================
