----------------------------- MODULE ChatSystem -----------------------------
(***************************************************************************)
(* The server of ChatServer and the clients of ChatClient over the         *)
(* connections of ChatNet, and what the two owe each other.                *)
(***************************************************************************)
EXTENDS ChatServer, ChatClient

(* What the run starts with was left by an earlier one of the same server: *)
(* a table is created for an id read from user, whose rows stay; an id is  *)
(* told to a user after its table has been created; and the friendships in *)
(* the tables are mutual.                                                  *)
ASSUME TablesAssumption ==
    /\ DOMAIN InitFriends \subseteq 1 .. Len(InitUsers)
    /\ \A c \in Conn : \A a \in Account[c] : a.id \in DOMAIN InitFriends
    /\ \A a \in DOMAIN InitFriends : \A b \in InitFriends[a] :
          b \in DOMAIN InitFriends /\ a \in InitFriends[b]

vars == <<netVars, serverVars, clientVars>>

Init == NetInit /\ ServerInit /\ ClientInit

(* connect() is refused once the server's process is gone.                 *)
Refused(c) ==
    /\ cli[c] = "off" /\ ~up
    /\ Become(c, "dead")
    /\ UNCHANGED <<netVars, mine, plist, told, sent, heard>>

AcceptStep(c) == Accept(c) /\ UNCHANGED clientVars
ThreadStep(t) == ServerStep(t) /\ UNCHANGED clientVars
UserStep(c) == (UserActs(c) \/ (up /\ Connect(c))) /\ UNCHANGED serverVars
ClientStep(c) == (ClientReacts(c) \/ Refused(c)) /\ UNCHANGED serverVars

Next ==
    \/ \E c \in Conn : AcceptStep(c) \/ UserStep(c) \/ ClientStep(c)
    \/ \E t \in Thread : ThreadStep(t)

Spec == Init /\ [][Next]_vars

(* The kernel runs a handler that has begun and the threads of the clients *)
(* that have something to do.  No user has to do anything, except that a   *)
(* request for friendship gets its answer typed.  Nothing is assumed of    *)
(* main's loop: that every connection is accepted and every packet gets a  *)
(* handler is more than its edge-triggered events promise.                 *)
FairSpec ==
    /\ Spec
    /\ \A t \in Thread : WF_vars(Handler(t) /\ UNCHANGED clientVars)
    /\ \A c \in Conn : WF_vars(ClientStep(c))
----------------------------------------------------------------------------
(* ChatService in this system: an account is free while its id has not     *)
(* been sent, and while the packet that has it is on its way.              *)
InFlight ==
    {m.id : m \in {n \in UNION {Range(tx[c]) : c \in Conn} :
                     n.op = "REGISTER_SUCCESS" /\ n.id # -1}}

(* The accounts that have their row and their table.                       *)
Complete == UserIds \cap DOMAIN friends

Free == Complete \ (DOMAIN InitFriends \cup (issued \ InFlight))

Mutual(table) ==
    {p \in Id \X Id : /\ p[1] \in DOMAIN table /\ p[2] \in table[p[1]]
                     /\ p[2] \in DOMAIN table /\ p[1] \in table[p[2]]}

Shown == [c \in Conn |-> IF told[c] = None THEN 0 ELSE told[c].id]

(* mine[c], c's user, has been told by h.dst's.                            *)
Agreed == [c \in Conn |-> {<<mine[c], h.dst>> : h \in {g \in heard[c] : g.ans = 1}}]

Service == INSTANCE ChatService WITH
    InitAccounts <- DOMAIN InitFriends,
    InitPairs <- Mutual(InitFriends),
    accounts <- Complete,
    free <- Free,
    shown <- Shown,
    pairs <- Mutual(friends),
    agreed <- Agreed

(* register_action and allow_addf_action, each several queries with other  *)
(* handlers and failures between them, look to the users like single steps *)
(* of ChatService.                                                         *)
KeepsPromises == Service!Spec
----------------------------------------------------------------------------
(* Nothing is running, in flight or pending.                               *)
Quiet ==
    /\ up
    /\ \A t \in Thread : stack[t] = << >>
    /\ \A c \in Conn : rx[c] = << >> /\ tx[c] = << >> /\ link[c] # "gone"

(* Every variable has its type; in particular no handler passes on an id   *)
(* outside the user table or an entry it has not filled in.                *)
TypeOK == NetTypeOK /\ ServerTypeOK /\ ClientTypeOK

(* register_action reads max(id) some time after its insert, when another  *)
(* registration may have inserted too; only one of the two may send that   *)
(* id: what a thread is about to send has been sent by no other.           *)
IdsIssuedOnce ==
    \A t \in Thread : At(t, "reg_reply") /\ Top(t).id # -1 => Top(t).id \notin issued

(* "your id is %d": an id a client has displayed after register_action has *)
(* both its row in user and its friends table, whatever query has failed.  *)
ToldIdExists ==
    \A c \in Conn :
        told[c] # None /\ told[c].id # 0 =>
            told[c].id \in UserIds \cap DOMAIN friends

(* A thread is at work on a packet of c with this optype.  (Once a         *)
(* descriptor number is given out again, the handlers of its first         *)
(* connection would count as the second one's: those are left out.)        *)
Serving(c, op) ==
    \E t \in Thread :
        /\ stack[t] # << >>
        /\ LET f == stack[t][1] IN
              /\ f.pkt # NoPkt /\ f.pkt.op = op /\ f.at # "done"
              /\ fdt[f.fd] = c /\ accepts[f.fd] = 1

(* Register_Iface_mgmt blocks in Read_client after its request: every path *)
(* of register_action answers it, or the connection breaks.                *)
RegisterAnswered ==
    \A c \in Conn :
        Serving(c, "REGISTER") /\ cli[c] = "reg_wait" ~> cli[c] # "reg_wait"

(* The same for Login_Iface_mgmt and every path of login_action.           *)
LoginAnswered ==
    \A c \in Conn :
        Serving(c, "LOGIN") /\ cli[c] = "log_wait" ~> cli[c] # "log_wait"

(* allow_addf_action writes a friendship with two inserts and no           *)
(* transaction, and two users may be accepting each other at once: a row   *)
(* without its mirror is one whose mirror is about to be inserted, or was  *)
(* kept out by a fault.                                                    *)
FriendsSymmetric ==
    \A a \in DOMAIN friends : \A b \in friends[a] :
        \/ b \in DOMAIN friends /\ a \in friends[b]
        \/ \E t \in Thread : \E i \in DOMAIN stack[t] :
              LET f == stack[t][i] IN
              f.at = "alw_ins2" /\ f.pkt.src = a /\ f.pkt.dst = b
        \/ <<b, a>> \in lost

(* A user who is told that a request was accepted (1 in comtype.h) has the *)
(* other as a friend, and the other has it, in the tables of both.         *)
AcceptTold ==
    \A c \in Conn : \A h \in heard[c] :
        h.ans = 1 => h.dst \in friends[mine[c]] /\ mine[c] \in friends[h.dst]

(* login_action adds the new user before it looks its friends up, so of    *)
(* two friends who log in at the same time one finds the other: once all   *)
(* has settled, each has the other in its list.                            *)
PresenceComplete ==
    Quiet => \A c, d \in Conn :
        cli[c] = "in" /\ cli[d] = "in" /\ mine[d] \in friends[mine[c]] =>
            \E i \in DOMAIN plist[c] : plist[c][i].addr = d

(* offline_action, by whichever of the failed read, a failed write and the *)
(* user's own request it comes to run: once all has settled, the entry of  *)
(* a logged-in client that has ended is gone from the online list.  While  *)
(* that client's descriptor number has been given to another connection,   *)
(* the search by descriptor may take the one for the other, so that case   *)
(* is left out.                                                            *)
GoneUsersLeave ==
    Quiet => \A i \in DOMAIN online :
        cli[online[i].addr] = "left" => accepts[online[i].fd] > 1

(* 'E' in the client sends OP_OFFLINE and waits to be told to disconnect:  *)
(* once offline_action has begun on the request the client comes to an     *)
(* end, though every query and write on the way may fail.                  *)
OfflineEnds ==
    \A c \in Conn : Serving(c, "OFFLINE") ~> cli[c] \in {"left", "dead"}

(* comtype.h and offline_action say that the id -1 stands for a descriptor *)
(* that has no entry in the online list.                                   *)
MinusOneMeansNoEntry ==
    \A t \in Thread : At(t, "off_ctl") /\ Top(t).id = -1 =>
        \A i \in DOMAIN online : online[i].fd # Top(t).fd
============================================================================
