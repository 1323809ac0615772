----------------------------- MODULE ChatClient -----------------------------
(***************************************************************************)
(* A chat client of project/ as the server sees it: the dialogues of       *)
(* menumgmt.c, which send a request and block for its reply, and then      *)
(* client.c's menu and its pthread_tcp, which works on what arrives.       *)
(*                                                                         *)
(* What the user types is a choice.  The screens, the peer-to-peer         *)
(* messages and the mutexes between the client's three threads are not in  *)
(* this module: it has what the server and the other clients can tell.     *)
(***************************************************************************)
EXTENDS ChatNet, FiniteSetsExt, SequencesExt

CONSTANTS
    Account,      \* Account[c]: the accounts the user of c knows from before
    Menu,         \* what users do: "register", "login", "add", "offline", "quit"
    MaxRequests,  \* how many packets a client sends of its own accord
    None

(* What the user types after a registration or from memory.                *)
Credentials == [id : Id \cup {0}, pwd : Pwd]

ASSUME AccountAssumption ==
    /\ Account \in [Conn -> SUBSET [id : Id, pwd : Pwd]]
    /\ None \notin Credentials
ASSUME BoundAssumption == MaxRequests \in Nat

VARIABLES
    cli,     \* cli[c]: where the client is
    mine,    \* mine[c]: mine.id, 0 before a login
    plist,   \* plist[c]: the client's POnline, oldest entry first
    told,    \* told[c]: the account it has been told it registered last
    sent,    \* sent[c]: the requests made, for MaxRequests
    heard    \* heard[c]: the answers to friend requests it has displayed

clientVars == <<cli, mine, plist, told, sent, heard>>

(* "off"       not started              "menu"      wel_Iface_mgmt         *)
(* "reg_wait"  Read_client for OP_REGISTER_SUCCESS                         *)
(* "login"     Login_Iface_mgmt after a refusal: no way back to the menu   *)
(* "log_wait"  Read_client for OP_LOGIN_FEEDBACK                           *)
(* "in"        logged in                                                   *)
(* "left"      exit after a login       "dead"      exit without one       *)
CliState == {"off", "menu", "reg_wait", "login", "log_wait", "in", "left", "dead"}

Become(c, state) == cli' = [cli EXCEPT ![c] = state]

(* exit: the process ends, and its memory with it.                         *)
Exit(c) ==
    /\ Become(c, IF cli[c] = "in" THEN "left" ELSE "dead")
    /\ mine' = [mine EXCEPT ![c] = 0]
    /\ plist' = [plist EXCEPT ![c] = << >>]
    /\ told' = [told EXCEPT ![c] = None]
    /\ heard' = [heard EXCEPT ![c] = {}]
    /\ ClientGone(c)
    /\ UNCHANGED sent

ClientInit ==
    /\ cli = [c \in Conn |-> "off"]
    /\ mine = [c \in Conn |-> 0]
    /\ plist = [c \in Conn |-> << >>]
    /\ told = [c \in Conn |-> None]
    /\ sent = [c \in Conn |-> 0]
    /\ heard = [c \in Conn |-> {}]

(* client_init: connect.                                                   *)
Connect(c) ==
    /\ cli[c] = "off"
    /\ Become(c, "menu")
    /\ link' = [link EXCEPT ![c] = "syn"]
    /\ UNCHANGED <<rx, tx, mine, plist, told, sent, heard>>

(* A choice of the user that sends a packet.                               *)
Request(c, packet, state) ==
    /\ sent[c] < MaxRequests
    /\ sent' = [sent EXCEPT ![c] = @ + 1]
    /\ Become(c, state)
    /\ ClientSend(c, packet)
    /\ UNCHANGED <<tx, plist, heard>>

(* Register_Iface_mgmt, to its Write_client.                               *)
Register(c) ==
    /\ "register" \in Menu /\ cli[c] = "menu"
    /\ \E pwd \in Pwd :
          /\ Request(c, [op |-> "REGISTER", pwd |-> pwd], "reg_wait")
          /\ told' = [told EXCEPT ![c] = [id |-> 0, pwd |-> pwd]]
    /\ UNCHANGED mine

(* Login_Iface_mgmt, to its Write_client, with an account known from       *)
(* before or just registered.  mine is user.id until the reply.            *)
Login(c) ==
    /\ "login" \in Menu /\ cli[c] \in {"menu", "login"}
    /\ \E a \in Account[c] \cup ({told[c]} \ {None}) :
          /\ a.id # 0
          /\ Request(c, [op |-> "LOGIN", id |-> a.id, pwd |-> a.pwd], "log_wait")
          /\ mine' = [mine EXCEPT ![c] = a.id]
    /\ UNCHANGED told

(* main: 'A', which refuses to befriend oneself.                           *)
AddFriend(c) ==
    /\ "add" \in Menu /\ cli[c] = "in"
    /\ \E id \in Id \ {mine[c]} :
          Request(c, [op |-> "ADD_FRIEND", src |-> mine[c], dst |-> id], "in")
    /\ UNCHANGED <<mine, told>>

(* main: 'E'.  The client goes on until it is told to disconnect.          *)
Offline(c) ==
    /\ "offline" \in Menu /\ cli[c] = "in"
    /\ Request(c, [op |-> "OFFLINE", id |-> mine[c]], "in")
    /\ UNCHANGED <<mine, told>>

(* 'E' in the first menu, and the end of the process for any other reason. *)
Quit(c) ==
    /\ "quit" \in Menu /\ cli[c] \notin {"off", "left", "dead"} /\ link[c] # "syn"
    /\ Exit(c)

(* Read_client: the next packet, with what the program does with it.       *)
Read(c, state, op) ==
    /\ cli[c] = state
    /\ tx[c] # << >> /\ Head(tx[c]).op \in op
    /\ tx' = [tx EXCEPT ![c] = Tail(@)]

(* Read_client fails when the server has closed the connection.            *)
Disconnected(c) ==
    /\ cli[c] \in {"reg_wait", "log_wait", "in"}
    /\ tx[c] = << >> /\ link[c] = "shut"
    /\ Exit(c)

(* Both dialogues exit(1) on a packet other than the reply they expect,    *)
(* and on the replies -1 of a registration and -2 of a login.              *)
DialogueExits(c) ==
    /\ tx[c] # << >>
    /\ LET pkt == Head(tx[c]) IN
          \/ /\ cli[c] = "reg_wait"
             /\ pkt.op = "REGISTER_SUCCESS" => pkt.id = -1
          \/ /\ cli[c] = "log_wait"
             /\ pkt.op = "LOGIN_FEEDBACK" => pkt.flag = -2
    /\ Exit(c)

(* "your id is %d".                                                        *)
Registered(c) ==
    /\ Read(c, "reg_wait", {"REGISTER_SUCCESS"})
    /\ Head(tx[c]).id # -1
    /\ told' = [told EXCEPT ![c].id = Head(tx[c]).id]
    /\ Become(c, "menu")
    /\ UNCHANGED <<link, rx, mine, plist, sent, heard>>

(* 0: logged in.  -1 and -3: the login dialogue again.                     *)
LoggedIn(c) ==
    /\ Read(c, "log_wait", {"LOGIN_FEEDBACK"})
    /\ \/ Head(tx[c]).flag = 0 /\ Become(c, "in")
       \/ Head(tx[c]).flag \in {-1, -3} /\ Become(c, "login")
    /\ UNCHANGED <<link, rx, mine, plist, told, sent, heard>>

(* pthread_tcp: online_action and offline_action.                          *)
OnlineAction(c) ==
    /\ Read(c, "in", {"ONLINE"})
    /\ plist' = [plist EXCEPT ![c] = Append(@, Head(tx[c]).who)]
    /\ UNCHANGED <<link, rx, cli, mine, told, sent, heard>>

(* del_list BY_ID: one entry, the newest.                                  *)
OfflineAction(c) ==
    LET id == Head(tx[c]).id
        match == {i \in DOMAIN plist[c] : plist[c][i].id = id}
    IN  /\ Read(c, "in", {"OFFLINE"})
        /\ plist' = IF match = {} THEN plist
                    ELSE [plist EXCEPT ![c] = RemoveAt(@, Max(match))]
        /\ UNCHANGED <<link, rx, cli, mine, told, sent, heard>>

AllowDisconnectAction(c) ==
    /\ cli[c] = "in"
    /\ tx[c] # << >> /\ Head(tx[c]).op = "ALLOW_DISCONNECT"
    /\ Exit(c)

(* add_friend_action: the whole of pthread_tcp waits for the user's answer *)
(* in the helper's terminal.                                               *)
AddFriendAction(c) ==
    /\ Read(c, "in", {"ADD_FRIEND"})
    /\ \E ans \in {0, 1} :
          ClientSend(c, [op |-> "ALLOW_ADDF", src |-> Head(tx[c]).src,
                         dst |-> Head(tx[c]).dst, ans |-> ans])
    /\ UNCHANGED clientVars

(* allow_addf_action displays the answers to this user's own requests.     *)
AllowAddfAction(c) ==
    LET pkt == Head(tx[c]) IN
    /\ Read(c, "in", {"ALLOW_ADDF"})
    /\ heard' = IF pkt.src = mine[c]
                THEN [heard EXCEPT ![c] = @ \cup {[dst |-> pkt.dst, ans |-> pkt.ans]}]
                ELSE heard
    /\ UNCHANGED <<link, rx, cli, mine, plist, told, sent>>

(* The replies that no dialogue waits for any more.                        *)
UnknownOptype(c) ==
    /\ Read(c, "in", {"REGISTER_SUCCESS", "LOGIN_FEEDBACK"})
    /\ UNCHANGED <<link, rx, clientVars>>

(* What a client does by itself, and what its user may do.                 *)
ClientReacts(c) ==
    \/ Disconnected(c) \/ DialogueExits(c) \/ Registered(c) \/ LoggedIn(c)
    \/ OnlineAction(c) \/ OfflineAction(c) \/ AllowDisconnectAction(c)
    \/ AddFriendAction(c) \/ AllowAddfAction(c) \/ UnknownOptype(c)

UserActs(c) ==
    Register(c) \/ Login(c) \/ AddFriend(c) \/ Offline(c) \/ Quit(c)

ClientTypeOK ==
    /\ cli \in [Conn -> CliState]
    /\ mine \in [Conn -> Id \cup {0}]
    /\ plist \in [Conn -> Seq(Entry)]
    /\ told \in [Conn -> Credentials \cup {None}]
    /\ sent \in [Conn -> 0 .. MaxRequests]
    /\ heard \in [Conn -> SUBSET [dst : Id, ans : 0 .. 4]]
============================================================================
