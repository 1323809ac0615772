----------------------------- MODULE ChatProofs -----------------------------
(***************************************************************************)
(* Proofs about ChatSystem: what the clients believe is so, and the        *)
(* invariants of the whole system.  ChatServerProofs has the server's      *)
(* half, ServerInv, and that a step of the server keeps it.                *)
(***************************************************************************)
EXTENDS ChatServerProofs

(* What a client takes for granted.  The answers it has heard are those to *)
(* the user it is logged in as.                                            *)
ClientRight(c) ==
    /\ cli[c] \in {"log_wait", "in"} => mine[c] \in Id
    /\ cli[c] = "reg_wait" => told[c] # None
    /\ told[c] # None /\ told[c].id # 0 => told[c].id \in Complete
    /\ heard[c] # {} => cli[c] = "in"
    /\ \A h \in heard[c] : h.ans = 1 => Row(mine[c], h.dst) /\ Row(h.dst, mine[c])

ClientInv == ClientTypeOK /\ \A c \in Conn : ClientRight(c)

(* The accounts known from before have tables.                             *)
AccountsRight == \A c \in Conn : \A a \in Account[c] : a.id \in DOMAIN friends

IInv == ServerInv /\ ClientInv /\ AccountsRight
----------------------------------------------------------------------------
(* Steps of the server: the tables grow under the clients.                 *)

LEMMA ServerKeepsClients ==
    ASSUME ClientInv, AccountsRight, Grown, UNCHANGED clientVars
    PROVE  ClientInv' /\ AccountsRight'
<1>1. UNCHANGED <<cli, mine, plist, told, sent, heard>>
  BY DEF clientVars
<1>2. ClientTypeOK'
  BY <1>1 DEF ClientInv, ClientTypeOK
<1>3. ASSUME NEW c \in Conn PROVE ClientRight(c)'
  <2>1. ClientRight(c)
    BY DEF ClientInv
  <2>2. Complete \subseteq Complete'
    BY GrownSets
  <2>3. PICK m : m = mine[c] /\ m = mine'[c]
    BY <1>1
  <2>4. \A h \in heard[c] : h.ans = 1 => Row(m, h.dst) /\ Row(h.dst, m)
    BY <2>1, <2>3 DEF ClientRight
  <2>5. \A h \in heard[c] : h.ans = 1 => Row(m, h.dst)' /\ Row(h.dst, m)'
    BY <2>4 DEF Grown
  <2>6. \A h \in heard'[c] :
           h.ans = 1 => /\ m \in DOMAIN friends' /\ h.dst \in friends'[m]
                        /\ h.dst \in DOMAIN friends' /\ m \in friends'[h.dst]
    BY <1>1, <2>5 DEF Row
  <2> QED
    BY <1>1, <2>1, <2>2, <2>3, <2>6 DEF ClientRight, Row
<1>4. AccountsRight'
  BY DEF AccountsRight, Grown
<1> QED
  BY <1>2, <1>3, <1>4 DEF ClientInv
----------------------------------------------------------------------------
(* Steps of the clients.                                                   *)

(* What a step of a client may do to the connections.                      *)
NetRight ==
    /\ link \in [Conn -> LinkState]
    /\ rx \in [Conn -> Seq(Requests)]
    /\ tx \in [Conn -> Seq(Replies)]

LEMMA ClientsKeepServer ==
    ASSUME ServerInv, AccountsRight, UNCHANGED serverVars, NetRight'
    PROVE  ServerInv' /\ AccountsRight'
<1>1. UNCHANGED <<users, friends, online, fdt, epset, up, stack, issued, accepts, lost>>
  BY DEF serverVars
<1>2. /\ link' \in [Conn -> LinkState]
      /\ rx' \in [Conn -> Seq(Requests)] /\ tx' \in [Conn -> Seq(Replies)]
  BY <1>1, TablesSame DEF NetRight
<1>3. DescriptorsRight'
  BY <1>1, <1>2 DEF ServerInv, DescriptorsRight
<1>4. AccountsRight'
  BY <1>1 DEF AccountsRight
<1> QED
  BY <1>1, <1>2, <1>3, <1>4, OthersKeep

LEMMA NetTyped ==
    ASSUME UNCHANGED <<users, friends>>, link' \in [Conn -> LinkState],
           rx' \in [Conn -> Seq(Requests)], tx' \in [Conn -> Seq(Replies)]
    PROVE  NetRight'
<1>1. Requests' = Requests /\ Replies' = Replies
  <2>1. Complete' = Complete
    BY DEF Complete, UserIds
  <2> QED
    BY <2>1 DEF Requests, Replies, Row
<1> QED
  BY <1>1 DEF NetRight

LEMMA SendTyped ==
    ASSUME ServerInv, NEW c \in Conn, NEW m \in Requests, ClientSend(c, m)
    PROVE  link' \in [Conn -> LinkState] /\ rx' \in [Conn -> Seq(Requests)]
<1>1. Append(rx[c], m) \in Seq(Requests)
  BY ServerTypes
<1> QED
  BY <1>1, ServerTypes DEF ClientSend

LEMMA ReadTyped ==
    ASSUME ServerInv, NEW c \in Conn, NEW state, NEW op, Read(c, state, op)
    PROVE  /\ Head(tx[c]) \in Replies /\ Head(tx[c]).op \in op /\ cli[c] = state
           /\ tx' \in [Conn -> Seq(Replies)]
<1>1. tx[c] \in Seq(Replies) /\ tx[c] # << >>
  BY ServerTypes DEF Read
<1>2. Head(tx[c]) \in Replies /\ Tail(tx[c]) \in Seq(Replies)
  BY <1>1
<1> QED
  BY <1>2, ServerTypes DEF Read

(* Only c's client has changed, and it is still right.                     *)
LEMMA ClientKept ==
    ASSUME ClientInv, UNCHANGED <<users, friends>>, NEW c \in Conn, ClientTypeOK',
           \A d \in Conn \ {c} :
              /\ cli'[d] = cli[d] /\ mine'[d] = mine[d]
              /\ told'[d] = told[d] /\ heard'[d] = heard[d],
           ClientRight(c)'
    PROVE  ClientInv'
<1>1. ASSUME NEW d \in Conn \ {c} PROVE ClientRight(d)'
  <2>1. ClientRight(d)
    BY DEF ClientInv
  <2>2. /\ cli'[d] = cli[d] /\ mine'[d] = mine[d]
        /\ told'[d] = told[d] /\ heard'[d] = heard[d]
    OBVIOUS
  <2> QED
    BY <2>1, <2>2 DEF ClientRight, Row, Complete, UserIds
<1> QED
  BY <1>1 DEF ClientInv

LEMMA ExitKeeps ==
    ASSUME ServerInv, ClientInv, NEW c \in Conn, Exit(c), UNCHANGED <<users, friends>>
    PROVE  ClientInv' /\ NetRight'
<1>1. /\ link' \in [Conn -> LinkState]
      /\ rx' \in [Conn -> Seq(Requests)] /\ tx' \in [Conn -> Seq(Replies)]
  BY ServerTypes DEF Exit, ClientGone, LinkState
<1>2. ClientTypeOK'
  BY DEF ClientInv, ClientTypeOK, Exit, Become, CliState
<1>3. ClientRight(c)'
  <2>1. cli'[c] \in {"left", "dead"} /\ told'[c] = None /\ heard'[c] = {}
    BY DEF ClientInv, ClientTypeOK, Exit, Become
  <2> QED
    BY <2>1 DEF ClientRight
<1>4. \A d \in Conn \ {c} :
         /\ cli'[d] = cli[d] /\ mine'[d] = mine[d]
         /\ told'[d] = told[d] /\ heard'[d] = heard[d]
  BY DEF ClientInv, ClientTypeOK, Exit, Become
<1>5. NetRight'
  BY <1>1, NetTyped
<1> QED
  BY <1>2, <1>3, <1>4, <1>5, ClientKept

(* The dialogues: a request is made, and its reply read.                   *)
LEMMA RegisterKeepsAll ==
    ASSUME ServerInv, ClientInv, NEW c \in Conn, Register(c),
           UNCHANGED <<users, friends>>
    PROVE  ClientInv' /\ NetRight'
<1>1. PICK pwd \in Pwd :
         /\ Request(c, [op |-> "REGISTER", pwd |-> pwd], "reg_wait")
         /\ told' = [told EXCEPT ![c] = [id |-> 0, pwd |-> pwd]]
         /\ mine' = mine /\ cli[c] = "menu"
  BY DEF Register
<1>2. PICK m : m = [op |-> "REGISTER", pwd |-> pwd]
  OBVIOUS
<1>3. m \in Requests
  BY <1>2 DEF Requests, ToServer
<1>4. /\ cli' = [cli EXCEPT ![c] = "reg_wait"] /\ ClientSend(c, m)
      /\ sent' = [sent EXCEPT ![c] = @ + 1] /\ sent[c] < MaxRequests
      /\ UNCHANGED <<tx, plist, heard>>
  BY <1>1, <1>2 DEF Request, Become
<1>5. NetRight'
  BY <1>3, <1>4, SendTyped, ServerTypes, NetTyped
<1>6. ClientTypeOK'
  <2>1. sent' \in [Conn -> 0 .. MaxRequests]
    BY <1>4, BoundAssumption DEF ClientInv, ClientTypeOK
  <2>2. [id |-> 0, pwd |-> pwd] \in Credentials
    BY DEF Credentials
  <2> QED
    BY <1>1, <1>4, <2>1, <2>2 DEF ClientInv, ClientTypeOK, CliState
<1>7. ClientRight(c)'
  <2>1. cli'[c] = "reg_wait" /\ told'[c] # None /\ told'[c].id = 0
    BY <1>1, <1>4, AccountAssumption DEF ClientInv, ClientTypeOK, Credentials
  <2>2. heard'[c] = {}
    BY <1>1, <1>4 DEF ClientInv, ClientRight
  <2> QED
    BY <2>1, <2>2 DEF ClientRight
<1>8. \A d \in Conn \ {c} :
         /\ cli'[d] = cli[d] /\ mine'[d] = mine[d]
         /\ told'[d] = told[d] /\ heard'[d] = heard[d]
  BY <1>1, <1>4 DEF ClientInv, ClientTypeOK
<1> QED
  BY <1>5, <1>6, <1>7, <1>8, ClientKept

LEMMA LoginKeepsAll ==
    ASSUME ServerInv, ClientInv, AccountsRight, NEW c \in Conn, Login(c),
           UNCHANGED <<users, friends>>
    PROVE  ClientInv' /\ NetRight'
<1>1. PICK a \in Account[c] \cup ({told[c]} \ {None}) :
         /\ a.id # 0
         /\ Request(c, [op |-> "LOGIN", id |-> a.id, pwd |-> a.pwd], "log_wait")
         /\ mine' = [mine EXCEPT ![c] = a.id]
         /\ told' = told /\ cli[c] \in {"menu", "login"}
  BY DEF Login
<1>2. PICK m : m = [op |-> "LOGIN", id |-> a.id, pwd |-> a.pwd]
  OBVIOUS
<1>3. a.id \in DOMAIN friends /\ a.id \in Id /\ a.pwd \in Pwd
  <2>1. CASE a \in Account[c]
    BY <2>1, AccountAssumption DEF AccountsRight
  <2>2. CASE a = told[c] /\ told[c] # None
    <3>1. a \in Credentials /\ a.id \in Complete
      BY <1>1, <2>2 DEF ClientInv, ClientTypeOK, ClientRight
    <3> QED
      BY <1>1, <3>1 DEF Credentials, Complete
  <2> QED
    BY <2>1, <2>2
<1>4. m \in Requests
  BY <1>2, <1>3 DEF Requests, ToServer
<1>5. /\ cli' = [cli EXCEPT ![c] = "log_wait"] /\ ClientSend(c, m)
      /\ sent' = [sent EXCEPT ![c] = @ + 1] /\ sent[c] < MaxRequests
      /\ UNCHANGED <<tx, plist, heard>>
  BY <1>1, <1>2 DEF Request, Become
<1>6. NetRight'
  BY <1>4, <1>5, SendTyped, ServerTypes, NetTyped
<1>7. ClientTypeOK'
  <2>1. sent' \in [Conn -> 0 .. MaxRequests]
    BY <1>5, BoundAssumption DEF ClientInv, ClientTypeOK
  <2> QED
    BY <1>1, <1>3, <1>5, <2>1 DEF ClientInv, ClientTypeOK, CliState
<1>8. ClientRight(c)'
  <2>1. /\ cli'[c] = "log_wait" /\ mine'[c] \in Id /\ told'[c] = told[c]
    BY <1>1, <1>3, <1>5 DEF ClientInv, ClientTypeOK
  <2>2. heard'[c] = {}
    BY <1>1, <1>5 DEF ClientInv, ClientRight
  <2>3. told[c] # None /\ told[c].id # 0 => told[c].id \in Complete'
    BY DEF ClientInv, ClientRight, Complete, UserIds
  <2> QED
    BY <2>1, <2>2, <2>3 DEF ClientRight
<1>9. \A d \in Conn \ {c} :
         /\ cli'[d] = cli[d] /\ mine'[d] = mine[d]
         /\ told'[d] = told[d] /\ heard'[d] = heard[d]
  BY <1>1, <1>5 DEF ClientInv, ClientTypeOK
<1> QED
  BY <1>6, <1>7, <1>8, <1>9, ClientKept

(* The client has displayed an id that exists.                             *)
LEMMA RegisteredKeeps ==
    ASSUME ServerInv, ClientInv, NEW c \in Conn, Registered(c),
           UNCHANGED <<users, friends>>
    PROVE  ClientInv' /\ NetRight'
<1>1. PICK m : m = Head(tx[c])
  OBVIOUS
<1>2. /\ Read(c, "reg_wait", {"REGISTER_SUCCESS"}) /\ m.id # -1
      /\ told' = [told EXCEPT ![c].id = m.id]
      /\ cli' = [cli EXCEPT ![c] = "menu"]
      /\ UNCHANGED <<link, rx, mine, plist, sent, heard>>
  BY <1>1 DEF Registered, Become
<1>3. /\ m \in Replies /\ m.op = "REGISTER_SUCCESS" /\ cli[c] = "reg_wait"
      /\ tx' \in [Conn -> Seq(Replies)]
  BY <1>1, <1>2, ReadTyped
<1>4. m.id \in Complete /\ m.id \in Id
  BY <1>2, <1>3 DEF Replies, ToClient, Complete, ServerInv, TablesRight
<1>5. NetRight'
  BY <1>2, <1>3, ServerTypes, NetTyped
<1>6. told[c] \in Credentials /\ told[c] # None
  BY <1>3 DEF ClientInv, ClientTypeOK, ClientRight
<1>7. PICK r : r = [told[c] EXCEPT !.id = m.id]
  OBVIOUS
<1>8. r \in Credentials /\ r.id = m.id /\ told' = [told EXCEPT ![c] = r]
  BY <1>2, <1>4, <1>6, <1>7 DEF Credentials
<1>9. ClientTypeOK'
  BY <1>2, <1>8 DEF ClientInv, ClientTypeOK, CliState
<1>10. ClientRight(c)'
  <2>1. cli'[c] = "menu" /\ told'[c] = r
    BY <1>2, <1>8 DEF ClientInv, ClientTypeOK
  <2>2. heard'[c] = {}
    BY <1>2, <1>3 DEF ClientInv, ClientRight
  <2>3. r.id \in Complete'
    BY <1>4, <1>8 DEF Complete, UserIds
  <2> QED
    BY <2>1, <2>2, <2>3 DEF ClientRight
<1>11. \A d \in Conn \ {c} :
         /\ cli'[d] = cli[d] /\ mine'[d] = mine[d]
         /\ told'[d] = told[d] /\ heard'[d] = heard[d]
  BY <1>2, <1>8 DEF ClientInv, ClientTypeOK
<1> QED
  BY <1>5, <1>9, <1>10, <1>11, ClientKept

LEMMA LoggedInKeeps ==
    ASSUME ServerInv, ClientInv, NEW c \in Conn, LoggedIn(c),
           UNCHANGED <<users, friends>>
    PROVE  ClientInv' /\ NetRight'
<1>1. PICK s \in {"in", "login"} : cli' = [cli EXCEPT ![c] = s]
  BY DEF LoggedIn, Become
<1>2. /\ Read(c, "log_wait", {"LOGIN_FEEDBACK"})
      /\ UNCHANGED <<link, rx, mine, plist, told, sent, heard>>
  BY DEF LoggedIn
<1>3. cli[c] = "log_wait" /\ tx' \in [Conn -> Seq(Replies)]
  BY <1>2, ReadTyped
<1>4. NetRight'
  BY <1>2, <1>3, ServerTypes, NetTyped
<1>5. ClientTypeOK'
  BY <1>1, <1>2 DEF ClientInv, ClientTypeOK, CliState
<1>6. ClientRight(c)'
  <2>1. cli'[c] = s /\ mine'[c] \in Id /\ told'[c] = told[c] /\ heard'[c] = {}
    BY <1>1, <1>2, <1>3 DEF ClientInv, ClientTypeOK, ClientRight
  <2>2. told[c] # None /\ told[c].id # 0 => told[c].id \in Complete'
    BY DEF ClientInv, ClientRight, Complete, UserIds
  <2> QED
    BY <2>1, <2>2 DEF ClientRight
<1>7. \A d \in Conn \ {c} :
         /\ cli'[d] = cli[d] /\ mine'[d] = mine[d]
         /\ told'[d] = told[d] /\ heard'[d] = heard[d]
  BY <1>1, <1>2 DEF ClientInv, ClientTypeOK
<1> QED
  BY <1>4, <1>5, <1>6, <1>7, ClientKept
----------------------------------------------------------------------------
(* Steps that leave the client where it is.                                *)

LEMMA StaysRight ==
    ASSUME ClientInv, UNCHANGED <<users, friends, cli, mine, told, heard>>,
           ClientTypeOK'
    PROVE  ClientInv'
BY DEF ClientInv, ClientRight, Row, Complete, UserIds

(* A request of a logged-in user, from the menu.                           *)
LEMMA MenuRequest ==
    ASSUME ServerInv, ClientInv, NEW c \in Conn, NEW m \in Requests,
           Request(c, m, "in"), cli[c] = "in",
           UNCHANGED <<users, friends, mine, told>>
    PROVE  ClientInv' /\ NetRight'
<1>1. /\ cli' = [cli EXCEPT ![c] = "in"] /\ ClientSend(c, m)
      /\ sent' = [sent EXCEPT ![c] = @ + 1] /\ sent[c] < MaxRequests
      /\ UNCHANGED <<tx, plist, heard>>
  BY DEF Request, Become
<1>2. NetRight'
  BY <1>1, SendTyped, ServerTypes, NetTyped
<1>3. cli' = cli
  BY <1>1 DEF ClientInv, ClientTypeOK
<1>4. sent' \in [Conn -> 0 .. MaxRequests]
  BY <1>1, BoundAssumption DEF ClientInv, ClientTypeOK
<1>5. ClientTypeOK'
  BY <1>1, <1>3, <1>4 DEF ClientInv, ClientTypeOK
<1> QED
  BY <1>1, <1>2, <1>3, <1>5, StaysRight

LEMMA AddFriendKeeps ==
    ASSUME ServerInv, ClientInv, NEW c \in Conn, AddFriend(c),
           UNCHANGED <<users, friends>>
    PROVE  ClientInv' /\ NetRight'
<1>1. PICK id \in Id :
         Request(c, [op |-> "ADD_FRIEND", src |-> mine[c], dst |-> id], "in")
  BY DEF AddFriend
<1>2. cli[c] = "in" /\ UNCHANGED <<mine, told>> /\ mine[c] \in Id
  BY DEF AddFriend, ClientInv, ClientRight
<1>3. [op |-> "ADD_FRIEND", src |-> mine[c], dst |-> id] \in Requests
  BY <1>2 DEF Requests, ToServer
<1> QED
  BY <1>1, <1>2, <1>3, MenuRequest

LEMMA OfflineKeeps ==
    ASSUME ServerInv, ClientInv, NEW c \in Conn, Offline(c),
           UNCHANGED <<users, friends>>
    PROVE  ClientInv' /\ NetRight'
<1>1. /\ Request(c, [op |-> "OFFLINE", id |-> mine[c]], "in")
      /\ cli[c] = "in" /\ UNCHANGED <<mine, told>> /\ mine[c] \in Id
  BY DEF Offline, ClientInv, ClientRight
<1>2. [op |-> "OFFLINE", id |-> mine[c]] \in Requests
  BY <1>1 DEF Requests, ToServer
<1> QED
  BY <1>1, <1>2, MenuRequest

(* pthread_tcp.                                                            *)
LEMMA OnlineKeeps ==
    ASSUME ServerInv, ClientInv, NEW c \in Conn, OnlineAction(c),
           UNCHANGED <<users, friends>>
    PROVE  ClientInv' /\ NetRight'
<1>1. PICK m : m = Head(tx[c])
  OBVIOUS
<1>2. /\ Read(c, "in", {"ONLINE"})
      /\ plist' = [plist EXCEPT ![c] = Append(@, m.who)]
      /\ UNCHANGED <<link, rx, cli, mine, told, sent, heard>>
  BY <1>1 DEF OnlineAction
<1>3. m \in Replies /\ m.op = "ONLINE" /\ tx' \in [Conn -> Seq(Replies)]
  BY <1>1, <1>2, ReadTyped
<1>4. m.who \in Entry
  BY <1>3 DEF Replies, ToClient
<1>5. NetRight'
  BY <1>2, <1>3, ServerTypes, NetTyped
<1>6. Append(plist[c], m.who) \in Seq(Entry)
  BY <1>4 DEF ClientInv, ClientTypeOK
<1>7. ClientTypeOK'
  BY <1>2, <1>6 DEF ClientInv, ClientTypeOK
<1> QED
  BY <1>2, <1>5, <1>7, StaysRight

LEMMA GoneFriendKeeps ==
    ASSUME ServerInv, ClientInv, NEW c \in Conn, OfflineAction(c),
           UNCHANGED <<users, friends>>
    PROVE  ClientInv' /\ NetRight'
<1> DEFINE match == {i \in DOMAIN plist[c] : plist[c][i].id = Head(tx[c]).id}
           k == CHOOSE i \in match : \A j \in match : i >= j
<1>1. /\ Read(c, "in", {"OFFLINE"})
      /\ plist' = IF match = {} THEN plist
                  ELSE [plist EXCEPT ![c] = RemoveAt(@, k)]
      /\ UNCHANGED <<link, rx, cli, mine, told, sent, heard>>
  BY DEF OfflineAction, Max
<1>2. tx' \in [Conn -> Seq(Replies)]
  BY <1>1, ReadTyped
<1>3. NetRight'
  BY <1>1, <1>2, ServerTypes, NetTyped
<1>4. plist \in [Conn -> Seq(Entry)] /\ Len(plist[c]) \in Nat
  BY DEF ClientInv, ClientTypeOK
<1>5. CASE match # {}
  <2>1. match \in SUBSET (1 .. Len(plist[c]))
    BY <1>4
  <2>2. \E i \in match : \A j \in match : j <= i
    BY <1>4, <1>5, <2>1, LastExists
  <2>3. k \in DOMAIN plist[c]
    <3>1. \E i \in match : \A j \in match : i >= j
      BY <2>1, <2>2
    <3>2. k \in match
      BY <3>1
    <3> QED
      BY <3>2
  <2> HIDE DEF match, k
  <2>4. RemoveAt(plist[c], k) \in Seq(Entry)
    BY <1>4, <2>3, RemoveAtType
  <2>5. plist' \in [Conn -> Seq(Entry)]
    BY <1>1, <1>4, <1>5, <2>4
  <2>6. ClientTypeOK'
    BY <1>1, <2>5 DEF ClientInv, ClientTypeOK
  <2> QED
    BY <1>1, <1>3, <2>6, StaysRight
<1>6. CASE match = {}
  <2> HIDE DEF match, k
  <2>1. ClientTypeOK'
    BY <1>1, <1>6 DEF ClientInv, ClientTypeOK
  <2> QED
    BY <1>1, <1>3, <2>1, StaysRight
<1> QED
  BY <1>5, <1>6

(* The answer goes back with the ids of the request.                       *)
LEMMA AnswerKeeps ==
    ASSUME ServerInv, ClientInv, NEW c \in Conn, AddFriendAction(c),
           UNCHANGED <<users, friends>>
    PROVE  ClientInv' /\ NetRight'
<1>1. PICK m : m = Head(tx[c])
  OBVIOUS
<1>2. /\ Read(c, "in", {"ADD_FRIEND"})
      /\ UNCHANGED <<cli, mine, plist, told, sent, heard>>
  BY DEF AddFriendAction, clientVars
<1>3. PICK ans \in {0, 1} :
         ClientSend(c, [op |-> "ALLOW_ADDF", src |-> m.src, dst |-> m.dst, ans |-> ans])
  BY <1>1 DEF AddFriendAction
<1>4. m \in Replies /\ m.op = "ADD_FRIEND" /\ tx' \in [Conn -> Seq(Replies)]
  BY <1>1, <1>2, ReadTyped
<1>5. PICK r : r = [op |-> "ALLOW_ADDF", src |-> m.src, dst |-> m.dst, ans |-> ans]
  OBVIOUS
<1>6. r \in Requests
  <2>1. m.src \in DOMAIN friends /\ m.dst \in DOMAIN friends
    BY <1>4 DEF Replies
  <2>2. m.src \in Id /\ m.dst \in Id /\ ans \in 0 .. 1
    BY <2>1 DEF ServerInv, TablesRight
  <2> QED
    BY <1>5, <2>1, <2>2 DEF Requests, ToServer
<1>7. NetRight'
  BY <1>3, <1>4, <1>5, <1>6, SendTyped, NetTyped
<1>8. ClientTypeOK'
  BY <1>2 DEF ClientInv, ClientTypeOK
<1> QED
  BY <1>2, <1>7, <1>8, StaysRight

(* Whoever is told 1 has the other as a friend.                            *)
LEMMA AllowKeeps ==
    ASSUME ServerInv, ClientInv, NEW c \in Conn, AllowAddfAction(c),
           UNCHANGED <<users, friends>>
    PROVE  ClientInv' /\ NetRight'
<1>1. PICK m : m = Head(tx[c])
  OBVIOUS
<1>2. PICK h : h = [dst |-> m.dst, ans |-> m.ans]
  OBVIOUS
<1>3. /\ Read(c, "in", {"ALLOW_ADDF"})
      /\ heard' = IF m.src = mine[c] THEN [heard EXCEPT ![c] = @ \cup {h}] ELSE heard
      /\ UNCHANGED <<link, rx, cli, mine, plist, told, sent>>
  BY <1>1, <1>2 DEF AllowAddfAction
<1>4. /\ m \in Replies /\ m.op = "ALLOW_ADDF" /\ cli[c] = "in"
      /\ tx' \in [Conn -> Seq(Replies)]
  BY <1>1, <1>3, ReadTyped
<1>5. /\ h \in [dst : Id, ans : 0 .. 4]
      /\ h.ans = 1 => Row(m.src, h.dst) /\ Row(h.dst, m.src)
  BY <1>2, <1>4 DEF Replies, ToClient
<1>6. NetRight'
  BY <1>3, <1>4, ServerTypes, NetTyped
<1>7. CASE m.src # mine[c]
  <2>1. UNCHANGED heard
    BY <1>3, <1>7
  <2>2. ClientTypeOK'
    BY <1>3, <2>1 DEF ClientInv, ClientTypeOK
  <2> QED
    BY <1>3, <1>6, <2>1, <2>2, StaysRight
<1>8. CASE m.src = mine[c]
  <2>1. heard' = [heard EXCEPT ![c] = @ \cup {h}]
    BY <1>3, <1>8
  <2>2. ClientTypeOK'
    BY <1>3, <1>5, <2>1 DEF ClientInv, ClientTypeOK
  <2>3. ClientRight(c)'
    <3>1. PICK n : n = mine[c] /\ n = mine'[c]
      BY <1>3
    <3>2. \A g \in heard'[c] : g.ans = 1 => Row(n, g.dst) /\ Row(g.dst, n)
      <4>1. \A g \in heard[c] : g.ans = 1 => Row(n, g.dst) /\ Row(g.dst, n)
        BY <3>1 DEF ClientInv, ClientRight
      <4>2. heard'[c] = heard[c] \cup {h}
        BY <2>1 DEF ClientInv, ClientTypeOK
      <4> QED
        BY <1>5, <1>8, <3>1, <4>1, <4>2
    <3>3. \A g \in heard'[c] :
             g.ans = 1 => /\ n \in DOMAIN friends' /\ g.dst \in friends'[n]
                          /\ g.dst \in DOMAIN friends' /\ n \in friends'[g.dst]
      BY <3>2 DEF Row
    <3>4. ClientRight(c)
      BY DEF ClientInv
    <3> QED
      BY <1>3, <1>4, <3>1, <3>3, <3>4 DEF ClientRight, Row, Complete, UserIds
  <2>4. \A d \in Conn \ {c} :
           /\ cli'[d] = cli[d] /\ mine'[d] = mine[d]
           /\ told'[d] = told[d] /\ heard'[d] = heard[d]
    BY <1>3, <2>1 DEF ClientInv, ClientTypeOK
  <2> QED
    BY <1>6, <2>2, <2>3, <2>4, ClientKept
<1> QED
  BY <1>7, <1>8

LEMMA UnknownKeeps ==
    ASSUME ServerInv, ClientInv, NEW c \in Conn, UnknownOptype(c),
           UNCHANGED <<users, friends>>
    PROVE  ClientInv' /\ NetRight'
<1>1. /\ Read(c, "in", {"REGISTER_SUCCESS", "LOGIN_FEEDBACK"})
      /\ UNCHANGED <<link, rx, cli, mine, plist, told, sent, heard>>
  BY DEF UnknownOptype, clientVars
<1>2. tx' \in [Conn -> Seq(Replies)]
  BY <1>1, ReadTyped
<1>3. NetRight'
  BY <1>1, <1>2, ServerTypes, NetTyped
<1>4. ClientTypeOK'
  BY <1>1 DEF ClientInv, ClientTypeOK
<1> QED
  BY <1>1, <1>3, <1>4, StaysRight

LEMMA ElsewhereKeeps ==
    ASSUME ServerInv, ClientInv, NEW c \in Conn, cli[c] = "off",
           NEW s \in {"menu", "dead"}, Become(c, s),
           UNCHANGED <<users, friends, rx, tx, mine, plist, told, sent, heard>>,
           link' \in [Conn -> LinkState]
    PROVE  ClientInv' /\ NetRight'
<1>1. NetRight'
  BY ServerTypes, NetTyped
<1>2. ClientTypeOK'
  BY DEF ClientInv, ClientTypeOK, Become, CliState
<1>3. ClientRight(c)'
  <2>1. cli'[c] = s /\ told'[c] = told[c] /\ heard'[c] = {}
    BY DEF ClientInv, ClientTypeOK, ClientRight, Become
  <2>2. told[c] # None /\ told[c].id # 0 => told[c].id \in Complete'
    BY DEF ClientInv, ClientRight, Complete, UserIds
  <2> QED
    BY <2>1, <2>2 DEF ClientRight
<1>4. \A d \in Conn \ {c} :
         /\ cli'[d] = cli[d] /\ mine'[d] = mine[d]
         /\ told'[d] = told[d] /\ heard'[d] = heard[d]
  BY DEF ClientInv, ClientTypeOK, Become
<1> QED
  BY <1>1, <1>2, <1>3, <1>4, ClientKept
----------------------------------------------------------------------------
(* Every step of the system.                                               *)

LEMMA UserKeeps ==
    ASSUME IInv, NEW c \in Conn, UserActs(c) \/ Connect(c),
           UNCHANGED <<users, friends>>
    PROVE  ClientInv' /\ NetRight'
<1>1. ServerInv /\ ClientInv /\ AccountsRight
  BY DEF IInv
<1>2. CASE Register(c) \/ Login(c)
  BY <1>1, <1>2, RegisterKeepsAll, LoginKeepsAll
<1>3. CASE AddFriend(c) \/ Offline(c)
  BY <1>1, <1>3, AddFriendKeeps, OfflineKeeps
<1>4. CASE Quit(c)
  BY <1>1, <1>4, ExitKeeps DEF Quit
<1>5. CASE Connect(c)
  <2>1. link' \in [Conn -> LinkState]
    BY <1>1, <1>5, ServerTypes DEF Connect, LinkState
  <2> QED
    BY <1>1, <1>5, <2>1, ElsewhereKeeps DEF Connect
<1> QED
  BY <1>2, <1>3, <1>4, <1>5 DEF UserActs

LEMMA ClientKeeps ==
    ASSUME IInv, NEW c \in Conn, ClientReacts(c) \/ Refused(c),
           UNCHANGED <<users, friends>>
    PROVE  ClientInv' /\ NetRight'
<1>1. ServerInv /\ ClientInv
  BY DEF IInv
<1>2. CASE Disconnected(c) \/ DialogueExits(c) \/ AllowDisconnectAction(c)
  <2>1. Exit(c)
    BY <1>2 DEF Disconnected, DialogueExits, AllowDisconnectAction
  <2> QED
    BY <1>1, <2>1, ExitKeeps
<1>3. CASE Registered(c) \/ LoggedIn(c)
  BY <1>1, <1>3, RegisteredKeeps, LoggedInKeeps
<1>4. CASE OnlineAction(c) \/ OfflineAction(c) \/ UnknownOptype(c)
  BY <1>1, <1>4, OnlineKeeps, GoneFriendKeeps, UnknownKeeps
<1>5. CASE AddFriendAction(c) \/ AllowAddfAction(c)
  BY <1>1, <1>5, AnswerKeeps, AllowKeeps
<1>6. CASE Refused(c)
  <2>1. UNCHANGED <<link, rx, tx>> /\ link' \in [Conn -> LinkState]
    BY <1>1, <1>6, ServerTypes DEF Refused, netVars
  <2> QED
    BY <1>1, <1>6, <2>1, ElsewhereKeeps DEF Refused
<1> QED
  BY <1>2, <1>3, <1>4, <1>5, <1>6 DEF ClientReacts

LEMMA Initially == ASSUME Init PROVE IInv
<1>1. ServerInv
  BY ServerStarts DEF Init
<1>2. ClientTypeOK
  BY BoundAssumption DEF Init, ClientInit, ClientTypeOK, CliState
<1>3. \A c \in Conn : ClientRight(c)
  BY DEF Init, ClientInit, ClientRight
<1>4. AccountsRight
  BY TablesAssumption DEF Init, ServerInit, AccountsRight
<1> QED
  BY <1>1, <1>2, <1>3, <1>4 DEF IInv, ClientInv

LEMMA Inductive == ASSUME IInv, [Next]_vars PROVE IInv'
<1>1. ServerInv /\ ClientInv /\ AccountsRight
  BY DEF IInv
<1>2. ASSUME NEW c \in Conn, AcceptStep(c) PROVE IInv'
  <2>1. ServerInv' /\ Grown
    BY <1>1, <1>2, AcceptKeeps DEF AcceptStep
  <2> QED
    BY <1>1, <1>2, <2>1, ServerKeepsClients DEF AcceptStep, IInv
<1>3. ASSUME NEW t \in Thread, ThreadStep(t) PROVE IInv'
  <2>1. ServerInv' /\ Grown
    BY <1>1, <1>3, ThreadKeeps DEF ThreadStep
  <2> QED
    BY <1>1, <1>3, <2>1, ServerKeepsClients DEF ThreadStep, IInv
<1>4. ASSUME NEW c \in Conn, UserStep(c) \/ ClientStep(c) PROVE IInv'
  <2>1. UNCHANGED serverVars /\ UNCHANGED <<users, friends>>
    BY <1>4 DEF UserStep, ClientStep, serverVars
  <2>2. ClientInv' /\ NetRight'
    BY <1>4, <2>1, UserKeeps, ClientKeeps DEF UserStep, ClientStep
  <2> QED
    BY <1>1, <2>1, <2>2, ClientsKeepServer DEF IInv
<1>5. CASE UNCHANGED vars
  <2>1. UNCHANGED serverVars /\ UNCHANGED <<users, friends, link, rx, tx>>
        /\ UNCHANGED <<cli, mine, plist, told, sent, heard>>
    BY <1>5 DEF vars, serverVars, netVars, clientVars
  <2>2. NetRight'
    BY <1>1, <2>1, ServerTypes, NetTyped
  <2>3. ClientTypeOK'
    BY <1>1, <2>1 DEF ClientInv, ClientTypeOK
  <2>4. ClientInv'
    BY <1>1, <2>1, <2>3, StaysRight
  <2> QED
    BY <1>1, <2>1, <2>2, <2>4, ClientsKeepServer DEF IInv
<1> QED
  BY <1>2, <1>3, <1>4, <1>5 DEF Next

LEMMA Invariance == Spec => []IInv
<1>1. Init => IInv
  BY Initially
<1>2. IInv /\ [Next]_vars => IInv'
  BY Inductive
<1> QED
  BY <1>1, <1>2, PTL DEF Spec
----------------------------------------------------------------------------
(* Every variable keeps its type: no handler of server_action.c passes on  *)
(* an id outside the user table or an entry it has not filled in.          *)
THEOREM TypeCorrect == Spec => []TypeOK
<1>1. IInv => TypeOK
  BY ServerTyped DEF IInv, ClientInv, TypeOK
<1> QED
  BY <1>1, Invariance, PTL

(* The id that Register_Iface_mgmt displays has its row and its table,     *)
(* whatever queries of register_action have failed.                        *)
THEOREM ToldCorrect == Spec => []ToldIdExists
<1>1. IInv => ToldIdExists
  BY DEF IInv, ClientInv, ClientRight, ToldIdExists, Complete
<1> QED
  BY <1>1, Invariance, PTL

(* Of the registrations that read one max(id), at most one sends it.       *)
THEOREM IdsCorrect == Spec => []IdsIssuedOnce
<1>1. IInv => IdsIssuedOnce
  BY ServerIssues DEF IInv
<1> QED
  BY <1>1, Invariance, PTL

(* A row of a friends table without its mirror is one that the second      *)
(* insert of allow_addf_action is about to complete, or a fault has cut.   *)
THEOREM FriendsCorrect == Spec => []FriendsSymmetric
<1>1. IInv => FriendsSymmetric
  BY DEF IInv, ServerInv
<1> QED
  BY <1>1, Invariance, PTL

(* Whoever is told that a request was accepted has the other as a friend,  *)
(* in the tables of both, whichever handlers run in between.               *)
THEOREM AcceptCorrect == Spec => []AcceptTold
<1>1. IInv => AcceptTold
  BY DEF IInv, ClientInv, ClientRight, AcceptTold, Row
<1> QED
  BY <1>1, Invariance, PTL
----------------------------------------------------------------------------
(* The refinement of ChatService.  First: an id is on its way to one user  *)
(* at most, and only once it has been issued.                              *)

(* The i-th packet on its way to c tells it that it has registered as id.  *)
Tells(c, i, id) ==
    /\ i \in DOMAIN tx[c]
    /\ tx[c][i].op = "REGISTER_SUCCESS" /\ tx[c][i].id = id /\ id # -1

SentOnce ==
    /\ \A c \in Conn : \A i, id : Tells(c, i, id) => id \in issued
    /\ \A c, d \in Conn : \A i, j, id :
          Tells(c, i, id) /\ Tells(d, j, id) => c = d /\ i = j

(* The steps that send no id, and those of a client that reads.            *)
Sends ==
    \/ tx' = tx
    \/ \E c \in Conn : \E m :
          /\ m.op # "REGISTER_SUCCESS" \/ m.id = -1
          /\ tx' = [tx EXCEPT ![c] = Append(@, m)]

LEMMA WriteSends ==
    ASSUME ServerInv, NEW t, NEW fd, NEW m, NEW ok, NEW err,
           WriteServer(t, fd, m, ok, err), m.op # "REGISTER_SUCCESS"
    PROVE  Sends
<1>1. CASE IsOpen(fd) /\ tx' = [tx EXCEPT ![fdt[fd]] = Append(@, m)]
  <2>1. fdt[fd] \in Conn
    BY <1>1, ServerTypes DEF IsOpen
  <2> QED
    BY <1>1, <2>1 DEF Sends
<1>2. CASE UNCHANGED tx
  BY <1>2 DEF Sends
<1> QED
  BY <1>1, <1>2 DEF WriteServer, Failed, ServerGone, netVars

LEMMA SendSends ==
    ASSUME ServerInv, NEW t, NEW fd, NEW m, NEW ok, NEW err,
           Send(t, fd, m, ok, err), m.op # "REGISTER_SUCCESS"
    PROVE  Sends
BY WriteSends DEF Send

LEMMA LoginSends ==
    ASSUME ServerInv, NEW t \in Thread,
           LogOk(t) \/ LogTell(t) \/ LogShow(t) \/ LogReply(t)
    PROVE  Sends
<1>1. ASSUME NEW fd, NEW n, NEW ok, NEW err,
             Send(t, fd, [op |-> "LOGIN_FEEDBACK", flag |-> n], ok, err)
      PROVE  Sends
  BY <1>1, SendSends
<1>2. ASSUME NEW fd, NEW e, NEW ok, NEW err,
             Send(t, fd, [op |-> "ONLINE", who |-> e], ok, err)
      PROVE  Sends
  BY <1>2, SendSends
<1> QED
  BY <1>1, <1>2 DEF LogOk, LogTell, LogShow, LogReply

LEMMA OfflineSends ==
    ASSUME ServerInv, NEW t \in Thread, OffTell(t) \/ OffBye(t)
    PROVE  Sends
<1>1. PICK fd, m, ok, err :
         Send(t, fd, m, ok, err) /\ m.op \in {"OFFLINE", "ALLOW_DISCONNECT"}
  BY DEF OffTell, OffBye
<1> QED
  BY <1>1, SendSends

LEMMA FriendSends ==
    ASSUME ServerInv, NEW t \in Thread,
           AddReply(t) \/ AddForward(t) \/ AlwReply(t) \/ AlwOnline1(t) \/ AlwOnline2(t)
    PROVE  Sends
<1>1. CASE AddReply(t) \/ AlwReply(t) \/ AlwOnline1(t) \/ AlwOnline2(t)
  <2>1. ASSUME NEW fd, NEW a, NEW b, NEW n, NEW ok, NEW err,
               Send(t, fd, [op |-> "ALLOW_ADDF", src |-> a, dst |-> b, ans |-> n], ok, err)
        PROVE  Sends
    BY <2>1, SendSends
  <2>2. ASSUME NEW fd, NEW e, NEW ok, NEW err,
               Send(t, fd, [op |-> "ONLINE", who |-> e], ok, err)
        PROVE  Sends
    BY <2>2, SendSends
  <2> QED
    BY <1>1, <2>1, <2>2 DEF AddReply, AlwReply, AlwOnline1, AlwOnline2
<1>2. CASE AddForward(t)
  <2>1. Top(t).pkt.op = "ADD_FRIEND"
    BY <1>2, AtRight DEF AddForward, AddRight, AddPCs, AddPacket
  <2>2. PICK fd, ok, err : Send(t, fd, Top(t).pkt, ok, err)
    BY <1>2 DEF AddForward
  <2> QED
    BY <2>1, <2>2, SendSends
<1> QED
  BY <1>1, <1>2

LEMMA SilentSends ==
    ASSUME NEW t \in Thread,
           \/ \E fd \in Fd : Receive(t, fd) \/ Hangup(t, fd)
           \/ RegInsert(t) \/ RegMax(t) \/ RegCreate(t)
           \/ LogQuery(t) \/ LogCheck(t) \/ LogAddr(t) \/ LogAdd(t)
           \/ LogFriends(t) \/ LogRow(t)
           \/ OffFind(t) \/ OffCtl(t) \/ OffDel(t) \/ OffQuery(t) \/ OffRow(t)
           \/ OffClose(t)
           \/ AddSearch(t) \/ AddQuery(t) \/ AlwSource(t) \/ AlwDest(t)
           \/ AlwInsert1(t) \/ AlwInsert2(t)
           \/ Done(t) \/ QueryExits(t)
    PROVE  tx' = tx
<1>1. Local \/ Die => tx' = tx
  BY DEF Local, Die, ServerGone, netVars
<1>2. ASSUME NEW fd, Close(fd) PROVE tx' = tx
  BY <1>2 DEF Close, netVars
<1>3. CASE \/ \E fd \in Fd : Receive(t, fd) \/ Hangup(t, fd)
           \/ RegInsert(t) \/ RegCreate(t) \/ LogAdd(t) \/ OffDel(t)
  BY <1>3 DEF Receive, Hangup, RegInsert, RegCreate, LogAdd, OffDel, netVars
<1>4. CASE \/ RegMax(t) \/ LogQuery(t) \/ LogCheck(t) \/ LogAddr(t)
           \/ LogFriends(t) \/ LogRow(t)
  BY <1>1, <1>4 DEF RegMax, LogQuery, LogCheck, LogAddr, LogFriends, LogRow, NextRow,
                    LogAnswer
<1>5. CASE OffFind(t) \/ OffQuery(t) \/ OffRow(t)
  BY <1>1, <1>5 DEF OffFind, OffQuery, OffRow, NextRow
<1>6. CASE OffCtl(t) \/ OffClose(t)
  BY <1>1, <1>2, <1>6 DEF OffCtl, OffClose, netVars
<1>7. CASE AddSearch(t) \/ AddQuery(t) \/ AlwSource(t) \/ AlwDest(t)
  BY <1>1, <1>7 DEF AddSearch, AddQuery, AlwSource, AlwDest
<1>8. CASE AlwInsert1(t) \/ AlwInsert2(t)
  BY <1>8 DEF AlwInsert1, AlwInsert2, Insert, netVars
<1>9. CASE Done(t) \/ QueryExits(t)
  BY <1>1, <1>9 DEF Done, QueryExits
<1> QED
  BY <1>3, <1>4, <1>5, <1>6, <1>7, <1>8, <1>9

LEMMA ServerSends ==
    ASSUME ServerInv, NEW t \in Thread, ServerStep(t), ~RegReply(t)
    PROVE  Sends
<1>1. tx' = tx => Sends
  BY DEF Sends
<1> QED
  BY <1>1, LoginSends, OfflineSends, FriendSends, SilentSends DEF ServerStep, Handler

(* What is on its way after a step.                                        *)
LEMMA InFlightTells ==
    ASSUME ServerInv
    PROVE  \A id : id \in InFlight <=> \E c \in Conn : \E i : Tells(c, i, id)
<1>1. \A c \in Conn : Range(tx[c]) = {tx[c][i] : i \in DOMAIN tx[c]}
  BY DEF Range
<1>2. \A id : id \in InFlight <=>
         \E c \in Conn : \E n \in Range(tx[c]) :
            n.op = "REGISTER_SUCCESS" /\ n.id = id /\ id # -1
  BY DEF InFlight
<1>3. ASSUME NEW c \in Conn, NEW id
      PROVE  (\E n \in Range(tx[c]) :
                 n.op = "REGISTER_SUCCESS" /\ n.id = id /\ id # -1)
             <=> \E i : Tells(c, i, id)
  <2>1. ASSUME NEW n \in Range(tx[c]),
               n.op = "REGISTER_SUCCESS", n.id = id, id # -1
        PROVE  \E i : Tells(c, i, id)
    <3>1. PICK i \in DOMAIN tx[c] : tx[c][i] = n
      BY <1>1
    <3> QED
      BY <2>1, <3>1 DEF Tells
  <2>2. ASSUME NEW i, Tells(c, i, id)
        PROVE  \E n \in Range(tx[c]) :
                  n.op = "REGISTER_SUCCESS" /\ n.id = id /\ id # -1
    <3>1. tx[c][i] \in Range(tx[c])
      BY <1>1, <2>2 DEF Tells
    <3> QED
      BY <2>2, <3>1 DEF Tells
  <2> QED
    BY <2>1, <2>2
<1> QED
  BY ONLY <1>2, <1>3

LEMMA InFlightTellsNext ==
    ASSUME ServerInv'
    PROVE  \A id : (id \in InFlight)' <=> \E c \in Conn : \E i : Tells(c, i, id)'
<1>1. \A c \in Conn : Range(tx'[c]) = {tx'[c][i] : i \in DOMAIN tx'[c]}
  BY DEF Range
<1>2. \A id : (id \in InFlight)' <=>
         \E c \in Conn : \E n \in Range(tx'[c]) :
            n.op = "REGISTER_SUCCESS" /\ n.id = id /\ id # -1
  BY DEF InFlight
<1>3. ASSUME NEW c \in Conn, NEW id
      PROVE  (\E n \in Range(tx'[c]) :
                 n.op = "REGISTER_SUCCESS" /\ n.id = id /\ id # -1)
             <=> \E i : Tells(c, i, id)'
  <2>1. ASSUME NEW n \in Range(tx'[c]),
               n.op = "REGISTER_SUCCESS", n.id = id, id # -1
        PROVE  \E i : Tells(c, i, id)'
    <3>1. PICK i \in DOMAIN tx'[c] : tx'[c][i] = n
      BY <1>1
    <3> QED
      BY <2>1, <3>1 DEF Tells
  <2>2. ASSUME NEW i, Tells(c, i, id)'
        PROVE  \E n \in Range(tx'[c]) :
                  n.op = "REGISTER_SUCCESS" /\ n.id = id /\ id # -1
    <3>1. tx'[c][i] \in Range(tx'[c])
      BY <1>1, <2>2 DEF Tells
    <3> QED
      BY <2>2, <3>1 DEF Tells
  <2> QED
    BY <2>1, <2>2
<1> QED
  BY ONLY <1>2, <1>3

LEMMA SendsTells ==
    ASSUME ServerInv, Sends
    PROVE  \A c \in Conn : \A i, id : Tells(c, i, id)' <=> Tells(c, i, id)
<1>1. CASE tx' = tx
  BY <1>1 DEF Tells
<1>2. ASSUME NEW d \in Conn, NEW m,
             m.op # "REGISTER_SUCCESS" \/ m.id = -1,
             tx' = [tx EXCEPT ![d] = Append(@, m)]
      PROVE  \A c \in Conn : \A i, id : Tells(c, i, id)' <=> Tells(c, i, id)
  <2>1. /\ tx[d] \in Seq(Replies) /\ tx'[d] = Append(tx[d], m)
        /\ \A c \in Conn \ {d} : tx'[c] = tx[c]
    BY <1>2, ServerTypes
  <2>2. /\ DOMAIN tx[d] = 1 .. Len(tx[d]) /\ DOMAIN tx'[d] = 1 .. Len(tx[d]) + 1
        /\ Len(tx[d]) \in Nat
        /\ tx'[d][Len(tx[d]) + 1] = m
        /\ \A i \in DOMAIN tx[d] : tx'[d][i] = tx[d][i]
    BY <2>1
  <2>3. \A i, id : Tells(d, i, id)' <=> Tells(d, i, id)
    BY <1>2, <2>2 DEF Tells
  <2>4. \A c \in Conn \ {d} : \A i, id : Tells(c, i, id)' <=> Tells(c, i, id)
    BY <2>1 DEF Tells
  <2> QED
    BY <2>3, <2>4
<1> QED
  BY <1>1, <1>2 DEF Sends

LEMMA ReadTells ==
    ASSUME ServerInv, NEW c \in Conn, tx[c] # << >>, tx' = [tx EXCEPT ![c] = Tail(@)]
    PROVE  /\ \A i, id : Tells(c, i, id)' <=> i \in Nat \ {0} /\ Tells(c, i + 1, id)
           /\ \A d \in Conn \ {c} : \A i, id : Tells(d, i, id)' <=> Tells(d, i, id)
<1>1. /\ tx[c] \in Seq(Replies) /\ tx'[c] = Tail(tx[c])
      /\ \A d \in Conn \ {c} : tx'[d] = tx[d]
  BY ServerTypes
<1>2. /\ DOMAIN tx[c] = 1 .. Len(tx[c]) /\ DOMAIN tx'[c] = 1 .. Len(tx[c]) - 1
      /\ Len(tx[c]) \in Nat
      /\ \A i \in DOMAIN tx'[c] : tx'[c][i] = tx[c][i + 1]
  <2>1. /\ DOMAIN tx[c] = 1 .. Len(tx[c]) /\ DOMAIN Tail(tx[c]) = 1 .. Len(tx[c]) - 1
        /\ Len(tx[c]) \in Nat
    BY <1>1
  <2>2. \A i \in 1 .. Len(tx[c]) - 1 : Tail(tx[c])[i] = tx[c][i + 1]
    BY <1>1
  <2> QED
    BY <1>1, <2>1, <2>2
<1>3. \A i : i \in DOMAIN tx'[c] <=> i \in Nat \ {0} /\ i + 1 \in DOMAIN tx[c]
  BY <1>2
<1>4. \A i, id : Tells(c, i, id)' <=> i \in Nat \ {0} /\ Tells(c, i + 1, id)
  BY <1>2, <1>3 DEF Tells
<1>5. \A d \in Conn \ {c} : \A i, id : Tells(d, i, id)' <=> Tells(d, i, id)
  BY <1>1 DEF Tells
<1> QED
  BY <1>4, <1>5

LEMMA SentKept ==
    ASSUME SentOnce, issued \subseteq issued',
           \A c \in Conn : \A i, id : Tells(c, i, id)' <=> Tells(c, i, id)
    PROVE  SentOnce'
BY DEF SentOnce

(* After a read: the id that has been read is on its way to nobody else.   *)
LEMMA SentRead ==
    ASSUME ServerInv, ServerInv', SentOnce, issued' = issued,
           NEW c \in Conn, tx[c] # << >>, tx' = [tx EXCEPT ![c] = Tail(@)]
    PROVE  /\ SentOnce'
           /\ \/ /\ Head(tx[c]).op # "REGISTER_SUCCESS" \/ Head(tx[c]).id = -1
                 /\ InFlight' = InFlight
              \/ /\ Head(tx[c]).op = "REGISTER_SUCCESS"
                 /\ Head(tx[c]).id \in InFlight \cap issued
                 /\ InFlight' = InFlight \ {Head(tx[c]).id}
<1> DEFINE m == Head(tx[c])
<1>1. /\ \A i, id : Tells(c, i, id)' <=> i \in Nat \ {0} /\ Tells(c, i + 1, id)
      /\ \A d \in Conn \ {c} : \A i, id : Tells(d, i, id)' <=> Tells(d, i, id)
  BY ReadTells
<1>2. /\ \A id : id \in InFlight <=> \E d \in Conn : \E i : Tells(d, i, id)
      /\ \A id : id \in InFlight' <=> \E d \in Conn : \E i : Tells(d, i, id)'
  BY InFlightTells, InFlightTellsNext
<1>3. 1 \in DOMAIN tx[c] /\ m = tx[c][1] /\ DOMAIN tx[c] \subseteq Nat
  BY ServerTypes
<1> HIDE DEF m
<1>4. \A d \in Conn : \A i, id : Tells(d, i, id) => i \in Nat /\ (d = c => i # 0)
  BY ServerTypes DEF Tells
<1>5. SentOnce'
  <2>1. ASSUME NEW d \in Conn, NEW i, NEW id, Tells(d, i, id)'
        PROVE  id \in issued'
    BY <1>1, <2>1 DEF SentOnce
  <2>2. ASSUME NEW d \in Conn, NEW e \in Conn, NEW i, NEW j, NEW id,
               Tells(d, i, id)', Tells(e, j, id)'
        PROVE  d = e /\ i = j
    <3>1. CASE d = c /\ e = c
      <4>1. /\ i \in Nat /\ j \in Nat
            /\ Tells(c, i + 1, id) /\ Tells(c, j + 1, id)
        BY <1>1, <2>2, <3>1
      <4>2. i + 1 = j + 1
        BY <4>1 DEF SentOnce
      <4> QED
        BY <3>1, <4>1, <4>2
    <3>2. CASE d # c \/ e # c
      BY <1>1, <2>2, <3>2 DEF SentOnce
    <3> QED
      BY <3>1, <3>2
  <2> QED
    BY <2>1, <2>2 DEF SentOnce
<1>6. ASSUME NEW id, ~Tells(c, 1, id)
      PROVE  id \in InFlight' <=> id \in InFlight
  <2>1. ASSUME NEW d \in Conn, NEW i, Tells(d, i, id)
        PROVE  \E j : Tells(d, j, id)'
    <3>1. CASE d = c
      <4>1. i \in Nat \ {0} /\ i # 1
        BY <1>4, <1>6, <2>1, <3>1
      <4>2. i - 1 \in Nat \ {0} /\ (i - 1) + 1 = i
        BY <4>1
      <4>3. Tells(c, i - 1, id)'
        BY <1>1, <2>1, <3>1, <4>2
      <4> QED
        BY <3>1, <4>3
    <3> QED
      BY <1>1, <2>1, <3>1
  <2>2. ASSUME NEW d \in Conn, NEW i, Tells(d, i, id)'
        PROVE  \E j : Tells(d, j, id)
    BY <1>1, <2>2
  <2> QED
    BY <1>2, <2>1, <2>2
<1>7. CASE m.op # "REGISTER_SUCCESS" \/ m.id = -1
  <2>1. \A id : ~Tells(c, 1, id)
    BY <1>3, <1>7 DEF Tells
  <2>2. InFlight' = InFlight
    BY <1>6, <2>1
  <2> QED
    BY <1>5, <1>7, <2>2 DEF m
<1>8. CASE m.op = "REGISTER_SUCCESS" /\ m.id # -1
  <2>0. PICK k : k = m.id
    OBVIOUS
  <2>1. Tells(c, 1, k) /\ \A id : Tells(c, 1, id) => id = k
    BY <1>3, <1>8, <2>0 DEF Tells
  <2>2. k \in InFlight /\ k \in issued
    BY <1>2, <2>1 DEF SentOnce
  <2>3. k \notin InFlight'
    <3>1. ASSUME NEW d \in Conn, NEW i, Tells(d, i, k)' PROVE FALSE
      <4>1. CASE d = c
        <5>1. i \in Nat \ {0} /\ Tells(c, i + 1, k)
          BY <1>1, <3>1, <4>1
        <5>2. i + 1 = 1
          BY <2>1, <5>1 DEF SentOnce
        <5> QED
          BY <5>1, <5>2
      <4>2. CASE d # c
        BY <1>1, <2>1, <3>1, <4>2 DEF SentOnce
      <4> QED
        BY <4>1, <4>2
    <3> QED
      BY <1>2, <3>1
  <2>4. \A id : id # k => (id \in InFlight' <=> id \in InFlight)
    BY <1>6, <2>1
  <2>5. InFlight' = InFlight \ {k}
    BY <2>3, <2>4
  <2> QED
    BY <1>5, <1>8, <2>0, <2>2, <2>5 DEF m
<1> QED
  BY <1>7, <1>8

----------------------------------------------------------------------------
(* Each step is one of ChatService, or changes nothing that it speaks of.  *)

LEMMA SameAccounts ==
    ASSUME ServerInv, ServerInv', UNCHANGED friends
    PROVE  Complete' = Complete /\ Mutual(friends)' = Mutual(friends)
BY DEF ServerInv, TablesRight, Complete, Mutual

LEMMA SameFree ==
    ASSUME UNCHANGED <<Complete, issued, InFlight>>
    PROVE  Free' = Free
BY DEF Free

LEMMA SameClients == ASSUME UNCHANGED clientVars PROVE UNCHANGED <<Shown, Agreed>>
BY DEF clientVars, Shown, Agreed

LEMMA SameInFlight ==
    ASSUME ServerInv, ServerInv', Sends PROVE InFlight' = InFlight
BY SendsTells, InFlightTells, InFlightTellsNext

(* register_action: its create table makes the account ...                 *)
LEMMA CreateStep ==
    ASSUME ServerInv, ServerInv', SentOnce, NEW t \in Thread, RegCreate(t),
           UNCHANGED clientVars
    PROVE  [Service!Next]_(Service!vars)
<1> DEFINE id == Top(t).id
<1>0. PICK k : k = id
  OBVIOUS
<1>1. At(t, "reg_create") /\ UNCHANGED <<tx, users, issued>>
  BY DEF RegCreate, netVars, ghostVars
<1>2. k \in UserIds /\ k \in Id
  BY <1>0, <1>1, AtRight DEF RegisterRight, ServerInv, TablesRight
<1>3. InFlight' = InFlight
  BY <1>1, SameInFlight DEF Sends
<1>4. CASE UNCHANGED friends
  BY <1>1, <1>3, <1>4, SameAccounts, SameFree, SameClients DEF Service!vars
<1>5. CASE k \notin DOMAIN friends /\ friends' = WithTable(k)
  <2>1. /\ DOMAIN friends' = DOMAIN friends \cup {k}
        /\ \A i \in DOMAIN friends : friends'[i] = friends[i]
        /\ friends'[k] = {}
    BY <1>5 DEF WithTable
  <2>2. Complete' = Complete \cup {k} /\ k \notin Complete
    BY <1>1, <1>2, <1>5, <2>1 DEF Complete, UserIds
  <2>3. k \notin DOMAIN InitFriends /\ k \notin issued
    BY <1>5 DEF ServerInv, IssuedRight
  <2>4. Free' = Free \cup {k}
    BY <1>1, <1>3, <2>2, <2>3 DEF Free
  <2>5. Mutual(friends)' = Mutual(friends)
    BY <2>1 DEF Mutual
  <2>6. Service!Create(k)
    BY <2>2, <2>4, <2>5, SameClients DEF Service!Create
  <2> QED
    BY <1>2, <2>6 DEF Service!Next
<1> QED
  BY <1>0, <1>4, <1>5 DEF RegCreate

(* ... whose id its reply may lose.                                        *)
LEMMA ReplyStep ==
    ASSUME ServerInv, ServerInv', SentOnce, NEW t \in Thread, RegReply(t),
           UNCHANGED clientVars
    PROVE  SentOnce' /\ [Service!Next]_(Service!vars)
<1>0. PICK k, m : k = Top(t).id /\ m = [op |-> "REGISTER_SUCCESS", id |-> k]
  OBVIOUS
<1>1. /\ At(t, "reg_reply") /\ issued' = issued \cup ({k} \ {-1})
      /\ UNCHANGED <<users, friends>>
  BY <1>0 DEF RegReply, dbVars
<1>2. UNCHANGED <<Complete, Mutual(friends), Shown, Agreed>>
  BY <1>1, SameAccounts, SameClients
<1>3. k # -1 => /\ k \in Complete /\ k \in Id
                /\ k \notin issued /\ k \notin DOMAIN InitFriends
  <2>1. k \in Complete \cup {-1}
    BY <1>0, <1>1, AtRight DEF RegisterRight
  <2>2. k # -1 => Replying(Top(t))
    BY <1>0, <1>1 DEF At, Replying
  <2>3. up /\ Len(stack[t]) \in DOMAIN stack[t] /\ Top(t) = stack[t][Len(stack[t])]
    BY <1>1, AtRight, TopRight DEF Top
  <2> QED
    BY <1>0, <2>1, <2>2, <2>3 DEF ServerInv, IssuedRight, TablesRight, Complete
<1>4. /\ \A id : id \in InFlight <=> \E d \in Conn : \E i : Tells(d, i, id)
      /\ \A id : id \in InFlight' <=> \E d \in Conn : \E i : Tells(d, i, id)'
  BY InFlightTells, InFlightTellsNext
<1>5. k # -1 => k \notin InFlight /\ k \in Free
  BY <1>3, <1>4 DEF SentOnce, Free
<1>6. CASE Sends
  <2>1. InFlight' = InFlight /\ SentOnce'
    BY <1>1, <1>6, SameInFlight, SendsTells, SentKept
  <2>2. CASE k = -1
    BY <1>1, <1>2, <2>1, <2>2, SameFree DEF Service!vars
  <2>3. CASE k # -1
    <3>1. Free' = Free \ {k}
      BY <1>1, <1>2, <1>5, <2>1, <2>3 DEF Free
    <3>2. Service!Lose(k)
      BY <1>2, <3>1 DEF Service!Lose
    <3> QED
      BY <1>3, <2>1, <2>3, <3>2 DEF Service!Next
  <2> QED
    BY <2>2, <2>3, <2>1
<1>7. ASSUME NEW c \in Conn, tx' = [tx EXCEPT ![c] = Append(@, m)], k # -1
      PROVE  SentOnce' /\ [Service!Next]_(Service!vars)
  <2> DEFINE n == Len(tx[c]) + 1
  <2>0. PICK z : z = n
    OBVIOUS
  <2>1. /\ tx[c] \in Seq(Replies) /\ tx'[c] = Append(tx[c], m)
        /\ \A d \in Conn \ {c} : tx'[d] = tx[d]
    BY <1>7, ServerTypes
  <2>2. /\ DOMAIN tx[c] = 1 .. z - 1 /\ DOMAIN tx'[c] = 1 .. z /\ z \in Nat
        /\ tx'[c][z] = m /\ \A i \in DOMAIN tx[c] : tx'[c][i] = tx[c][i]
    BY <2>0, <2>1
  <2>3. /\ \A i, id : Tells(c, i, id)' <=> Tells(c, i, id) \/ (i = z /\ id = k)
        /\ \A d \in Conn \ {c} : \A i, id : Tells(d, i, id)' <=> Tells(d, i, id)
    <3>1. \A i, id : Tells(c, i, id)' <=> Tells(c, i, id) \/ (i = z /\ id = k)
      <4>1. /\ m.op = "REGISTER_SUCCESS" /\ m.id = k
            /\ \A i : i \in DOMAIN tx'[c] <=> i \in DOMAIN tx[c] \/ i = z
            /\ z \notin DOMAIN tx[c]
        <5>1. z \in Nat \ {0}
          BY <2>0, <2>1
        <5>2. 1 .. z = (1 .. z - 1) \cup {z} /\ z \notin 1 .. z - 1
          BY <5>1
        <5> QED
          BY <1>0, <2>2, <5>2
      <4>2. ASSUME NEW i, NEW id, i # z
            PROVE  Tells(c, i, id)' <=> Tells(c, i, id)
        BY <2>2, <4>1, <4>2 DEF Tells
      <4>3. \A id : Tells(c, z, id)' <=> id = k
        BY <1>7, <2>2, <4>1 DEF Tells
      <4>4. \A id : ~Tells(c, z, id)
        BY <4>1 DEF Tells
      <4> QED
        BY <4>2, <4>3, <4>4
    <3>2. \A d \in Conn \ {c} : \A i, id : Tells(d, i, id)' <=> Tells(d, i, id)
      BY <2>1 DEF Tells
    <3> QED
      BY <3>1, <3>2
  <2>4. \A d \in Conn : \A i : ~Tells(d, i, k)
    BY <1>4, <1>5, <1>7
  <2>5. SentOnce'
    <3>1. ASSUME NEW d \in Conn, NEW i, NEW id, Tells(d, i, id)'
          PROVE  id \in issued'
      BY <1>1, <1>7, <2>3, <3>1 DEF SentOnce
    <3>2. ASSUME NEW d \in Conn, NEW e \in Conn, NEW i, NEW j, NEW id,
                 Tells(d, i, id)', Tells(e, j, id)'
          PROVE  d = e /\ i = j
      <4>1. CASE id = k
        BY <2>3, <2>4, <3>2, <4>1
      <4>2. CASE id # k
        <5>1. Tells(d, i, id) /\ Tells(e, j, id)
          BY <2>3, <3>2, <4>2
        <5> QED
          BY <5>1 DEF SentOnce
      <4> QED
        BY <4>1, <4>2
    <3> QED
      BY <3>1, <3>2 DEF SentOnce
  <2>6. InFlight' = InFlight \cup {k}
    <3>1. k \in InFlight'
      BY <1>4, <2>3
    <3>2. \A id : id # k => (id \in InFlight' <=> id \in InFlight)
      BY <1>4, <2>3
    <3> QED
      BY <3>1, <3>2
  <2>7. Free' = Free
    BY <1>1, <1>2, <1>5, <1>7, <2>6 DEF Free
  <2> QED
    BY <1>2, <2>5, <2>7 DEF Service!vars
<1>8. Sends \/ (k # -1 /\ \E c \in Conn : tx' = [tx EXCEPT ![c] = Append(@, m)])
  <2>1. PICK fd, d : WriteServer(t, fd, m, d, d)
    BY <1>0 DEF RegReply
  <2>2. CASE IsOpen(fd) /\ tx' = [tx EXCEPT ![fdt[fd]] = Append(@, m)]
    <3>1. fdt[fd] \in Conn
      BY <2>2, ServerTypes DEF IsOpen
    <3>2. k = -1 => Sends
      BY <1>0, <2>2, <3>1 DEF Sends
    <3> QED
      BY <2>2, <3>1, <3>2
  <2>3. CASE UNCHANGED tx
    BY <2>3 DEF Sends
  <2> QED
    BY <2>1, <2>2, <2>3 DEF WriteServer, Failed, ServerGone, netVars
<1> QED
  BY <1>6, <1>7, <1>8

LEMMA PairsEqual ==
    ASSUME NEW S, NEW T, S \subseteq Id \X Id, T \subseteq Id \X Id,
           \A x, y \in Id : <<x, y>> \in S <=> <<x, y>> \in T
    PROVE  S = T
<1>1. ASSUME NEW p \in Id \X Id PROVE p \in S <=> p \in T
  <2>1. PICK x \in Id, y \in Id : p = <<x, y>>
    OBVIOUS
  <2> QED
    BY <2>1
<1> QED
  BY <1>1

(* A row that gets its mirror, or finds it there, makes a friendship.      *)
LEMMA BefriendStep ==
    ASSUME ServerInv, ServerInv', NEW a, NEW b,
           a \in DOMAIN friends, b \notin friends[a],
           friends' = [friends EXCEPT ![a] = @ \cup {b}],
           UNCHANGED <<Free, Shown, Agreed>>
    PROVE  [Service!Next]_(Service!vars)
<1>1. /\ DOMAIN friends' = DOMAIN friends
      /\ friends'[a] = friends[a] \cup {b}
      /\ \A i \in DOMAIN friends \ {a} : friends'[i] = friends[i]
  OBVIOUS
<1>2. /\ Complete = DOMAIN friends /\ Complete' = DOMAIN friends /\ DOMAIN friends \subseteq Id
      /\ friends \in [DOMAIN friends -> SUBSET Id]
  BY <1>1 DEF ServerInv, TablesRight, Complete
<1>3. CASE b \in DOMAIN friends /\ (b = a \/ a \in friends[b])
  <2>1. <<a, b>> \notin Mutual(friends)
    BY DEF Mutual
  <2>2. Mutual(friends)' = Mutual(friends) \cup {<<a, b>>, <<b, a>>}
    <3>1. ASSUME NEW x \in Id, NEW y \in Id
          PROVE  <<x, y>> \in Mutual(friends)' <=>
                   <<x, y>> \in Mutual(friends) \cup {<<a, b>>, <<b, a>>}
      <4>1. CASE x = a /\ y = b
        BY <1>1, <1>2, <1>3, <4>1 DEF Mutual
      <4>2. CASE x = b /\ y = a
        BY <1>1, <1>2, <1>3, <4>2 DEF Mutual
      <4>3. CASE <<x, y>> # <<a, b>> /\ <<x, y>> # <<b, a>>
        <5>1. ~(x = a /\ y = b) /\ ~(x = b /\ y = a)
          BY <4>3
        <5>2. <<x, y>> \in Mutual(friends)' <=> <<x, y>> \in Mutual(friends)
          BY <1>1, <5>1 DEF Mutual
        <5> QED
          BY <4>3, <5>2
      <4> QED
        BY <4>1, <4>2, <4>3
    <3>2. /\ Mutual(friends)' \subseteq Id \X Id /\ Mutual(friends) \subseteq Id \X Id
          /\ {<<a, b>>, <<b, a>>} \subseteq Id \X Id
      BY <1>2, <1>3 DEF Mutual
    <3>3. PICK S, T : /\ S = Mutual(friends)'
                      /\ T = Mutual(friends) \cup {<<a, b>>, <<b, a>>}
      OBVIOUS
    <3>4. S \subseteq Id \X Id /\ T \subseteq Id \X Id
      BY ONLY <3>2, <3>3
    <3>5. \A x, y \in Id : <<x, y>> \in S <=> <<x, y>> \in T
      BY ONLY <3>1, <3>3
    <3>6. S = T
      BY ONLY <3>4, <3>5, PairsEqual
    <3> QED
      BY <3>3, <3>6
  <2>3. Service!Befriend(a, b)
    BY <1>2, <1>3, <2>1, <2>2 DEF Service!Befriend
  <2> QED
    BY <1>2, <1>3, <2>3 DEF Service!Next
<1>4. CASE ~(b \in DOMAIN friends /\ (b = a \/ a \in friends[b]))
  <2>1. ASSUME NEW x \in Id, NEW y \in Id
        PROVE  <<x, y>> \in Mutual(friends)' <=> <<x, y>> \in Mutual(friends)
    BY <1>1, <1>4 DEF Mutual
  <2>2. Mutual(friends)' \subseteq Id \X Id /\ Mutual(friends) \subseteq Id \X Id
    BY DEF Mutual
  <2>3. Mutual(friends)' = Mutual(friends)
    BY <2>1, <2>2, PairsEqual
  <2> QED
    BY <1>2, <2>3 DEF Service!vars
<1> QED
  BY <1>3, <1>4

LEMMA InsertStep ==
    ASSUME ServerInv, ServerInv', NEW t \in Thread, AlwInsert1(t) \/ AlwInsert2(t),
           UNCHANGED clientVars
    PROVE  [Service!Next]_(Service!vars)
<1>1. PICK a, b, f, g : Insert(t, a, b, f, g)
  BY DEF AlwInsert1, AlwInsert2
<1>2. UNCHANGED <<tx, users, issued>>
  BY <1>1 DEF Insert, netVars
<1>3. InFlight' = InFlight
  BY <1>2, SameInFlight DEF Sends
<1>4. CASE UNCHANGED friends
  BY <1>2, <1>3, <1>4, SameAccounts, SameFree, SameClients DEF Service!vars
<1>5. CASE /\ a \in DOMAIN friends /\ b \notin friends[a]
           /\ friends' = [friends EXCEPT ![a] = @ \cup {b}]
  <2>1. Complete' = Complete
    BY <1>2, <1>5 DEF Complete, UserIds
  <2> QED
    BY <1>2, <1>3, <1>5, <2>1, SameFree, SameClients, BefriendStep
<1> QED
  BY <1>1, <1>4, <1>5 DEF Insert

(* The steps of handlers, and of the loop, that the users cannot see.      *)
LEMMA SilentStep ==
    ASSUME ServerInv, ServerInv', Sends, UNCHANGED <<friends, issued>>,
           UNCHANGED clientVars
    PROVE  UNCHANGED Service!vars
BY SameAccounts, SameInFlight, SameFree, SameClients DEF Service!vars

LEMMA ServerRefines ==
    ASSUME ServerInv, ServerInv', SentOnce, NEW t \in Thread, ServerStep(t),
           UNCHANGED clientVars
    PROVE  SentOnce' /\ [Service!Next]_(Service!vars)
<1>1. CASE RegReply(t)
  BY <1>1, ReplyStep
<1>2. CASE ~RegReply(t)
  <2>1. Sends
    BY <1>2, ServerSends
  <2>2. CASE RegCreate(t)
    <3>1. issued' = issued
      BY <2>2 DEF RegCreate, ghostVars
    <3> QED
      BY <2>1, <2>2, <3>1, CreateStep, SendsTells, SentKept
  <2>3. CASE AlwInsert1(t) \/ AlwInsert2(t)
    <3>1. issued' = issued
      BY <2>3 DEF AlwInsert1, AlwInsert2, Insert
    <3> QED
      BY <2>1, <2>3, <3>1, InsertStep, SendsTells, SentKept
  <2>4. CASE Plain(t) \/ Die \/ RegInsert(t)
    <3>1. UNCHANGED <<friends, issued>>
      BY <2>4 DEF Plain, Die, RegInsert, dbVars, ghostVars, ServerGone
    <3> QED
      BY <2>1, <3>1, SilentStep, SendsTells, SentKept
  <2> QED
    BY <1>2, <2>2, <2>3, <2>4, StepKinds
<1> QED
  BY <1>1, <1>2

----------------------------------------------------------------------------
(* The same of the steps of the clients.                                   *)

StillServer == UNCHANGED serverVars

LEMMA ServerStill ==
    ASSUME StillServer PROVE UNCHANGED <<users, friends, issued>>
BY DEF StillServer, serverVars

(* A step in which no client reads a packet, and no dialogue is shown.     *)
LEMMA UnreadStep ==
    ASSUME ServerInv, ServerInv', SentOnce, StillServer, tx' = tx,
           UNCHANGED <<Shown, Agreed>>
    PROVE  SentOnce' /\ UNCHANGED Service!vars
<1>1. UNCHANGED <<users, friends, issued>> /\ Sends
  BY ServerStill DEF Sends
<1> QED
  BY <1>1, SameAccounts, SameInFlight, SameFree, SendsTells, SentKept DEF Service!vars

(* One in which a client reads a packet: it has an id that has been sent,  *)
(* or none.                                                                *)
LEMMA ReadStep ==
    ASSUME ServerInv, ServerInv', SentOnce, StillServer,
           NEW c \in Conn, tx[c] # << >>, tx' = [tx EXCEPT ![c] = Tail(@)],
           NEW m, m = Head(tx[c])
    PROVE  /\ SentOnce'
           /\ UNCHANGED <<Complete, Mutual(friends)>>
           /\ IF m.op = "REGISTER_SUCCESS" /\ m.id # -1
              THEN m.id \in Free /\ m.id \in Id /\ Free' = Free \ {m.id}
              ELSE Free' = Free
<1>1. UNCHANGED <<users, friends, issued>>
  BY ServerStill
<1>2. UNCHANGED <<Complete, Mutual(friends)>>
  BY <1>1, SameAccounts
<1>3. /\ SentOnce'
      /\ \/ /\ m.op # "REGISTER_SUCCESS" \/ m.id = -1
            /\ InFlight' = InFlight
         \/ /\ m.op = "REGISTER_SUCCESS"
            /\ m.id \in InFlight \cap issued
            /\ InFlight' = InFlight \ {m.id}
  BY <1>1, SentRead
<1>4. CASE InFlight' = InFlight
  BY <1>1, <1>2, <1>3, <1>4, SameFree
<1>5. CASE /\ m.op = "REGISTER_SUCCESS" /\ m.id \in InFlight \cap issued
           /\ InFlight' = InFlight \ {m.id}
  <2>1. /\ m.id \in Complete /\ m.id \in Id
        /\ m.id \notin DOMAIN InitFriends
    BY <1>5 DEF ServerInv, IssuedRight, TablesRight, Complete
  <2>2. m.id \in Free
    BY <1>5, <2>1 DEF Free
  <2>3. Free' = Free \ {m.id}
    BY <1>1, <1>2, <1>5 DEF Free
  <2>4. m.id # -1
    BY <1>5 DEF InFlight
  <2> QED
    BY <1>2, <1>3, <1>5, <2>1, <2>2, <2>3, <2>4
<1> QED
  BY <1>2, <1>3, <1>4, <1>5

(* Registered: the id that is displayed.                                   *)
LEMMA RegisteredStep ==
    ASSUME ServerInv, ServerInv', ClientInv, SentOnce, StillServer,
           NEW c \in Conn, Registered(c)
    PROVE  SentOnce' /\ [Service!Next]_(Service!vars)
<1>1. PICK m : m = Head(tx[c])
  OBVIOUS
<1>2. /\ tx[c] # << >> /\ tx' = [tx EXCEPT ![c] = Tail(@)]
      /\ m.op = "REGISTER_SUCCESS" /\ m.id # -1 /\ cli[c] = "reg_wait"
      /\ told' = [told EXCEPT ![c].id = m.id] /\ UNCHANGED <<mine, heard>>
  BY <1>1 DEF Registered, Read
<1>3. /\ SentOnce' /\ UNCHANGED <<Complete, Mutual(friends)>>
      /\ m.id \in Free /\ m.id \in Id /\ Free' = Free \ {m.id}
  BY <1>1, <1>2, ReadStep
<1>4. told[c] \in Credentials /\ told[c] # None
  BY <1>2 DEF ClientInv, ClientTypeOK, ClientRight
<1>5. PICK k, r : k = m.id /\ r = [told[c] EXCEPT !.id = k]
  OBVIOUS
<1>6. r # None /\ r.id = k /\ told' = [told EXCEPT ![c] = r]
  BY <1>2, <1>3, <1>4, <1>5, AccountAssumption DEF Credentials
<1>7. told'[c] = r /\ \A d \in Conn \ {c} : told'[d] = told[d]
  BY <1>6 DEF ClientInv, ClientTypeOK
<1>8. Shown' = [Shown EXCEPT ![c] = k]
  <2>1. \A d \in Conn : Shown'[d] = [Shown EXCEPT ![c] = k][d]
    BY <1>6, <1>7 DEF Shown
  <2> QED
    BY <2>1 DEF Shown
<1>9. Agreed' = Agreed
  BY <1>2 DEF Agreed
<1>10. Service!Show(c, k)
  BY <1>3, <1>5, <1>8, <1>9 DEF Service!Show
<1> QED
  BY <1>3, <1>5, <1>10 DEF Service!Next

(* UnknownOptype: one that nobody waits for any more.                      *)
LEMMA UnknownStep ==
    ASSUME ServerInv, ServerInv', ClientInv, SentOnce, StillServer,
           NEW c \in Conn, UnknownOptype(c)
    PROVE  SentOnce' /\ [Service!Next]_(Service!vars)
<1>1. PICK m : m = Head(tx[c])
  OBVIOUS
<1>2. tx[c] # << >> /\ tx' = [tx EXCEPT ![c] = Tail(@)] /\ UNCHANGED clientVars
  BY DEF UnknownOptype, Read
<1>3. /\ SentOnce' /\ UNCHANGED <<Complete, Mutual(friends)>>
      /\ IF m.op = "REGISTER_SUCCESS" /\ m.id # -1
         THEN m.id \in Free /\ m.id \in Id /\ Free' = Free \ {m.id}
         ELSE Free' = Free
  BY <1>1, <1>2, ReadStep
<1>4. UNCHANGED <<Shown, Agreed>>
  BY <1>2, SameClients
<1>5. CASE Free' = Free
  BY <1>3, <1>4, <1>5 DEF Service!vars
<1>6. CASE m.id \in Free /\ m.id \in Id /\ Free' = Free \ {m.id}
  <2>1. Service!Lose(m.id)
    BY <1>3, <1>4, <1>6 DEF Service!Lose
  <2> QED
    BY <1>3, <1>6, <2>1 DEF Service!Next
<1> QED
  BY <1>3, <1>5, <1>6

(* AllowAddfAction: what is read about a request, of a friendship that is. *)
LEMMA AllowStep ==
    ASSUME ServerInv, ServerInv', ClientInv, SentOnce, StillServer,
           NEW c \in Conn, AllowAddfAction(c)
    PROVE  SentOnce' /\ [Service!Next]_(Service!vars)
<1>1. PICK m, h : m = Head(tx[c]) /\ h = [dst |-> m.dst, ans |-> m.ans]
  OBVIOUS
<1>2. /\ Read(c, "in", {"ALLOW_ADDF"})
      /\ heard' = IF m.src = mine[c] THEN [heard EXCEPT ![c] = @ \cup {h}] ELSE heard
      /\ UNCHANGED <<mine, told>>
  BY <1>1 DEF AllowAddfAction
<1>3. /\ tx[c] # << >> /\ tx' = [tx EXCEPT ![c] = Tail(@)]
      /\ m.op = "ALLOW_ADDF" /\ m \in Replies
  BY <1>1, <1>2, ReadTyped DEF Read
<1>4. SentOnce' /\ UNCHANGED <<Complete, Mutual(friends)>> /\ Free' = Free
  BY <1>1, <1>3, ReadStep
<1>5. Shown' = Shown
  BY <1>2 DEF Shown
<1>6. CASE m.src # mine[c]
  <2>1. Agreed' = Agreed
    BY <1>2, <1>6 DEF Agreed
  <2> QED
    BY <1>4, <1>5, <2>1 DEF Service!vars
<1>7. CASE m.src = mine[c]
  <2>1. /\ heard'[c] = heard[c] \cup {h} /\ \A d \in Conn \ {c} : heard'[d] = heard[d]
        /\ \A d \in Conn : mine'[d] = mine[d]
    BY <1>2, <1>7 DEF ClientInv, ClientTypeOK
  <2>2. PICK p : p = <<m.src, m.dst>>
    OBVIOUS
  <2>3. CASE h.ans # 1
    <3>1. {g \in heard'[c] : g.ans = 1} = {g \in heard[c] : g.ans = 1}
      BY <2>1, <2>3
    <3>2. Agreed' = Agreed
      BY <2>1, <3>1 DEF Agreed
    <3> QED
      BY <1>4, <1>5, <3>2 DEF Service!vars
  <2>4. CASE h.ans = 1
    <3>1. {g \in heard'[c] : g.ans = 1} = {g \in heard[c] : g.ans = 1} \cup {h}
      BY <2>1, <2>4
    <3>2. h.dst = m.dst
      BY <1>1
    <3>3. Agreed' = [Agreed EXCEPT ![c] = @ \cup {p}]
      <4>1. ASSUME NEW d \in Conn, d # c PROVE Agreed'[d] = Agreed[d]
        BY <2>1, <4>1 DEF Agreed
      <4>2. Agreed'[c] = Agreed[c] \cup {p}
        <5>1. PICK n, S : n = mine[c] /\ S = {g \in heard[c] : g.ans = 1}
          OBVIOUS
        <5>2. Agreed[c] = {<<n, g.dst>> : g \in S}
          BY <5>1 DEF Agreed
        <5>3. Agreed'[c] = {<<n, g.dst>> : g \in S \cup {h}}
          BY <2>1, <3>1, <5>1 DEF Agreed
        <5>4. p = <<n, h.dst>>
          BY <1>7, <2>2, <3>2, <5>1
        <5> QED
          BY ONLY <5>2, <5>3, <5>4
      <4>3. \A d \in Conn : Agreed'[d] = [Agreed EXCEPT ![c] = @ \cup {p}][d]
        BY <4>1, <4>2 DEF Agreed
      <4> QED
        BY <4>3 DEF Agreed
    <3>4. p \in Mutual(friends) /\ p \in Id \X Id
      <4>1. m.src \in Id /\ m.dst \in Id /\ Row(m.src, m.dst) /\ Row(m.dst, m.src)
        BY <1>1, <1>3, <2>4 DEF Replies, ToClient
      <4> QED
        BY <2>2, <4>1 DEF Mutual, Row
    <3>5. Service!Hear(c, p)
      BY <1>4, <1>5, <3>3, <3>4 DEF Service!Hear
    <3> QED
      BY <1>4, <3>4, <3>5 DEF Service!Next
  <2> QED
    BY <2>3, <2>4
<1> QED
  BY <1>6, <1>7

(* The other packets.                                                      *)
LEMMA PlainReadStep ==
    ASSUME ServerInv, ServerInv', ClientInv, SentOnce, StillServer, NEW c \in Conn,
           LoggedIn(c) \/ OnlineAction(c) \/ OfflineAction(c) \/ AddFriendAction(c)
    PROVE  SentOnce' /\ [Service!Next]_(Service!vars)
<1>1. PICK m : m = Head(tx[c])
  OBVIOUS
<1>2. /\ tx[c] # << >> /\ tx' = [tx EXCEPT ![c] = Tail(@)] /\ UNCHANGED <<mine, told, heard>>
      /\ m.op \in {"LOGIN_FEEDBACK", "ONLINE", "OFFLINE", "ADD_FRIEND"}
  BY <1>1 DEF LoggedIn, OnlineAction, OfflineAction, AddFriendAction, Read, clientVars
<1>3. SentOnce' /\ UNCHANGED <<Complete, Mutual(friends)>> /\ Free' = Free
  BY <1>1, <1>2, ReadStep
<1>4. UNCHANGED <<Shown, Agreed>>
  BY <1>2 DEF Shown, Agreed
<1> QED
  BY <1>3, <1>4 DEF Service!vars

(* A new registration takes the last one's id off the screen.              *)
LEMMA ClearStep ==
    ASSUME ServerInv, ServerInv', ClientInv, SentOnce, StillServer,
           NEW c \in Conn, Register(c)
    PROVE  SentOnce' /\ [Service!Next]_(Service!vars)
<1>0. PICK pwd \in Pwd : told' = [told EXCEPT ![c] = [id |-> 0, pwd |-> pwd]]
  BY DEF Register
<1>1. PICK r : r = [id |-> 0, pwd |-> pwd] /\ told' = [told EXCEPT ![c] = r]
  BY <1>0
<1>2. r.id = 0 /\ r # None
  BY <1>1, AccountAssumption DEF Credentials
<1>3. told'[c] = r /\ \A d \in Conn \ {c} : told'[d] = told[d]
  BY <1>1 DEF ClientInv, ClientTypeOK
<1>4. tx' = tx /\ UNCHANGED <<mine, heard>>
  BY DEF Register, Request
<1>5. Agreed' = Agreed
  BY <1>4 DEF Agreed
<1>6. Shown' = [Shown EXCEPT ![c] = 0]
  <2>1. \A d \in Conn : Shown'[d] = [Shown EXCEPT ![c] = 0][d]
    BY <1>2, <1>3 DEF Shown
  <2> QED
    BY <2>1 DEF Shown
<1>7. UNCHANGED <<users, friends, issued>> /\ Sends
  BY <1>4, ServerStill DEF Sends
<1>8. Service!Clear(c) /\ SentOnce'
  BY <1>5, <1>6, <1>7, SameAccounts, SameInFlight, SameFree, SendsTells, SentKept
     DEF Service!Clear
<1> QED
  BY <1>8 DEF Service!Next

(* The user has read nothing when mine gets its value.                     *)
LEMMA LoginStep ==
    ASSUME ServerInv, ServerInv', ClientInv, SentOnce, StillServer,
           NEW c \in Conn, Login(c)
    PROVE  SentOnce' /\ UNCHANGED Service!vars
<1>1. /\ cli[c] \in {"menu", "login"} /\ UNCHANGED <<tx, told, heard>>
      /\ \E n : mine' = [mine EXCEPT ![c] = n]
  BY DEF Login, Request
<1>2. heard[c] = {}
  BY <1>1 DEF ClientInv, ClientRight
<1>3. \A d \in Conn \ {c} : mine'[d] = mine[d]
  BY <1>1 DEF ClientInv, ClientTypeOK
<1>4. Agreed' = Agreed
  <2>1. \A d \in Conn : Agreed'[d] = Agreed[d]
    BY <1>1, <1>2, <1>3 DEF Agreed
  <2> QED
    BY <2>1 DEF Agreed
<1>5. Shown' = Shown
  BY <1>1 DEF Shown
<1> QED
  BY <1>1, <1>4, <1>5, UnreadStep

(* The end of a client, whichever way: what was on its way to it is lost.  *)
LEMMA LeaveStep ==
    ASSUME ServerInv, ServerInv', ClientInv, SentOnce, StillServer,
           NEW c \in Conn, Exit(c)
    PROVE  SentOnce' /\ [Service!Next]_(Service!vars)
<1>1. /\ tx' = [tx EXCEPT ![c] = << >>] /\ mine' = [mine EXCEPT ![c] = 0]
      /\ told' = [told EXCEPT ![c] = None] /\ heard' = [heard EXCEPT ![c] = {}]
  BY DEF Exit, ClientGone
<1>2. /\ tx'[c] = << >> /\ told'[c] = None /\ heard'[c] = {}
      /\ \A d \in Conn \ {c} : /\ tx'[d] = tx[d] /\ told'[d] = told[d]
                               /\ heard'[d] = heard[d] /\ mine'[d] = mine[d]
  BY <1>1, ServerTypes DEF ClientInv, ClientTypeOK
<1>3. \A d \in Conn : \A i, id : Tells(d, i, id)' => Tells(d, i, id)
  BY <1>2 DEF Tells
<1>4. UNCHANGED <<users, friends, issued>>
  BY ServerStill
<1>5. SentOnce'
  BY <1>3, <1>4 DEF SentOnce
<1>6. InFlight' \subseteq InFlight
  BY <1>3, InFlightTells, InFlightTellsNext
<1>7. UNCHANGED <<Complete, Mutual(friends)>>
  BY <1>4, SameAccounts
<1>8. Free' \subseteq Free
  BY <1>4, <1>6, <1>7 DEF Free
<1>9. Shown' = [Shown EXCEPT ![c] = 0]
  <2>1. \A d \in Conn : Shown'[d] = [Shown EXCEPT ![c] = 0][d]
    BY <1>2 DEF Shown
  <2> QED
    BY <2>1 DEF Shown
<1>10. Agreed' = [Agreed EXCEPT ![c] = {}]
  <2>1. \A d \in Conn : Agreed'[d] = [Agreed EXCEPT ![c] = {}][d]
    BY <1>2 DEF Agreed
  <2> QED
    BY <2>1 DEF Agreed
<1>11. Service!Leave(c)
  BY <1>7, <1>8, <1>9, <1>10 DEF Service!Leave
<1> QED
  BY <1>5, <1>11 DEF Service!Next

LEMMA UserRefines ==
    ASSUME ServerInv, ServerInv', ClientInv, SentOnce, NEW c \in Conn, UserStep(c)
    PROVE  SentOnce' /\ [Service!Next]_(Service!vars)
<1>1. StillServer
  BY DEF UserStep, StillServer
<1>2. CASE Register(c)
  BY <1>1, <1>2, ClearStep
<1>3. CASE Login(c)
  BY <1>1, <1>3, LoginStep
<1>4. CASE Quit(c)
  BY <1>1, <1>4, LeaveStep DEF Quit
<1>5. CASE AddFriend(c) \/ Offline(c) \/ Connect(c)
  <2>1. UNCHANGED <<tx, mine, told, heard>>
    BY <1>5 DEF AddFriend, Offline, Connect, Request
  <2>2. UNCHANGED <<Shown, Agreed>>
    BY <2>1 DEF Shown, Agreed
  <2> QED
    BY <1>1, <2>1, <2>2, UnreadStep
<1> QED
  BY <1>2, <1>3, <1>4, <1>5 DEF UserStep, UserActs

LEMMA ClientRefines ==
    ASSUME ServerInv, ServerInv', ClientInv, SentOnce, NEW c \in Conn, ClientStep(c)
    PROVE  SentOnce' /\ [Service!Next]_(Service!vars)
<1>1. StillServer
  BY DEF ClientStep, StillServer
<1>2. CASE Disconnected(c) \/ DialogueExits(c) \/ AllowDisconnectAction(c)
  <2>1. Exit(c)
    BY <1>2 DEF Disconnected, DialogueExits, AllowDisconnectAction
  <2> QED
    BY <1>1, <2>1, LeaveStep
<1>3. CASE Registered(c) \/ UnknownOptype(c) \/ AllowAddfAction(c)
  BY <1>1, <1>3, RegisteredStep, UnknownStep, AllowStep
<1>4. CASE LoggedIn(c) \/ OnlineAction(c) \/ OfflineAction(c) \/ AddFriendAction(c)
  BY <1>1, <1>4, PlainReadStep
<1>5. CASE Refused(c)
  <2>1. UNCHANGED <<tx, mine, told, heard>>
    BY <1>5 DEF Refused, netVars
  <2>2. UNCHANGED <<Shown, Agreed>>
    BY <2>1 DEF Shown, Agreed
  <2> QED
    BY <1>1, <2>1, <2>2, UnreadStep
<1> QED
  BY <1>2, <1>3, <1>4, <1>5 DEF ClientStep, ClientReacts

LEMMA StepRefines ==
    ASSUME IInv, IInv', SentOnce, [Next]_vars
    PROVE  SentOnce' /\ [Service!Next]_(Service!vars)
<1>1. ServerInv /\ ServerInv' /\ ClientInv
  BY DEF IInv
<1>2. ASSUME NEW t \in Thread, ThreadStep(t)
      PROVE  SentOnce' /\ [Service!Next]_(Service!vars)
  BY <1>1, <1>2, ServerRefines DEF ThreadStep
<1>3. ASSUME NEW c \in Conn, UserStep(c) \/ ClientStep(c)
      PROVE  SentOnce' /\ [Service!Next]_(Service!vars)
  BY <1>1, <1>3, UserRefines, ClientRefines
<1>4. ASSUME NEW c \in Conn, AcceptStep(c)
      PROVE  SentOnce' /\ [Service!Next]_(Service!vars)
  <2>1. UNCHANGED <<tx, friends, issued, clientVars>> /\ Sends
    BY <1>4 DEF AcceptStep, Accept, dbVars, Sends
  <2> QED
    BY <1>1, <2>1, SilentStep, SendsTells, SentKept
<1>5. CASE UNCHANGED vars
  <2>1. UNCHANGED <<tx, friends, issued, clientVars>> /\ Sends
    BY <1>5 DEF vars, netVars, serverVars, Sends
  <2> QED
    BY <1>1, <2>1, SilentStep, SendsTells, SentKept
<1> QED
  BY <1>2, <1>3, <1>4, <1>5 DEF Next

LEMMA InitRefines == ASSUME Init PROVE SentOnce /\ Service!Init
<1> USE DEF Init, NetInit, ServerInit, ClientInit
<1>1. \A c \in Conn : tx[c] = << >> /\ told[c] = None /\ heard[c] = {}
  OBVIOUS
<1>2. SentOnce
  BY <1>1 DEF SentOnce, Tells
<1>3. InFlight = {}
  BY <1>1 DEF InFlight, Range
<1>4. Complete = DOMAIN InitFriends
  BY TablesAssumption DEF Complete, UserIds
<1>5. Free = {} /\ Mutual(friends) = Mutual(InitFriends)
  BY <1>4 DEF Free
<1>6. Shown = [c \in Conn |-> 0] /\ Agreed = [c \in Conn |-> {}]
  BY <1>1 DEF Shown, Agreed
<1> QED
  BY <1>2, <1>4, <1>5, <1>6 DEF Service!Init

(* register_action, allow_addf_action and the packets between server and   *)
(* clients keep the promises of ChatService, as single steps: an account   *)
(* gets its row and its table whole or not at all, its id is displayed to  *)
(* one user at most, a friendship begins for both sides at once, and a     *)
(* user who reads of one reads of one that holds; for any number of        *)
(* clients and handlers, and whatever queries and connections break.       *)
THEOREM PromisesKept == Spec => KeepsPromises
<1>1. Init => Service!Init /\ SentOnce
  BY InitRefines
<1>2. IInv /\ IInv' /\ SentOnce /\ [Next]_vars => SentOnce' /\ [Service!Next]_(Service!vars)
  BY StepRefines
<1> QED
  BY <1>1, <1>2, Invariance, PTL DEF Spec, KeepsPromises, Service!Spec

(* The promises taken together.  An id that a user has been shown is that  *)
(* of an account that no other user is or will be shown, and whatever the  *)
(* users have read of friendships holds on both sides: by induction over   *)
(* the steps of ChatService, which is all that is needed of the chat.      *)
Trusted == Free \subseteq Complete /\ Service!ShownOnce /\ Service!AgreedHolds

LEMMA ServiceTrusted ==
    ASSUME Trusted, [Service!Next]_(Service!vars)
    PROVE  Trusted'
<1> USE DEF Trusted, Service!ShownOnce, Service!AgreedHolds
<1>1. CASE UNCHANGED Service!vars
  BY <1>1 DEF Service!vars
<1>2. ASSUME NEW id \in Id, Service!Create(id) \/ Service!Lose(id) PROVE Trusted'
  <2>1. /\ Complete \subseteq Complete' /\ Free' \subseteq Complete'
        /\ \A i \in Complete : i \in Free' => i \in Free
        /\ UNCHANGED <<Shown, Agreed, Mutual(friends)>>
    BY <1>2 DEF Service!Create, Service!Lose
  <2> QED
    BY <2>1
<1>3. ASSUME NEW a \in Id, NEW b \in Id, Service!Befriend(a, b) PROVE Trusted'
  BY <1>3 DEF Service!Befriend
<1>4. ASSUME NEW c \in Conn, Service!Clear(c) \/ Service!Leave(c) PROVE Trusted'
  <2>1. /\ Shown' = [Shown EXCEPT ![c] = 0] /\ Free' \subseteq Free
        /\ Agreed' = Agreed \/ Agreed' = [Agreed EXCEPT ![c] = {}]
        /\ UNCHANGED <<Complete, Mutual(friends)>>
    BY <1>4 DEF Service!Clear, Service!Leave
  <2>2. Shown'[c] = 0 /\ \A d \in Conn \ {c} : Shown'[d] = Shown[d]
    BY <2>1 DEF Shown
  <2>3. \A d \in Conn : Agreed'[d] = Agreed[d] \/ Agreed'[d] = {}
    BY <2>1 DEF Agreed
  <2> QED
    BY <2>1, <2>2, <2>3
<1>5. ASSUME NEW c \in Conn, NEW id \in Id, Service!Show(c, id) PROVE Trusted'
  <2>1. /\ Shown' = [Shown EXCEPT ![c] = id] /\ id \in Free /\ Free' = Free \ {id}
        /\ UNCHANGED <<Agreed, Complete, Mutual(friends)>>
    BY <1>5 DEF Service!Show
  <2>2. Shown'[c] = id /\ \A d \in Conn \ {c} : Shown'[d] = Shown[d]
    BY <2>1 DEF Shown
  <2> QED
    BY <2>1, <2>2
<1>6. ASSUME NEW c \in Conn, NEW p \in Id \X Id, Service!Hear(c, p) PROVE Trusted'
  <2>1. /\ Agreed' = [Agreed EXCEPT ![c] = @ \cup {p}] /\ p \in Mutual(friends)
        /\ UNCHANGED <<Shown, Free, Complete, Mutual(friends)>>
    BY <1>6 DEF Service!Hear
  <2>2. \A d \in Conn : Agreed'[d] \subseteq Agreed[d] \cup {p}
    BY <2>1 DEF Agreed
  <2> QED
    BY <2>1, <2>2
<1> QED
  BY <1>1, <1>2, <1>3, <1>4, <1>5, <1>6 DEF Service!Next

(* Hence, of the program: no account of this run is on the screens of two  *)
(* users, none that is displayed is still on its way to somebody, and no   *)
(* user has read of a friendship that either side does not have.           *)
THEOREM UsersMayTrust == Spec => [](Service!ShownOnce /\ Service!AgreedHolds)
<1>1. Service!Init => Trusted
  BY DEF Service!Init, Trusted, Service!ShownOnce, Service!AgreedHolds
<1>2. Trusted /\ [Service!Next]_(Service!vars) => Trusted'
  BY ServiceTrusted
<1>3. Trusted => Service!ShownOnce /\ Service!AgreedHolds
  BY DEF Trusted
<1> QED
  BY <1>1, <1>2, <1>3, PromisesKept, PTL DEF KeepsPromises, Service!Spec
============================================================================
