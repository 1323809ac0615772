----------------------------- MODULE ChatServer -----------------------------
(***************************************************************************)
(* The chat server: server.c's dispatch, the handlers of server_action.c   *)
(* with the server half of socket.c, and the tables mmsql.c works on.      *)
(*                                                                         *)
(* main starts one thread for every event and every thread runs one        *)
(* handler.  A step of a thread is one access to something shared: a query *)
(* (mysql_go), a call of linklist.c, a write to a socket, a close.  The    *)
(* interleavings inside linklist.c, and the unlocked return of search_list *)
(* among them, are OnlineList's; here a call of it is one step, and what   *)
(* it returned is used in a later one.                                     *)
(*                                                                         *)
(* A thread is a stack of frames, one per active call: at the bottom the   *)
(* handler of the packet, above it the offline_action that a failed read   *)
(* or write runs, whose own writes may fail in turn.                       *)
(***************************************************************************)
EXTENDS ChatNet, FiniteSets, SequencesExt

CONSTANTS
    Thread,       \* handler threads alive at a time (bounds concurrency)
    NoEntry,      \* the pointer NULL
    NoPkt,        \* the packet of a frame that serves none
    Faults,       \* the queries that may fail
    InitUsers,    \* the persistent tables the server starts with
    InitFriends

Queries == {"reg_insert", "reg_max", "reg_create", "log_query", "log_friends",
            "off_query", "add_query", "alw_ins1", "alw_ins2"}

ASSUME FaultAssumption == Faults \subseteq Queries

(* NULL points to no entry.                                                *)
ASSUME EntryAssumption == NoEntry \notin Entry

(* The rows of the table user are numbered from 1; a friends table has ids. *)
ASSUME UsersAssumption ==
    /\ InitUsers \in Seq(Pwd)
    /\ 1 .. Len(InitUsers) \subseteq Id
ASSUME FriendsAssumption ==
    /\ InitFriends \in [DOMAIN InitFriends -> SUBSET Id]
    /\ DOMAIN InitFriends \subseteq Id

VARIABLES
    users,      \* table user: users[i] is the password of the row with id i
    friends,    \* friends[i]: table id<i>; its domain: the tables created
    online,     \* POnline, oldest entry first
    fdt,        \* fdt[fd]: the connection descriptor fd refers to
    epset,      \* the descriptors epfd watches
    up,         \* the process is alive
    stack,      \* stack[t]: the frames of thread t, the innermost last
    issued,     \* ghost: the ids sent by an OP_REGISTER_SUCCESS
    accepts,    \* ghost: accepts[fd]: how often accept() has returned fd
    lost        \* ghost: <<a, b>>: a fault has kept b out of table id<a>

dbVars == <<users, friends>>
ioVars == <<fdt, epset>>
ghostVars == <<issued, accepts, lost>>
serverVars == <<users, friends, online, fdt, epset, up, stack, issued, accepts, lost>>

UserIds == 1 .. Len(users)

(* A frame: where its function is, confd, id, and its other locals.        *)
Frame(at, fd, id, pkt) ==
    [at |-> at, fd |-> fd, id |-> id, pkt |-> pkt, rows |-> {},
     p |-> NoEntry, q |-> NoEntry, flag |-> 0, wild |-> FALSE]

Top(t) == stack[t][Len(stack[t])]

(* Thread t is about to do what its frame's `at' names.                    *)
At(t, at) == up /\ stack[t] # << >> /\ Top(t).at = at

Resume(t, f) == stack' = [stack EXCEPT ![t][Len(stack[t])] = f]
Call(t, f, g) ==
    stack' = [stack EXCEPT ![t] = Append([@ EXCEPT ![Len(@)] = f], g)]
Return(t) == stack' = [stack EXCEPT ![t] = SubSeq(@, 1, Len(@) - 1)]

(* The query thread t is at may fail.                                      *)
Faulty(t) == Top(t).at \in Faults

Goto(t, at) == Resume(t, [Top(t) EXCEPT !.at = at])

(* search_list BY_ID and BY_SOCKFD: the newest match.                      *)
Newest(match(_)) ==
    IF \E i \in DOMAIN online : match(online[i])
    THEN online[CHOOSE i \in DOMAIN online :
                   /\ match(online[i])
                   /\ \A j \in DOMAIN online : match(online[j]) => j <= i]
    ELSE NoEntry
SearchId(id) == LET m(e) == e.id = id IN Newest(m)
SearchFd(fd) == LET m(e) == e.fd = fd IN Newest(m)

(* What *p may hold: p's entry while it is in the list; after free(),      *)
(* nothing of use, or an entry added since in the same memory.             *)
Deref(p) == IF p \in Range(online) THEN {p} ELSE {Garbage} \cup Range(online)

Least(rows) == CHOOSE r \in rows : \A s \in rows : r <= s

(* The error path of Read_server and Write_server starts by looking for    *)
(* the descriptor in the list.                                             *)
ErrorFrame(fd) == Frame("find", fd, 0, NoPkt)

IsOpen(fd) == fd \in Fd /\ fdt[fd] # NoConn

Failed(t, fd, err) ==
    /\ Call(t, err, ErrorFrame(fd))
    /\ UNCHANGED <<netVars, up>>

(* Write_server: Write, and on -1 the error path.  ok and err are this     *)
(* frame after a return of 0 and of -1.  To a client that has ended, the   *)
(* first write succeeds and provokes an RST; after one, a write returns an *)
(* error or raises SIGPIPE, which nothing handles.                         *)
WriteServer(t, fd, pkt, ok, err) ==
    \/ /\ IsOpen(fd) /\ link[fdt[fd]] = "open"
       /\ tx' = [tx EXCEPT ![fdt[fd]] = Append(@, pkt)]
       /\ Resume(t, ok)
       /\ UNCHANGED <<link, rx, up>>
    \/ /\ IsOpen(fd) /\ link[fdt[fd]] \in {"gone", "reaped"}
       /\ \/ /\ link' = [link EXCEPT ![fdt[fd]] = "gone"]
             /\ Resume(t, ok)
             /\ UNCHANGED <<rx, tx, up>>
          \/ Failed(t, fd, err)
          \/ up' = FALSE /\ ServerGone /\ UNCHANGED stack
    \/ ~IsOpen(fd) /\ Failed(t, fd, err)

(* A step that only writes.                                                *)
Send(t, fd, pkt, ok, err) ==
    /\ WriteServer(t, fd, pkt, ok, err)
    /\ UNCHANGED <<dbVars, online, ioVars, ghostVars>>

Close(fd) ==
    IF IsOpen(fd)
    THEN /\ ServerClosed(fdt[fd])
         /\ fdt' = [fdt EXCEPT ![fd] = NoConn]
         /\ epset' = epset \ {fd}
         /\ UNCHANGED tx
    ELSE UNCHANGED <<netVars, ioVars>>

(* exit(0) when mysql_real_connect fails, and a crash.                     *)
Die ==
    /\ up' = FALSE
    /\ ServerGone
    /\ UNCHANGED <<dbVars, online, ioVars, stack, ghostVars>>

(* A step of t that touches its own frame and nothing that is shared.      *)
Local == UNCHANGED <<netVars, dbVars, online, ioVars, up, ghostVars>>
----------------------------------------------------------------------------
ServerInit ==
    /\ users = InitUsers
    /\ friends = InitFriends
    /\ online = << >>
    /\ fdt = [fd \in Fd |-> NoConn]
    /\ epset = {}
    /\ up = TRUE
    /\ stack = [t \in Thread |-> << >>]
    /\ issued = {}
    /\ accepts = [fd \in Fd |-> 0]
    /\ lost = {}

(* main: accept() returns the lowest free descriptor.                      *)
Accept(c) ==
    /\ up /\ link[c] = "syn"
    /\ \E fd \in Fd :
          /\ fdt[fd] = NoConn
          /\ \A g \in Fd : g < fd => fdt[g] # NoConn
          /\ fdt' = [fdt EXCEPT ![fd] = c]
          /\ epset' = epset \cup {fd}
          /\ accepts' = [accepts EXCEPT ![fd] = @ + 1]
    /\ link' = [link EXCEPT ![c] = "open"]
    /\ UNCHANGED <<rx, tx, dbVars, online, up, stack, issued, lost>>

(* pthread_receive, Read_server and analysis_receive of one packet.        *)
Receive(t, fd) ==
    /\ up /\ stack[t] = << >>
    /\ fd \in epset /\ rx[fdt[fd]] # << >>
    /\ LET pkt == Head(rx[fdt[fd]])
           at == CASE pkt.op = "REGISTER"   -> "reg_insert"
                   [] pkt.op = "LOGIN"      -> "log_query"
                   [] pkt.op = "OFFLINE"    -> "off_ctl"
                   [] pkt.op = "ADD_FRIEND" -> "add_search"
                   [] pkt.op = "ALLOW_ADDF" -> "alw_src"
           id == IF pkt.op \in {"LOGIN", "OFFLINE"} THEN pkt.id ELSE 0
       IN  stack' = [stack EXCEPT ![t] = <<Frame(at, fd, id, pkt)>>]
    /\ rx' = [rx EXCEPT ![fdt[fd]] = Tail(@)]
    /\ UNCHANGED <<link, tx, dbVars, online, ioVars, up, ghostVars>>

(* Read returns 0 or an error: the client has ended.                       *)
Hangup(t, fd) ==
    /\ up /\ stack[t] = << >>
    /\ fd \in epset /\ rx[fdt[fd]] = << >> /\ link[fdt[fd]] = "gone"
    /\ link' = [link EXCEPT ![fdt[fd]] = "reaped"]
    /\ stack' = [stack EXCEPT ![t] = <<ErrorFrame(fd)>>]
    /\ UNCHANGED <<rx, tx, dbVars, online, ioVars, up, ghostVars>>

(* The end of a handler, with mysql_free_result(res): res is wild when the *)
(* first query failed.                                                     *)
Done(t) ==
    /\ At(t, "done")
    /\ \/ Return(t) /\ Local
       \/ Top(t).wild /\ Die

(* A query that may fail may also exit(0), when it cannot connect.         *)
QueryExits(t) ==
    /\ \E at \in Faults : At(t, at)
    /\ Die
----------------------------------------------------------------------------
(* register_action.                                                        *)

(* write_to_sql: the result of the insert is not looked at.  It fails on a *)
(* fault, and in a user table that is full (Id).                           *)
RegInsert(t) ==
    /\ At(t, "reg_insert")
    /\ \/ Len(users) + 1 \in Id /\ users' = Append(users, Top(t).pkt.pwd)
       \/ /\ Faulty(t) \/ Len(users) + 1 \notin Id
          /\ UNCHANGED users
    /\ Goto(t, "reg_max")
    /\ UNCHANGED <<netVars, friends, online, ioVars, up, ghostVars>>

(* Mutant: the id of the next row instead of the last one's.               *)
RegMaxNext(t) ==
    /\ At(t, "reg_max")
    /\ Resume(t, [Top(t) EXCEPT !.at = "reg_create", !.id = Len(users) + 1])
    /\ Local

(* select max(id): without any row, row[0] dereferences NULL.              *)
RegMax(t) ==
    /\ At(t, "reg_max")
    /\ \/ /\ users # << >>
          /\ Resume(t, [Top(t) EXCEPT !.at = "reg_create", !.id = Len(users)])
          /\ Local
       \/ users = << >> /\ Die
       \/ /\ Faulty(t)
          /\ Resume(t, [Top(t) EXCEPT !.at = "reg_reply", !.id = -1, !.wild = TRUE])
          /\ Local

(* The tables after create table id<n>.                                    *)
WithTable(id) ==
    [i \in DOMAIN friends \cup {id} |-> IF i \in DOMAIN friends THEN friends[i] ELSE {}]

(* Mutant: create table if not exists.                                     *)
RegCreateAnyway(t) ==
    /\ At(t, "reg_create")
    /\ friends' = WithTable(Top(t).id)
    /\ Goto(t, "reg_reply")
    /\ UNCHANGED <<netVars, users, online, ioVars, up, ghostVars>>

(* Mutant: what becomes of create table is not looked at.                  *)
RegCreateUnchecked(t) ==
    /\ At(t, "reg_create")
    /\ \/ friends' = WithTable(Top(t).id)
       \/ Faulty(t) /\ UNCHANGED friends
    /\ Goto(t, "reg_reply")
    /\ UNCHANGED <<netVars, users, online, ioVars, up, ghostVars>>

(* create table id<n>: fails if another registration has created it.       *)
RegCreate(t) ==
    LET id == Top(t).id IN
    /\ At(t, "reg_create")
    /\ \/ /\ id \notin DOMAIN friends
          /\ friends' = WithTable(id)
          /\ Goto(t, "reg_reply")
       \/ /\ id \in DOMAIN friends \/ Faulty(t)
          /\ Resume(t, [Top(t) EXCEPT !.at = "reg_reply", !.id = -1])
          /\ UNCHANGED friends
    /\ UNCHANGED <<netVars, users, online, ioVars, up, ghostVars>>

(* Mutant: a registration that has failed gets no reply.                   *)
RegReplySilent(t) ==
    LET f == Top(t)
        done == [f EXCEPT !.at = "done"]
    IN  /\ At(t, "reg_reply")
        /\ IF f.id = -1 THEN Resume(t, done) /\ UNCHANGED <<netVars, up>>
           ELSE WriteServer(t, f.fd, [op |-> "REGISTER_SUCCESS", id |-> f.id], done, done)
        /\ issued' = issued \cup ({f.id} \ {-1})
        /\ UNCHANGED <<dbVars, online, ioVars, accepts, lost>>

RegReply(t) ==
    LET f == Top(t)
        done == [f EXCEPT !.at = "done"]
    IN  /\ At(t, "reg_reply")
        /\ WriteServer(t, f.fd, [op |-> "REGISTER_SUCCESS", id |-> f.id], done, done)
        /\ issued' = issued \cup ({f.id} \ {-1})
        /\ UNCHANGED <<dbVars, online, ioVars, accepts, lost>>
----------------------------------------------------------------------------
(* login_action.                                                           *)

LogAnswer(t, flag, wild) ==
    /\ Resume(t, [Top(t) EXCEPT !.at = "log_reply", !.flag = flag, !.wild = wild])
    /\ Local

(* The row of the id, and the comparison of the password.                  *)
LogQuery(t) ==
    LET f == Top(t)
        good == f.id \in UserIds /\ users[f.id] = f.pkt.pwd
    IN  /\ At(t, "log_query")
        /\ \/ ~good /\ LogAnswer(t, -1, FALSE)
           \/ good /\ Goto(t, "log_check") /\ Local
           \/ Faulty(t) /\ LogAnswer(t, -2, TRUE)

(* search_list(POnline, user->id, BY_ID) == NULL.                          *)
LogCheck(t) ==
    /\ At(t, "log_check")
    /\ IF SearchId(Top(t).id) = NoEntry
       THEN Goto(t, "log_addr") /\ Local
       ELSE LogAnswer(t, -3, FALSE)

(* Mutant: temp is added without being filled in.                          *)
LogAddrUnset(t) == At(t, "log_addr") /\ Goto(t, "log_add") /\ Local

(* getpeername fills in temp; it fails on a closed descriptor and after an *)
(* RST, and then offline_action(confd, -1) is called.                      *)
LogAddr(t) ==
    LET f == Top(t)
        temp == [id |-> f.id, fd |-> f.fd, addr |-> fdt[f.fd]]
    IN  /\ At(t, "log_addr")
        /\ \/ /\ IsOpen(f.fd)
              /\ Resume(t, [f EXCEPT !.at = "log_add", !.p = temp])
           \/ /\ IsOpen(f.fd) => link[fdt[f.fd]] \in {"gone", "reaped"}
              /\ Call(t, [f EXCEPT !.at = "done"], Frame("off_ctl", f.fd, -1, NoPkt))
        /\ Local

LogAdd(t) ==
    /\ At(t, "log_add")
    /\ online' = Append(online, Top(t).p)
    /\ Goto(t, "log_ok")
    /\ UNCHANGED <<netVars, dbVars, ioVars, up, ghostVars>>

LogOk(t) ==
    LET f == Top(t)
        next == [f EXCEPT !.at = "log_friends"]
    IN  /\ At(t, "log_ok")
        /\ Send(t, f.fd, [op |-> "LOGIN_FEEDBACK", flag |-> 0], next, next)

(* select * from id<n>; on an error, offline_action(confd, user->id).      *)
LogFriends(t) ==
    LET f == Top(t) IN
    /\ At(t, "log_friends")
    /\ \/ /\ f.id \in DOMAIN friends
          /\ Resume(t, [f EXCEPT !.at = "log_row", !.rows = friends[f.id]])
       \/ /\ f.id \notin DOMAIN friends \/ Faulty(t)
          /\ Call(t, [f EXCEPT !.at = "done"], Frame("off_ctl", f.fd, f.id, NoPkt))
    /\ Local

(* mysql_fetch_row and search_list: rows come in the order of the key.     *)
NextRow(t, from, tell, over) ==
    LET f == Top(t)
        p == SearchId(Least(f.rows))
        rest == f.rows \ {Least(f.rows)}
    IN  /\ At(t, from)
        /\ IF f.rows = {} THEN Goto(t, over)
           ELSE IF p = NoEntry THEN Resume(t, [f EXCEPT !.rows = rest])
           ELSE Resume(t, [f EXCEPT !.at = tell, !.rows = rest, !.q = p])
        /\ Local

LogRow(t) == NextRow(t, "log_row", "log_tell", "done")

(* Mutant: the new user is not told of its friend.                         *)
LogTellOnly(t) ==
    LET f == Top(t)
        next == [f EXCEPT !.at = "log_row"]
    IN  /\ At(t, "log_tell")
        /\ \E q \in Deref(f.q) :
              Send(t, q.fd, [op |-> "ONLINE", who |-> f.p], next, next)

(* The friend is told of the new user ...                                  *)
LogTell(t) ==
    LET f == Top(t) IN
    /\ At(t, "log_tell")
    /\ \E q \in Deref(f.q) :
          Send(t, q.fd, [op |-> "ONLINE", who |-> f.p],
               [f EXCEPT !.at = "log_show"], [f EXCEPT !.at = "log_row"])

(* ... and the new user of the friend.                                     *)
LogShow(t) ==
    LET f == Top(t) IN
    /\ At(t, "log_show")
    /\ \E q \in Deref(f.q) :
          Send(t, f.fd, [op |-> "ONLINE", who |-> q],
               [f EXCEPT !.at = "log_row"], [f EXCEPT !.at = "done"])

(* Mutant: no reply when the query has failed.                             *)
LogReplySilent(t) ==
    LET f == Top(t)
        done == [f EXCEPT !.at = "done"]
    IN  /\ At(t, "log_reply")
        /\ IF f.flag = -2 THEN Resume(t, done) /\ Local
           ELSE Send(t, f.fd, [op |-> "LOGIN_FEEDBACK", flag |-> f.flag], done, done)

LogReply(t) ==
    LET f == Top(t)
        done == [f EXCEPT !.at = "done"]
    IN  /\ At(t, "log_reply")
        /\ Send(t, f.fd, [op |-> "LOGIN_FEEDBACK", flag |-> f.flag], done, done)
----------------------------------------------------------------------------
(* offline_action, and the lookup that precedes it on an error.            *)

(* Mutant: an error closes the descriptor and leaves the list alone.       *)
OffFindNone(t) ==
    /\ At(t, "find")
    /\ Resume(t, [Top(t) EXCEPT !.at = "off_ctl", !.id = -1])
    /\ Local

OffFind(t) ==
    LET e == SearchFd(Top(t).fd)
        id == IF e = NoEntry THEN -1 ELSE e.id
    IN  /\ At(t, "find")
        /\ Resume(t, [Top(t) EXCEPT !.at = "off_ctl", !.id = id])
        /\ Local

(* EPOLL_CTL_DEL; whoever has no id is closed and that is all.             *)
OffCtl(t) ==
    LET f == Top(t) IN
    /\ At(t, "off_ctl")
    /\ IF f.id < 0
       THEN Return(t) /\ Close(f.fd)
       ELSE /\ epset' = epset \ {f.fd}
            /\ Goto(t, "off_del")
            /\ UNCHANGED <<netVars, fdt>>
    /\ UNCHANGED <<dbVars, online, up, ghostVars>>

(* Mutant: the entry is looked for under the descriptor's number.          *)
OffDelByFd(t) ==
    /\ At(t, "off_del")
    /\ online' = SelectSeq(online, LAMBDA e : e.id # Top(t).fd)
    /\ Goto(t, "off_query")
    /\ UNCHANGED <<netVars, dbVars, ioVars, up, ghostVars>>

(* del_list BY_ID: the newest entry with that id, whoever's it is.         *)
OffDel(t) ==
    LET e == SearchId(Top(t).id)
        k == CHOOSE i \in DOMAIN online :
                /\ online[i] = e
                /\ \A j \in DOMAIN online : online[j] = e => j <= i
    IN  /\ At(t, "off_del")
        /\ online' = IF e = NoEntry THEN online ELSE RemoveAt(online, k)
        /\ Goto(t, "off_query")
        /\ UNCHANGED <<netVars, dbVars, ioVars, up, ghostVars>>

(* Mutant: a failed query ends the handler.                                *)
OffQueryGivesUp(t) ==
    LET f == Top(t) IN
    /\ At(t, "off_query")
    /\ \/ /\ f.id \in DOMAIN friends
          /\ Resume(t, [f EXCEPT !.at = "off_row", !.rows = friends[f.id]])
       \/ (f.id \notin DOMAIN friends \/ Faulty(t)) /\ Return(t)
    /\ Local

OffQuery(t) ==
    LET f == Top(t) IN
    /\ At(t, "off_query")
    /\ \/ /\ f.id \in DOMAIN friends
          /\ Resume(t, [f EXCEPT !.at = "off_row", !.rows = friends[f.id]])
       \/ /\ f.id \notin DOMAIN friends \/ Faulty(t)
          /\ Resume(t, [f EXCEPT !.at = "off_bye", !.wild = TRUE])
    /\ Local

OffRow(t) == NextRow(t, "off_row", "off_tell", "off_bye")

OffTell(t) ==
    LET f == Top(t)
        next == [f EXCEPT !.at = "off_row"]
    IN  /\ At(t, "off_tell")
        /\ \E q \in Deref(f.q) :
              Send(t, q.fd, [op |-> "OFFLINE", id |-> f.id], next, next)

OffBye(t) ==
    LET f == Top(t)
        next == [f EXCEPT !.at = "off_close"]
    IN  /\ At(t, "off_bye")
        /\ Send(t, f.fd, [op |-> "ALLOW_DISCONNECT"], next, next)

(* mysql_free_result(res), which is wild if the query failed; close.       *)
OffClose(t) ==
    /\ At(t, "off_close")
    /\ \/ /\ Return(t)
          /\ Close(Top(t).fd)
          /\ UNCHANGED <<dbVars, online, up, ghostVars>>
       \/ Top(t).wild /\ Die
----------------------------------------------------------------------------
(* add_friend_action.                                                      *)

AddSearch(t) ==
    LET f == Top(t) IN
    /\ At(t, "add_search")
    /\ Resume(t, [f EXCEPT !.at = "add_query", !.p = SearchId(f.pkt.dst)])
    /\ Local

(* mysql_fetch_row runs before the test of ret: on an error, on a wild res.*)
AddQuery(t) ==
    LET f == Top(t)
        src == f.pkt.src
        found == src \in DOMAIN friends /\ f.pkt.dst \in friends[src]
        Answer(n) == Resume(t, [f EXCEPT !.at = "add_reply", !.flag = n]) /\ Local
    IN  /\ At(t, "add_query")
        /\ \/ /\ src \in DOMAIN friends
              /\ IF found THEN Answer(4)
                 ELSE IF f.p = NoEntry THEN Answer(2)
                 ELSE Goto(t, "add_fwd") /\ Local
           \/ (src \notin DOMAIN friends \/ Faulty(t)) /\ (Answer(3) \/ Die)

AddReply(t) ==
    LET f == Top(t)
        done == [f EXCEPT !.at = "done"]
        pkt == [op |-> "ALLOW_ADDF", src |-> f.pkt.src, dst |-> f.pkt.dst,
                ans |-> f.flag]
    IN  At(t, "add_reply") /\ Send(t, f.fd, pkt, done, done)

(* The request goes on to the other user, by the entry found at the start. *)
AddForward(t) ==
    LET f == Top(t)
        done == [f EXCEPT !.at = "done"]
    IN  /\ At(t, "add_fwd")
        /\ \E q \in Deref(f.p) : Send(t, q.fd, f.pkt, done, done)
----------------------------------------------------------------------------
(* allow_addf_action: the answer of the other user, on its connection.     *)

(* psrc and pdst are looked up once, before anything else.                 *)
AlwSource(t) ==
    LET f == Top(t) IN
    /\ At(t, "alw_src")
    /\ Resume(t, [f EXCEPT !.at = "alw_dst", !.p = SearchId(f.pkt.src)])
    /\ Local

AlwDest(t) ==
    LET f == Top(t)
        at == IF f.pkt.ans = 1 THEN "alw_ins1"
              ELSE IF f.p # NoEntry THEN "alw_reply" ELSE "done"
    IN  /\ At(t, "alw_dst")
        /\ Resume(t, [f EXCEPT !.at = at, !.q = SearchId(f.pkt.dst)])
        /\ Local

(* insert into id<a> values(b): fails without the table, on a duplicate    *)
(* key, and on a fault.  flag: 1 when the frame's inserts have worked so   *)
(* far.                                                                    *)
Insert(t, a, b, IfOk, IfBad) ==
    /\ \/ /\ a \in DOMAIN friends /\ b \notin friends[a]
          /\ friends' = [friends EXCEPT ![a] = @ \cup {b}]
          /\ Resume(t, IfOk)
          /\ UNCHANGED lost
       \/ /\ \/ (a \notin DOMAIN friends \/ b \in friends[a]) /\ UNCHANGED lost
             \/ Faulty(t) /\ lost' = lost \cup {<<a, b>>}
          /\ Resume(t, IfBad)
          /\ UNCHANGED friends
    /\ UNCHANGED <<netVars, users, online, ioVars, up, issued, accepts>>

AlwInsert1(t) ==
    LET f == [Top(t) EXCEPT !.at = "alw_ins2"] IN
    /\ At(t, "alw_ins1")
    /\ Insert(t, f.pkt.src, f.pkt.dst, [f EXCEPT !.flag = 1], [f EXCEPT !.wild = TRUE])

(* Mutant: the second insert repeats the first.                            *)
AlwInsert2Same(t) ==
    LET f == Top(t)
        at == IF f.p # NoEntry THEN "alw_reply" ELSE "done"
    IN  /\ At(t, "alw_ins2")
        /\ Insert(t, f.pkt.src, f.pkt.dst,
                  [f EXCEPT !.at = at, !.wild = FALSE], [f EXCEPT !.at = at, !.flag = 0])

(* Mutant: only the result of the first insert is looked at.               *)
AlwInsert2Unchecked(t) ==
    LET f == Top(t)
        next == [f EXCEPT !.at = IF f.p # NoEntry THEN "alw_reply" ELSE "done"]
    IN  /\ At(t, "alw_ins2")
        /\ Insert(t, f.pkt.dst, f.pkt.src, next, next)

(* The second insert is tried whatever became of the first.                *)
AlwInsert2(t) ==
    LET f == Top(t)
        at == IF f.p # NoEntry THEN "alw_reply" ELSE "done"
    IN  /\ At(t, "alw_ins2")
        /\ Insert(t, f.pkt.dst, f.pkt.src,
                  [f EXCEPT !.at = at, !.wild = FALSE], [f EXCEPT !.at = at, !.flag = 0])

(* The requester is told: the answer, or 3 after a failed insert.          *)
AlwReply(t) ==
    LET f == Top(t)
        ok == f.pkt.ans = 1 /\ f.flag = 1
        ans == IF f.pkt.ans = 0 THEN 0 ELSE IF ok THEN 1 ELSE 3
        next == [f EXCEPT !.at = IF ok /\ f.q # NoEntry THEN "alw_on1" ELSE "done"]
        pkt == [op |-> "ALLOW_ADDF", src |-> f.pkt.src, dst |-> f.pkt.dst, ans |-> ans]
    IN  /\ At(t, "alw_reply")
        /\ \E p \in Deref(f.p) : Send(t, p.fd, pkt, next, next)

(* The new friends are told of each other.                                 *)
AlwOnline1(t) ==
    LET f == Top(t)
        next == [f EXCEPT !.at = "alw_on2"]
    IN  /\ At(t, "alw_on1")
        /\ \E p \in Deref(f.p), q \in Deref(f.q) :
              Send(t, p.fd, [op |-> "ONLINE", who |-> q], next, next)

AlwOnline2(t) ==
    LET f == Top(t)
        done == [f EXCEPT !.at = "done"]
    IN  /\ At(t, "alw_on2")
        /\ \E p \in Deref(f.p), q \in Deref(f.q) :
              Send(t, q.fd, [op |-> "ONLINE", who |-> p], done, done)
----------------------------------------------------------------------------
(* One step of a running handler.                                          *)
Handler(t) ==
    \/ RegInsert(t) \/ RegMax(t) \/ RegCreate(t) \/ RegReply(t)
    \/ LogQuery(t) \/ LogCheck(t) \/ LogAddr(t) \/ LogAdd(t) \/ LogOk(t)
    \/ LogFriends(t) \/ LogRow(t) \/ LogTell(t) \/ LogShow(t) \/ LogReply(t)
    \/ OffFind(t) \/ OffCtl(t) \/ OffDel(t) \/ OffQuery(t) \/ OffRow(t)
    \/ OffTell(t) \/ OffBye(t) \/ OffClose(t)
    \/ AddSearch(t) \/ AddQuery(t) \/ AddReply(t) \/ AddForward(t)
    \/ AlwSource(t) \/ AlwDest(t) \/ AlwInsert1(t) \/ AlwInsert2(t)
    \/ AlwReply(t) \/ AlwOnline1(t) \/ AlwOnline2(t)
    \/ Done(t) \/ QueryExits(t)

ServerStep(t) ==
    \/ \E fd \in Fd : Receive(t, fd) \/ Hangup(t, fd)
    \/ Handler(t)

ServerNext == (\E c \in Conn : Accept(c)) \/ (\E t \in Thread : ServerStep(t))

PCs == {"reg_insert", "reg_max", "reg_create", "reg_reply",
        "log_query", "log_check", "log_addr", "log_add", "log_ok",
        "log_friends", "log_row", "log_tell", "log_show", "log_reply",
        "find", "off_ctl", "off_del", "off_query", "off_row", "off_tell",
        "off_bye", "off_close",
        "add_search", "add_query", "add_reply", "add_fwd",
        "alw_src", "alw_dst", "alw_ins1", "alw_ins2", "alw_reply",
        "alw_on1", "alw_on2", "done"}

FrameType ==
    [at : PCs, fd : Fd \cup {NoFd}, id : Id \cup {-1, 0},
     pkt : ToServer \cup {NoPkt}, rows : SUBSET Id,
     p : Entry \cup {NoEntry}, q : Entry \cup {NoEntry},
     flag : -3 .. 4, wild : BOOLEAN]

ServerTypeOK ==
    /\ users \in Seq(Pwd) /\ UserIds \subseteq Id
    /\ DOMAIN friends \subseteq Id
    /\ \A i \in DOMAIN friends : friends[i] \subseteq Id
    /\ online \in Seq(Entry)
    /\ fdt \in [Fd -> Conn \cup {NoConn}]
    /\ epset \subseteq Fd
    /\ up \in BOOLEAN
    /\ stack \in [Thread -> Seq(FrameType)]
    /\ issued \subseteq Id
    /\ accepts \in [Fd -> Nat]
    /\ lost \subseteq Id \X Id
============================================================================
