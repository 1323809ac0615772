-------------------------- MODULE ChatServerProofs --------------------------
(***************************************************************************)
(* Proofs about ChatSystem, the server's half: what is true of the tables, *)
(* the online list, the frames of the handlers and the packets, and that   *)
(* no step of the server breaks it.  ChatProofs has the clients.           *)
(***************************************************************************)
EXTENDS ChatSystem, SequenceTheorems, WellFoundedInduction, TLAPS

USE ConnAssumption, FdAssumption, IdAssumption
----------------------------------------------------------------------------
(* The inductive invariant.                                                *)

(* b is in the table id<a>.                                                *)
Row(a, b) == a \in DOMAIN friends /\ b \in friends[a]

Known == {e \in Entry : e.id \in DOMAIN friends}

RegisterPacket == [op : {"REGISTER"}, pwd : Pwd]
AddPacket == [op : {"ADD_FRIEND"}, src : Id, dst : Id]
AllowPacket == [op : {"ALLOW_ADDF"}, src : Id, dst : Id, ans : 0 .. 1]

LogAfterAdd == {"log_ok", "log_friends", "log_row", "log_tell", "log_show"}
LogPCs == {"log_query", "log_check", "log_addr", "log_add", "log_reply"} \cup LogAfterAdd
OffPCs == {"off_del", "off_query", "off_row", "off_tell", "off_bye", "off_close"}
AddPCs == {"add_search", "add_query", "add_reply", "add_fwd"}
AlwEarly == {"alw_src", "alw_dst", "alw_ins1"}
AlwPCs == {"alw_ins2", "alw_reply"} \cup AlwEarly

(* What a handler knows, by where it is.                                   *)
RegisterRight(f) ==
    /\ f.at = "reg_insert" => f.pkt \in RegisterPacket
    /\ f.at = "reg_create" => f.id \in UserIds
    /\ f.at = "reg_reply" => f.id \in Complete \cup {-1}

LoginRight(f) ==
    /\ f.at \in LogPCs => f.id \in DOMAIN friends
    /\ f.at \in {"log_add"} \cup LogAfterAdd => f.p \in Known
    /\ f.at = "log_reply" => f.flag \in -3 .. 0

OfflineRight(f) == f.at \in OffPCs => f.id \in Id \cup {0}

AddRight(f) ==
    /\ f.at \in AddPCs => f.pkt \in AddPacket
    /\ f.at = "add_query" => f.p = NoEntry \/ f.pkt.dst \in DOMAIN friends
    /\ f.at = "add_fwd" => f.pkt.src \in DOMAIN friends /\ f.pkt.dst \in DOMAIN friends
    /\ f.at = "add_reply" => f.flag \in 2 .. 4

(* The first insert of an acceptance has been done, or a fault has kept    *)
(* it out; flag counts only what was done.                                 *)
AllowRight(f) ==
    LET a == f.pkt.src
        b == f.pkt.dst
    IN  /\ f.at \in AlwPCs =>
              f.pkt \in AllowPacket /\ a \in DOMAIN friends /\ b \in DOMAIN friends
        /\ f.at \in AlwEarly => f.flag = 0
        /\ f.at = "alw_ins2" => (Row(a, b) \/ (f.flag # 1 /\ <<a, b>> \in lost))
        /\ f.at = "alw_reply" /\ f.flag = 1 => Row(a, b) /\ Row(b, a)

Frames ==
    {f \in FrameType : /\ RegisterRight(f) /\ LoginRight(f) /\ OfflineRight(f)
                       /\ AddRight(f) /\ AllowRight(f)}

(* What a packet says of accounts and friendships is so.                   *)
Requests ==
    {m \in ToServer :
        /\ m.op = "LOGIN" => m.id \in DOMAIN friends
        /\ m.op = "ALLOW_ADDF" => m.src \in DOMAIN friends /\ m.dst \in DOMAIN friends}

Replies ==
    {m \in ToClient :
        /\ m.op = "REGISTER_SUCCESS" => m.id \in Complete \cup {-1}
        /\ m.op = "ADD_FRIEND" => m.src \in DOMAIN friends /\ m.dst \in DOMAIN friends
        /\ m.op = "ALLOW_ADDF" /\ m.ans = 1 => Row(m.src, m.dst) /\ Row(m.dst, m.src)}

TablesRight ==
    /\ users \in Seq(Pwd) /\ UserIds \subseteq Id
    /\ friends \in [DOMAIN friends -> SUBSET Id] /\ DOMAIN friends \subseteq Id
    /\ DOMAIN friends \subseteq UserIds
    /\ lost \subseteq Id \X Id

DescriptorsRight ==
    /\ fdt \in [Fd -> Conn \cup {NoConn}]
    /\ epset \subseteq Fd
    /\ \A fd \in epset : fdt[fd] \in Conn
    /\ up \in BOOLEAN
    /\ accepts \in [Fd -> Nat]
    /\ link \in [Conn -> LinkState]

PacketsRight ==
    /\ rx \in [Conn -> Seq(Requests)]
    /\ tx \in [Conn -> Seq(Replies)]

(* An id on its way out is nobody else's, and has not been sent, in this   *)
(* run or an earlier one.                                                  *)
Replying(f) == f.at = "reg_reply" /\ f.id # -1

IssuedRight ==
    /\ DOMAIN InitFriends \cup issued \subseteq DOMAIN friends
    /\ \A id \in issued : id \notin DOMAIN InitFriends
    /\ \A t \in Thread : \A i \in DOMAIN stack[t] :
          Replying(stack[t][i]) => stack[t][i].id \notin DOMAIN InitFriends
    /\ up => \A t \in Thread : \A i \in DOMAIN stack[t] :
          Replying(stack[t][i]) => stack[t][i].id \notin issued
    /\ \A t, u \in Thread : \A i \in DOMAIN stack[t], j \in DOMAIN stack[u] :
          /\ Replying(stack[t][i]) /\ Replying(stack[u][j])
          /\ stack[t][i].id = stack[u][j].id
          => t = u /\ i = j

ServerInv ==
    /\ TablesRight /\ DescriptorsRight /\ PacketsRight
    /\ online \in Seq(Known)
    /\ stack \in [Thread -> Seq(Frames)]
    /\ IssuedRight
    /\ FriendsSymmetric
----------------------------------------------------------------------------
(* Sequences, and the newest entry.                                        *)

LEMMA SeqMono == ASSUME NEW S, NEW T, S \subseteq T PROVE Seq(S) \subseteq Seq(T)
<1> SUFFICES ASSUME NEW s \in Seq(S) PROVE s \in Seq(T)
  OBVIOUS
<1>1. s \in [1 .. Len(s) -> T] /\ Len(s) \in Nat
  OBVIOUS
<1> QED
  BY <1>1

(* A set of positions that is not empty has a last one.                    *)
LEMMA LastExists ==
    ASSUME NEW n \in Nat, NEW S \in SUBSET (1 .. n), S # {}
    PROVE  \E k \in S : \A j \in S : j <= k
<1> DEFINE T == {n - k : k \in S}
           R == OpToRel(<, Nat)
<1>1. T \subseteq Nat /\ T # {}
  <2>1. \A k \in S : n - k \in Nat
    OBVIOUS
  <2>2. PICK k \in S : TRUE
    OBVIOUS
  <2>3. n - k \in T
    BY <2>2
  <2> QED
    BY <2>1, <2>3
<1>2. PICK m \in T : \A y \in T : ~ (<<y, m>> \in R)
  BY <1>1, NatLessThanWellFounded, WFMin
<1>3. \A y \in T : ~ (y < m)
  BY <1>1, <1>2 DEF OpToRel
<1>4. PICK k \in S : m = n - k
  OBVIOUS
<1>5. ASSUME NEW j \in S PROVE j <= k
  <2>1. n - j \in T
    OBVIOUS
  <2>2. ~ (n - j < n - k)
    BY <1>3, <1>4, <2>1
  <2> QED
    BY <2>2
<1> QED
  BY <1>5

LEMMA SearchIdRight ==
    ASSUME NEW S, online \in Seq(S), NEW id
    PROVE  SearchId(id) = NoEntry
              \/ \E i \in DOMAIN online :
                    /\ SearchId(id) = online[i] /\ online[i] \in S /\ online[i].id = id
<1> DEFINE M == {i \in DOMAIN online : online[i].id = id}
<1>1. CASE M = {}
  BY <1>1 DEF SearchId, Newest
<1>2. CASE M # {}
  <2>0. Len(online) \in Nat /\ M \in SUBSET (1 .. Len(online))
    OBVIOUS
  <2>1. PICK k \in M : \A j \in M : j <= k
    BY <1>2, <2>0, LastExists
  <2> DEFINE P(i) == /\ online[i].id = id
                     /\ \A j \in DOMAIN online : online[j].id = id => j <= i
             c == CHOOSE i \in DOMAIN online : P(i)
  <2>2. k \in DOMAIN online /\ P(k)
    BY <2>1
  <2>3. c \in DOMAIN online /\ P(c)
    BY <2>2
  <2>4. SearchId(id) = online[c]
    BY <2>2 DEF SearchId, Newest
  <2> QED
    BY <2>3, <2>4
<1> QED
  BY <1>1, <1>2

LEMMA SearchFdRight ==
    ASSUME NEW S, online \in Seq(S), NEW fd
    PROVE  SearchFd(fd) = NoEntry \/ SearchFd(fd) \in S
<1> DEFINE M == {i \in DOMAIN online : online[i].fd = fd}
<1>1. CASE M = {}
  BY <1>1 DEF SearchFd, Newest
<1>2. CASE M # {}
  <2>0. Len(online) \in Nat /\ M \in SUBSET (1 .. Len(online))
    OBVIOUS
  <2>1. PICK k \in M : \A j \in M : j <= k
    BY <1>2, <2>0, LastExists
  <2> DEFINE P(i) == /\ online[i].fd = fd
                     /\ \A j \in DOMAIN online : online[j].fd = fd => j <= i
             c == CHOOSE i \in DOMAIN online : P(i)
  <2>2. k \in DOMAIN online /\ P(k)
    BY <2>1
  <2>3. c \in DOMAIN online /\ P(c)
    BY <2>2
  <2>4. SearchFd(fd) = online[c]
    BY <2>2 DEF SearchFd, Newest
  <2> QED
    BY <2>3, <2>4
<1> QED
  BY <1>1, <1>2

LEMMA DerefRight ==
    ASSUME online \in Seq(Entry), NEW p, NEW q \in Deref(p)
    PROVE  q \in Entry
<1>1. Range(online) \subseteq Entry
  BY DEF Range
<1> QED
  BY <1>1 DEF Deref, Garbage, Entry
----------------------------------------------------------------------------
(* What a step does to the stacks.                                         *)

(* In a step of t every frame is from G or was there before, and only the  *)
(* innermost frame of t may be gone.                                       *)
Moves(t, G) ==
    /\ \A u \in Thread : \A i \in DOMAIN stack'[u] :
          \/ stack'[u][i] \in G
          \/ i \in DOMAIN stack[u] /\ stack'[u][i] = stack[u][i]
    /\ \A u \in Thread : \A i \in DOMAIN stack[u] :
          \/ u = t /\ i = Len(stack[t])
          \/ i \in DOMAIN stack'[u] /\ stack'[u][i] = stack[u][i]

LEMMA MovesAt ==
    ASSUME NEW t \in Thread, NEW G, NEW s, stack'[t] = s,
           \A u \in Thread \ {t} : stack'[u] = stack[u],
           \A i \in DOMAIN s :
              s[i] \in G \/ (i \in DOMAIN stack[t] /\ s[i] = stack[t][i]),
           \A i \in DOMAIN stack[t] :
              i = Len(stack[t]) \/ (i \in DOMAIN s /\ s[i] = stack[t][i])
    PROVE  Moves(t, G)
BY DEF Moves

LEMMA StayMoves ==
    ASSUME NEW F, stack \in [Thread -> Seq(F)], NEW t \in Thread, NEW G,
           UNCHANGED stack
    PROVE  stack' \in [Thread -> Seq(F)] /\ Moves(t, G)
BY DEF Moves

LEMMA ResumeMoves ==
    ASSUME NEW F, stack \in [Thread -> Seq(F)], NEW t \in Thread, stack[t] # << >>,
           NEW G \in SUBSET F, NEW f \in G, Resume(t, f)
    PROVE  stack' \in [Thread -> Seq(F)] /\ Moves(t, G)
<1> DEFINE n == Len(stack[t])
           s == [stack[t] EXCEPT ![n] = f]
<1>1. n \in Nat /\ n \in DOMAIN stack[t] /\ DOMAIN stack[t] = 1 .. n
  OBVIOUS
<1>2. stack' = [stack EXCEPT ![t] = s]
  BY DEF Resume
<1>3. /\ s \in Seq(F) /\ Len(s) = n /\ s[n] = f
      /\ \A i \in 1 .. n : i # n => s[i] = stack[t][i]
  BY <1>1
<1> HIDE DEF s, n
<1>4. stack'[t] = s /\ \A u \in Thread \ {t} : stack'[u] = stack[u]
  BY <1>2
<1>5. stack' \in [Thread -> Seq(F)]
  BY <1>2, <1>3
<1>6. DOMAIN s = 1 .. n
  BY <1>3
<1>7. \A i \in DOMAIN s : s[i] \in G \/ (i \in DOMAIN stack[t] /\ s[i] = stack[t][i])
  BY <1>1, <1>3, <1>6
<1>8. \A i \in DOMAIN stack[t] : i = n \/ (i \in DOMAIN s /\ s[i] = stack[t][i])
  BY <1>1, <1>3, <1>6
<1>9. Moves(t, G)
  BY <1>4, <1>7, <1>8, MovesAt DEF n
<1> QED
  BY <1>5, <1>9

LEMMA CallMoves ==
    ASSUME NEW F, stack \in [Thread -> Seq(F)], NEW t \in Thread, stack[t] # << >>,
           NEW G \in SUBSET F, NEW f \in G, NEW g \in G, Call(t, f, g)
    PROVE  stack' \in [Thread -> Seq(F)] /\ Moves(t, G)
<1> DEFINE n == Len(stack[t])
           r == [stack[t] EXCEPT ![n] = f]
           s == Append(r, g)
<1>1. n \in Nat /\ n \in DOMAIN stack[t] /\ DOMAIN stack[t] = 1 .. n
  OBVIOUS
<1>2. stack' = [stack EXCEPT ![t] = s]
  BY DEF Call
<1>3. /\ r \in Seq(F) /\ Len(r) = n /\ r[n] = f
      /\ \A i \in 1 .. n : i # n => r[i] = stack[t][i]
  BY <1>1
<1> HIDE DEF r, n
<1>4. /\ s \in Seq(F) /\ DOMAIN s = 1 .. n + 1 /\ s[n + 1] = g
      /\ \A i \in 1 .. n : s[i] = r[i]
  BY <1>1, <1>3
<1> HIDE DEF s
<1>5. stack'[t] = s /\ \A u \in Thread \ {t} : stack'[u] = stack[u]
  BY <1>2
<1>6. stack' \in [Thread -> Seq(F)]
  BY <1>2, <1>4
<1>7. \A i \in DOMAIN s : s[i] \in G \/ (i \in DOMAIN stack[t] /\ s[i] = stack[t][i])
  <2> SUFFICES ASSUME NEW i \in DOMAIN s, s[i] \notin G
               PROVE  i \in DOMAIN stack[t] /\ s[i] = stack[t][i]
    OBVIOUS
  <2>1. i # n + 1 /\ i \in 1 .. n + 1
    BY <1>4
  <2>2. i \in 1 .. n
    BY <1>1, <2>1
  <2> QED
    BY <1>1, <1>3, <1>4, <2>2
<1>8. \A i \in DOMAIN stack[t] : i = n \/ (i \in DOMAIN s /\ s[i] = stack[t][i])
  BY <1>1, <1>3, <1>4
<1> QED
  BY <1>5, <1>6, <1>7, <1>8, MovesAt DEF n

LEMMA ReturnMoves ==
    ASSUME NEW F, stack \in [Thread -> Seq(F)], NEW t \in Thread, stack[t] # << >>,
           NEW G, Return(t)
    PROVE  stack' \in [Thread -> Seq(F)] /\ Moves(t, G)
<1> DEFINE n == Len(stack[t])
           s == SubSeq(stack[t], 1, n - 1)
<1>1. n \in Nat \ {0} /\ DOMAIN stack[t] = 1 .. n
  OBVIOUS
<1>2. stack' = [stack EXCEPT ![t] = s]
  BY DEF Return
<1>3. /\ s \in Seq(F) /\ DOMAIN s = 1 .. n - 1
      /\ \A i \in 1 .. n - 1 : s[i] = stack[t][i]
  BY <1>1
<1> HIDE DEF s, n
<1>4. stack'[t] = s /\ \A u \in Thread \ {t} : stack'[u] = stack[u]
  BY <1>2
<1>5. stack' \in [Thread -> Seq(F)]
  BY <1>2, <1>3
<1>7. \A i \in DOMAIN s : s[i] \in G \/ (i \in DOMAIN stack[t] /\ s[i] = stack[t][i])
  BY <1>1, <1>3
<1>8. \A i \in DOMAIN stack[t] : i = n \/ (i \in DOMAIN s /\ s[i] = stack[t][i])
  BY <1>1, <1>3
<1>9. Moves(t, G)
  BY <1>4, <1>7, <1>8, MovesAt DEF n
<1> QED
  BY <1>5, <1>9
----------------------------------------------------------------------------
(* The tables and the record of what a fault kept out only grow.           *)
Grown ==
    /\ UserIds \subseteq UserIds'
    /\ DOMAIN friends \subseteq DOMAIN friends'
    /\ \A a, b : Row(a, b) => Row(a, b)'
    /\ lost \subseteq lost'

LEMMA SameGrown == ASSUME UNCHANGED <<users, friends, lost>> PROVE Grown
BY DEF Grown, UserIds, Row
----------------------------------------------------------------------------
(* The steps that leave the tables alone and send no id.                   *)

Calm == {f \in Frames : ~Replying(f)}

Plain(t) ==
    /\ UNCHANGED <<users, friends, issued, lost>>
    /\ DescriptorsRight'
    /\ rx' \in [Conn -> Seq(Requests)] /\ tx' \in [Conn -> Seq(Replies)]
    /\ online' \in Seq(Known)
    /\ stack' \in [Thread -> Seq(Frames)] /\ Moves(t, Calm)
    /\ up' => up
    /\ stack[t] # << >> => Top(t).at # "alw_ins2"

LEMMA TablesSame ==
    ASSUME UNCHANGED <<users, friends, lost>>
    PROVE  /\ TablesRight' = TablesRight
           /\ Known' = Known /\ Frames' = Frames
           /\ Requests' = Requests /\ Replies' = Replies
<1>1. Complete' = Complete /\ UserIds' = UserIds
  BY DEF Complete, UserIds
<1>2. \A a, b : Row(a, b)' = Row(a, b)
  BY DEF Row
<1>3. TablesRight' = TablesRight
  BY <1>1 DEF TablesRight
<1>4. Known' = Known
  BY DEF Known
<1>5. \A f : /\ RegisterRight(f)' = RegisterRight(f)
             /\ LoginRight(f)' = LoginRight(f)
             /\ OfflineRight(f)' = OfflineRight(f)
  BY <1>1, <1>4 DEF RegisterRight, LoginRight, OfflineRight
<1>6. \A f : AddRight(f)' = AddRight(f)
  BY DEF AddRight
<1>7. \A f : AllowRight(f)' = AllowRight(f)
  BY <1>2 DEF AllowRight
<1>8. Frames' = Frames
  BY <1>5, <1>6, <1>7 DEF Frames
<1>9. Requests' = Requests
  BY DEF Requests
<1>10. Replies' = Replies
  BY <1>1, <1>2 DEF Replies
<1> QED
  BY <1>3, <1>4, <1>8, <1>9, <1>10

(* FriendsSymmetric, row by row.                                           *)
Mirrored(a, b) ==
    \/ Row(b, a)
    \/ \E t \in Thread : \E i \in DOMAIN stack[t] :
          /\ stack[t][i].at = "alw_ins2"
          /\ stack[t][i].pkt.src = a /\ stack[t][i].pkt.dst = b
    \/ <<b, a>> \in lost

LEMMA SymmetricRows ==
    FriendsSymmetric <=> \A a, b : Row(a, b) => Mirrored(a, b)
<1>1. ASSUME FriendsSymmetric, NEW a, NEW b, Row(a, b) PROVE Mirrored(a, b)
  BY <1>1 DEF FriendsSymmetric, Row, Mirrored
<1>2. ASSUME \A a, b : Row(a, b) => Mirrored(a, b),
             NEW a \in DOMAIN friends, NEW b \in friends[a]
      PROVE  \/ b \in DOMAIN friends /\ a \in friends[b]
             \/ \E t \in Thread : \E i \in DOMAIN stack[t] :
                   LET f == stack[t][i] IN
                   f.at = "alw_ins2" /\ f.pkt.src = a /\ f.pkt.dst = b
             \/ <<b, a>> \in lost
  BY <1>2 DEF Row, Mirrored
<1> QED
  BY <1>1, <1>2 DEF FriendsSymmetric

LEMMA SymmetricRowsNext ==
    FriendsSymmetric' <=> \A a, b : Row(a, b)' => Mirrored(a, b)'
<1>1. ASSUME FriendsSymmetric', NEW a, NEW b, Row(a, b)' PROVE Mirrored(a, b)'
  BY <1>1 DEF FriendsSymmetric, Row, Mirrored
<1>2. ASSUME \A a, b : Row(a, b)' => Mirrored(a, b)',
             NEW a \in DOMAIN friends', NEW b \in friends'[a]
      PROVE  \/ b \in DOMAIN friends' /\ a \in friends'[b]
             \/ \E t \in Thread : \E i \in DOMAIN stack'[t] :
                   LET f == stack'[t][i] IN
                   f.at = "alw_ins2" /\ f.pkt.src = a /\ f.pkt.dst = b
             \/ <<b, a>> \in lost'
  BY <1>2 DEF Row, Mirrored
<1> QED
  BY <1>1, <1>2 DEF FriendsSymmetric

(* A row whose pending insert, if it has one, is not the step's own, stays *)
(* mirrored.                                                               *)
LEMMA MirroredKept ==
    ASSUME NEW t \in Thread, NEW G, Moves(t, G), \A x, y : Row(x, y) => Row(x, y)',
           lost \subseteq lost', NEW a, NEW b, Mirrored(a, b),
           stack[t] # << >> /\ Top(t).at = "alw_ins2"
              => Top(t).pkt.src # a \/ Top(t).pkt.dst # b
    PROVE  Mirrored(a, b)'
<1>1. CASE Row(b, a) \/ <<b, a>> \in lost
  BY <1>1 DEF Mirrored
<1>2. ASSUME NEW u \in Thread, NEW i \in DOMAIN stack[u],
             stack[u][i].at = "alw_ins2",
             stack[u][i].pkt.src = a, stack[u][i].pkt.dst = b
      PROVE  Mirrored(a, b)'
  <2>1. i \in DOMAIN stack'[u] /\ stack'[u][i] = stack[u][i]
    BY <1>2 DEF Moves, Top
  <2> QED
    BY <1>2, <2>1 DEF Mirrored
<1> QED
  BY <1>1, <1>2 DEF Mirrored

LEMMA SymmetricKept ==
    ASSUME FriendsSymmetric, \A x, y : Row(x, y) <=> Row(x, y)', lost \subseteq lost',
           NEW t \in Thread, NEW G, Moves(t, G),
           stack[t] # << >> => Top(t).at # "alw_ins2"
    PROVE  FriendsSymmetric'
<1>1. ASSUME NEW a, NEW b, Row(a, b)' PROVE Mirrored(a, b)'
  BY <1>1, SymmetricRows, MirroredKept
<1> QED
  BY <1>1, SymmetricRowsNext

LEMMA IssuedKept ==
    ASSUME IssuedRight, DOMAIN friends \subseteq DOMAIN friends', UNCHANGED issued,
           up' => up,
           NEW t \in Thread, NEW G, Moves(t, G), \A f \in G : ~Replying(f)
    PROVE  IssuedRight'
<1>1. ASSUME NEW u \in Thread, NEW i \in DOMAIN stack'[u], Replying(stack'[u][i])
      PROVE  i \in DOMAIN stack[u] /\ stack'[u][i] = stack[u][i]
  BY <1>1 DEF Moves
<1>2. /\ DOMAIN InitFriends \cup issued' \subseteq DOMAIN friends'
      /\ \A id \in issued' : id \notin DOMAIN InitFriends
      /\ \A u \in Thread : \A i \in DOMAIN stack'[u] :
            Replying(stack'[u][i]) => stack'[u][i].id \notin DOMAIN InitFriends
  BY <1>1 DEF IssuedRight
<1>3. up' => \A u \in Thread : \A i \in DOMAIN stack'[u] :
         Replying(stack'[u][i]) => stack'[u][i].id \notin issued'
  BY <1>1 DEF IssuedRight
<1>4. ASSUME NEW u \in Thread, NEW v \in Thread,
             NEW i \in DOMAIN stack'[u], NEW j \in DOMAIN stack'[v],
             Replying(stack'[u][i]), Replying(stack'[v][j]),
             stack'[u][i].id = stack'[v][j].id
      PROVE  u = v /\ i = j
  BY <1>1, <1>4 DEF IssuedRight
<1> QED
  BY <1>2, <1>3, <1>4 DEF IssuedRight, Replying

LEMMA PlainKeeps ==
    ASSUME ServerInv, NEW t \in Thread, Plain(t)
    PROVE  ServerInv' /\ Grown
<1>1. TablesRight' /\ DescriptorsRight' /\ PacketsRight'
  BY TablesSame DEF ServerInv, Plain, PacketsRight
<1>2. online' \in Seq(Known') /\ stack' \in [Thread -> Seq(Frames')]
  BY TablesSame DEF Plain
<1>3. FriendsSymmetric'
  <2>1. \A x, y : Row(x, y) <=> Row(x, y)'
    BY DEF Plain, Row
  <2> QED
    BY <2>1, SymmetricKept DEF ServerInv, Plain
<1>4. IssuedRight'
  BY IssuedKept DEF ServerInv, Plain, Calm
<1>5. Grown
  BY SameGrown DEF Plain
<1> QED
  BY <1>1, <1>2, <1>3, <1>4, <1>5 DEF ServerInv
----------------------------------------------------------------------------
(* Frames and writes.                                                      *)

LEMMA TopRight ==
    ASSUME ServerInv, NEW t \in Thread, stack[t] # << >>
    PROVE  /\ Top(t) \in Frames /\ Top(t) \in FrameType
           /\ Len(stack[t]) \in DOMAIN stack[t]
<1>1. stack[t] \in Seq(Frames)
  BY DEF ServerInv
<1>2. Len(stack[t]) \in DOMAIN stack[t] /\ Top(t) \in Frames
  BY <1>1 DEF Top
<1> QED
  BY <1>2 DEF Frames

LEMMA ServerTypes ==
    ASSUME ServerInv
    PROVE  /\ link \in [Conn -> LinkState] /\ up \in BOOLEAN
           /\ fdt \in [Fd -> Conn \cup {NoConn}]
           /\ rx \in [Conn -> Seq(Requests)] /\ tx \in [Conn -> Seq(Replies)]
           /\ online \in Seq(Known) /\ online \in Seq(Entry)
           /\ stack \in [Thread -> Seq(Frames)]
<1>1. Known \subseteq Entry
  BY DEF Known
<1> QED
  BY <1>1, SeqMono DEF ServerInv, DescriptorsRight, PacketsRight

(* An entry that is found is a known one, with the id asked for.           *)
LEMMA FoundRight ==
    ASSUME ServerInv, NEW id
    PROVE  SearchId(id) = NoEntry
              \/ (SearchId(id) \in Known /\ SearchId(id) \in Entry /\ SearchId(id).id = id)
<1>1. online \in Seq(Known)
  BY ServerTypes
<1>2. SearchId(id) = NoEntry \/ (SearchId(id) \in Known /\ SearchId(id).id = id)
  BY <1>1, SearchIdRight
<1> QED
  BY <1>2 DEF Known

LEMMA FrameRight ==
    ASSUME NEW at \in PCs, NEW fd \in Fd \cup {NoFd}, NEW id \in Id \cup {-1, 0},
           NEW pkt \in ToServer \cup {NoPkt}
    PROVE  /\ Frame(at, fd, id, pkt) \in FrameType
           /\ Frame(at, fd, id, pkt).at = at /\ Frame(at, fd, id, pkt).fd = fd
           /\ Frame(at, fd, id, pkt).id = id /\ Frame(at, fd, id, pkt).pkt = pkt
           /\ Frame(at, fd, id, pkt).flag = 0 /\ Frame(at, fd, id, pkt).p = NoEntry
BY DEF Frame, FrameType

(* The lookup that an error starts with, and offline_action.               *)
LEMMA OfflineFrame ==
    ASSUME NEW at \in {"find", "off_ctl"}, NEW fd \in Fd \cup {NoFd},
           NEW id \in Id \cup {-1, 0}
    PROVE  Frame(at, fd, id, NoPkt) \in Calm
<1> DEFINE f == Frame(at, fd, id, NoPkt)
<1>1. f \in FrameType /\ f.at = at
  BY FrameRight DEF PCs
<1> HIDE DEF f
<1>2. f \in Frames /\ ~Replying(f)
  BY <1>1 DEF Frames, RegisterRight, LoginRight, OfflineRight, AddRight, AllowRight,
              LogPCs, LogAfterAdd, OffPCs, AddPCs, AlwPCs, AlwEarly, Replying
<1> QED
  BY <1>2 DEF Calm, f

(* A failed or successful write moves packets and t's stack, and no more.  *)
LEMMA WriteMoves ==
    ASSUME ServerInv, up, NEW t \in Thread, stack[t] # << >>,
           NEW fd \in Fd \cup {NoFd}, NEW pkt \in Replies,
           NEW ok \in Calm, NEW err \in Calm,
           WriteServer(t, fd, pkt, ok, err)
    PROVE  /\ link' \in [Conn -> LinkState] /\ up' \in BOOLEAN
           /\ rx' \in [Conn -> Seq(Requests)] /\ tx' \in [Conn -> Seq(Replies)]
           /\ stack' \in [Thread -> Seq(Frames)] /\ Moves(t, Calm)
<1> USE ServerTypes
<1>0. Calm \in SUBSET Frames
  BY DEF Calm
<1>1. CASE /\ IsOpen(fd) /\ link[fdt[fd]] = "open"
           /\ tx' = [tx EXCEPT ![fdt[fd]] = Append(@, pkt)]
           /\ Resume(t, ok)
           /\ UNCHANGED <<link, rx, up>>
  <2>1. fdt[fd] \in Conn
    BY <1>1 DEF IsOpen
  <2>2. Append(tx[fdt[fd]], pkt) \in Seq(Replies)
    BY <2>1
  <2>3. tx' \in [Conn -> Seq(Replies)]
    BY <1>1, <2>1, <2>2
  <2> QED
    BY <1>0, <1>1, <2>3, ResumeMoves
<1>2. CASE /\ IsOpen(fd)
           /\ link' = [link EXCEPT ![fdt[fd]] = "gone"]
           /\ Resume(t, ok)
           /\ UNCHANGED <<rx, tx, up>>
  <2>1. link' \in [Conn -> LinkState]
    BY <1>2 DEF LinkState
  <2> QED
    BY <1>0, <1>2, <2>1, ResumeMoves
<1>3. CASE Failed(t, fd, err)
  <2>1. ErrorFrame(fd) \in Calm
    BY OfflineFrame, 0 \in Id \cup {-1, 0} DEF ErrorFrame
  <2> QED
    BY <1>0, <1>3, <2>1, CallMoves DEF Failed, netVars
<1>4. CASE up' = FALSE /\ ServerGone /\ UNCHANGED stack
  <2>1. link' \in [Conn -> LinkState]
    BY <1>4 DEF ServerGone, LinkState
  <2>2. rx' \in [Conn -> Seq(Requests)] /\ tx' = tx
    BY <1>4 DEF ServerGone
  <2> QED
    BY <1>4, <2>1, <2>2, StayMoves
<1> QED
  BY <1>1, <1>2, <1>3, <1>4 DEF WriteServer

LEMMA SendPlain ==
    ASSUME ServerInv, up, NEW t \in Thread, stack[t] # << >>, Top(t).at # "alw_ins2",
           NEW fd \in Fd \cup {NoFd}, NEW pkt \in Replies,
           NEW ok \in Calm, NEW err \in Calm, Send(t, fd, pkt, ok, err)
    PROVE  Plain(t)
<1>1. WriteServer(t, fd, pkt, ok, err)
  BY DEF Send
<1>2. UNCHANGED <<users, friends, online, fdt, epset, issued, accepts, lost>>
  BY DEF Send, dbVars, ioVars, ghostVars
<1>3. DescriptorsRight'
  BY <1>1, <1>2, WriteMoves DEF ServerInv, DescriptorsRight
<1> QED
  BY <1>1, <1>2, <1>3, WriteMoves, ServerTypes DEF Plain

(* A step that changes only t's stack and the list.                        *)
LEMMA StackPlain ==
    ASSUME ServerInv, NEW t \in Thread,
           stack[t] # << >> => Top(t).at # "alw_ins2",
           UNCHANGED <<netVars, dbVars, ioVars, up, ghostVars>>,
           online' \in Seq(Known), stack' \in [Thread -> Seq(Frames)], Moves(t, Calm)
    PROVE  Plain(t)
<1>1. UNCHANGED <<link, rx, tx, users, friends, fdt, epset, up, issued, accepts, lost>>
  BY DEF netVars, dbVars, ioVars, ghostVars
<1>2. DescriptorsRight'
  BY <1>1 DEF ServerInv, DescriptorsRight
<1> QED
  BY <1>1, <1>2, ServerTypes DEF Plain

LEMMA ResumePlain ==
    ASSUME ServerInv, NEW t \in Thread, stack[t] # << >>, Top(t).at # "alw_ins2",
           NEW f \in Calm, Resume(t, f), Local
    PROVE  Plain(t)
<1>1. /\ UNCHANGED <<netVars, dbVars, ioVars, up, ghostVars>>
      /\ online' = online
  BY DEF Local
<1>2. Calm \in SUBSET Frames
  BY DEF Calm
<1>3. stack' \in [Thread -> Seq(Frames)] /\ Moves(t, Calm)
  BY <1>2, ServerTypes, ResumeMoves
<1> QED
  BY <1>1, <1>3, ServerTypes, StackPlain

(* close() of the server's end.                                            *)
LEMMA CloseRight ==
    ASSUME ServerInv, NEW fd, Close(fd), up' = up, accepts' = accepts
    PROVE  /\ DescriptorsRight'
           /\ rx' \in [Conn -> Seq(Requests)] /\ tx' \in [Conn -> Seq(Replies)]
<1>1. CASE IsOpen(fd)
  <2>1. fd \in Fd /\ fdt[fd] \in Conn
    BY <1>1, ServerTypes DEF IsOpen
  <2>2. /\ ServerClosed(fdt[fd])
        /\ fdt' = [fdt EXCEPT ![fd] = NoConn] /\ epset' = epset \ {fd} /\ tx' = tx
    BY <1>1 DEF Close
  <2>3. link' \in [Conn -> LinkState] /\ rx' \in [Conn -> Seq(Requests)]
    <3> DEFINE c == fdt[fd]
    <3>1. /\ link' = [link EXCEPT ![c] = IF @ = "open" THEN "shut" ELSE "dead"]
          /\ rx' = [rx EXCEPT ![c] = << >>]
      BY <2>2 DEF ServerClosed
    <3>2. c \in Conn
      BY <2>1
    <3> HIDE DEF c
    <3> QED
      BY <3>1, <3>2, ServerTypes DEF LinkState
  <2>4. fdt' \in [Fd -> Conn \cup {NoConn}] /\ \A g \in epset' : fdt'[g] \in Conn
    BY <2>1, <2>2, ServerTypes DEF ServerInv, DescriptorsRight
  <2> QED
    BY <2>2, <2>3, <2>4, ServerTypes DEF ServerInv, DescriptorsRight
<1>2. CASE ~IsOpen(fd)
  <2>1. UNCHANGED <<link, rx, tx, fdt, epset>>
    BY <1>2 DEF Close, netVars, ioVars
  <2> QED
    BY <2>1, ServerTypes DEF ServerInv, DescriptorsRight
<1> QED
  BY <1>1, <1>2

(* A step of somebody who is no thread.                                    *)
LEMMA OthersKeep ==
    ASSUME ServerInv, UNCHANGED <<users, friends, online, stack, issued, lost>>,
           DescriptorsRight', up' => up,
           rx' \in [Conn -> Seq(Requests)], tx' \in [Conn -> Seq(Replies)]
    PROVE  ServerInv' /\ Grown
<1>1. TablesRight' /\ PacketsRight'
  BY TablesSame DEF ServerInv, PacketsRight
<1>2. online' \in Seq(Known') /\ stack' \in [Thread -> Seq(Frames')]
  BY TablesSame, ServerTypes
<1>3. IssuedRight'
  BY DEF ServerInv, IssuedRight, Replying
<1>4. FriendsSymmetric'
  <2>1. FriendsSymmetric
    BY DEF ServerInv
  <2>2. friends' = friends /\ stack' = stack /\ lost' = lost
    OBVIOUS
  <2>3. FriendsSymmetric' = FriendsSymmetric
    BY ONLY <2>2 DEF FriendsSymmetric
  <2> QED
    BY <2>1, <2>3
<1>5. Grown
  BY SameGrown
<1> QED
  BY <1>1, <1>2, <1>3, <1>4, <1>5 DEF ServerInv

(* The end of the server's process.                                        *)
LEMMA DieKeeps == ASSUME ServerInv, Die PROVE ServerInv' /\ Grown
<1>1. /\ up' = FALSE /\ tx' = tx
      /\ UNCHANGED <<users, friends, online, fdt, epset, stack, issued, accepts, lost>>
  BY DEF Die, ServerGone, dbVars, ioVars, ghostVars
<1>2. link' \in [Conn -> LinkState] /\ rx' \in [Conn -> Seq(Requests)]
  <2>1. link' \in [Conn -> LinkState]
    BY ServerTypes DEF Die, ServerGone, LinkState
  <2> QED
    BY <2>1 DEF Die, ServerGone
<1>3. DescriptorsRight'
  BY <1>1, <1>2 DEF ServerInv, DescriptorsRight
<1> QED
  BY <1>1, <1>2, <1>3, ServerTypes, OthersKeep
----------------------------------------------------------------------------
(* What makes a frame a right one, handler by handler.                     *)

FreePCs == {"done", "find", "off_ctl", "reg_max", "alw_on1", "alw_on2"}

LEMMA FreeFrame ==
    ASSUME NEW f \in FrameType, f.at \in FreePCs PROVE f \in Calm
<1>1. /\ f.at \notin {"reg_insert", "reg_create", "reg_reply"} /\ f.at \notin LogPCs
      /\ f.at \notin OffPCs /\ f.at \notin AddPCs /\ f.at \notin AlwPCs
  BY DEF FreePCs, LogPCs, LogAfterAdd, OffPCs, AddPCs, AlwPCs, AlwEarly
<1> QED
  BY <1>1 DEF Calm, Replying, Frames, RegisterRight, LoginRight, OfflineRight, AddRight,
              AllowRight, LogPCs, LogAfterAdd, AddPCs, AlwPCs, AlwEarly

LEMMA LoginFrame ==
    ASSUME NEW f \in FrameType, f.at \in LogPCs, LoginRight(f) PROVE f \in Calm
<1>1. /\ f.at \notin {"reg_insert", "reg_create", "reg_reply"}
      /\ f.at \notin OffPCs /\ f.at \notin AddPCs /\ f.at \notin AlwPCs
  BY DEF LogPCs, LogAfterAdd, OffPCs, AddPCs, AlwPCs, AlwEarly
<1> QED
  BY <1>1 DEF Calm, Replying, Frames, RegisterRight, OfflineRight, AddRight,
              AllowRight, AddPCs, AlwPCs, AlwEarly

LEMMA LeaveFrame ==
    ASSUME NEW f \in FrameType, f.at \in OffPCs, f.id \in Id \cup {0} PROVE f \in Calm
<1>1. /\ f.at \notin {"reg_insert", "reg_create", "reg_reply"} /\ f.at \notin LogPCs
      /\ f.at \notin AddPCs /\ f.at \notin AlwPCs
  BY DEF LogPCs, LogAfterAdd, OffPCs, AddPCs, AlwPCs, AlwEarly
<1> QED
  BY <1>1 DEF Calm, Replying, Frames, RegisterRight, LoginRight, OfflineRight, AddRight,
              AllowRight, LogPCs, LogAfterAdd, AddPCs, AlwPCs, AlwEarly

LEMMA AddFrame ==
    ASSUME NEW f \in FrameType, f.at \in AddPCs, AddRight(f) PROVE f \in Calm
<1>1. /\ f.at \notin {"reg_insert", "reg_create", "reg_reply"} /\ f.at \notin LogPCs
      /\ f.at \notin OffPCs /\ f.at \notin AlwPCs
  BY DEF LogPCs, LogAfterAdd, OffPCs, AddPCs, AlwPCs, AlwEarly
<1> QED
  BY <1>1 DEF Calm, Replying, Frames, RegisterRight, LoginRight, OfflineRight,
              AllowRight, LogPCs, LogAfterAdd, AlwPCs, AlwEarly

LEMMA AllowFrame ==
    ASSUME NEW f \in FrameType, f.at \in AlwPCs, AllowRight(f) PROVE f \in Calm
<1>1. /\ f.at \notin {"reg_insert", "reg_create", "reg_reply"} /\ f.at \notin LogPCs
      /\ f.at \notin OffPCs /\ f.at \notin AddPCs
  BY DEF LogPCs, LogAfterAdd, OffPCs, AddPCs, AlwPCs, AlwEarly
<1> QED
  BY <1>1 DEF Calm, Replying, Frames, RegisterRight, LoginRight, OfflineRight, AddRight,
              LogPCs, LogAfterAdd, AddPCs

LEMMA InsertFrame ==
    ASSUME NEW f \in FrameType, f.at = "reg_insert", f.pkt \in RegisterPacket
    PROVE  f \in Calm
BY DEF Calm, Replying, Frames, RegisterRight, LoginRight, OfflineRight, AddRight,
       AllowRight, LogPCs, LogAfterAdd, OffPCs, AddPCs, AlwPCs, AlwEarly

LEMMA RegisterFrame ==
    ASSUME NEW f \in FrameType, f.at \in {"reg_create", "reg_reply"}, RegisterRight(f)
    PROVE  f \in Frames
BY DEF Frames, LoginRight, OfflineRight, AddRight,
       AllowRight, LogPCs, LogAfterAdd, OffPCs, AddPCs, AlwPCs, AlwEarly

(* Where a handler is, and what its innermost frame says.                  *)
LEMMA AtRight ==
    ASSUME ServerInv, NEW t \in Thread, NEW at, At(t, at)
    PROVE  /\ up /\ stack[t] # << >> /\ Top(t).at = at
           /\ Top(t) \in FrameType /\ Top(t) \in Frames
           /\ RegisterRight(Top(t)) /\ LoginRight(Top(t)) /\ OfflineRight(Top(t))
           /\ AddRight(Top(t)) /\ AllowRight(Top(t))
<1>1. up /\ stack[t] # << >> /\ Top(t).at = at
  BY DEF At
<1> QED
  BY <1>1, TopRight DEF Frames
----------------------------------------------------------------------------
(* login_action.                                                           *)

LEMMA LogAnswerPlain ==
    ASSUME ServerInv, NEW t \in Thread, NEW at \in LogPCs, At(t, at),
           NEW flag \in -3 .. 0, NEW wild \in BOOLEAN, LogAnswer(t, flag, wild)
    PROVE  Plain(t)
<1> DEFINE f == Top(t)
           g == [f EXCEPT !.at = "log_reply", !.flag = flag, !.wild = wild]
<1>1. /\ f \in FrameType /\ f.at = at /\ LoginRight(f) /\ stack[t] # << >>
      /\ at # "alw_ins2"
  BY AtRight DEF LogPCs, LogAfterAdd
<1>2. Resume(t, g) /\ Local
  BY DEF LogAnswer
<1> HIDE DEF f
<1>3. g \in FrameType /\ g.at = "log_reply" /\ g.id = f.id /\ g.flag = flag
  <2>1. flag \in -3 .. 4 /\ "log_reply" \in PCs
    BY DEF PCs
  <2> QED
    BY <1>1, <2>1 DEF FrameType
<1> HIDE DEF g
<1>4. g \in Calm
  BY <1>1, <1>3, LoginFrame DEF LoginRight, LogPCs, LogAfterAdd
<1> QED
  BY <1>1, <1>2, <1>4, ResumePlain DEF f

LEMMA LogQueryPlain ==
    ASSUME ServerInv, NEW t \in Thread, LogQuery(t) PROVE Plain(t)
<1> DEFINE f == Top(t)
           g == [f EXCEPT !.at = "log_check"]
<1>0. At(t, "log_query") /\ "log_query" \in LogPCs
  BY DEF LogQuery, LogPCs
<1>1. f \in FrameType /\ f.at = "log_query" /\ LoginRight(f) /\ stack[t] # << >>
  BY <1>0, AtRight
<1>2. \/ LogAnswer(t, -1, FALSE) \/ LogAnswer(t, -2, TRUE)
      \/ Resume(t, g) /\ Local
  BY DEF LogQuery, Goto
<1>3. CASE Resume(t, g) /\ Local
  <2> HIDE DEF f
  <2>1. g \in FrameType /\ g.at = "log_check" /\ g.id = f.id
    BY <1>1 DEF FrameType, PCs
  <2> HIDE DEF g
  <2>2. g \in Calm
    BY <1>1, <2>1, LoginFrame DEF LoginRight, LogPCs, LogAfterAdd
  <2> QED
    BY <1>1, <1>3, <2>2, ResumePlain DEF f
<1>4. CASE LogAnswer(t, -1, FALSE)
  BY <1>0, <1>4, -1 \in -3 .. 0, FALSE \in BOOLEAN, LogAnswerPlain
<1>5. CASE LogAnswer(t, -2, TRUE)
  BY <1>0, <1>5, -2 \in -3 .. 0, TRUE \in BOOLEAN, LogAnswerPlain
<1> QED
  BY <1>2, <1>3, <1>4, <1>5

LEMMA LogCheckPlain ==
    ASSUME ServerInv, NEW t \in Thread, LogCheck(t) PROVE Plain(t)
<1> DEFINE f == Top(t)
           g == [f EXCEPT !.at = "log_addr"]
<1>0. At(t, "log_check") /\ "log_check" \in LogPCs
  BY DEF LogCheck, LogPCs
<1>1. f \in FrameType /\ f.at = "log_check" /\ LoginRight(f) /\ stack[t] # << >>
  BY <1>0, AtRight
<1>2. LogAnswer(t, -3, FALSE) \/ (Resume(t, g) /\ Local)
  BY DEF LogCheck, Goto
<1>3. CASE Resume(t, g) /\ Local
  <2> HIDE DEF f
  <2>1. g \in FrameType /\ g.at = "log_addr" /\ g.id = f.id
    BY <1>1 DEF FrameType, PCs
  <2> HIDE DEF g
  <2>2. g \in Calm
    BY <1>1, <2>1, LoginFrame DEF LoginRight, LogPCs, LogAfterAdd
  <2> QED
    BY <1>1, <1>3, <2>2, ResumePlain DEF f
<1>4. CASE LogAnswer(t, -3, FALSE)
  BY <1>0, <1>4, -3 \in -3 .. 0, FALSE \in BOOLEAN, LogAnswerPlain
<1> QED
  BY <1>2, <1>3, <1>4

LEMMA CallPlain ==
    ASSUME ServerInv, NEW t \in Thread, stack[t] # << >>, Top(t).at # "alw_ins2",
           NEW f \in Calm, NEW g \in Calm, Call(t, f, g), Local
    PROVE  Plain(t)
<1>1. /\ UNCHANGED <<netVars, dbVars, ioVars, up, ghostVars>>
      /\ online' = online
  BY DEF Local
<1>2. Calm \in SUBSET Frames
  BY DEF Calm
<1>3. stack' \in [Thread -> Seq(Frames)] /\ Moves(t, Calm)
  BY <1>2, ServerTypes, CallMoves
<1> QED
  BY <1>1, <1>3, ServerTypes, StackPlain

(* temp is filled in with the account that has been found, or not at all.  *)
LEMMA LogAddrPlain ==
    ASSUME ServerInv, NEW t \in Thread, LogAddr(t) PROVE Plain(t)
<1> DEFINE f == Top(t)
           temp == [id |-> f.id, fd |-> f.fd, addr |-> fdt[f.fd]]
           g == [f EXCEPT !.at = "log_add", !.p = temp]
           d == [f EXCEPT !.at = "done"]
           h == Frame("off_ctl", f.fd, -1, NoPkt)
<1>0. At(t, "log_addr")
  BY DEF LogAddr
<1>1. f \in FrameType /\ f.at = "log_addr" /\ LoginRight(f) /\ stack[t] # << >>
  BY <1>0, AtRight
<1>2. Local /\ ((IsOpen(f.fd) /\ Resume(t, g)) \/ Call(t, d, h))
  BY DEF LogAddr
<1>3. CASE IsOpen(f.fd) /\ Resume(t, g)
  <2>1. temp \in Entry /\ temp.id = f.id /\ f.id \in DOMAIN friends
    <3>1. f.fd \in Fd /\ fdt[f.fd] \in Conn /\ f.id \in DOMAIN friends
      BY <1>1, <1>3, ServerTypes DEF IsOpen, LoginRight, LogPCs
    <3>2. f.id \in Id
      BY <3>1 DEF ServerInv, TablesRight
    <3> QED
      BY <3>1, <3>2 DEF Entry
  <2> HIDE DEF f, temp
  <2>2. g \in FrameType /\ g.at = "log_add" /\ g.id = f.id /\ g.p = temp
    BY <1>1, <2>1 DEF FrameType, PCs
  <2> HIDE DEF g
  <2>3. g \in Calm
    BY <1>1, <2>1, <2>2, LoginFrame DEF LoginRight, LogPCs, LogAfterAdd, Known
  <2> QED
    BY <1>1, <1>2, <1>3, <2>3, ResumePlain DEF f
<1>4. CASE Call(t, d, h)
  <2>1. h \in Calm
    BY <1>1, OfflineFrame, -1 \in Id \cup {-1, 0} DEF FrameType
  <2>2. d \in FrameType /\ d.at = "done"
    BY <1>1 DEF FrameType, PCs
  <2>3. d \in Calm
    BY <2>2, FreeFrame DEF FreePCs
  <2> HIDE DEF d, h
  <2> QED
    BY <1>1, <1>2, <1>4, <2>1, <2>3, CallPlain
<1> QED
  BY <1>2, <1>3, <1>4

(* The frame of a handler that ends, and of a login that goes on.          *)
LEMMA DoneFrame ==
    ASSUME ServerInv, NEW t \in Thread, NEW at, At(t, at)
    PROVE  [Top(t) EXCEPT !.at = "done"] \in Calm
<1> DEFINE f == Top(t)
           d == [f EXCEPT !.at = "done"]
<1>1. f \in FrameType
  BY AtRight
<1> HIDE DEF f
<1>2. d \in FrameType /\ d.at = "done"
  BY <1>1 DEF FrameType, PCs
<1> HIDE DEF d
<1>3. d \in Calm
  BY <1>2, FreeFrame DEF FreePCs
<1> QED
  BY <1>3 DEF d, f

LEMMA LoginGoesOn ==
    ASSUME ServerInv, NEW t \in Thread, NEW at \in {"log_add"} \cup LogAfterAdd, At(t, at),
           NEW to \in LogAfterAdd
    PROVE  [Top(t) EXCEPT !.at = to] \in Calm
<1> DEFINE f == Top(t)
           g == [f EXCEPT !.at = to]
<1>1. f \in FrameType /\ f.at = at /\ LoginRight(f)
  BY AtRight
<1> HIDE DEF f
<1>2. g \in FrameType /\ g.at = to /\ g.id = f.id /\ g.p = f.p
  BY <1>1 DEF FrameType, PCs, LogAfterAdd
<1> HIDE DEF g
<1>3. f.id \in DOMAIN friends /\ f.p \in Known
  BY <1>1 DEF LoginRight, LogPCs
<1>4. g \in Calm
  BY <1>2, <1>3, LoginFrame DEF LoginRight, LogPCs, LogAfterAdd
<1> QED
  BY <1>4 DEF f, g

(* The packets about who is there.                                         *)
LEMMA PresencePackets ==
    /\ \A e \in Entry : [op |-> "ONLINE", who |-> e] \in Replies
    /\ \A id \in Id \cup {0} : [op |-> "OFFLINE", id |-> id] \in Replies
    /\ \A flag \in -3 .. 0 : [op |-> "LOGIN_FEEDBACK", flag |-> flag] \in Replies
    /\ [op |-> "ALLOW_DISCONNECT"] \in Replies
<1>1. ASSUME NEW e \in Entry PROVE [op |-> "ONLINE", who |-> e] \in Replies
  BY DEF Replies, ToClient
<1>2. ASSUME NEW id \in Id \cup {0} PROVE [op |-> "OFFLINE", id |-> id] \in Replies
  BY DEF Replies, ToClient
<1>3. ASSUME NEW flag \in -3 .. 0
      PROVE  [op |-> "LOGIN_FEEDBACK", flag |-> flag] \in Replies
  BY DEF Replies, ToClient
<1>4. [op |-> "ALLOW_DISCONNECT"] \in Replies
  BY DEF Replies, ToClient
<1> QED
  BY <1>1, <1>2, <1>3, <1>4

LEMMA EntryFd == \A e \in Entry : e.fd \in Fd \cup {NoFd}
BY DEF Entry

LEMMA LogAddPlain ==
    ASSUME ServerInv, NEW t \in Thread, LogAdd(t) PROVE Plain(t)
<1> DEFINE g == [Top(t) EXCEPT !.at = "log_ok"]
<1>0. At(t, "log_add")
  BY DEF LogAdd
<1>1. g \in Calm
  BY <1>0, LoginGoesOn DEF LogAfterAdd
<1>2. Top(t).p \in Known /\ stack[t] # << >> /\ Top(t).at = "log_add"
  BY <1>0, AtRight DEF LoginRight
<1>3. /\ online' = Append(online, Top(t).p) /\ Resume(t, g)
      /\ UNCHANGED <<netVars, dbVars, ioVars, up, ghostVars>>
  BY DEF LogAdd, Goto
<1>4. online' \in Seq(Known)
  BY <1>2, <1>3, ServerTypes
<1>5. Calm \in SUBSET Frames
  BY DEF Calm
<1> HIDE DEF g
<1>6. stack' \in [Thread -> Seq(Frames)] /\ Moves(t, Calm)
  BY <1>1, <1>2, <1>3, <1>5, ServerTypes, ResumeMoves
<1> QED
  BY <1>2, <1>3, <1>4, <1>6, StackPlain

LEMMA LogOkPlain ==
    ASSUME ServerInv, NEW t \in Thread, LogOk(t) PROVE Plain(t)
<1> DEFINE g == [Top(t) EXCEPT !.at = "log_friends"]
           m == [op |-> "LOGIN_FEEDBACK", flag |-> 0]
<1>0. At(t, "log_ok") /\ Send(t, Top(t).fd, m, g, g)
  BY DEF LogOk
<1>1. g \in Calm
  BY <1>0, LoginGoesOn DEF LogAfterAdd
<1>2. /\ up /\ stack[t] # << >> /\ Top(t).at = "log_ok"
      /\ Top(t).fd \in Fd \cup {NoFd}
  BY <1>0, AtRight DEF FrameType
<1>3. m \in Replies
  BY PresencePackets, 0 \in -3 .. 0
<1> HIDE DEF g, m
<1> QED
  BY <1>0, <1>1, <1>2, <1>3, SendPlain

LEMMA LogFriendsPlain ==
    ASSUME ServerInv, NEW t \in Thread, LogFriends(t) PROVE Plain(t)
<1> DEFINE f == Top(t)
           g == [f EXCEPT !.at = "log_row", !.rows = friends[f.id]]
           d == [f EXCEPT !.at = "done"]
           h == Frame("off_ctl", f.fd, f.id, NoPkt)
<1>0. At(t, "log_friends")
  BY DEF LogFriends
<1>1. f \in FrameType /\ f.at = "log_friends" /\ LoginRight(f) /\ stack[t] # << >>
  BY <1>0, AtRight
<1>2. Local /\ ((f.id \in DOMAIN friends /\ Resume(t, g)) \/ Call(t, d, h))
  BY DEF LogFriends
<1>3. CASE f.id \in DOMAIN friends /\ Resume(t, g)
  <2>1. friends[f.id] \in SUBSET Id
    BY <1>3 DEF ServerInv, TablesRight
  <2> HIDE DEF f
  <2>2. g \in FrameType /\ g.at = "log_row" /\ g.id = f.id /\ g.p = f.p
    BY <1>1, <2>1 DEF FrameType, PCs
  <2> HIDE DEF g
  <2>3. g \in Calm
    BY <1>1, <2>2, LoginFrame DEF LoginRight, LogPCs, LogAfterAdd
  <2> QED
    BY <1>1, <1>2, <1>3, <2>3, ResumePlain DEF f
<1>4. CASE Call(t, d, h)
  <2>1. h \in Calm
    BY <1>1, OfflineFrame DEF FrameType
  <2>2. d \in Calm
    BY <1>0, DoneFrame
  <2> HIDE DEF d, h
  <2> QED
    BY <1>1, <1>2, <1>4, <2>1, <2>2, CallPlain
<1> QED
  BY <1>2, <1>3, <1>4

(* The next row of a result, with what the handler does about it.          *)
LEMMA NextRowPlain ==
    ASSUME ServerInv, NEW t \in Thread, NEW from, NEW tell, NEW over,
           NextRow(t, from, tell, over), from # "alw_ins2",
           [Top(t) EXCEPT !.at = over] \in Calm,
           \A rows \in SUBSET Id : [Top(t) EXCEPT !.rows = rows] \in Calm,
           \A rows \in SUBSET Id : \A q \in Entry :
              [Top(t) EXCEPT !.at = tell, !.rows = rows, !.q = q] \in Calm
    PROVE  Plain(t)
<1> DEFINE f == Top(t)
           p == SearchId(Least(f.rows))
           rest == f.rows \ {Least(f.rows)}
<1>0. At(t, from) /\ Local
  BY DEF NextRow
<1>1. stack[t] # << >> /\ f.at # "alw_ins2" /\ f \in FrameType
  BY <1>0, AtRight
<1>2. \/ Resume(t, [f EXCEPT !.at = over])
      \/ Resume(t, [f EXCEPT !.rows = rest])
      \/ p # NoEntry /\ Resume(t, [f EXCEPT !.at = tell, !.rows = rest, !.q = p])
  BY DEF NextRow, Goto
<1>3. rest \in SUBSET Id
  BY <1>1 DEF FrameType
<1>4. p # NoEntry => p \in Entry
  BY FoundRight
<1> HIDE DEF p, rest
<1>5. CASE Resume(t, [f EXCEPT !.at = over])
  BY <1>0, <1>1, <1>5, ResumePlain
<1>6. CASE Resume(t, [f EXCEPT !.rows = rest])
  <2>1. [f EXCEPT !.rows = rest] \in Calm
    BY <1>3
  <2> QED
    BY <1>0, <1>1, <1>6, <2>1, ResumePlain
<1>7. CASE p # NoEntry /\ Resume(t, [f EXCEPT !.at = tell, !.rows = rest, !.q = p])
  <2>1. [f EXCEPT !.at = tell, !.rows = rest, !.q = p] \in Calm
    BY <1>3, <1>4, <1>7
  <2> QED
    BY <1>0, <1>1, <1>7, <2>1, ResumePlain
<1> QED
  BY <1>2, <1>5, <1>6, <1>7

LEMMA LogRowPlain ==
    ASSUME ServerInv, NEW t \in Thread, LogRow(t) PROVE Plain(t)
<1> DEFINE f == Top(t)
<1>0. At(t, "log_row") /\ NextRow(t, "log_row", "log_tell", "done")
  BY DEF LogRow, NextRow
<1>1. f \in FrameType /\ f.at = "log_row" /\ LoginRight(f)
  BY <1>0, AtRight
<1>2. [f EXCEPT !.at = "done"] \in Calm
  BY <1>0, DoneFrame
<1> HIDE DEF f
<1>3. ASSUME NEW rows \in SUBSET Id PROVE [f EXCEPT !.rows = rows] \in Calm
  <2> DEFINE g == [f EXCEPT !.rows = rows]
  <2>1. g \in FrameType /\ g.at = "log_row" /\ g.id = f.id /\ g.p = f.p
    BY <1>1 DEF FrameType
  <2> HIDE DEF g
  <2>2. g \in Calm
    BY <1>1, <2>1, LoginFrame DEF LoginRight, LogPCs, LogAfterAdd
  <2> QED
    BY <2>2 DEF g
<1>4. ASSUME NEW rows \in SUBSET Id, NEW q \in Entry
      PROVE  [f EXCEPT !.at = "log_tell", !.rows = rows, !.q = q] \in Calm
  <2> DEFINE g == [f EXCEPT !.at = "log_tell", !.rows = rows, !.q = q]
  <2>1. g \in FrameType /\ g.at = "log_tell" /\ g.id = f.id /\ g.p = f.p
    BY <1>1 DEF FrameType, PCs
  <2> HIDE DEF g
  <2>2. g \in Calm
    BY <1>1, <2>1, LoginFrame DEF LoginRight, LogPCs, LogAfterAdd
  <2> QED
    BY <2>2 DEF g
<1> QED
  BY <1>0, <1>2, <1>3, <1>4, NextRowPlain DEF f

LEMMA LogTellPlain ==
    ASSUME ServerInv, NEW t \in Thread, LogTell(t) PROVE Plain(t)
<1> DEFINE g == [Top(t) EXCEPT !.at = "log_show"]
           h == [Top(t) EXCEPT !.at = "log_row"]
           m == [op |-> "ONLINE", who |-> Top(t).p]
<1>0. At(t, "log_tell")
  BY DEF LogTell
<1>1. g \in Calm /\ h \in Calm
  BY <1>0, LoginGoesOn DEF LogAfterAdd
<1>2. /\ up /\ stack[t] # << >> /\ Top(t).at = "log_tell"
      /\ Top(t).p \in Entry
  BY <1>0, AtRight DEF LoginRight, LogAfterAdd, Known
<1>3. m \in Replies
  BY <1>2, PresencePackets
<1>4. PICK q \in Deref(Top(t).q) : Send(t, q.fd, m, g, h)
  BY DEF LogTell
<1>5. q.fd \in Fd \cup {NoFd}
  BY ServerTypes, DerefRight, EntryFd
<1> HIDE DEF g, h, m
<1> QED
  BY <1>1, <1>2, <1>3, <1>4, <1>5, SendPlain

LEMMA LogShowPlain ==
    ASSUME ServerInv, NEW t \in Thread, LogShow(t) PROVE Plain(t)
<1> DEFINE g == [Top(t) EXCEPT !.at = "log_row"]
           d == [Top(t) EXCEPT !.at = "done"]
<1>0. At(t, "log_show")
  BY DEF LogShow
<1>1. g \in Calm /\ d \in Calm
  BY <1>0, LoginGoesOn, DoneFrame DEF LogAfterAdd
<1>2. /\ up /\ stack[t] # << >> /\ Top(t).at = "log_show"
      /\ Top(t).fd \in Fd \cup {NoFd}
  BY <1>0, AtRight DEF FrameType
<1>3. PICK q \in Deref(Top(t).q) : Send(t, Top(t).fd, [op |-> "ONLINE", who |-> q], g, d)
  BY DEF LogShow
<1> DEFINE m == [op |-> "ONLINE", who |-> q]
<1>4. m \in Replies
  BY ServerTypes, DerefRight, PresencePackets
<1> HIDE DEF g, d, m
<1>5. Send(t, Top(t).fd, m, g, d)
  BY <1>3 DEF m
<1> QED
  BY <1>1, <1>2, <1>4, <1>5, SendPlain

LEMMA LogReplyPlain ==
    ASSUME ServerInv, NEW t \in Thread, LogReply(t) PROVE Plain(t)
<1> DEFINE d == [Top(t) EXCEPT !.at = "done"]
           m == [op |-> "LOGIN_FEEDBACK", flag |-> Top(t).flag]
<1>0. At(t, "log_reply") /\ Send(t, Top(t).fd, m, d, d)
  BY DEF LogReply
<1>1. d \in Calm
  BY <1>0, DoneFrame
<1>2. /\ up /\ stack[t] # << >> /\ Top(t).at = "log_reply"
      /\ Top(t).fd \in Fd \cup {NoFd} /\ Top(t).flag \in -3 .. 0
  BY <1>0, AtRight DEF FrameType, LoginRight
<1>3. m \in Replies
  BY <1>2, PresencePackets
<1> HIDE DEF d, m
<1> QED
  BY <1>0, <1>1, <1>2, <1>3, SendPlain
----------------------------------------------------------------------------
(* offline_action.                                                         *)

LEMMA OfflineGoesOn ==
    ASSUME ServerInv, NEW t \in Thread, NEW at \in OffPCs, At(t, at), NEW to \in OffPCs
    PROVE  [Top(t) EXCEPT !.at = to] \in Calm
<1> DEFINE f == Top(t)
           g == [f EXCEPT !.at = to]
<1>1. f \in FrameType /\ f.id \in Id \cup {0}
  BY AtRight DEF OfflineRight
<1> HIDE DEF f
<1>2. g \in FrameType /\ g.at = to /\ g.id = f.id
  BY <1>1 DEF FrameType, PCs, OffPCs
<1> HIDE DEF g
<1>3. g \in Calm
  BY <1>1, <1>2, LeaveFrame
<1> QED
  BY <1>3 DEF f, g

LEMMA OffFindPlain ==
    ASSUME ServerInv, NEW t \in Thread, OffFind(t) PROVE Plain(t)
<1> DEFINE f == Top(t)
           e == SearchFd(f.fd)
<1>0. At(t, "find")
  BY DEF OffFind
<1>1. f \in FrameType /\ f.at = "find" /\ stack[t] # << >>
  BY <1>0, AtRight
<1>2. PICK id : /\ id = IF e = NoEntry THEN -1 ELSE e.id
                /\ Resume(t, [f EXCEPT !.at = "off_ctl", !.id = id]) /\ Local
  BY DEF OffFind
<1>3. id \in Id \cup {-1, 0}
  <2>1. e = NoEntry \/ e \in Entry
    BY ServerTypes, SearchFdRight
  <2> QED
    BY <1>2, <2>1 DEF Entry
<1> DEFINE g == [f EXCEPT !.at = "off_ctl", !.id = id]
<1> HIDE DEF f, e
<1>4. g \in FrameType /\ g.at = "off_ctl"
  <2>1. "off_ctl" \in PCs
    BY DEF PCs
  <2> QED
    BY <1>1, <1>3, <2>1 DEF FrameType
<1>5. Resume(t, g) /\ Local
  BY <1>2
<1> HIDE DEF g
<1>6. g \in Calm
  BY <1>4, FreeFrame DEF FreePCs
<1> QED
  BY <1>1, <1>5, <1>6, ResumePlain DEF f

LEMMA OffCtlPlain ==
    ASSUME ServerInv, NEW t \in Thread, OffCtl(t) PROVE Plain(t)
<1> DEFINE f == Top(t)
           g == [f EXCEPT !.at = "off_del"]
<1>0. At(t, "off_ctl") /\ UNCHANGED <<users, friends, online, up, issued, accepts, lost>>
  BY DEF OffCtl, dbVars, ghostVars
<1>1. f \in FrameType /\ f.at = "off_ctl" /\ stack[t] # << >>
  BY <1>0, AtRight
<1>2. CASE f.id < 0
  <2>1. Return(t) /\ Close(f.fd)
    BY <1>2 DEF OffCtl
  <2>2. /\ DescriptorsRight'
        /\ rx' \in [Conn -> Seq(Requests)] /\ tx' \in [Conn -> Seq(Replies)]
    BY <1>0, <2>1, CloseRight
  <2>3. stack' \in [Thread -> Seq(Frames)] /\ Moves(t, Calm)
    BY <1>1, <2>1, ServerTypes, ReturnMoves
  <2> QED
    BY <1>0, <1>1, <2>2, <2>3, ServerTypes DEF Plain
<1>3. CASE ~(f.id < 0)
  <2>1. /\ epset' = epset \ {f.fd} /\ Resume(t, g)
        /\ UNCHANGED <<link, rx, tx, fdt>>
    BY <1>3 DEF OffCtl, Goto, netVars
  <2>2. DescriptorsRight'
    BY <1>0, <2>1 DEF ServerInv, DescriptorsRight
  <2>3. g \in Calm
    <3> HIDE DEF f
    <3>1. g \in FrameType /\ g.at = "off_del" /\ g.id = f.id
      BY <1>1 DEF FrameType, PCs
    <3>2. f.id \in Id \cup {0}
      BY <1>1, <1>3 DEF FrameType
    <3> HIDE DEF g
    <3> QED
      BY <3>1, <3>2, LeaveFrame DEF OffPCs
  <2>4. Calm \in SUBSET Frames
    BY DEF Calm
  <2> HIDE DEF g
  <2>5. stack' \in [Thread -> Seq(Frames)] /\ Moves(t, Calm)
    BY <1>1, <2>1, <2>3, <2>4, ServerTypes, ResumeMoves
  <2> QED
    BY <1>0, <1>1, <2>1, <2>2, <2>5, ServerTypes DEF Plain
<1> QED
  BY <1>2, <1>3

LEMMA RemoveAtType ==
    ASSUME NEW S, NEW s \in Seq(S), NEW k \in DOMAIN s
    PROVE  RemoveAt(s, k) \in Seq(S)
<1>1. k \in 1 .. Len(s)
  OBVIOUS
<1>2. SubSeq(s, 1, k - 1) \in Seq(S) /\ SubSeq(s, k + 1, Len(s)) \in Seq(S)
  BY <1>1
<1> QED
  BY <1>2, ConcatProperties DEF RemoveAt

LEMMA OffDelPlain ==
    ASSUME ServerInv, NEW t \in Thread, OffDel(t) PROVE Plain(t)
<1> DEFINE g == [Top(t) EXCEPT !.at = "off_query"]
           e == SearchId(Top(t).id)
           P(i) == online[i] = e /\ \A j \in DOMAIN online : online[j] = e => j <= i
           k == CHOOSE i \in DOMAIN online : P(i)
<1>0. /\ At(t, "off_del") /\ Resume(t, g)
      /\ online' = IF e = NoEntry THEN online ELSE RemoveAt(online, k)
      /\ UNCHANGED <<netVars, dbVars, ioVars, up, ghostVars>>
  BY DEF OffDel, Goto
<1>1. stack[t] # << >> /\ Top(t).at = "off_del"
  BY <1>0, AtRight
<1>2. g \in Calm
  BY <1>0, OfflineGoesOn DEF OffPCs
<1>3. online' \in Seq(Known)
  <2> SUFFICES ASSUME e # NoEntry PROVE RemoveAt(online, k) \in Seq(Known)
    BY <1>0, ServerTypes
  <2> DEFINE M == {i \in DOMAIN online : online[i] = e}
  <2>1. M # {}
    BY ServerTypes, SearchIdRight
  <2>2. Len(online) \in Nat /\ M \in SUBSET (1 .. Len(online))
    BY ServerTypes
  <2> HIDE DEF e
  <2>3. PICK i \in M : \A j \in M : j <= i
    BY <2>1, <2>2, LastExists
  <2>4. i \in DOMAIN online /\ P(i)
    BY <2>3
  <2>5. k \in DOMAIN online
    BY <2>4
  <2> QED
    BY <2>5, ServerTypes, RemoveAtType
<1>4. Calm \in SUBSET Frames
  BY DEF Calm
<1> HIDE DEF g
<1>5. stack' \in [Thread -> Seq(Frames)] /\ Moves(t, Calm)
  BY <1>0, <1>1, <1>2, <1>4, ServerTypes, ResumeMoves
<1> QED
  BY <1>0, <1>1, <1>3, <1>5, StackPlain

LEMMA OffQueryPlain ==
    ASSUME ServerInv, NEW t \in Thread, OffQuery(t) PROVE Plain(t)
<1> DEFINE f == Top(t)
           g == [f EXCEPT !.at = "off_row", !.rows = friends[f.id]]
           h == [f EXCEPT !.at = "off_bye", !.wild = TRUE]
<1>0. At(t, "off_query") /\ Local
  BY DEF OffQuery
<1>1. /\ f \in FrameType /\ f.at = "off_query" /\ stack[t] # << >>
      /\ f.id \in Id \cup {0}
  BY <1>0, AtRight DEF OfflineRight, OffPCs
<1>2. (f.id \in DOMAIN friends /\ Resume(t, g)) \/ Resume(t, h)
  BY DEF OffQuery
<1>3. CASE f.id \in DOMAIN friends /\ Resume(t, g)
  <2>1. friends[f.id] \in SUBSET Id
    BY <1>3 DEF ServerInv, TablesRight
  <2> HIDE DEF f
  <2>2. g \in FrameType /\ g.at = "off_row" /\ g.id = f.id
    BY <1>1, <2>1 DEF FrameType, PCs
  <2> HIDE DEF g
  <2>3. g \in Calm
    BY <1>1, <2>2, LeaveFrame DEF OffPCs
  <2> QED
    BY <1>0, <1>1, <1>3, <2>3, ResumePlain DEF f
<1>4. CASE Resume(t, h)
  <2> HIDE DEF f
  <2>1. h \in FrameType /\ h.at = "off_bye" /\ h.id = f.id
    BY <1>1 DEF FrameType, PCs
  <2> HIDE DEF h
  <2>2. h \in Calm
    BY <1>1, <2>1, LeaveFrame DEF OffPCs
  <2> QED
    BY <1>0, <1>1, <1>4, <2>2, ResumePlain DEF f
<1> QED
  BY <1>2, <1>3, <1>4

LEMMA OffRowPlain ==
    ASSUME ServerInv, NEW t \in Thread, OffRow(t) PROVE Plain(t)
<1> DEFINE f == Top(t)
<1>0. At(t, "off_row") /\ NextRow(t, "off_row", "off_tell", "off_bye")
  BY DEF OffRow, NextRow
<1>1. f \in FrameType /\ f.at = "off_row" /\ f.id \in Id \cup {0}
  BY <1>0, AtRight DEF OfflineRight, OffPCs
<1>2. [f EXCEPT !.at = "off_bye"] \in Calm
  BY <1>0, OfflineGoesOn DEF OffPCs
<1> HIDE DEF f
<1>3. ASSUME NEW rows \in SUBSET Id PROVE [f EXCEPT !.rows = rows] \in Calm
  <2> DEFINE g == [f EXCEPT !.rows = rows]
  <2>1. g \in FrameType /\ g.at = "off_row" /\ g.id = f.id
    BY <1>1 DEF FrameType
  <2> HIDE DEF g
  <2>2. g \in Calm
    BY <1>1, <2>1, LeaveFrame DEF OffPCs
  <2> QED
    BY <2>2 DEF g
<1>4. ASSUME NEW rows \in SUBSET Id, NEW q \in Entry
      PROVE  [f EXCEPT !.at = "off_tell", !.rows = rows, !.q = q] \in Calm
  <2> DEFINE g == [f EXCEPT !.at = "off_tell", !.rows = rows, !.q = q]
  <2>1. g \in FrameType /\ g.at = "off_tell" /\ g.id = f.id
    BY <1>1 DEF FrameType, PCs
  <2> HIDE DEF g
  <2>2. g \in Calm
    BY <1>1, <2>1, LeaveFrame DEF OffPCs
  <2> QED
    BY <2>2 DEF g
<1> QED
  BY <1>0, <1>2, <1>3, <1>4, NextRowPlain DEF f

LEMMA OffTellPlain ==
    ASSUME ServerInv, NEW t \in Thread, OffTell(t) PROVE Plain(t)
<1> DEFINE g == [Top(t) EXCEPT !.at = "off_row"]
           m == [op |-> "OFFLINE", id |-> Top(t).id]
<1>0. At(t, "off_tell")
  BY DEF OffTell
<1>1. g \in Calm
  BY <1>0, OfflineGoesOn DEF OffPCs
<1>2. /\ up /\ stack[t] # << >> /\ Top(t).at = "off_tell"
      /\ Top(t).id \in Id \cup {0}
  BY <1>0, AtRight DEF OfflineRight, OffPCs
<1>3. m \in Replies
  BY <1>2, PresencePackets
<1>4. PICK q \in Deref(Top(t).q) : Send(t, q.fd, m, g, g)
  BY DEF OffTell
<1>5. q.fd \in Fd \cup {NoFd}
  BY ServerTypes, DerefRight, EntryFd
<1> HIDE DEF g, m
<1> QED
  BY <1>1, <1>2, <1>3, <1>4, <1>5, SendPlain

LEMMA OffByePlain ==
    ASSUME ServerInv, NEW t \in Thread, OffBye(t) PROVE Plain(t)
<1> DEFINE g == [Top(t) EXCEPT !.at = "off_close"]
           m == [op |-> "ALLOW_DISCONNECT"]
<1>0. At(t, "off_bye") /\ Send(t, Top(t).fd, m, g, g)
  BY DEF OffBye
<1>1. g \in Calm
  BY <1>0, OfflineGoesOn DEF OffPCs
<1>2. /\ up /\ stack[t] # << >> /\ Top(t).at = "off_bye"
      /\ Top(t).fd \in Fd \cup {NoFd}
  BY <1>0, AtRight DEF FrameType
<1>3. m \in Replies
  BY PresencePackets
<1> HIDE DEF g, m
<1> QED
  BY <1>0, <1>1, <1>2, <1>3, SendPlain

LEMMA OffClosePlain ==
    ASSUME ServerInv, NEW t \in Thread, OffClose(t) PROVE Plain(t) \/ Die
<1>0. At(t, "off_close")
  BY DEF OffClose
<1>1. Top(t).at = "off_close" /\ stack[t] # << >>
  BY <1>0, AtRight
<1>2. CASE Return(t) /\ Close(Top(t).fd) /\ UNCHANGED <<dbVars, online, up, ghostVars>>
  <2>0. UNCHANGED <<users, friends, online, up, issued, accepts, lost>>
    BY <1>2 DEF dbVars, ghostVars
  <2>1. /\ DescriptorsRight'
        /\ rx' \in [Conn -> Seq(Requests)] /\ tx' \in [Conn -> Seq(Replies)]
    BY <1>2, <2>0, CloseRight
  <2>2. stack' \in [Thread -> Seq(Frames)] /\ Moves(t, Calm)
    BY <1>1, <1>2, ServerTypes, ReturnMoves
  <2> QED
    BY <1>1, <2>0, <2>1, <2>2, ServerTypes DEF Plain
<1> QED
  BY <1>2 DEF OffClose

LEMMA DonePlain ==
    ASSUME ServerInv, NEW t \in Thread, Done(t) PROVE Plain(t) \/ Die
<1>0. At(t, "done")
  BY DEF Done
<1>1. Top(t).at = "done" /\ stack[t] # << >>
  BY <1>0, AtRight
<1>2. CASE Return(t) /\ Local
  <2>1. /\ UNCHANGED <<netVars, dbVars, ioVars, up, ghostVars>>
        /\ online' = online
    BY <1>2 DEF Local
  <2>2. stack' \in [Thread -> Seq(Frames)] /\ Moves(t, Calm)
    BY <1>1, <1>2, ServerTypes, ReturnMoves
  <2> QED
    BY <1>1, <2>1, <2>2, ServerTypes, StackPlain
<1> QED
  BY <1>2 DEF Done
----------------------------------------------------------------------------
(* add_friend_action.                                                      *)

LEMMA AddSearchPlain ==
    ASSUME ServerInv, NEW t \in Thread, AddSearch(t) PROVE Plain(t)
<1> DEFINE f == Top(t)
<1>0. At(t, "add_search") /\ Local
  BY DEF AddSearch
<1>1. /\ f \in FrameType /\ f.at = "add_search" /\ stack[t] # << >>
      /\ f.pkt \in AddPacket
  BY <1>0, AtRight DEF AddRight, AddPCs
<1>2. PICK p : p = SearchId(f.pkt.dst)
  OBVIOUS
<1> DEFINE g == [f EXCEPT !.at = "add_query", !.p = p]
<1>3. Resume(t, g)
  BY <1>2 DEF AddSearch
<1>4. p \in Entry \cup {NoEntry} /\ (p = NoEntry \/ f.pkt.dst \in DOMAIN friends)
  BY <1>2, FoundRight DEF Known
<1> HIDE DEF f
<1>5. g \in FrameType /\ g.at = "add_query" /\ g.pkt = f.pkt /\ g.p = p
  BY <1>1, <1>4 DEF FrameType, PCs
<1> HIDE DEF g
<1>6. g \in Calm
  BY <1>1, <1>4, <1>5, AddFrame DEF AddRight, AddPCs
<1> QED
  BY <1>0, <1>1, <1>3, <1>6, ResumePlain DEF f

(* mysql_fetch_row on a wild res may end the process.                      *)
LEMMA AddQueryPlain ==
    ASSUME ServerInv, NEW t \in Thread, AddQuery(t) PROVE Plain(t) \/ Die
<1> DEFINE f == Top(t)
           g == [f EXCEPT !.at = "add_fwd"]
           h(n) == [f EXCEPT !.at = "add_reply", !.flag = n]
<1>0. At(t, "add_query")
  BY DEF AddQuery
<1>1. /\ f \in FrameType /\ f.at = "add_query" /\ stack[t] # << >>
      /\ f.pkt \in AddPacket
      /\ f.p = NoEntry \/ f.pkt.dst \in DOMAIN friends
  BY <1>0, AtRight DEF AddRight, AddPCs
<1>2. \/ \E n \in 2 .. 4 : Resume(t, h(n)) /\ Local
      \/ Die
      \/ f.pkt.src \in DOMAIN friends /\ f.p # NoEntry /\ Resume(t, g) /\ Local
  BY 2 \in 2 .. 4, 3 \in 2 .. 4, 4 \in 2 .. 4 DEF AddQuery, Goto
<1>3. ASSUME NEW n \in 2 .. 4, Resume(t, h(n)), Local PROVE Plain(t)
  <2> DEFINE r == h(n)
  <2> HIDE DEF f
  <2>1. r \in FrameType /\ r.at = "add_reply" /\ r.pkt = f.pkt /\ r.flag = n
    <3>1. n \in -3 .. 4 /\ "add_reply" \in PCs
      BY DEF PCs
    <3> QED
      BY <1>1, <3>1 DEF FrameType
  <2>2. Resume(t, r)
    BY <1>3
  <2> HIDE DEF r, h
  <2>3. r \in Calm
    BY <1>1, <2>1, AddFrame DEF AddRight, AddPCs
  <2> QED
    BY <1>1, <1>3, <2>2, <2>3, ResumePlain DEF f
<1>4. ASSUME f.pkt.src \in DOMAIN friends, f.p # NoEntry, Resume(t, g), Local
      PROVE  Plain(t)
  <2> HIDE DEF f
  <2>1. g \in FrameType /\ g.at = "add_fwd" /\ g.pkt = f.pkt
    BY <1>1 DEF FrameType, PCs
  <2> HIDE DEF g
  <2>2. g \in Calm
    BY <1>1, <1>4, <2>1, AddFrame DEF AddRight, AddPCs
  <2> QED
    BY <1>1, <1>4, <2>2, ResumePlain DEF f
<1> QED
  BY <1>2, <1>3, <1>4

LEMMA AddReplyPlain ==
    ASSUME ServerInv, NEW t \in Thread, AddReply(t) PROVE Plain(t)
<1> DEFINE f == Top(t)
           d == [f EXCEPT !.at = "done"]
           m == [op |-> "ALLOW_ADDF", src |-> f.pkt.src, dst |-> f.pkt.dst, ans |-> f.flag]
<1>0. At(t, "add_reply") /\ Send(t, f.fd, m, d, d)
  BY DEF AddReply
<1>1. d \in Calm
  BY <1>0, DoneFrame
<1>2. /\ up /\ stack[t] # << >> /\ f.at = "add_reply" /\ f.fd \in Fd \cup {NoFd}
      /\ f.pkt \in AddPacket /\ f.flag \in 2 .. 4
  BY <1>0, AtRight DEF FrameType, AddRight, AddPCs
<1>3. m \in Replies
  <2>1. f.pkt.src \in Id /\ f.pkt.dst \in Id /\ f.flag \in 0 .. 4 /\ f.flag # 1
    BY <1>2 DEF AddPacket
  <2> QED
    BY <2>1 DEF Replies, ToClient
<1> HIDE DEF d, m
<1> QED
  BY <1>0, <1>1, <1>2, <1>3, SendPlain

LEMMA AddForwardPlain ==
    ASSUME ServerInv, NEW t \in Thread, AddForward(t) PROVE Plain(t)
<1> DEFINE f == Top(t)
           d == [f EXCEPT !.at = "done"]
<1>0. At(t, "add_fwd")
  BY DEF AddForward
<1>1. d \in Calm
  BY <1>0, DoneFrame
<1>2. /\ up /\ stack[t] # << >> /\ f.at = "add_fwd"
      /\ f.pkt \in AddPacket
      /\ f.pkt.src \in DOMAIN friends /\ f.pkt.dst \in DOMAIN friends
  BY <1>0, AtRight DEF AddRight, AddPCs
<1>3. f.pkt \in Replies
  BY <1>2 DEF Replies, ToClient, AddPacket
<1>4. PICK q \in Deref(f.p) : Send(t, q.fd, f.pkt, d, d)
  BY DEF AddForward
<1>5. q.fd \in Fd \cup {NoFd}
  BY ServerTypes, DerefRight, EntryFd
<1> HIDE DEF d
<1> QED
  BY <1>1, <1>2, <1>3, <1>4, <1>5, SendPlain
----------------------------------------------------------------------------
(* allow_addf_action, but for its two inserts.                             *)

LEMMA AlwSourcePlain ==
    ASSUME ServerInv, NEW t \in Thread, AlwSource(t) PROVE Plain(t)
<1> DEFINE f == Top(t)
<1>0. At(t, "alw_src") /\ Local
  BY DEF AlwSource
<1>1. f \in FrameType /\ f.at = "alw_src" /\ stack[t] # << >> /\ AllowRight(f)
  BY <1>0, AtRight
<1>2. PICK p : p = SearchId(f.pkt.src)
  OBVIOUS
<1> DEFINE g == [f EXCEPT !.at = "alw_dst", !.p = p]
<1>3. Resume(t, g)
  BY <1>2 DEF AlwSource
<1>4. p \in Entry \cup {NoEntry}
  BY <1>2, FoundRight
<1> HIDE DEF f
<1>5. g \in FrameType /\ g.at = "alw_dst" /\ g.pkt = f.pkt /\ g.flag = f.flag
  BY <1>1, <1>4 DEF FrameType, PCs
<1> HIDE DEF g
<1>6. g \in Calm
  BY <1>1, <1>5, AllowFrame DEF AllowRight, AlwPCs, AlwEarly
<1> QED
  BY <1>0, <1>1, <1>3, <1>6, ResumePlain DEF f

LEMMA AlwDestPlain ==
    ASSUME ServerInv, NEW t \in Thread, AlwDest(t) PROVE Plain(t)
<1> DEFINE f == Top(t)
<1>0. At(t, "alw_dst") /\ Local
  BY DEF AlwDest
<1>1. f \in FrameType /\ f.at = "alw_dst" /\ stack[t] # << >> /\ AllowRight(f)
  BY <1>0, AtRight
<1>2. PICK q : q = SearchId(f.pkt.dst)
  OBVIOUS
<1>3. PICK at \in {"alw_ins1", "alw_reply", "done"} :
         Resume(t, [f EXCEPT !.at = at, !.q = q])
  BY <1>2 DEF AlwDest
<1> DEFINE g == [f EXCEPT !.at = at, !.q = q]
<1>4. q \in Entry \cup {NoEntry}
  BY <1>2, FoundRight
<1>5. Resume(t, g)
  BY <1>3
<1> HIDE DEF f
<1>6. g \in FrameType /\ g.at = at /\ g.pkt = f.pkt /\ g.flag = f.flag
  <2>1. at \in PCs
    BY DEF PCs
  <2> QED
    BY <1>1, <1>4, <2>1 DEF FrameType
<1> HIDE DEF g
<1>7. g \in Calm
  <2>1. CASE at = "done"
    BY <1>6, <2>1, FreeFrame DEF FreePCs
  <2>2. CASE at # "done"
    <3>1. at \in AlwPCs /\ at # "alw_ins2"
      BY <2>2 DEF AlwPCs, AlwEarly
    <3>2. f.flag = 0 /\ f.at \in AlwPCs
      BY <1>1 DEF AllowRight, AlwPCs, AlwEarly
    <3>3. AllowRight(g)
      BY <1>1, <1>6, <3>1, <3>2 DEF AllowRight
    <3> QED
      BY <1>6, <3>1, <3>3, AllowFrame
  <2> QED
    BY <2>1, <2>2
<1> QED
  BY <1>0, <1>1, <1>5, <1>7, ResumePlain DEF f

LEMMA AlwReplyPlain ==
    ASSUME ServerInv, NEW t \in Thread, AlwReply(t) PROVE Plain(t)
<1> DEFINE f == Top(t)
           ok == f.pkt.ans = 1 /\ f.flag = 1
<1>0. At(t, "alw_reply")
  BY DEF AlwReply
<1>1. /\ up /\ f \in FrameType /\ f.at = "alw_reply" /\ stack[t] # << >>
      /\ f.pkt \in AllowPacket
      /\ f.flag = 1 => Row(f.pkt.src, f.pkt.dst) /\ Row(f.pkt.dst, f.pkt.src)
  BY <1>0, AtRight DEF AllowRight, AlwPCs
<1>2. PICK ans : ans = IF f.pkt.ans = 0 THEN 0 ELSE IF ok THEN 1 ELSE 3
  OBVIOUS
<1> DEFINE m == [op |-> "ALLOW_ADDF", src |-> f.pkt.src, dst |-> f.pkt.dst, ans |-> ans]
<1>3. PICK at \in {"alw_on1", "done"} :
         \E p \in Deref(f.p) : Send(t, p.fd, m, [f EXCEPT !.at = at], [f EXCEPT !.at = at])
  BY <1>2 DEF AlwReply
<1> DEFINE g == [f EXCEPT !.at = at]
<1>4. PICK p \in Deref(f.p) : Send(t, p.fd, m, g, g)
  BY <1>3
<1>5. p.fd \in Fd \cup {NoFd}
  BY ServerTypes, DerefRight, EntryFd
<1>6. m \in Replies
  <2>1. f.pkt.src \in Id /\ f.pkt.dst \in Id /\ ans \in 0 .. 4
    BY <1>1, <1>2 DEF AllowPacket
  <2>2. ans = 1 => Row(f.pkt.src, f.pkt.dst) /\ Row(f.pkt.dst, f.pkt.src)
    BY <1>1, <1>2
  <2> QED
    BY <2>1, <2>2 DEF Replies, ToClient
<1> HIDE DEF m
<1>7. g \in Calm
  <2> HIDE DEF f
  <2>1. g \in FrameType /\ g.at = at
    BY <1>1 DEF FrameType, PCs
  <2> HIDE DEF g
  <2> QED
    BY <2>1, FreeFrame DEF FreePCs
<1> HIDE DEF g
<1> QED
  BY <1>1, <1>4, <1>5, <1>6, <1>7, SendPlain

LEMMA AlwOnline1Plain ==
    ASSUME ServerInv, NEW t \in Thread, AlwOnline1(t) PROVE Plain(t)
<1> DEFINE f == Top(t)
           g == [f EXCEPT !.at = "alw_on2"]
<1>0. At(t, "alw_on1")
  BY DEF AlwOnline1
<1>1. up /\ f \in FrameType /\ f.at = "alw_on1" /\ stack[t] # << >>
  BY <1>0, AtRight
<1>2. PICK p \in Deref(f.p), q \in Deref(f.q) :
         Send(t, p.fd, [op |-> "ONLINE", who |-> q], g, g)
  BY DEF AlwOnline1
<1>3. p.fd \in Fd \cup {NoFd} /\ q \in Entry
  BY ServerTypes, DerefRight, EntryFd
<1> DEFINE m == [op |-> "ONLINE", who |-> q]
<1>4. m \in Replies
  BY <1>3, PresencePackets
<1>5. Send(t, p.fd, m, g, g)
  BY <1>2
<1> HIDE DEF m
<1>6. g \in Calm
  <2> HIDE DEF f
  <2>1. g \in FrameType /\ g.at = "alw_on2"
    BY <1>1 DEF FrameType, PCs
  <2> HIDE DEF g
  <2> QED
    BY <2>1, FreeFrame DEF FreePCs
<1> HIDE DEF g
<1> QED
  BY <1>1, <1>3, <1>4, <1>5, <1>6, SendPlain

LEMMA AlwOnline2Plain ==
    ASSUME ServerInv, NEW t \in Thread, AlwOnline2(t) PROVE Plain(t)
<1> DEFINE f == Top(t)
           d == [f EXCEPT !.at = "done"]
<1>0. At(t, "alw_on2")
  BY DEF AlwOnline2
<1>1. up /\ f.at = "alw_on2" /\ stack[t] # << >> /\ d \in Calm
  BY <1>0, AtRight, DoneFrame
<1>2. PICK p \in Deref(f.p), q \in Deref(f.q) :
         Send(t, q.fd, [op |-> "ONLINE", who |-> p], d, d)
  BY DEF AlwOnline2
<1>3. q.fd \in Fd \cup {NoFd} /\ p \in Entry
  BY ServerTypes, DerefRight, EntryFd
<1> DEFINE m == [op |-> "ONLINE", who |-> p]
<1>4. m \in Replies
  BY <1>3, PresencePackets
<1>5. Send(t, q.fd, m, d, d)
  BY <1>2
<1> HIDE DEF m, d
<1> QED
  BY <1>1, <1>3, <1>4, <1>5, SendPlain
----------------------------------------------------------------------------
(* The steps that change the tables.                                       *)

LEMMA GrownSets ==
    ASSUME Grown
    PROVE  /\ Complete \subseteq Complete'
           /\ Known \subseteq Known' /\ Frames \subseteq Frames'
           /\ Requests \subseteq Requests' /\ Replies \subseteq Replies'
<1>1. Complete \subseteq Complete'
  BY DEF Grown, Complete
<1>2. Known \subseteq Known'
  BY DEF Grown, Known
<1>3. ASSUME NEW f \in Frames PROVE f \in Frames'
  <2>1. f \in FrameType
    BY DEF Frames
  <2>2. RegisterRight(f)' /\ OfflineRight(f)'
    BY <1>1 DEF Grown, Frames, RegisterRight, OfflineRight
  <2>3. LoginRight(f)'
    BY <1>2 DEF Grown, Frames, LoginRight
  <2>4. AddRight(f)'
    BY DEF Grown, Frames, AddRight
  <2>5. AllowRight(f)'
    <3>1. AllowRight(f)
      BY DEF Frames
    <3> QED
      BY <3>1 DEF Grown, AllowRight
  <2> QED
    BY <2>1, <2>2, <2>3, <2>4, <2>5 DEF Frames
<1>4. Requests \subseteq Requests'
  BY DEF Grown, Requests
<1>5. Replies \subseteq Replies'
  BY <1>1 DEF Grown, Replies
<1> QED
  BY <1>1, <1>2, <1>3, <1>4, <1>5

LEMMA TopReplaced ==
    ASSUME NEW F, stack \in [Thread -> Seq(F)], NEW t \in Thread, stack[t] # << >>,
           NEW f \in F, NEW g \in F, Resume(t, f) \/ Call(t, f, g)
    PROVE  /\ Len(stack[t]) \in DOMAIN stack'[t]
           /\ stack'[t][Len(stack[t])] = f
<1> DEFINE n == Len(stack[t])
           r == [stack[t] EXCEPT ![n] = f]
<1>1. n \in 1 .. n /\ r \in Seq(F) /\ Len(r) = n /\ r[n] = f
  OBVIOUS
<1> HIDE DEF r, n
<1>2. CASE Resume(t, f)
  <2>1. stack'[t] = r
    BY <1>2 DEF Resume, r, n
  <2> QED
    BY <1>1, <2>1 DEF n
<1>3. CASE Call(t, f, g)
  <2>1. stack'[t] = Append(r, g)
    BY <1>3 DEF Call, r, n
  <2>2. n \in DOMAIN Append(r, g) /\ Append(r, g)[n] = f
    BY <1>1
  <2> QED
    BY <2>1, <2>2 DEF n
<1> QED
  BY <1>2, <1>3

(* All of the invariant but the once-ness of ids and the symmetry.         *)
LEMMA GrowKeeps ==
    ASSUME ServerInv, Grown, TablesRight', NEW t \in Thread, stack[t] # << >>,
           UNCHANGED <<link, rx, tx, online, fdt, epset, up, accepts>>,
           NEW f, f \in Frames', Resume(t, f)
    PROVE  /\ DescriptorsRight' /\ PacketsRight'
           /\ online' \in Seq(Known') /\ stack' \in [Thread -> Seq(Frames')]
           /\ Moves(t, {f})
           /\ Len(stack[t]) \in DOMAIN stack'[t]
           /\ stack'[t][Len(stack[t])] = f
<1> DEFINE F == Frames'
<1>1. /\ Seq(Known) \subseteq Seq(Known') /\ Seq(Frames) \subseteq Seq(F)
      /\ Seq(Requests) \subseteq Seq(Requests') /\ Seq(Replies) \subseteq Seq(Replies')
  BY GrownSets, SeqMono
<1>2. DescriptorsRight' /\ PacketsRight' /\ online' \in Seq(Known')
  BY <1>1, ServerTypes DEF ServerInv, DescriptorsRight, PacketsRight
<1>3. stack \in [Thread -> Seq(F)]
  BY <1>1, ServerTypes
<1>4. f \in F
  OBVIOUS
<1> HIDE DEF F
<1>5. {f} \in SUBSET F /\ f \in {f}
  BY <1>4
<1>6. stack' \in [Thread -> Seq(F)] /\ Moves(t, {f})
  BY <1>3, <1>5, ResumeMoves
<1>7. Len(stack[t]) \in DOMAIN stack'[t] /\ stack'[t][Len(stack[t])] = f
  BY <1>3, <1>4, TopReplaced
<1> QED
  BY <1>2, <1>6, <1>7 DEF F
----------------------------------------------------------------------------
(* register_action.                                                        *)

(* A row is added, or the table is as it was.                              *)
LEMMA RegInsertKeeps ==
    ASSUME ServerInv, NEW t \in Thread, RegInsert(t) PROVE ServerInv' /\ Grown
<1> DEFINE f == Top(t)
           g == [f EXCEPT !.at = "reg_max"]
<1>0. /\ At(t, "reg_insert") /\ Resume(t, g)
      /\ UNCHANGED <<link, rx, tx, friends, online, fdt, epset, up, issued, accepts, lost>>
      /\ (Len(users) + 1 \in Id /\ users' = Append(users, f.pkt.pwd)) \/ users' = users
  BY DEF RegInsert, Goto, netVars, ioVars, ghostVars
<1>1. /\ stack[t] # << >> /\ f.at = "reg_insert" /\ f \in FrameType
      /\ f.pkt \in RegisterPacket
  BY <1>0, AtRight DEF RegisterRight
<1>2. /\ users' \in Seq(Pwd) /\ UserIds' \subseteq Id /\ UserIds \subseteq UserIds'
  <2>1. users \in Seq(Pwd) /\ UserIds \subseteq Id
    BY DEF ServerInv, TablesRight
  <2>2. CASE Len(users) + 1 \in Id /\ users' = Append(users, f.pkt.pwd)
    <3>1. f.pkt.pwd \in Pwd
      BY <1>1 DEF RegisterPacket
    <3> HIDE DEF f
    <3>2. users' \in Seq(Pwd) /\ Len(users') = Len(users) + 1 /\ Len(users) \in Nat
      BY <2>1, <2>2, <3>1
    <3>3. UserIds' = UserIds \cup {Len(users) + 1}
      BY <3>2 DEF UserIds
    <3> QED
      BY <2>1, <2>2, <3>2, <3>3
  <2>3. CASE users' = users
    BY <2>1, <2>3 DEF UserIds
  <2> QED
    BY <1>0, <2>2, <2>3
<1>3. TablesRight' /\ \A a, b : Row(a, b) <=> Row(a, b)'
  BY <1>0, <1>2 DEF ServerInv, TablesRight, Row
<1>4. Grown
  BY <1>0, <1>2, <1>3 DEF Grown
<1>5. g \in Calm
  <2> HIDE DEF f
  <2>1. g \in FrameType /\ g.at = "reg_max"
    BY <1>1 DEF FrameType, PCs
  <2> HIDE DEF g
  <2> QED
    BY <2>1, FreeFrame DEF FreePCs
<1> HIDE DEF g
<1>6. g \in Frames' /\ ~Replying(g)
  BY <1>4, <1>5, GrownSets DEF Calm
<1>7. /\ DescriptorsRight' /\ PacketsRight'
      /\ online' \in Seq(Known') /\ stack' \in [Thread -> Seq(Frames')]
      /\ Moves(t, {g})
  BY <1>0, <1>1, <1>3, <1>4, <1>6, GrowKeeps
<1>8. FriendsSymmetric'
  <2>1. FriendsSymmetric /\ lost \subseteq lost' /\ Top(t).at # "alw_ins2"
    BY <1>0, <1>1 DEF ServerInv
  <2> QED
    BY <1>3, <1>7, <2>1, SymmetricKept
<1>9. IssuedRight'
  <2>1. IssuedRight /\ \A h \in {g} : ~Replying(h)
    BY <1>6 DEF ServerInv
  <2> QED
    BY <1>0, <1>7, <2>1, IssuedKept
<1> QED
  BY <1>3, <1>4, <1>7, <1>8, <1>9 DEF ServerInv

(* The last id is one that exists; row[0] of no row ends the process.      *)
LEMMA RegMaxPlain ==
    ASSUME ServerInv, NEW t \in Thread, RegMax(t) PROVE Plain(t) \/ Die
<1> DEFINE f == Top(t)
           g == [f EXCEPT !.at = "reg_create", !.id = Len(users)]
           h == [f EXCEPT !.at = "reg_reply", !.id = -1, !.wild = TRUE]
<1>0. At(t, "reg_max")
  BY DEF RegMax
<1>1. f \in FrameType /\ f.at = "reg_max" /\ stack[t] # << >>
  BY <1>0, AtRight
<1>2. CASE users # << >> /\ Resume(t, g) /\ Local
  <2>1. Len(users) \in UserIds /\ Len(users) \in Id
    <3>1. users \in Seq(Pwd) /\ UserIds \subseteq Id
      BY DEF ServerInv, TablesRight
    <3> QED
      BY <1>2, <3>1 DEF UserIds
  <2> HIDE DEF f
  <2>2. g \in FrameType /\ g.at = "reg_create" /\ g.id = Len(users)
    BY <1>1, <2>1 DEF FrameType, PCs
  <2> HIDE DEF g
  <2>3. g \in Calm
    BY <2>1, <2>2, RegisterFrame DEF RegisterRight, Calm, Replying
  <2> QED
    BY <1>1, <1>2, <2>3, ResumePlain DEF f
<1>3. CASE Resume(t, h) /\ Local
  <2> HIDE DEF f
  <2>1. h \in FrameType /\ h.at = "reg_reply" /\ h.id = -1
    BY <1>1 DEF FrameType, PCs
  <2> HIDE DEF h
  <2>2. h \in Calm
    BY <2>1, RegisterFrame DEF RegisterRight, Calm, Replying
  <2> QED
    BY <1>1, <1>3, <2>2, ResumePlain DEF f
<1> QED
  BY <1>2, <1>3 DEF RegMax

(* Whoever creates the table has the id for itself: those of the others    *)
(* on their way to a reply have their tables already.                      *)
LEMMA RegCreateKeeps ==
    ASSUME ServerInv, NEW t \in Thread, RegCreate(t) PROVE ServerInv' /\ Grown
<1> DEFINE f == Top(t)
           g == [f EXCEPT !.at = "reg_reply"]
           h == [f EXCEPT !.at = "reg_reply", !.id = -1]
<1>0. /\ At(t, "reg_create")
      /\ UNCHANGED <<link, rx, tx, users, online, fdt, epset, up, issued, accepts, lost>>
  BY DEF RegCreate, netVars, ioVars, ghostVars
<1>1. /\ stack[t] # << >> /\ f.at = "reg_create" /\ f \in FrameType
      /\ f.id \in UserIds /\ f.id \in Id
  BY <1>0, AtRight DEF RegisterRight, ServerInv, TablesRight
<1>2. PICK id : id = f.id
  OBVIOUS
<1>3. CASE id \notin DOMAIN friends /\ friends' = WithTable(id) /\ Resume(t, g)
  <2>1. /\ DOMAIN friends' = DOMAIN friends \cup {id}
        /\ \A i \in DOMAIN friends : friends'[i] = friends[i]
        /\ friends'[id] = {}
    BY <1>3 DEF WithTable
  <2>2. \A a, b : Row(a, b) <=> Row(a, b)'
    BY <2>1 DEF Row
  <2>3. TablesRight'
    <3>1. friends \in [DOMAIN friends -> SUBSET Id] /\ DOMAIN friends \subseteq Id
      BY DEF ServerInv, TablesRight
    <3>2. friends' \in [DOMAIN friends' -> SUBSET Id] /\ DOMAIN friends' \subseteq Id
      BY <1>1, <1>2, <1>3, <3>1 DEF WithTable
    <3>3. DOMAIN friends' \subseteq UserIds
      BY <1>1, <1>2, <2>1 DEF ServerInv, TablesRight
    <3> QED
      BY <1>0, <3>2, <3>3 DEF ServerInv, TablesRight, UserIds
  <2>4. Grown
    BY <1>0, <2>1, <2>2 DEF Grown, UserIds
  <2>5. g \in Frames' /\ g.at = "reg_reply" /\ g.id = id
    <3> HIDE DEF f
    <3>1. g \in FrameType /\ g.at = "reg_reply" /\ g.id = id
      BY <1>1, <1>2 DEF FrameType, PCs
    <3>2. id \in Complete'
      BY <1>0, <1>1, <1>2, <2>1 DEF Complete, UserIds
    <3> HIDE DEF g
    <3> QED
      BY <3>1, <3>2 DEF Frames, RegisterRight, LoginRight, OfflineRight, AddRight,
            AllowRight, LogPCs, LogAfterAdd, OffPCs, AddPCs, AlwPCs, AlwEarly
  <2> HIDE DEF g
  <2>6. /\ DescriptorsRight' /\ PacketsRight'
        /\ online' \in Seq(Known') /\ stack' \in [Thread -> Seq(Frames')]
        /\ Moves(t, {g})
        /\ Len(stack[t]) \in DOMAIN stack'[t] /\ stack'[t][Len(stack[t])] = g
    BY <1>0, <1>1, <1>3, <2>3, <2>4, <2>5, GrowKeeps
  <2>7. FriendsSymmetric'
    <3>1. FriendsSymmetric /\ lost \subseteq lost' /\ Top(t).at # "alw_ins2"
      BY <1>0, <1>1 DEF ServerInv
    <3> QED
      BY <2>2, <2>6, <3>1, SymmetricKept
  <2>8. IssuedRight'
    <3> DEFINE n == Len(stack[t])
    <3>1. ASSUME NEW u \in Thread, NEW i \in DOMAIN stack'[u], Replying(stack'[u][i])
          PROVE  \/ u = t /\ i = n /\ stack'[u][i].id = id
                 \/ /\ i \in DOMAIN stack[u] /\ stack'[u][i] = stack[u][i]
                    /\ Replying(stack[u][i]) /\ stack'[u][i].id # id
      <4>1. CASE u = t /\ i = n
        BY <2>5, <2>6, <4>1
      <4>2. CASE ~(u = t /\ i = n)
        <5>1. i \in DOMAIN stack[u] /\ stack'[u][i] = stack[u][i]
          <6>1. CASE u # t
            <7>1. stack'[u] = stack[u]
              BY <1>3, <6>1, ServerTypes DEF Resume
            <7> QED
              BY <7>1
          <6>2. CASE u = t /\ i # n
            <7>1. stack'[t] = [stack[t] EXCEPT ![n] = g]
              BY <1>3, ServerTypes DEF Resume
            <7> HIDE DEF n
            <7> QED
              BY <6>2, <7>1, ServerTypes
          <6> QED
            BY <4>2, <6>1, <6>2
        <5>2. stack[u][i] \in Frames /\ stack[u][i].id \in Complete
          <6>1. stack[u][i] \in Frames
            BY <5>1, ServerTypes
          <6> QED
            BY <3>1, <5>1, <6>1 DEF Frames, RegisterRight, Replying
        <5> QED
          BY <1>3, <3>1, <5>1, <5>2 DEF Complete
      <4> QED
        BY <4>1, <4>2
    <3>2. /\ DOMAIN InitFriends \cup issued' \subseteq DOMAIN friends' /\ id \notin issued'
          /\ \A k \in issued' : k \notin DOMAIN InitFriends
          /\ id \notin DOMAIN InitFriends
      BY <1>0, <1>3, <2>1 DEF ServerInv, IssuedRight
    <3>5. \A u \in Thread : \A i \in DOMAIN stack'[u] :
             Replying(stack'[u][i]) => stack'[u][i].id \notin DOMAIN InitFriends
      BY <3>1, <3>2 DEF ServerInv, IssuedRight
    <3>3. up' => \A u \in Thread : \A i \in DOMAIN stack'[u] :
             Replying(stack'[u][i]) => stack'[u][i].id \notin issued'
      BY <1>0, <3>1, <3>2 DEF ServerInv, IssuedRight
    <3>4. ASSUME NEW u \in Thread, NEW v \in Thread,
                 NEW i \in DOMAIN stack'[u], NEW j \in DOMAIN stack'[v],
                 Replying(stack'[u][i]), Replying(stack'[v][j]),
                 stack'[u][i].id = stack'[v][j].id
          PROVE  u = v /\ i = j
      BY <3>1, <3>4 DEF ServerInv, IssuedRight
    <3> QED
      BY <3>2, <3>3, <3>4, <3>5 DEF IssuedRight, Replying
  <2> QED
    BY <2>3, <2>4, <2>6, <2>7, <2>8 DEF ServerInv
<1>4. CASE Resume(t, h) /\ UNCHANGED friends
  <2> HIDE DEF f
  <2>1. h \in FrameType /\ h.at = "reg_reply" /\ h.id = -1
    BY <1>1 DEF FrameType, PCs
  <2> HIDE DEF h
  <2>2. h \in Calm
    BY <2>1, RegisterFrame DEF RegisterRight, Calm, Replying
  <2>3. Local
    BY <1>0, <1>4 DEF Local, netVars, dbVars, ioVars, ghostVars
  <2>4. Plain(t)
    BY <1>1, <1>4, <2>2, <2>3, ResumePlain DEF f
  <2> QED
    BY <2>4, PlainKeeps
<1> QED
  BY <1>2, <1>3, <1>4 DEF RegCreate, Goto

(* The id goes out: it is this thread's alone, and from now on issued.     *)
LEMMA RegReplyKeeps ==
    ASSUME ServerInv, NEW t \in Thread, RegReply(t) PROVE ServerInv' /\ Grown
<1> DEFINE f == Top(t)
           d == [f EXCEPT !.at = "done"]
           m == [op |-> "REGISTER_SUCCESS", id |-> f.id]
           n == Len(stack[t])
<1>0. /\ At(t, "reg_reply") /\ WriteServer(t, f.fd, m, d, d)
      /\ issued' = issued \cup ({f.id} \ {-1})
      /\ UNCHANGED <<users, friends, online, fdt, epset, accepts, lost>>
  BY DEF RegReply, dbVars, ioVars
<1>1. /\ up /\ stack[t] # << >> /\ f.at = "reg_reply" /\ f.fd \in Fd \cup {NoFd}
      /\ f.id \in Complete \cup {-1} /\ n \in DOMAIN stack[t] /\ f = stack[t][n]
  BY <1>0, AtRight, TopRight DEF FrameType, RegisterRight, Top
<1>2. d \in Calm
  BY <1>0, DoneFrame
<1>3. m \in Replies
  <2>1. f.id \in Id \cup {-1}
    BY <1>1 DEF ServerInv, TablesRight, Complete
  <2> QED
    BY <1>1, <2>1 DEF Replies, ToClient
<1>4. up' => n \in DOMAIN stack'[t] /\ stack'[t][n] = d
  <2>1. Calm \subseteq Frames /\ d \in Frames /\ ErrorFrame(f.fd) \in Frames
    BY <1>1, <1>2, OfflineFrame, 0 \in Id \cup {-1, 0} DEF Calm, ErrorFrame
  <2>2. up' => Resume(t, d) \/ Call(t, d, ErrorFrame(f.fd))
    BY <1>0 DEF WriteServer, Failed
  <2> HIDE DEF d, f
  <2> QED
    BY <1>1, <2>1, <2>2, ServerTypes, TopReplaced
<1> HIDE DEF m
<1>5. /\ link' \in [Conn -> LinkState] /\ up' \in BOOLEAN
      /\ rx' \in [Conn -> Seq(Requests)] /\ tx' \in [Conn -> Seq(Replies)]
      /\ stack' \in [Thread -> Seq(Frames)] /\ Moves(t, Calm)
  <2> HIDE DEF d, f
  <2> QED
    BY <1>0, <1>1, <1>2, <1>3, WriteMoves
<1>6. TablesRight' /\ DescriptorsRight' /\ PacketsRight'
  BY <1>0, <1>5, TablesSame DEF ServerInv, DescriptorsRight, PacketsRight
<1>7. online' \in Seq(Known') /\ stack' \in [Thread -> Seq(Frames')]
  BY <1>0, <1>5, TablesSame, ServerTypes
<1>8. FriendsSymmetric'
  <2>1. FriendsSymmetric /\ lost \subseteq lost' /\ Top(t).at # "alw_ins2"
    BY <1>0, <1>1 DEF ServerInv
  <2>2. \A x, y : Row(x, y) <=> Row(x, y)'
    BY <1>0 DEF Row
  <2> QED
    BY <1>5, <2>1, <2>2, SymmetricKept
<1>9. IssuedRight'
  <2>0. ~Replying(d)
    BY <1>2 DEF Calm
  <2> HIDE DEF d
  <2>1. ASSUME NEW u \in Thread, NEW i \in DOMAIN stack'[u], Replying(stack'[u][i])
        PROVE  i \in DOMAIN stack[u] /\ stack'[u][i] = stack[u][i]
    BY <1>5, <2>1 DEF Moves, Calm
  <2>2. /\ DOMAIN InitFriends \cup issued' \subseteq DOMAIN friends'
        /\ \A k \in issued' : k \notin DOMAIN InitFriends
    BY <1>0, <1>1 DEF ServerInv, IssuedRight, Complete, Replying
  <2>5. \A u \in Thread : \A i \in DOMAIN stack'[u] :
           Replying(stack'[u][i]) => stack'[u][i].id \notin DOMAIN InitFriends
    BY <2>1 DEF ServerInv, IssuedRight
  <2>3. ASSUME up', NEW u \in Thread, NEW i \in DOMAIN stack'[u], Replying(stack'[u][i])
        PROVE  stack'[u][i].id \notin issued'
    <3>1. i \in DOMAIN stack[u] /\ stack'[u][i] = stack[u][i] /\ Replying(stack[u][i])
      BY <2>1, <2>3
    <3>2. ~(u = t /\ i = n)
      BY <1>4, <2>0, <2>3
    <3>3. stack[u][i].id \notin issued
      BY <1>1, <3>1 DEF ServerInv, IssuedRight
    <3>4. f.id # -1 => stack[u][i].id # f.id
      BY <1>1, <3>1, <3>2 DEF ServerInv, IssuedRight, Replying
    <3>5. stack[u][i].id # -1
      BY <3>1 DEF Replying
    <3> QED
      BY <1>0, <3>1, <3>3, <3>4, <3>5
  <2>4. ASSUME NEW u \in Thread, NEW v \in Thread,
               NEW i \in DOMAIN stack'[u], NEW j \in DOMAIN stack'[v],
               Replying(stack'[u][i]), Replying(stack'[v][j]),
               stack'[u][i].id = stack'[v][j].id
        PROVE  u = v /\ i = j
    BY <2>1, <2>4 DEF ServerInv, IssuedRight
  <2> QED
    BY <2>2, <2>3, <2>4, <2>5 DEF IssuedRight, Replying
<1>10. Grown
  BY <1>0, SameGrown
<1> QED
  BY <1>6, <1>7, <1>8, <1>9, <1>10 DEF ServerInv
----------------------------------------------------------------------------
(* allow_addf_action: the two inserts.                                     *)

(* After an insert the row is there, or a fault has kept it out.           *)
LEMMA InsertRight ==
    ASSUME ServerInv, NEW t \in Thread, NEW a \in DOMAIN friends, NEW b \in Id,
           NEW g, NEW h, Insert(t, a, b, g, h)
    PROVE  /\ Grown /\ TablesRight'
           /\ UNCHANGED <<link, rx, tx, online, fdt, epset, up, issued, accepts>>
           /\ \/ Resume(t, g) /\ Row(a, b)'
              \/ Resume(t, h) /\ (Row(a, b)' \/ <<a, b>> \in lost')
           /\ \A x, y : Row(x, y)' => Row(x, y) \/ (x = a /\ y = b)
<1>0. UNCHANGED <<link, rx, tx, users, online, fdt, epset, up, issued, accepts>>
  BY DEF Insert, netVars, ioVars
<1>1. TablesRight /\ a \in Id /\ UserIds' = UserIds
  BY <1>0 DEF ServerInv, TablesRight, UserIds
<1>2. CASE /\ friends' = [friends EXCEPT ![a] = @ \cup {b}]
           /\ Resume(t, g) /\ lost' = lost
  <2>1. /\ DOMAIN friends' = DOMAIN friends
        /\ \A x \in DOMAIN friends :
              friends'[x] = IF x = a THEN friends[a] \cup {b} ELSE friends[x]
    BY <1>2
  <2>2. /\ \A x, y : Row(x, y)' <=> Row(x, y) \/ (x = a /\ y = b)
    BY <2>1 DEF Row
  <2>3. friends' \in [DOMAIN friends' -> SUBSET Id]
    BY <1>1, <1>2, <2>1 DEF TablesRight
  <2>4. TablesRight'
    BY <1>0, <1>1, <1>2, <2>1, <2>3 DEF TablesRight
  <2>5. Grown
    BY <1>1, <1>2, <2>1, <2>2 DEF Grown
  <2> QED
    BY <1>0, <1>2, <2>2, <2>4, <2>5
<1>3. CASE /\ friends' = friends /\ Resume(t, h)
           /\ \/ b \in friends[a] /\ lost' = lost
              \/ lost' = lost \cup {<<a, b>>}
  <2>1. \A x, y : Row(x, y)' <=> Row(x, y)
    BY <1>3 DEF Row
  <2>2. Row(a, b)' \/ <<a, b>> \in lost'
    BY <1>3 DEF Row
  <2>3. lost \subseteq lost' /\ lost' \subseteq Id \X Id
    BY <1>1, <1>3 DEF TablesRight
  <2>4. TablesRight' /\ Grown
    BY <1>0, <1>1, <1>3, <2>1, <2>3 DEF TablesRight, Grown
  <2> QED
    BY <1>0, <1>3, <2>1, <2>2, <2>4
<1> QED
  BY <1>2, <1>3 DEF Insert

(* The new row's mirror is this frame's next insert.                       *)
LEMMA AlwInsert1Keeps ==
    ASSUME ServerInv, NEW t \in Thread, AlwInsert1(t) PROVE ServerInv' /\ Grown
<1> DEFINE f == Top(t)
<1>0. At(t, "alw_ins1")
  BY DEF AlwInsert1
<1>1. /\ stack[t] # << >> /\ f.at = "alw_ins1" /\ f \in FrameType /\ f.flag = 0
      /\ f.pkt \in AllowPacket /\ f.pkt.src \in DOMAIN friends
      /\ f.pkt.dst \in DOMAIN friends
  BY <1>0, AtRight DEF AllowRight, AlwPCs, AlwEarly
<1>2. PICK pkt, a, b : pkt = f.pkt /\ a = pkt.src /\ b = pkt.dst
  OBVIOUS
<1>3. a \in DOMAIN friends /\ b \in DOMAIN friends /\ b \in Id /\ pkt \in AllowPacket
  BY <1>1, <1>2 DEF AllowPacket
<1> DEFINE e == [f EXCEPT !.at = "alw_ins2"]
           g == [e EXCEPT !.flag = 1]
           h == [e EXCEPT !.wild = TRUE]
<1>4. Insert(t, a, b, g, h)
  <2>1. e.pkt = f.pkt
    BY <1>1 DEF FrameType
  <2> QED
    BY <1>2, <2>1 DEF AlwInsert1
<1>5. /\ g \in FrameType /\ g.at = "alw_ins2" /\ g.pkt = pkt /\ g.flag = 1
      /\ h \in FrameType /\ h.at = "alw_ins2" /\ h.pkt = pkt /\ h.flag = 0
  <2>1. 1 \in -3 .. 4 /\ TRUE \in BOOLEAN /\ "alw_ins2" \in PCs
    BY DEF PCs
  <2> HIDE DEF f
  <2> QED
    BY <1>1, <1>2, <2>1 DEF FrameType
<1> HIDE DEF e, g, h
<1>6. /\ Grown /\ TablesRight'
      /\ UNCHANGED <<link, rx, tx, online, fdt, epset, up, issued, accepts>>
      /\ \/ Resume(t, g) /\ Row(a, b)'
         \/ Resume(t, h) /\ (Row(a, b)' \/ <<a, b>> \in lost')
      /\ \A x, y : Row(x, y)' => Row(x, y) \/ (x = a /\ y = b)
  BY <1>3, <1>4, InsertRight
<1>7. PICK k : /\ Resume(t, k) /\ k \in FrameType /\ k.at = "alw_ins2" /\ k.pkt = pkt
               /\ Row(a, b)' \/ (k.flag # 1 /\ <<a, b>> \in lost')
  BY <1>5, <1>6
<1>8. k \in Frames' /\ ~Replying(k)
  <2>1. a \in DOMAIN friends' /\ b \in DOMAIN friends'
    BY <1>3, <1>6 DEF Grown
  <2> QED
    BY <1>2, <1>3, <1>7, <2>1 DEF Frames, RegisterRight, LoginRight, OfflineRight,
       AddRight, AllowRight, LogPCs, LogAfterAdd, OffPCs, AddPCs, AlwPCs, AlwEarly,
       Replying
<1>9. /\ DescriptorsRight' /\ PacketsRight'
      /\ online' \in Seq(Known') /\ stack' \in [Thread -> Seq(Frames')]
      /\ Moves(t, {k})
      /\ Len(stack[t]) \in DOMAIN stack'[t] /\ stack'[t][Len(stack[t])] = k
  BY <1>1, <1>6, <1>7, <1>8, GrowKeeps
<1>10. FriendsSymmetric'
  <2>1. ASSUME NEW x, NEW y, Row(x, y)' PROVE Mirrored(x, y)'
    <3>1. CASE x = a /\ y = b
      BY <1>2, <1>7, <1>9, <3>1 DEF Mirrored
    <3>2. CASE Row(x, y)
      <4>1. Mirrored(x, y)
        BY <3>2, SymmetricRows DEF ServerInv
      <4> QED
        BY <1>1, <1>6, <1>9, <4>1, MirroredKept DEF Grown
    <3> QED
      BY <1>6, <2>1, <3>1, <3>2
  <2> QED
    BY <2>1, SymmetricRowsNext
<1>11. IssuedRight'
  <2>1. IssuedRight /\ \A i \in {k} : ~Replying(i)
    BY <1>8 DEF ServerInv
  <2> QED
    BY <1>6, <1>9, <2>1, IssuedKept DEF Grown
<1> QED
  BY <1>6, <1>9, <1>10, <1>11 DEF ServerInv

(* With the second insert both rows are there, or one is on record as lost.*)
LEMMA AlwInsert2Keeps ==
    ASSUME ServerInv, NEW t \in Thread, AlwInsert2(t) PROVE ServerInv' /\ Grown
<1> DEFINE f == Top(t)
           at == IF f.p # NoEntry THEN "alw_reply" ELSE "done"
<1>0. At(t, "alw_ins2")
  BY DEF AlwInsert2
<1>1. /\ stack[t] # << >> /\ f.at = "alw_ins2" /\ f \in FrameType
      /\ f.pkt \in AllowPacket /\ f.pkt.src \in DOMAIN friends
      /\ f.pkt.dst \in DOMAIN friends
      /\ Row(f.pkt.src, f.pkt.dst) \/ (f.flag # 1 /\ <<f.pkt.src, f.pkt.dst>> \in lost)
  BY <1>0, AtRight DEF AllowRight, AlwPCs, AlwEarly
<1>2. PICK pkt, a, b : pkt = f.pkt /\ a = pkt.src /\ b = pkt.dst
  OBVIOUS
<1>3. /\ a \in DOMAIN friends /\ b \in DOMAIN friends /\ a \in Id /\ pkt \in AllowPacket
      /\ Row(a, b) \/ (f.flag # 1 /\ <<a, b>> \in lost)
  BY <1>1, <1>2 DEF AllowPacket
<1> DEFINE g == [f EXCEPT !.at = at, !.wild = FALSE]
           h == [f EXCEPT !.at = at, !.flag = 0]
<1>4. Insert(t, b, a, g, h)
  BY <1>2 DEF AlwInsert2
<1>5. /\ g \in FrameType /\ g.at \in {"alw_reply", "done"}
      /\ g.pkt = pkt /\ g.flag = f.flag
      /\ h \in FrameType /\ h.at \in {"alw_reply", "done"} /\ h.pkt = pkt /\ h.flag = 0
  <2>1. at \in {"alw_reply", "done"}
    OBVIOUS
  <2>2. 0 \in -3 .. 4 /\ FALSE \in BOOLEAN /\ at \in PCs
    BY <2>1 DEF PCs
  <2> HIDE DEF f, at
  <2> QED
    BY <1>1, <1>2, <2>1, <2>2 DEF FrameType
<1> HIDE DEF g, h, at
<1>6. /\ Grown /\ TablesRight'
      /\ UNCHANGED <<link, rx, tx, online, fdt, epset, up, issued, accepts>>
      /\ \/ Resume(t, g) /\ Row(b, a)'
         \/ Resume(t, h) /\ (Row(b, a)' \/ <<b, a>> \in lost')
      /\ \A x, y : Row(x, y)' => Row(x, y) \/ (x = b /\ y = a)
  BY <1>3, <1>4, InsertRight
<1>7. /\ Row(b, a)' \/ <<b, a>> \in lost'
      /\ Row(a, b)' \/ (f.flag # 1 /\ <<a, b>> \in lost')
  BY <1>3, <1>6 DEF Grown
<1>8. PICK k : /\ Resume(t, k) /\ k \in FrameType /\ k.at \in {"alw_reply", "done"}
               /\ k.pkt = pkt
               /\ k.flag = 1 => Row(a, b)' /\ Row(b, a)'
  BY <1>5, <1>6, <1>7
<1>9. k \in Frames' /\ ~Replying(k)
  <2>1. a \in DOMAIN friends' /\ b \in DOMAIN friends'
    BY <1>3, <1>6 DEF Grown
  <2> QED
    BY <1>2, <1>3, <1>8, <2>1 DEF Frames, RegisterRight, LoginRight, OfflineRight,
       AddRight, AllowRight, LogPCs, LogAfterAdd, OffPCs, AddPCs, AlwPCs, AlwEarly,
       Replying
<1>10. /\ DescriptorsRight' /\ PacketsRight'
       /\ online' \in Seq(Known') /\ stack' \in [Thread -> Seq(Frames')]
       /\ Moves(t, {k})
  BY <1>1, <1>6, <1>8, <1>9, GrowKeeps
<1>11. FriendsSymmetric'
  <2>1. ASSUME NEW x, NEW y, Row(x, y)' PROVE Mirrored(x, y)'
    <3>1. CASE x = b /\ y = a
      BY <1>7, <3>1 DEF Mirrored
    <3>2. CASE x = a /\ y = b
      BY <1>7, <3>2 DEF Mirrored
    <3>3. CASE Row(x, y) /\ ~(x = a /\ y = b)
      <4>1. Mirrored(x, y)
        BY <3>3, SymmetricRows DEF ServerInv
      <4>2. Top(t).pkt.src # x \/ Top(t).pkt.dst # y
        BY <1>2, <3>3
      <4>3. (\A v, w : Row(v, w) => Row(v, w)') /\ lost \subseteq lost'
        BY <1>6 DEF Grown
      <4> QED
        BY <1>10, <4>1, <4>2, <4>3, MirroredKept
    <3> QED
      BY <1>6, <2>1, <3>1, <3>2, <3>3
  <2> QED
    BY <2>1, SymmetricRowsNext
<1>12. IssuedRight'
  <2>1. IssuedRight /\ \A i \in {k} : ~Replying(i)
    BY <1>9 DEF ServerInv
  <2> QED
    BY <1>6, <1>10, <2>1, IssuedKept DEF Grown
<1> QED
  BY <1>6, <1>10, <1>11, <1>12 DEF ServerInv
----------------------------------------------------------------------------
(* server.c: accept, and the threads that start a handler.                 *)

LEMMA AcceptKeeps ==
    ASSUME ServerInv, NEW c \in Conn, Accept(c) PROVE ServerInv' /\ Grown
<1>1. PICK fd \in Fd : /\ fdt' = [fdt EXCEPT ![fd] = c]
                       /\ epset' = epset \cup {fd}
                       /\ accepts' = [accepts EXCEPT ![fd] = @ + 1]
  BY DEF Accept
<1>2. /\ UNCHANGED <<rx, tx, users, friends, online, up, stack, issued, lost>>
      /\ link' = [link EXCEPT ![c] = "open"]
  BY DEF Accept, dbVars
<1>3. DescriptorsRight'
  <2>1. DescriptorsRight
    BY DEF ServerInv
  <2>2. fdt' \in [Fd -> Conn \cup {NoConn}] /\ epset' \subseteq Fd
    BY <1>1, <2>1 DEF DescriptorsRight
  <2>3. \A g \in epset' : fdt'[g] \in Conn
    BY <1>1, <2>1 DEF DescriptorsRight
  <2>4. accepts' \in [Fd -> Nat] /\ link' \in [Conn -> LinkState]
    BY <1>1, <1>2, <2>1 DEF DescriptorsRight, LinkState
  <2> QED
    BY <1>2, <2>1, <2>2, <2>3, <2>4 DEF DescriptorsRight
<1> QED
  BY <1>2, <1>3, ServerTypes, OthersKeep

LEMMA StartMoves ==
    ASSUME ServerInv, NEW t \in Thread, stack[t] = << >>,
           NEW f \in Calm, stack' = [stack EXCEPT ![t] = <<f>>]
    PROVE  stack' \in [Thread -> Seq(Frames)] /\ Moves(t, Calm)
<1>1. Calm \subseteq Frames
  BY DEF Calm
<1>2. <<f>> \in Seq(Frames) /\ DOMAIN <<f>> = {1} /\ <<f>>[1] = f
  BY <1>1
<1>3. stack' \in [Thread -> Seq(Frames)]
  BY <1>2, ServerTypes
<1>4. /\ stack'[t] = <<f>> /\ \A u \in Thread \ {t} : stack'[u] = stack[u]
      /\ DOMAIN stack[t] = {}
  BY ServerTypes
<1> QED
  BY <1>2, <1>3, <1>4, MovesAt

(* A request and the handler it gets.                                      *)
LEMMA ReceivePlain ==
    ASSUME ServerInv, NEW t \in Thread, NEW fd \in Fd, Receive(t, fd) PROVE Plain(t)
<1>1. /\ fd \in epset /\ stack[t] = << >> /\ rx[fdt[fd]] # << >>
      /\ UNCHANGED <<link, tx, users, friends, online, fdt, epset, up, issued,
                     accepts, lost>>
  BY DEF Receive, dbVars, ioVars, ghostVars
<1>2. PICK c \in Conn : c = fdt[fd]
  BY <1>1 DEF ServerInv, DescriptorsRight
<1>3. PICK pkt : pkt = Head(rx[c])
  OBVIOUS
<1>4. rx[c] \in Seq(Requests) /\ pkt \in Requests
  BY <1>1, <1>2, <1>3, ServerTypes
<1>5. rx' \in [Conn -> Seq(Requests)]
  <2>1. rx' = [rx EXCEPT ![c] = Tail(@)]
    BY <1>2 DEF Receive
  <2>2. Tail(rx[c]) \in Seq(Requests)
    BY <1>1, <1>2, <1>4
  <2> QED
    BY <2>1, <2>2, ServerTypes
<1>6. PICK at, id :
         /\ stack' = [stack EXCEPT ![t] = <<Frame(at, fd, id, pkt)>>]
         /\ pkt.op = "REGISTER" => at = "reg_insert" /\ id = 0
         /\ pkt.op = "LOGIN" => at = "log_query" /\ id = pkt.id
         /\ pkt.op = "OFFLINE" => at = "off_ctl" /\ id = pkt.id
         /\ pkt.op = "ADD_FRIEND" => at = "add_search" /\ id = 0
         /\ pkt.op = "ALLOW_ADDF" => at = "alw_src" /\ id = 0
  <2> DEFINE at0 == CASE pkt.op = "REGISTER"   -> "reg_insert"
                      [] pkt.op = "LOGIN"      -> "log_query"
                      [] pkt.op = "OFFLINE"    -> "off_ctl"
                      [] pkt.op = "ADD_FRIEND" -> "add_search"
                      [] pkt.op = "ALLOW_ADDF" -> "alw_src"
             id0 == IF pkt.op \in {"LOGIN", "OFFLINE"} THEN pkt.id ELSE 0
  <2>1. stack' = [stack EXCEPT ![t] = <<Frame(at0, fd, id0, pkt)>>]
    BY <1>2, <1>3 DEF Receive
  <2>2. /\ pkt.op = "REGISTER" => at0 = "reg_insert" /\ id0 = 0
        /\ pkt.op = "LOGIN" => at0 = "log_query" /\ id0 = pkt.id
        /\ pkt.op = "OFFLINE" => at0 = "off_ctl" /\ id0 = pkt.id
        /\ pkt.op = "ADD_FRIEND" => at0 = "add_search" /\ id0 = 0
        /\ pkt.op = "ALLOW_ADDF" => at0 = "alw_src" /\ id0 = 0
    OBVIOUS
  <2> HIDE DEF at0, id0
  <2> QED
    BY <2>1, <2>2
<1>7. \/ pkt \in RegisterPacket /\ at = "reg_insert" /\ id = 0
      \/ pkt.id \in DOMAIN friends /\ pkt.id \in Id /\ at = "log_query" /\ id = pkt.id
      \/ pkt.id \in Id /\ at = "off_ctl" /\ id = pkt.id
      \/ pkt \in AddPacket /\ at = "add_search" /\ id = 0
      \/ /\ pkt \in AllowPacket /\ pkt.src \in DOMAIN friends
         /\ pkt.dst \in DOMAIN friends /\ at = "alw_src" /\ id = 0
  BY <1>4, <1>6 DEF Requests, ToServer, RegisterPacket, AddPacket, AllowPacket
<1>8. PICK f : f = Frame(at, fd, id, pkt)
  OBVIOUS
<1>9. /\ f \in FrameType /\ f.at = at /\ f.id = id /\ f.pkt = pkt
      /\ f.flag = 0 /\ f.p = NoEntry
  <2>1. at \in PCs /\ id \in Id \cup {-1, 0}
    BY <1>7 DEF PCs
  <2>2. pkt \in ToServer \cup {NoPkt} /\ fd \in Fd \cup {NoFd}
    BY <1>4 DEF Requests
  <2> QED
    BY <1>8, <2>1, <2>2, FrameRight
<1>10. f \in Calm
  <2>1. CASE pkt \in RegisterPacket /\ at = "reg_insert"
    BY <1>9, <2>1, InsertFrame
  <2>2. CASE pkt.id \in DOMAIN friends /\ at = "log_query" /\ id = pkt.id
    BY <1>9, <2>2, LoginFrame DEF LoginRight, LogPCs, LogAfterAdd
  <2>3. CASE at = "off_ctl"
    BY <1>9, <2>3, FreeFrame DEF FreePCs
  <2>4. CASE pkt \in AddPacket /\ at = "add_search"
    BY <1>9, <2>4, AddFrame DEF AddRight, AddPCs
  <2>5. CASE /\ pkt \in AllowPacket /\ pkt.src \in DOMAIN friends
             /\ pkt.dst \in DOMAIN friends /\ at = "alw_src"
    BY <1>9, <2>5, AllowFrame DEF AllowRight, AlwPCs, AlwEarly
  <2> QED
    BY <1>7, <2>1, <2>2, <2>3, <2>4, <2>5
<1>11. stack' \in [Thread -> Seq(Frames)] /\ Moves(t, Calm)
  BY <1>1, <1>6, <1>8, <1>10, StartMoves
<1>12. DescriptorsRight'
  BY <1>1 DEF ServerInv, DescriptorsRight
<1> QED
  BY <1>1, <1>5, <1>11, <1>12, ServerTypes DEF Plain

LEMMA HangupPlain ==
    ASSUME ServerInv, NEW t \in Thread, NEW fd \in Fd, Hangup(t, fd) PROVE Plain(t)
<1>1. /\ fd \in epset /\ stack[t] = << >>
      /\ UNCHANGED <<rx, tx, users, friends, online, fdt, epset, up, issued,
                     accepts, lost>>
      /\ link' = [link EXCEPT ![fdt[fd]] = "reaped"]
      /\ stack' = [stack EXCEPT ![t] = <<ErrorFrame(fd)>>]
  BY DEF Hangup, dbVars, ioVars, ghostVars
<1>2. ErrorFrame(fd) \in Calm
  BY OfflineFrame, 0 \in Id \cup {-1, 0} DEF ErrorFrame
<1>3. stack' \in [Thread -> Seq(Frames)] /\ Moves(t, Calm)
  BY <1>1, <1>2, StartMoves
<1>4. DescriptorsRight'
  <2>1. link' \in [Conn -> LinkState]
    BY <1>1, ServerTypes DEF LinkState
  <2> QED
    BY <1>1, <2>1 DEF ServerInv, DescriptorsRight
<1> QED
  BY <1>1, <1>3, <1>4, ServerTypes DEF Plain
----------------------------------------------------------------------------
(* Every step of the server.                                               *)

LEMMA LoginPlain ==
    ASSUME ServerInv, NEW t \in Thread,
           \/ LogQuery(t) \/ LogCheck(t) \/ LogAddr(t) \/ LogAdd(t) \/ LogOk(t)
           \/ LogFriends(t) \/ LogRow(t) \/ LogTell(t) \/ LogShow(t) \/ LogReply(t)
    PROVE  Plain(t)
BY LogQueryPlain, LogCheckPlain, LogAddrPlain, LogAddPlain, LogOkPlain,
   LogFriendsPlain, LogRowPlain, LogTellPlain, LogShowPlain, LogReplyPlain

LEMMA OfflinePlain ==
    ASSUME ServerInv, NEW t \in Thread,
           \/ OffFind(t) \/ OffCtl(t) \/ OffDel(t) \/ OffQuery(t) \/ OffRow(t)
           \/ OffTell(t) \/ OffBye(t)
    PROVE  Plain(t)
BY OffFindPlain, OffCtlPlain, OffDelPlain, OffQueryPlain, OffRowPlain, OffTellPlain,
   OffByePlain

LEMMA FriendsPlain ==
    ASSUME ServerInv, NEW t \in Thread,
           \/ AddSearch(t) \/ AddReply(t) \/ AddForward(t)
           \/ AlwSource(t) \/ AlwDest(t)
           \/ AlwReply(t) \/ AlwOnline1(t) \/ AlwOnline2(t)
    PROVE  Plain(t)
BY AddSearchPlain, AddReplyPlain, AddForwardPlain, AlwSourcePlain, AlwDestPlain,
   AlwReplyPlain, AlwOnline1Plain, AlwOnline2Plain

(* All but the few that write to the tables or send an id.                 *)
LEMMA StepKinds ==
    ASSUME ServerInv, NEW t \in Thread, ServerStep(t)
    PROVE  \/ Plain(t) \/ Die
           \/ RegInsert(t) \/ RegCreate(t) \/ RegReply(t)
           \/ AlwInsert1(t) \/ AlwInsert2(t)
<1>1. CASE \E fd \in Fd : Receive(t, fd) \/ Hangup(t, fd)
  BY <1>1, ReceivePlain, HangupPlain
<1>2. CASE \/ LogQuery(t) \/ LogCheck(t) \/ LogAddr(t) \/ LogAdd(t) \/ LogOk(t)
           \/ LogFriends(t) \/ LogRow(t) \/ LogTell(t) \/ LogShow(t) \/ LogReply(t)
  BY <1>2, LoginPlain
<1>3. CASE \/ OffFind(t) \/ OffCtl(t) \/ OffDel(t) \/ OffQuery(t) \/ OffRow(t)
           \/ OffTell(t) \/ OffBye(t)
  BY <1>3, OfflinePlain
<1>4. CASE \/ AddSearch(t) \/ AddReply(t) \/ AddForward(t)
           \/ AlwSource(t) \/ AlwDest(t)
           \/ AlwReply(t) \/ AlwOnline1(t) \/ AlwOnline2(t)
  BY <1>4, FriendsPlain
<1>5. CASE RegMax(t) \/ OffClose(t) \/ AddQuery(t) \/ Done(t)
  BY <1>5, RegMaxPlain, OffClosePlain, AddQueryPlain, DonePlain
<1>6. CASE QueryExits(t)
  BY <1>6 DEF QueryExits
<1> QED
  BY <1>1, <1>2, <1>3, <1>4, <1>5, <1>6 DEF ServerStep, Handler

LEMMA ThreadKeeps ==
    ASSUME ServerInv, NEW t \in Thread, ServerStep(t)
    PROVE  ServerInv' /\ Grown
BY StepKinds, PlainKeeps, DieKeeps, RegInsertKeeps, RegCreateKeeps, RegReplyKeeps,
   AlwInsert1Keeps, AlwInsert2Keeps

LEMMA ServerStarts == ASSUME NetInit, ServerInit PROVE ServerInv
<1> USE DEF NetInit, ServerInit
<1>1. TablesRight
  BY UsersAssumption, FriendsAssumption, TablesAssumption DEF TablesRight, UserIds
<1>2. DescriptorsRight
  BY DEF DescriptorsRight, LinkState
<1>3. PacketsRight
  BY DEF PacketsRight
<1>4. online \in Seq(Known) /\ stack \in [Thread -> Seq(Frames)]
  OBVIOUS
<1>5. \A t \in Thread : DOMAIN stack[t] = {}
  OBVIOUS
<1>6. IssuedRight
  BY <1>5 DEF IssuedRight
<1>7. FriendsSymmetric
  BY TablesAssumption DEF FriendsSymmetric
<1> QED
  BY <1>1, <1>2, <1>3, <1>4, <1>6, <1>7 DEF ServerInv

LEMMA ServerTyped == ASSUME ServerInv PROVE NetTypeOK /\ ServerTypeOK
<1>1. /\ Frames \subseteq FrameType /\ Known \subseteq Entry
      /\ Requests \subseteq ToServer /\ Replies \subseteq ToClient
  BY DEF Frames, Known, Requests, Replies
<1>2. NetTypeOK
  BY <1>1, ServerTypes, SeqMono DEF NetTypeOK
<1>3. online \in Seq(Entry) /\ stack \in [Thread -> Seq(FrameType)]
  BY <1>1, ServerTypes, SeqMono
<1>4. /\ users \in Seq(Pwd) /\ UserIds \subseteq Id /\ DOMAIN friends \subseteq Id
      /\ \A i \in DOMAIN friends : friends[i] \subseteq Id
      /\ lost \subseteq Id \X Id /\ issued \subseteq Id
  BY DEF ServerInv, TablesRight, IssuedRight
<1> QED
  BY <1>2, <1>3, <1>4 DEF ServerInv, DescriptorsRight, ServerTypeOK

(* An id about to be sent is nobody else's.                                *)
LEMMA ServerIssues == ASSUME ServerInv PROVE IdsIssuedOnce
<1> SUFFICES ASSUME NEW t \in Thread, At(t, "reg_reply"), Top(t).id # -1
             PROVE  Top(t).id \notin issued
  BY DEF IdsIssuedOnce
<1>1. up /\ stack[t] # << >> /\ Replying(Top(t))
  BY DEF At, Replying
<1>2. Len(stack[t]) \in DOMAIN stack[t] /\ Top(t) = stack[t][Len(stack[t])]
  BY <1>1, TopRight DEF Top
<1> QED
  BY <1>1, <1>2 DEF ServerInv, IssuedRight
============================================================================
