-------------------------- MODULE ChatOnlineProofs --------------------------
(***************************************************************************)
(* Proofs about ChatSystem: who has gone leaves the online list.  Two      *)
(* users of one account can break that (server_action.c:90: both logins    *)
(* look for the id before either adds it); it is proved of accounts that   *)
(* are each used by one client.                                            *)
(***************************************************************************)
EXTENDS ChatProofs

(* The hypothesis: no two clients have an account in common.               *)
Unshared ==
    \A c, d \in Conn : \A a \in Account[c], b \in Account[d] : a.id = b.id => c = d

Ended(c) == cli[c] \in {"left", "dead"}
Waiting(c) == link[c] \in {"none", "syn"}

(* fd is c's, c may still need the server, and fd has been nobody else's.  *)
Own(fd, c) ==
    /\ fd \in Fd /\ c \in Conn
    /\ accepts[fd] = 1 /\ fdt[fd] = c /\ cli[c] # "dead"

Active == UNION {Range(stack[t]) : t \in Thread}

Adding(f) == f.at \in {"log_query", "log_check", "log_addr", "log_add"}
Asking(f) == Adding(f) \/ f.at \in {"log_ok", "log_reply"}
Removing(f) == f.at = "off_del" \/ (f.at = "off_ctl" /\ ~(f.id < 0))
Closing(f) ==
    \/ f.at \in {"off_query", "off_row", "off_tell", "off_bye", "off_close"}
    \/ f.at = "off_ctl" /\ f.id < 0

(* Connections and descriptors.                                            *)
LinksRight ==
    /\ \A fd, g \in Fd : fdt[fd] \in Conn /\ fdt[fd] = fdt[g] => fd = g
    /\ \A fd \in Fd : fdt[fd] \in Conn =>
          /\ accepts[fd] # 0
          /\ link[fdt[fd]] \in {"open", "gone", "reaped"}
          /\ link[fdt[fd]] = "open" <=> ~Ended(fdt[fd])
    /\ \A c \in Conn : cli[c] = "off" => link[c] = "none"
    /\ \A c \in Conn : link[c] = "none" =>
          cli[c] = "off" /\ rx[c] = << >> /\ tx[c] = << >>
    /\ \A c \in Conn : link[c] = "syn" =>
          /\ cli[c] \in {"menu", "reg_wait", "log_wait"} /\ tx[c] = << >>
          /\ \A i \in DOMAIN rx[c] : rx[c][i].op # "OFFLINE"

FdRight(f) ==
    /\ f.fd \in Fd => accepts[f.fd] # 0
    /\ Asking(f) => f.fd \in Fd
    /\ f.at = "log_add" => f.p.fd = f.fd /\ f.p.id = f.id

FdsRight ==
    /\ \A i \in DOMAIN online : online[i].fd \in Fd /\ accepts[online[i].fd] # 0
    /\ \A f \in Active : FdRight(f)

(* A login, from the request to its answer.                                *)
Asks(c) == {i \in DOMAIN rx[c] : rx[c][i].op = "LOGIN"}
Answers(c) == {i \in DOMAIN tx[c] : tx[c][i].op = "LOGIN_FEEDBACK"}
Works(c, t, i) ==
    i \in DOMAIN stack[t] /\ Asking(stack[t][i]) /\ fdt[stack[t][i].fd] = c
Worked(c) == \E t \in Thread : \E i \in DOMAIN stack[t] : Works(c, t, i)

LoginsRight(c) ==
    /\ \A i, j \in Asks(c) : i = j
    /\ \A i, j \in Answers(c) : i = j
    /\ \A t, u \in Thread : \A i \in DOMAIN stack[t], j \in DOMAIN stack[u] :
          Works(c, t, i) /\ Works(c, u, j) => t = u /\ i = j
    /\ Asks(c) = {} \/ Answers(c) = {}
    /\ Worked(c) => Asks(c) = {} /\ Answers(c) = {}
    /\ Worked(c) \/ Asks(c) # {} \/ Answers(c) # {} => cli[c] = "log_wait"
    /\ \A i \in Asks(c) : rx[c][i].id = mine[c]
    /\ \A t \in Thread : \A i \in DOMAIN stack[t] :
          Works(c, t, i) => stack[t][i].id = mine[c]

Sound(c) == cli[c] # "dead" /\ (Waiting(c) \/ \E fd \in Fd : Own(fd, c))
OneLogin == \A c \in Conn : Sound(c) => LoginsRight(c)

Granted(c) ==
    \/ cli[c] \in {"in", "left"}
    \/ cli[c] = "log_wait" /\ \E i \in Answers(c) : tx[c][i].flag = 0

(* The entries.                                                            *)
Removes(f, e) == (f.at = "find" /\ f.fd = e.fd) \/ (Removing(f) /\ f.id = e.id)

EntryRight(e) ==
    accepts[e.fd] = 1 =>
        /\ e.addr \in Conn
        /\ fdt[e.fd] \in {e.addr, NoConn}
        /\ fdt[e.fd] = NoConn => cli[e.addr] = "dead"
        /\ Own(e.fd, e.addr) =>
              /\ Granted(e.addr) \/ \E f \in Active : f.at = "log_ok" /\ f.fd = e.fd
              /\ cli[e.addr] \in {"log_wait", "in"} => e.id = mine[e.addr]
              /\ link[e.addr] \in {"open", "gone"} \/ \E f \in Active : Removes(f, e)

EntriesRight ==
    /\ \A i \in DOMAIN online : EntryRight(online[i])
    /\ \A i, j \in DOMAIN online :
          online[i].fd = online[j].fd /\ Own(online[i].fd, online[i].addr) => i = j

Absent(fd) == \A i \in DOMAIN online : online[i].fd # fd
Named(fd, id) == \A i \in DOMAIN online : online[i].fd = fd => online[i].id = id

(* What the frames and the requests are for.                               *)
Duty(f) ==
    /\ f.at = "log_add" /\ accepts[f.fd] = 1 =>
          /\ f.p.addr \in Conn
          /\ fdt[f.fd] \in {f.p.addr, NoConn}
          /\ fdt[f.fd] = NoConn => cli[f.p.addr] = "dead"
    /\ \A c \in Conn : Own(f.fd, c) =>
          /\ f.at = "find" => cli[c] = "left"
          /\ Closing(f) => Granted(c) /\ Absent(f.fd)
          /\ Removing(f) \/ f.at = "log_friends" => Granted(c) /\ Named(f.fd, f.id)

Duties == \A f \in Active : Duty(f)

OfflinesRight ==
    \A c \in Conn, fd \in Fd : Own(fd, c) =>
        \A i \in DOMAIN rx[c] :
            rx[c][i].op = "OFFLINE" => Granted(c) /\ Named(fd, rx[c][i].id)

(* Ids.                                                                    *)
Claimed(id, fd) ==
    \/ \E i \in DOMAIN online : online[i].id = id /\ online[i].fd = fd
    \/ \E f \in Active : Adding(f) /\ f.id = id /\ f.fd = fd

Sent(c, id) ==
    /\ id # -1
    /\ \E i \in DOMAIN tx[c] : tx[c][i].op = "REGISTER_SUCCESS" /\ tx[c][i].id = id

Holds(c, id) ==
    \/ \E a \in Account[c] : a.id = id
    \/ told[c] # None /\ told[c].id = id /\ id # 0
    \/ \E i \in Asks(c) : rx[c][i].id = id
    \/ Sent(c, id)

Given == DOMAIN InitFriends \cup issued

ClaimsRight ==
    /\ \A id, fd, g : Claimed(id, fd) /\ Claimed(id, g) => fd = g
    /\ \A id, fd : Claimed(id, fd) => id \in Given
    /\ \A c \in Conn : \A id : Holds(c, id) => id \in Given
    /\ \A c, d \in Conn : \A id : Holds(c, id) /\ Holds(d, id) => c = d
    /\ \A c \in Conn : \A id, fd : Claimed(id, fd) /\ Holds(c, id) =>
          ~Waiting(c) /\ \A g \in Fd : fdt[g] = c => g = fd

PInv ==
    /\ LinksRight /\ FdsRight /\ OneLogin /\ EntriesRight
    /\ Duties /\ OfflinesRight /\ ClaimsRight
----------------------------------------------------------------------------
LEMMA OnlineTypes ==
    ASSUME IInv
    PROVE  /\ link \in [Conn -> LinkState] /\ up \in BOOLEAN
           /\ fdt \in [Fd -> Conn \cup {NoConn}] /\ accepts \in [Fd -> Nat]
           /\ rx \in [Conn -> Seq(Requests)] /\ tx \in [Conn -> Seq(Replies)]
           /\ online \in Seq(Known) /\ online \in Seq(Entry)
           /\ stack \in [Thread -> Seq(Frames)]
           /\ cli \in [Conn -> CliState] /\ mine \in [Conn -> Id \cup {0}]
           /\ told \in [Conn -> Credentials \cup {None}]
<1>1. ServerInv /\ ClientTypeOK
  BY DEF IInv, ClientInv
<1> QED
  BY <1>1, ServerTypes DEF ServerInv, DescriptorsRight, ClientTypeOK

LEMMA QuietLeaves ==
    ASSUME IInv, PInv PROVE GoneUsersLeave
<1> SUFFICES ASSUME Quiet, NEW i \in DOMAIN online,
                    cli[online[i].addr] = "left", ~(accepts[online[i].fd] > 1)
             PROVE  FALSE
  BY DEF GoneUsersLeave
<1> DEFINE e == online[i]
<1>1. e.fd \in Fd /\ accepts[e.fd] \in Nat /\ accepts[e.fd] # 0
  BY OnlineTypes DEF PInv, FdsRight
<1>2. accepts[e.fd] = 1 /\ EntryRight(e)
  BY <1>1 DEF PInv, EntriesRight
<1>3. e.addr \in Conn /\ cli[e.addr] = "left" /\ fdt[e.fd] = e.addr
  BY <1>2 DEF EntryRight
<1>4. Own(e.fd, e.addr)
  BY <1>1, <1>2, <1>3 DEF Own
<1>5. Active = {}
  BY DEF Quiet, Active, Range
<1>6. link[e.addr] \in {"open", "gone"}
  BY <1>2, <1>4, <1>5 DEF EntryRight
<1>7. link[e.addr] # "gone"
  BY <1>3 DEF Quiet
<1>8. link[e.addr] # "open"
  BY <1>1, <1>3 DEF PInv, LinksRight, Ended
<1> QED
  BY <1>6, <1>7, <1>8
----------------------------------------------------------------------------
(* What a step of t does to the stacks: its innermost frame becomes f, or  *)
(* goes, and those of G are new.                                           *)
Turn(t, f, G) ==
    /\ \A u \in Thread : \A i \in DOMAIN stack'[u] :
          \/ /\ i \in DOMAIN stack[u] /\ stack'[u][i] = stack[u][i]
             /\ ~(u = t /\ i = Len(stack[t]))
          \/ u = t /\ i = Len(stack[t]) /\ i \in DOMAIN stack[t] /\ stack'[u][i] = f
          \/ stack'[u][i] \in G
    /\ \A u \in Thread : \A i \in DOMAIN stack[u] :
          \/ u = t /\ i = Len(stack[t])
          \/ i \in DOMAIN stack'[u] /\ stack'[u][i] = stack[u][i]

LEMMA TurnAt ==
    ASSUME NEW t \in Thread, NEW f, NEW G, NEW s, stack'[t] = s,
           \A u \in Thread \ {t} : stack'[u] = stack[u],
           \A i \in DOMAIN s :
              \/ i \in DOMAIN stack[t] /\ s[i] = stack[t][i] /\ i # Len(stack[t])
              \/ i = Len(stack[t]) /\ i \in DOMAIN stack[t] /\ s[i] = f
              \/ s[i] \in G,
           \A i \in DOMAIN stack[t] :
              i = Len(stack[t]) \/ (i \in DOMAIN s /\ s[i] = stack[t][i])
    PROVE  Turn(t, f, G)
BY DEF Turn

(* The frames themselves, wherever they are.                               *)
LEMMA ActiveAt ==
    ASSUME NEW f
    PROVE  f \in Active <=> \E t \in Thread : \E i \in DOMAIN stack[t] : f = stack[t][i]
BY DEF Active, Range

LEMMA ActiveAtNext ==
    ASSUME NEW f
    PROVE  f \in Active' <=> \E t \in Thread : \E i \in DOMAIN stack'[t] : f = stack'[t][i]
BY DEF Active, Range

LEMMA TurnActive ==
    ASSUME NEW t \in Thread, NEW f, NEW G, Turn(t, f, G)
    PROVE  /\ \A g \in Active' : g \in Active \/ (stack[t] # << >> /\ g = f) \/ g \in G
           /\ \A g \in Active : g \in Active' \/ (stack[t] # << >> /\ g = Top(t))
<1>1. ASSUME NEW g \in Active'
      PROVE  g \in Active \/ (stack[t] # << >> /\ g = f) \/ g \in G
  <2>1. PICK u \in Thread : \E i \in DOMAIN stack'[u] : g = stack'[u][i]
    BY ActiveAtNext
  <2>2. PICK i \in DOMAIN stack'[u] : g = stack'[u][i]
    BY <2>1
  <2> QED
    BY <2>2, ActiveAt DEF Turn
<1>2. ASSUME NEW g \in Active, g \notin Active'
      PROVE  stack[t] # << >> /\ g = Top(t)
  <2>1. PICK u \in Thread : \E i \in DOMAIN stack[u] : g = stack[u][i]
    BY ActiveAt
  <2>2. PICK i \in DOMAIN stack[u] : g = stack[u][i]
    BY <2>1
  <2>3. u = t /\ i = Len(stack[t])
    BY <1>2, <2>2, ActiveAtNext DEF Turn
  <2> QED
    BY <2>2, <2>3 DEF Top
<1> QED
  BY <1>1, <1>2

LEMMA ResumeTurn ==
    ASSUME NEW t \in Thread, stack \in [Thread -> Seq(Frames)], stack[t] # << >>,
           NEW f, Resume(t, f)
    PROVE  Turn(t, f, {}) /\ f \in Active'
<1> DEFINE F == Frames \cup {f}
           n == Len(stack[t])
           s == [stack[t] EXCEPT ![n] = f]
<1>0. stack[t] \in Seq(F) /\ f \in F
  BY SeqMono
<1> HIDE DEF F
<1>1. n \in Nat /\ n \in DOMAIN stack[t] /\ DOMAIN stack[t] = 1 .. n
  BY <1>0
<1>2. stack' = [stack EXCEPT ![t] = s]
  BY DEF Resume
<1>3. /\ DOMAIN s = 1 .. n /\ s[n] = f
      /\ \A i \in 1 .. n : i # n => s[i] = stack[t][i]
  BY <1>0, <1>1
<1> HIDE DEF s
<1>4. stack'[t] = s /\ \A u \in Thread \ {t} : stack'[u] = stack[u]
  BY <1>2
<1>5. Turn(t, f, {})
  BY <1>1, <1>3, <1>4, TurnAt
<1> QED
  BY <1>1, <1>3, <1>4, <1>5, ActiveAtNext

LEMMA CallTurn ==
    ASSUME NEW t \in Thread, stack \in [Thread -> Seq(Frames)], stack[t] # << >>,
           NEW f, NEW g, Call(t, f, g)
    PROVE  Turn(t, f, {g}) /\ g \in Active'
<1> DEFINE F == Frames \cup {f, g}
           n == Len(stack[t])
           r == [stack[t] EXCEPT ![n] = f]
           s == Append(r, g)
<1>0. stack[t] \in Seq(F) /\ f \in F /\ g \in F
  BY SeqMono
<1> HIDE DEF F
<1>1. n \in Nat /\ n \in DOMAIN stack[t] /\ DOMAIN stack[t] = 1 .. n
  BY <1>0
<1>2. stack' = [stack EXCEPT ![t] = s]
  BY DEF Call
<1>3. /\ r \in Seq(F) /\ Len(r) = n /\ r[n] = f
      /\ \A i \in 1 .. n : i # n => r[i] = stack[t][i]
  BY <1>0, <1>1
<1> HIDE DEF r
<1>4. /\ DOMAIN s = 1 .. n + 1 /\ s[n + 1] = g
      /\ \A i \in 1 .. n : s[i] = r[i]
  <2>1. /\ s \in Seq(F) /\ Len(s) = n + 1 /\ s[n + 1] = g
        /\ \A i \in 1 .. n : s[i] = r[i]
    BY ONLY <1>0, <1>3, AppendProperties
  <2> QED
    BY <2>1
<1> HIDE DEF s
<1>5. stack'[t] = s /\ \A u \in Thread \ {t} : stack'[u] = stack[u]
  BY <1>2
<1>6. \A i \in DOMAIN s : i \in 1 .. n \/ i = n + 1
  BY <1>1, <1>4
<1>7. ASSUME NEW i \in DOMAIN s
      PROVE  \/ i \in DOMAIN stack[t] /\ s[i] = stack[t][i] /\ i # Len(stack[t])
             \/ i = Len(stack[t]) /\ i \in DOMAIN stack[t] /\ s[i] = f
             \/ s[i] \in {g}
  BY <1>1, <1>3, <1>4, <1>6
<1>8. \A i \in 1 .. n : i \in DOMAIN s
  BY <1>1, <1>4
<1>9. \A i \in DOMAIN stack[t] :
         i = Len(stack[t]) \/ (i \in DOMAIN s /\ s[i] = stack[t][i])
  BY <1>1, <1>3, <1>4, <1>8
<1> HIDE DEF n
<1>10. Turn(t, f, {g})
  BY <1>5, <1>7, <1>9, TurnAt
<1>11. n + 1 \in DOMAIN s
  BY <1>1, <1>4
<1> QED
  BY <1>4, <1>5, <1>10, <1>11, ActiveAtNext

LEMMA ReturnTurn ==
    ASSUME NEW t \in Thread, stack \in [Thread -> Seq(Frames)], stack[t] # << >>,
           NEW f, Return(t)
    PROVE  Turn(t, f, {})
<1> DEFINE n == Len(stack[t])
           s == SubSeq(stack[t], 1, n - 1)
<1>1. n \in Nat \ {0} /\ DOMAIN stack[t] = 1 .. n
  OBVIOUS
<1>2. stack' = [stack EXCEPT ![t] = s]
  BY DEF Return
<1>3. DOMAIN s = 1 .. n - 1 /\ \A i \in 1 .. n - 1 : s[i] = stack[t][i]
  BY <1>1
<1> HIDE DEF s
<1>4. stack'[t] = s /\ \A u \in Thread \ {t} : stack'[u] = stack[u]
  BY <1>2
<1> QED
  BY <1>1, <1>3, <1>4, TurnAt

LEMMA StartTurn ==
    ASSUME NEW t \in Thread, stack \in [Thread -> Seq(Frames)], stack[t] = << >>,
           NEW f, NEW g, stack' = [stack EXCEPT ![t] = <<g>>]
    PROVE  Turn(t, f, {g}) /\ g \in Active'
<1>1. DOMAIN <<g>> = {1} /\ <<g>>[1] = g
  OBVIOUS
<1>2. /\ stack'[t] = <<g>> /\ \A u \in Thread \ {t} : stack'[u] = stack[u]
      /\ DOMAIN stack[t] = {}
  OBVIOUS
<1>3. Turn(t, f, {g})
  BY <1>1, <1>2, TurnAt
<1> QED
  BY <1>1, <1>2, <1>3, ActiveAtNext
----------------------------------------------------------------------------
(* Steps of the server that leave the descriptors and the clients alone,   *)
(* and put nothing into the requests.                                      *)
LinkSame(c) == link'[c] = link[c] \/ {link[c], link'[c]} \subseteq {"gone", "reaped"}

Mild ==
    /\ UNCHANGED <<fdt, accepts, cli, mine>>
    /\ \A c \in Conn :
          /\ LinkSame(c)
          /\ Waiting(c) => rx'[c] = rx[c] /\ tx'[c] = tx[c]
          /\ \A i \in DOMAIN rx'[c] : \E j \in DOMAIN rx[c] : rx'[c][i] = rx[c][j]
          /\ \A i \in Answers(c) : i \in Answers(c)' /\ tx'[c][i] = tx[c][i]

LEMMA MildSame ==
    ASSUME Mild
    PROVE  /\ \A fd, c : Own(fd, c)' <=> Own(fd, c)
           /\ \A c \in Conn : Waiting(c)' <=> Waiting(c)
           /\ \A c \in Conn : Sound(c)' <=> Sound(c)
           /\ \A c \in Conn : Granted(c) => Granted(c)'
<1>1. \A fd, c : Own(fd, c)' <=> Own(fd, c)
  BY DEF Mild, Own
<1>2. \A c \in Conn : Waiting(c)' <=> Waiting(c)
  BY DEF Mild, LinkSame, Waiting
<1>3. \A c \in Conn : Sound(c)' <=> Sound(c)
  BY <1>1, <1>2 DEF Mild, Sound
<1>4. \A c \in Conn : Granted(c) => Granted(c)'
  BY DEF Mild, Granted
<1> QED
  BY <1>1, <1>2, <1>3, <1>4

(* Those that leave the requests alone too, and send neither the answer to *)
(* a login nor a new id.                                                   *)
TxSame(c) ==
    /\ Answers(c)' = Answers(c)
    /\ \A i \in Answers(c) : tx'[c][i] = tx[c][i]
    /\ \A id : Sent(c, id)' <=> Sent(c, id)
    /\ Waiting(c) => tx'[c] = tx[c]

Steady ==
    /\ UNCHANGED <<fdt, accepts, rx, cli, mine, told, issued>>
    /\ \A c \in Conn : LinkSame(c) /\ TxSame(c)

LEMMA SteadyMild == ASSUME Steady PROVE Mild
BY DEF Steady, Mild, TxSame

LEMMA SteadySame ==
    ASSUME Steady
    PROVE  /\ \A fd, c : Own(fd, c)' <=> Own(fd, c)
           /\ \A c \in Conn : Waiting(c)' <=> Waiting(c)
           /\ \A c \in Conn : Sound(c)' <=> Sound(c)
           /\ \A c \in Conn : Granted(c)' <=> Granted(c)
           /\ \A c \in Conn : Asks(c)' = Asks(c)
           /\ \A c \in Conn : \A id : Holds(c, id)' <=> Holds(c, id)
           /\ Given' = Given
<1>1. \A fd, c : Own(fd, c)' <=> Own(fd, c)
  BY DEF Steady, Own
<1>2. \A c \in Conn : Waiting(c)' <=> Waiting(c)
  BY DEF Steady, LinkSame, Waiting
<1>3. \A c \in Conn : Sound(c)' <=> Sound(c)
  BY <1>1, <1>2 DEF Steady, Sound
<1>4. \A c \in Conn : Granted(c)' <=> Granted(c)
  BY DEF Steady, TxSame, Granted
<1>5. \A c \in Conn : Asks(c)' = Asks(c)
  BY DEF Steady, Asks
<1>6. \A c \in Conn : \A id : Holds(c, id)' <=> Holds(c, id)
  BY <1>5 DEF Steady, TxSame, Holds
<1>7. Given' = Given
  BY DEF Steady, Given
<1> QED
  BY <1>1, <1>2, <1>3, <1>4, <1>5, <1>6, <1>7

LEMMA LinksKept ==
    ASSUME LinksRight, Mild PROVE LinksRight'
<1>1. ASSUME NEW fd \in Fd, fdt'[fd] \in Conn
      PROVE  /\ accepts'[fd] # 0
             /\ link'[fdt'[fd]] \in {"open", "gone", "reaped"}
             /\ link'[fdt'[fd]] = "open" <=> ~(cli'[fdt'[fd]] \in {"left", "dead"})
  <2>1. PICK c \in Conn : fdt[fd] = c /\ fdt'[fd] = c
    BY <1>1 DEF Mild
  <2>2. /\ accepts[fd] # 0 /\ link[c] \in {"open", "gone", "reaped"}
        /\ link[c] = "open" <=> ~(cli[c] \in {"left", "dead"})
    BY <2>1 DEF LinksRight, Ended
  <2>3. /\ accepts'[fd] # 0 /\ link'[c] \in {"open", "gone", "reaped"}
        /\ link'[c] = "open" <=> ~(cli'[c] \in {"left", "dead"})
    BY <2>2 DEF Mild, LinkSame
  <2> QED
    BY <2>1, <2>3
<1>2. \A c \in Conn : link'[c] \in {"none", "syn"} =>
         link[c] = link'[c] /\ tx'[c] = tx[c] /\ rx'[c] = rx[c]
  BY DEF Mild, LinkSame, Waiting
<1>3. UNCHANGED <<fdt, accepts, cli>>
  BY DEF Mild
<1>4. \A fd, g \in Fd : fdt'[fd] \in Conn /\ fdt'[fd] = fdt'[g] => fd = g
  BY <1>3 DEF LinksRight
<1>5. \A c \in Conn : link'[c] = "none" =>
         cli'[c] = "off" /\ rx'[c] = << >> /\ tx'[c] = << >>
  BY <1>2, <1>3 DEF LinksRight
<1>6. \A c \in Conn : link'[c] = "syn" =>
         /\ cli'[c] \in {"menu", "reg_wait", "log_wait"} /\ tx'[c] = << >>
         /\ \A i \in DOMAIN rx'[c] : rx'[c][i].op # "OFFLINE"
  BY <1>2, <1>3 DEF LinksRight
<1>7. \A c \in Conn : cli'[c] = "off" => link'[c] = "none"
  BY <1>3 DEF LinksRight, Mild, LinkSame
<1> QED
  BY <1>1, <1>4, <1>5, <1>6, <1>7 DEF LinksRight, Ended

(* What becomes of a login's frame is the next step of that login, and no  *)
(* other begins.                                                           *)
Follows(f, g) ==
    /\ Asking(g) => Asking(f) /\ g.fd = f.fd /\ g.id = f.id
    /\ Adding(g) => Adding(f)

LEMMA WorksKept ==
    ASSUME NEW t \in Thread, NEW f, NEW G, Turn(t, f, G), UNCHANGED fdt,
           stack[t] # << >> => Follows(Top(t), f), \A g \in G : ~Asking(g),
           NEW c, NEW u \in Thread, NEW i \in DOMAIN stack'[u], Works(c, u, i)'
    PROVE  /\ i \in DOMAIN stack[u] /\ Works(c, u, i)
           /\ stack'[u][i].id = stack[u][i].id
<1>1. Asking(stack'[u][i]) /\ fdt[stack'[u][i].fd] = c
  BY DEF Works
<1>2. CASE i \in DOMAIN stack[u] /\ stack'[u][i] = stack[u][i]
  BY <1>1, <1>2 DEF Works
<1>3. CASE u = t /\ i = Len(stack[t]) /\ i \in DOMAIN stack[t] /\ stack'[u][i] = f
  <2>1. Asking(Top(t)) /\ f.fd = Top(t).fd /\ f.id = Top(t).id
    BY <1>1, <1>3 DEF Follows
  <2> QED
    BY <1>1, <1>3, <2>1 DEF Works, Top
<1> QED
  BY <1>1, <1>2, <1>3 DEF Turn

LEMMA LoginsKept ==
    ASSUME OneLogin, Mild, UNCHANGED rx, \A c \in Conn : Answers(c)' = Answers(c),
           NEW t \in Thread, NEW f, NEW G, Turn(t, f, G),
           stack[t] # << >> => Follows(Top(t), f), \A g \in G : ~Asking(g)
    PROVE  OneLogin'
<1> SUFFICES ASSUME NEW c \in Conn, Sound(c)' PROVE LoginsRight(c)'
  BY DEF OneLogin
<1>1. LoginsRight(c)
  BY MildSame DEF OneLogin
<1>2. UNCHANGED fdt
  BY DEF Mild
<1>3. \A u \in Thread : \A i \in DOMAIN stack'[u] : Works(c, u, i)' =>
         /\ i \in DOMAIN stack[u] /\ Works(c, u, i)
         /\ stack'[u][i].id = stack[u][i].id
  BY <1>2, WorksKept
<1>4. Worked(c)' => Worked(c)
  BY <1>3 DEF Worked
<1>5. \A u, v \in Thread : \A i \in DOMAIN stack'[u], j \in DOMAIN stack'[v] :
         Works(c, u, i)' /\ Works(c, v, j)' => u = v /\ i = j
  BY <1>1, <1>3 DEF LoginsRight
<1>6. \A u \in Thread : \A i \in DOMAIN stack'[u] :
         Works(c, u, i)' => stack'[u][i].id = mine'[c]
  BY <1>1, <1>3 DEF LoginsRight, Mild
<1>7. Asks(c)' = Asks(c) /\ Answers(c)' = Answers(c)
  BY DEF Asks
<1>8. \A i \in Asks(c)' : rx'[c][i].id = mine'[c]
  BY <1>1, <1>7 DEF LoginsRight, Mild
<1>9. cli'[c] = cli[c]
  BY DEF Mild
<1> QED
  BY <1>1, <1>4, <1>5, <1>6, <1>7, <1>8, <1>9 DEF LoginsRight

(* The list has lost entries, or none.                                     *)
Fewer == \A i \in DOMAIN online' : \E j \in DOMAIN online : online'[i] = online[j]

LEMMA FewerSame ==
    ASSUME Fewer
    PROVE  /\ \A fd : Absent(fd) => Absent(fd)'
           /\ \A fd, id : Named(fd, id) => Named(fd, id)'
BY DEF Fewer, Absent, Named

LEMMA FdsKept ==
    ASSUME FdsRight, UNCHANGED accepts, Fewer, NEW t \in Thread, NEW f, NEW G,
           Turn(t, f, G), stack[t] # << >> => FdRight(f), \A g \in G : FdRight(g)
    PROVE  FdsRight'
<1>1. \A g : FdRight(g) => FdRight(g)'
  BY DEF FdRight
<1>2. \A g \in Active' : FdRight(g)
  BY TurnActive DEF FdsRight
<1>3. \A i \in DOMAIN online' : online'[i].fd \in Fd /\ accepts'[online'[i].fd] # 0
  BY DEF FdsRight, Fewer
<1> QED
  BY <1>1, <1>2, <1>3 DEF FdsRight

LEMMA DutyKept ==
    ASSUME Mild, Fewer, NEW f, Duty(f) PROVE Duty(f)'
<1>1. UNCHANGED <<fdt, accepts, cli>>
  BY DEF Mild
<1>2. \A c \in Conn : Own(f.fd, c)' =>
         /\ Own(f.fd, c)
         /\ Granted(c) => Granted(c)'
         /\ Absent(f.fd) => Absent(f.fd)'
         /\ Named(f.fd, f.id) => Named(f.fd, f.id)'
  BY MildSame, FewerSame DEF Own
<1> QED
  BY <1>1, <1>2 DEF Duty

LEMMA DutiesKept ==
    ASSUME Duties, Mild, Fewer, NEW t \in Thread, NEW f, NEW G,
           Turn(t, f, G), stack[t] # << >> => Duty(f) \/ Duty(f)', \A g \in G : Duty(g)
    PROVE  Duties'
<1>1. \A g \in Active' : Duty(g) \/ (g = f /\ Duty(f)')
  BY TurnActive DEF Duties
<1>2. \A g : Duty(g) => Duty(g)'
  BY DutyKept
<1> QED
  BY <1>1, <1>2 DEF Duties

LEMMA OfflinesKept ==
    ASSUME OfflinesRight, Mild, Fewer PROVE OfflinesRight'
<1> SUFFICES ASSUME NEW c \in Conn, NEW fd \in Fd, Own(fd, c)',
                    NEW i \in DOMAIN rx'[c], rx'[c][i].op = "OFFLINE"
             PROVE  /\ Granted(c)'
                    /\ \A j \in DOMAIN online' :
                          online'[j].fd = fd => online'[j].id = rx'[c][i].id
  BY DEF OfflinesRight, Named
<1>1. PICK k \in DOMAIN rx[c] : rx'[c][i] = rx[c][k]
  BY DEF Mild
<1>2. Granted(c) /\ Named(fd, rx[c][k].id)
  BY <1>1, MildSame DEF OfflinesRight
<1>3. Granted(c)'
  BY <1>2, MildSame
<1>4. PICK id : id = rx[c][k].id
  OBVIOUS
<1>5. Named(fd, id)'
  BY <1>2, <1>4, FewerSame
<1> QED
  BY <1>1, <1>3, <1>4, <1>5 DEF Named

LEMMA ClaimsKept ==
    ASSUME ClaimsRight, Given \subseteq Given',
           \A c \in Conn : \A fd \in Fd : fdt'[fd] = c => fdt[fd] = c,
           \A c \in Conn : Waiting(c)' => Waiting(c),
           \A c \in Conn : \A id : Holds(c, id)' => Holds(c, id),
           \A id, fd : Claimed(id, fd)' => Claimed(id, fd)
    PROVE  ClaimsRight'
BY DEF ClaimsRight

LEMMA SteadyClaims ==
    ASSUME ClaimsRight, Steady, \A id, fd : Claimed(id, fd)' => Claimed(id, fd)
    PROVE  ClaimsRight'
<1>1. fdt' = fdt
  BY DEF Steady
<1> QED
  BY <1>1, SteadySame, ClaimsKept

LEMMA ClaimedKept ==
    ASSUME Fewer, NEW t \in Thread, NEW f, NEW G, Turn(t, f, G),
           stack[t] # << >> => Follows(Top(t), f), \A g \in G : ~Asking(g),
           stack \in [Thread -> Seq(Frames)]
    PROVE  \A id, fd : Claimed(id, fd)' => Claimed(id, fd)
<1> SUFFICES ASSUME NEW id, NEW fd, Claimed(id, fd)' PROVE Claimed(id, fd)
  OBVIOUS
<1>1. CASE \E i \in DOMAIN online' : online'[i].id = id /\ online'[i].fd = fd
  BY <1>1 DEF Fewer, Claimed
<1>2. CASE \E g \in Active' : Adding(g) /\ g.id = id /\ g.fd = fd
  <2>1. PICK g \in Active' : Adding(g) /\ g.id = id /\ g.fd = fd
    BY <1>2
  <2>2. Asking(g)
    BY <2>1 DEF Asking
  <2>3. g \in Active \/ (stack[t] # << >> /\ g = f)
    BY <2>2, TurnActive
  <2>4. CASE stack[t] # << >> /\ g = f
    <3>1. Adding(Top(t)) /\ Top(t).id = id /\ Top(t).fd = fd
      BY <2>1, <2>2, <2>4 DEF Follows
    <3>2. Top(t) \in Active
      <4>1. stack[t] \in Seq(Frames)
        OBVIOUS
      <4>2. Len(stack[t]) \in DOMAIN stack[t]
        BY <2>4, <4>1
      <4> QED
        BY <4>2, ActiveAt DEF Top
    <3> QED
      BY <3>1, <3>2 DEF Claimed
  <2> QED
    BY <2>1, <2>3, <2>4 DEF Claimed
<1> QED
  BY <1>1, <1>2 DEF Claimed

(* An entry stays right when a frame that is to do something about it does *)
(* it or hands it on.                                                      *)
LEMMA EntryKept ==
    ASSUME Mild, NEW e, EntryRight(e), NEW t \in Thread, NEW f, NEW G, Turn(t, f, G),
           Own(e.fd, e.addr) =>
              /\ stack[t] # << >> /\ Top(t).at = "log_ok" /\ Top(t).fd = e.fd =>
                    Granted(e.addr)'
              /\ stack[t] # << >> /\ Removes(Top(t), e) => \E g \in Active' : Removes(g, e)
              /\ link[e.addr] = "gone" =>
                    link'[e.addr] = "gone" \/ \E g \in Active' : Removes(g, e)
    PROVE  EntryRight(e)'
<1>1. UNCHANGED <<fdt, accepts, cli, mine>>
  BY DEF Mild
<1>2. \A g \in Active : g \in Active' \/ (stack[t] # << >> /\ g = Top(t))
  BY TurnActive
<1>3. SUFFICES ASSUME accepts[e.fd] = 1, Own(e.fd, e.addr)'
               PROVE  /\ Granted(e.addr)' \/ \E g \in Active' : g.at = "log_ok" /\ g.fd = e.fd
                      /\ \/ link'[e.addr] \in {"open", "gone"}
                         \/ \E g \in Active' : Removes(g, e)
  BY <1>1, MildSame DEF EntryRight
<1>4. e.addr \in Conn /\ Own(e.fd, e.addr)
  BY <1>3, MildSame DEF Own
<1>5. Granted(e.addr)' \/ \E g \in Active' : g.at = "log_ok" /\ g.fd = e.fd
  <2>1. Granted(e.addr) \/ \E g \in Active : g.at = "log_ok" /\ g.fd = e.fd
    BY <1>3, <1>4 DEF EntryRight
  <2> QED
    BY <1>2, <1>4, <2>1, MildSame
<1>6. link'[e.addr] \in {"open", "gone"} \/ \E g \in Active' : Removes(g, e)
  <2>1. link[e.addr] \in {"open", "gone"} \/ \E g \in Active : Removes(g, e)
    BY <1>3, <1>4 DEF EntryRight
  <2>2. (\E g \in Active : Removes(g, e)) => \E g \in Active' : Removes(g, e)
    BY <1>2, <1>4
  <2>3. LinkSame(e.addr)
    BY <1>4 DEF Mild
  <2> QED
    BY <1>4, <2>1, <2>2, <2>3 DEF LinkSame
<1> QED
  BY <1>5, <1>6

LEMMA EntryPlain ==
    ASSUME Mild, NEW e, EntryRight(e), NEW t \in Thread, NEW f, NEW G, Turn(t, f, G),
           stack[t] # << >> => Top(t).at \notin {"log_ok", "find"} /\ ~Removing(Top(t)),
           link[e.addr] = "gone" => link'[e.addr] = "gone"
    PROVE  EntryRight(e)'
BY EntryKept DEF Removes

LEMMA SteadyKeeps ==
    ASSUME PInv, Steady, UNCHANGED online, stack \in [Thread -> Seq(Frames)],
           NEW t \in Thread, NEW f, NEW G, Turn(t, f, G),
           stack[t] # << >> => Follows(Top(t), f) /\ FdRight(f) /\ Duty(f),
           \A g \in G : ~Asking(g) /\ FdRight(g) /\ Duty(g),
           (\A i \in DOMAIN online : EntryRight(online[i]))'
    PROVE  PInv'
<1>1. Fewer
  BY DEF Fewer
<1>2. LinksRight' /\ OfflinesRight'
  BY <1>1, SteadyMild, LinksKept, OfflinesKept DEF PInv
<1>3. FdsRight'
  BY <1>1, FdsKept DEF PInv, Steady
<1>4. OneLogin' /\ Duties'
  BY <1>1, SteadyMild, LoginsKept, DutiesKept DEF PInv, Steady, TxSame
<1>5. ClaimsRight'
  BY <1>1, ClaimedKept, SteadyClaims DEF PInv
<1>6. EntriesRight'
  BY SteadySame DEF PInv, EntriesRight
<1> QED
  BY <1>2, <1>3, <1>4, <1>5, <1>6 DEF PInv
----------------------------------------------------------------------------
(* The steps of a handler that nothing in PInv is about.                   *)
Plainly(f) == f.at \notin {"find", "log_ok"} /\ ~Removing(f)

Inherits(f, g) ==
    /\ g.fd = f.fd /\ Follows(f, g)
    /\ Closing(g) => Closing(f)
    /\ g.at \notin {"find", "log_add", "log_friends"} /\ ~Removing(g)

LEMMA InheritRight ==
    ASSUME NEW f, NEW g, Inherits(f, g), FdRight(f), Duty(f)
    PROVE  Follows(f, g) /\ FdRight(g) /\ Duty(g)
<1>1. FdRight(g)
  BY DEF Inherits, Follows, FdRight
<1>2. Duty(g)
  BY DEF Inherits, Duty
<1> QED
  BY <1>1, <1>2 DEF Inherits

LEMMA TopActive ==
    ASSUME IInv, NEW t \in Thread, stack[t] # << >>
    PROVE  /\ Top(t) \in Active /\ Top(t) \in Frames
           /\ Len(stack[t]) \in DOMAIN stack[t]
<1>1. Top(t) \in Frames /\ Len(stack[t]) \in DOMAIN stack[t]
  BY TopRight DEF IInv
<1> QED
  BY <1>1, ActiveAt DEF Top

LEMMA TopDuty ==
    ASSUME IInv, PInv, NEW t \in Thread, stack[t] # << >>
    PROVE  FdRight(Top(t)) /\ Duty(Top(t))
BY TopActive DEF PInv, FdsRight, Duties

StillClients == UNCHANGED <<cli, mine, told>>

StillNet == UNCHANGED <<link, rx, tx, fdt, accepts, issued>>

LEMMA StillSteady ==
    ASSUME StillClients, StillNet PROVE Steady
<1>1. \A c \in Conn : LinkSame(c)
  BY DEF StillNet, LinkSame
<1>2. \A c \in Conn : TxSame(c)
  BY DEF StillNet, TxSame, Answers, Sent
<1> QED
  BY <1>1, <1>2 DEF StillClients, StillNet, Steady

(* t's frame becomes another and the rest stands still.                    *)
LEMMA LocalKeeps ==
    ASSUME IInv, PInv, NEW t \in Thread, stack[t] # << >>, Plainly(Top(t)),
           StillClients, StillNet, UNCHANGED online,
           NEW f, NEW G, Turn(t, f, G),
           Follows(Top(t), f) /\ FdRight(f) /\ Duty(f),
           \A g \in G : ~Asking(g) /\ FdRight(g) /\ Duty(g)
    PROVE  PInv'
<1>1. Steady
  BY StillSteady
<1>2. \A i \in DOMAIN online : EntryRight(online[i])'
  <2> SUFFICES ASSUME NEW i \in DOMAIN online, NEW e, e = online[i], e = online'[i]
               PROVE  EntryRight(e)'
    OBVIOUS
  <2>1. EntryRight(e)
    BY DEF PInv, EntriesRight
  <2> QED
    BY <1>1, <2>1, SteadyMild, EntryPlain DEF StillNet, Plainly
<1>3. (\A i \in DOMAIN online : EntryRight(online[i]))'
  BY <1>2
<1>4. stack \in [Thread -> Seq(Frames)]
  BY OnlineTypes
<1> QED
  BY <1>1, <1>3, <1>4, SteadyKeeps

LEMMA ResumeKeeps ==
    ASSUME IInv, PInv, NEW t \in Thread, stack[t] # << >>, Plainly(Top(t)),
           StillClients, StillNet, UNCHANGED online,
           NEW f, Inherits(Top(t), f), Resume(t, f)
    PROVE  PInv'
<1>1. Turn(t, f, {})
  BY OnlineTypes, ResumeTurn
<1>2. Follows(Top(t), f) /\ FdRight(f) /\ Duty(f)
  BY TopDuty, InheritRight
<1> QED
  BY <1>1, <1>2, LocalKeeps

LEMMA ReturnKeeps ==
    ASSUME IInv, PInv, NEW t \in Thread, stack[t] # << >>, Plainly(Top(t)),
           StillClients, StillNet, UNCHANGED online, Return(t)
    PROVE  PInv'
<1>1. PICK f : f = Top(t)
  OBVIOUS
<1>2. Turn(t, f, {})
  BY OnlineTypes, ReturnTurn
<1>3. Follows(Top(t), f) /\ FdRight(f) /\ Duty(f)
  BY <1>1, TopDuty DEF Follows
<1> QED
  BY <1>2, <1>3, LocalKeeps

(* A packet that nobody here waits for.                                    *)
LEMMA PostSame ==
    ASSUME tx \in [Conn -> Seq(Replies)], NEW c \in Conn, link[c] = "open",
           NEW pkt, pkt.op \notin {"LOGIN_FEEDBACK", "REGISTER_SUCCESS"},
           tx' = [tx EXCEPT ![c] = Append(@, pkt)]
    PROVE  \A d \in Conn : TxSame(d)
<1> SUFFICES ASSUME NEW d \in Conn PROVE TxSame(d)
  OBVIOUS
<1>1. CASE d # c
  <2>1. tx'[d] = tx[d]
    BY <1>1
  <2> QED
    BY <2>1 DEF TxSame, Answers, Sent
<1>2. CASE d = c
  <2> DEFINE n == Len(tx[c])
  <2>0. PICK R : R = Replies \cup {pkt}
    OBVIOUS
  <2>a. tx[c] \in Seq(R) /\ pkt \in R
    BY <2>0, SeqMono
  <2>1. /\ n \in Nat /\ DOMAIN tx[c] = 1 .. n
        /\ DOMAIN tx'[c] = 1 .. n + 1 /\ tx'[c][n + 1] = pkt
        /\ \A i \in 1 .. n : tx'[c][i] = tx[c][i]
    BY <2>a, AppendProperties
  <2>2. 1 .. n + 1 = (1 .. n) \cup {n + 1} /\ n + 1 \notin 1 .. n
    BY <2>1
  <2> HIDE DEF n
  <2>3. Answers(c)' = Answers(c)
    BY <2>1, <2>2 DEF Answers
  <2>4. \A id : Sent(c, id)' <=> Sent(c, id)
    BY <2>1, <2>2 DEF Sent
  <2>5. \A i \in Answers(c) : tx'[c][i] = tx[c][i]
    BY <2>1 DEF Answers
  <2> QED
    BY <1>2, <2>3, <2>4, <2>5 DEF TxSame, Waiting
<1> QED
  BY <1>1, <1>2

(* A write that does not end the server: the packet is sent, or lost, or   *)
(* the error path is called - then the client has ended or the descriptor  *)
(* is closed.                                                              *)
LEMMA WriteSteady ==
    ASSUME IInv, NEW t \in Thread, NEW fd, NEW pkt, NEW ok, NEW err,
           WriteServer(t, fd, pkt, ok, err), up', StillClients,
           UNCHANGED <<fdt, accepts, issued>>,
           pkt.op \notin {"LOGIN_FEEDBACK", "REGISTER_SUCCESS"}
    PROVE  /\ Steady
           /\ \A c \in Conn : link[c] = "gone" => link'[c] = "gone"
           /\ \/ Resume(t, ok)
              \/ /\ Call(t, err, ErrorFrame(fd))
                 /\ IsOpen(fd) => link[fdt[fd]] \in {"gone", "reaped"}
<1> USE OnlineTypes
<1>1. CASE /\ IsOpen(fd) /\ link[fdt[fd]] = "open"
           /\ tx' = [tx EXCEPT ![fdt[fd]] = Append(@, pkt)]
           /\ Resume(t, ok)
           /\ UNCHANGED <<link, rx, up>>
  <2>1. PICK c \in Conn : c = fdt[fd]
    BY <1>1 DEF IsOpen
  <2>2. \A d \in Conn : TxSame(d)
    BY <1>1, <2>1, PostSame
  <2> QED
    BY <1>1, <2>2 DEF Steady, StillClients, LinkSame
<1>2. CASE /\ IsOpen(fd) /\ link[fdt[fd]] \in {"gone", "reaped"}
           /\ link' = [link EXCEPT ![fdt[fd]] = "gone"]
           /\ Resume(t, ok)
           /\ UNCHANGED <<rx, tx, up>>
  <2>1. PICK c \in Conn : c = fdt[fd]
    BY <1>2 DEF IsOpen
  <2>2. \A d \in Conn : LinkSame(d) /\ (link[d] = "gone" => link'[d] = "gone")
    BY <1>2, <2>1 DEF LinkSame
  <2>3. \A d \in Conn : TxSame(d)
    BY <1>2 DEF TxSame, Answers, Sent
  <2> QED
    BY <1>2, <2>2, <2>3 DEF Steady, StillClients
<1>3. CASE /\ Failed(t, fd, err)
           /\ IsOpen(fd) => link[fdt[fd]] \in {"gone", "reaped"}
  <2>1. UNCHANGED <<link, rx, tx>>
    BY <1>3 DEF Failed, netVars
  <2>2. Steady
    BY <2>1, StillSteady DEF StillNet
  <2> QED
    BY <1>3, <2>1, <2>2 DEF Failed
<1> QED
  BY <1>1, <1>2, <1>3 DEF WriteServer

(* The error path is only called for a client that has ended.              *)
LEMMA ErrorDuty ==
    ASSUME IInv, PInv, NEW fd, fd \in Fd => accepts[fd] # 0,
           IsOpen(fd) => link[fdt[fd]] \in {"gone", "reaped"},
           NEW g, g = ErrorFrame(fd)
    PROVE  /\ g.at = "find" /\ g.fd = fd /\ ~Asking(g)
           /\ FdRight(g) /\ Duty(g)
<1>1. g.at = "find" /\ g.fd = fd
  BY DEF ErrorFrame, Frame
<1>2. ~Asking(g) /\ ~Closing(g) /\ ~Removing(g)
  BY <1>1 DEF Asking, Adding, Closing, Removing
<1>3. FdRight(g)
  BY <1>1, <1>2 DEF FdRight
<1>4. ASSUME NEW c \in Conn, Own(fd, c) PROVE cli[c] = "left"
  <2>1. fd \in Fd /\ fdt[fd] = c /\ c # NoConn /\ cli[c] # "dead"
    BY <1>4, ConnAssumption DEF Own
  <2>2. link[c] \in {"gone", "reaped"}
    BY <2>1 DEF IsOpen
  <2> QED
    BY <2>1, <2>2 DEF PInv, LinksRight, Ended
<1> QED
  BY <1>1, <1>2, <1>3, <1>4 DEF Duty

LEMMA EntryLocal ==
    ASSUME PInv, Steady, UNCHANGED online, NEW t \in Thread, NEW f, NEW G,
           Turn(t, f, G), stack[t] # << >> => Plainly(Top(t)),
           \A c \in Conn : link[c] = "gone" => link'[c] = "gone"
    PROVE  (\A i \in DOMAIN online : EntryRight(online[i]))'
<1>1. \A i \in DOMAIN online : EntryRight(online[i])'
  <2> SUFFICES ASSUME NEW i \in DOMAIN online, NEW e, e = online[i], e = online'[i]
               PROVE  EntryRight(e)'
    OBVIOUS
  <2>1. EntryRight(e)
    BY DEF PInv, EntriesRight
  <2>2. CASE e.addr \in Conn
    BY <2>1, <2>2, SteadyMild, EntryPlain DEF Plainly
  <2>3. CASE e.addr \notin Conn
    BY <2>1, <2>3 DEF EntryRight, Steady
  <2> QED
    BY <2>2, <2>3
<1> QED
  BY <1>1

LEMMA WriteKeeps ==
    ASSUME IInv, PInv, NEW t \in Thread, stack[t] # << >>, Plainly(Top(t)),
           NEW fd, fd \in Fd => accepts[fd] # 0,
           NEW pkt, pkt.op \notin {"LOGIN_FEEDBACK", "REGISTER_SUCCESS"},
           NEW ok, NEW err, Inherits(Top(t), ok), Inherits(Top(t), err),
           WriteServer(t, fd, pkt, ok, err), up', StillClients,
           UNCHANGED <<fdt, accepts, issued, online>>
    PROVE  PInv'
<1>1. /\ Steady
      /\ \A c \in Conn : link[c] = "gone" => link'[c] = "gone"
      /\ \/ Resume(t, ok)
         \/ /\ Call(t, err, ErrorFrame(fd))
            /\ IsOpen(fd) => link[fdt[fd]] \in {"gone", "reaped"}
  BY WriteSteady
<1>2. stack \in [Thread -> Seq(Frames)]
  BY OnlineTypes
<1>3. CASE Resume(t, ok)
  <2>1. Turn(t, ok, {})
    BY <1>2, <1>3, ResumeTurn
  <2>2. Follows(Top(t), ok) /\ FdRight(ok) /\ Duty(ok)
    BY TopDuty, InheritRight
  <2>3. (\A i \in DOMAIN online : EntryRight(online[i]))'
    BY <1>1, <2>1, EntryLocal
  <2> QED
    BY <1>1, <1>2, <2>1, <2>2, <2>3, SteadyKeeps
<1>4. CASE /\ Call(t, err, ErrorFrame(fd))
           /\ IsOpen(fd) => link[fdt[fd]] \in {"gone", "reaped"}
  <2>1. PICK g : g = ErrorFrame(fd)
    OBVIOUS
  <2>2. Turn(t, err, {g})
    BY <1>2, <1>4, <2>1, CallTurn
  <2>3. Follows(Top(t), err) /\ FdRight(err) /\ Duty(err)
    BY TopDuty, InheritRight
  <2>4. ~Asking(g) /\ FdRight(g) /\ Duty(g)
    BY <1>4, <2>1, ErrorDuty
  <2>5. (\A i \in DOMAIN online : EntryRight(online[i]))'
    BY <1>1, <2>2, EntryLocal
  <2> QED
    BY <1>1, <1>2, <2>2, <2>3, <2>4, <2>5, SteadyKeeps
<1> QED
  BY <1>1, <1>3, <1>4

LEMMA SendKeeps ==
    ASSUME IInv, PInv, NEW t \in Thread, stack[t] # << >>, Plainly(Top(t)),
           NEW fd, fd \in Fd => accepts[fd] # 0,
           NEW pkt, pkt.op \notin {"LOGIN_FEEDBACK", "REGISTER_SUCCESS"},
           NEW ok, NEW err, Inherits(Top(t), ok), Inherits(Top(t), err),
           Send(t, fd, pkt, ok, err), up', UNCHANGED clientVars
    PROVE  PInv'
BY WriteKeeps DEF Send, ioVars, ghostVars, clientVars, StillClients

(* What a pointer to an entry leads to has been accepted.                  *)
LEMMA DerefFd ==
    ASSUME IInv, PInv, NEW p, NEW q \in Deref(p)
    PROVE  q.fd \in Fd => accepts[q.fd] # 0
<1>1. CASE q \in Range(online)
  BY <1>1 DEF Range, PInv, FdsRight
<1>2. CASE q \notin Range(online)
  <2>1. q = Garbage
    BY <1>2 DEF Deref
  <2> QED
    BY <2>1, FdAssumption DEF Garbage
<1> QED
  BY <1>1, <1>2
----------------------------------------------------------------------------
(* Handler by handler: the steps that are plain.                           *)
Inert == PCs \ ({"log_query", "log_check", "log_addr", "log_add", "log_ok", "log_reply",
                 "log_friends", "find", "off_ctl", "off_del", "off_query", "off_row",
                 "off_tell", "off_bye", "off_close"})

LEMMA InertRight ==
    ASSUME NEW f, NEW g, g.at \in Inert, g.fd = f.fd PROVE Inherits(f, g)
BY DEF Inert, PCs, Inherits, Follows, Asking, Adding, Closing, Removing

LEMMA AtPlain ==
    ASSUME IInv, NEW t \in Thread, NEW at, At(t, at)
    PROVE  /\ stack[t] # << >> /\ Top(t).at = at /\ Top(t) \in FrameType
           /\ at \notin {"find", "log_ok", "off_ctl", "off_del"} => Plainly(Top(t))
<1>1. stack[t] # << >> /\ Top(t).at = at
  BY DEF At
<1>2. Top(t) \in FrameType
  BY <1>1, TopActive DEF Frames
<1> QED
  BY <1>1, <1>2 DEF Plainly, Removing

LEMMA LocalStill ==
    ASSUME Local, UNCHANGED clientVars
    PROVE  StillClients /\ StillNet /\ UNCHANGED online
BY DEF Local, clientVars, StillClients, StillNet, netVars, ioVars, ghostVars

LEMMA DieEnds == ASSUME Die, up' PROVE FALSE
BY DEF Die

LEMMA RegisterHolds ==
    ASSUME IInv, PInv, NEW t \in Thread, RegInsert(t) \/ RegMax(t) \/ RegCreate(t),
           up', UNCHANGED clientVars
    PROVE  PInv'
<1>1. StillClients
  BY DEF clientVars, StillClients
<1>2. PICK f : f = Top(t)
  OBVIOUS
<1>3. CASE RegInsert(t)
  <2>1. At(t, "reg_insert") /\ Goto(t, "reg_max") /\ StillNet /\ UNCHANGED online
    BY <1>3 DEF RegInsert, netVars, ioVars, ghostVars, StillNet
  <2>2. PICK g : g = [f EXCEPT !.at = "reg_max"]
    OBVIOUS
  <2>3. g.at = "reg_max" /\ g.fd = f.fd
    BY <1>2, <2>1, <2>2, AtPlain DEF FrameType
  <2>4. Inherits(f, g)
    BY <2>3, InertRight DEF Inert, PCs
  <2> QED
    BY <1>1, <1>2, <2>1, <2>2, <2>4, AtPlain, ResumeKeeps DEF Goto
<1>4. CASE RegMax(t)
  <2>1. At(t, "reg_max")
    BY <1>4 DEF RegMax
  <2>2. PICK g, h : /\ g = [f EXCEPT !.at = "reg_create", !.id = Len(users)]
                    /\ h = [f EXCEPT !.at = "reg_reply", !.id = -1, !.wild = TRUE]
    OBVIOUS
  <2>3. (Resume(t, g) /\ Local) \/ (Resume(t, h) /\ Local)
    BY <1>2, <1>4, <2>2, DieEnds DEF RegMax
  <2>4. g.at = "reg_create" /\ g.fd = f.fd /\ h.at = "reg_reply" /\ h.fd = f.fd
    BY <1>2, <2>1, <2>2, AtPlain DEF FrameType
  <2>5. Inherits(f, g) /\ Inherits(f, h)
    BY <2>4, InertRight DEF Inert, PCs
  <2> QED
    BY <1>2, <2>1, <2>3, <2>5, LocalStill, AtPlain, ResumeKeeps
<1>5. CASE RegCreate(t)
  <2>1. At(t, "reg_create") /\ StillNet /\ UNCHANGED online
    BY <1>5 DEF RegCreate, netVars, ioVars, ghostVars, StillNet
  <2>2. PICK g, h : /\ g = [f EXCEPT !.at = "reg_reply"]
                    /\ h = [f EXCEPT !.at = "reg_reply", !.id = -1]
    OBVIOUS
  <2>3. Resume(t, g) \/ Resume(t, h)
    BY <1>2, <1>5, <2>2 DEF RegCreate, Goto
  <2>4. g.at = "reg_reply" /\ g.fd = f.fd /\ h.at = "reg_reply" /\ h.fd = f.fd
    BY <1>2, <2>1, <2>2, AtPlain DEF FrameType
  <2>5. Inherits(f, g) /\ Inherits(f, h)
    BY <2>4, InertRight DEF Inert, PCs
  <2> QED
    BY <1>1, <1>2, <2>1, <2>3, <2>5, AtPlain, ResumeKeeps
<1> QED
  BY <1>3, <1>4, <1>5
Served == {"find", "log_ok", "off_ctl", "off_del"}

LEMMA InertResume ==
    ASSUME IInv, PInv, NEW t \in Thread, NEW at, At(t, at), at \notin Served,
           NEW g, g.at \in Inert, g.fd = Top(t).fd, Resume(t, g),
           StillClients, StillNet, UNCHANGED online
    PROVE  PInv'
BY InertRight, AtPlain, ResumeKeeps DEF Served

LEMMA InertLocal ==
    ASSUME IInv, PInv, NEW t \in Thread, NEW at, At(t, at), at \notin Served,
           NEW g, g.at \in Inert, g.fd = Top(t).fd, Resume(t, g),
           Local, UNCHANGED clientVars
    PROVE  PInv'
BY InertResume, LocalStill

LEMMA InertSend ==
    ASSUME IInv, PInv, NEW t \in Thread, NEW at, At(t, at), at \notin Served,
           NEW ok, NEW err, ok.at \in Inert, err.at \in Inert,
           ok.fd = Top(t).fd, err.fd = Top(t).fd,
           NEW fd, fd \in Fd => accepts[fd] # 0,
           NEW pkt, pkt.op \notin {"LOGIN_FEEDBACK", "REGISTER_SUCCESS"},
           Send(t, fd, pkt, ok, err), up', UNCHANGED clientVars
    PROVE  PInv'
<1>1. Inherits(Top(t), ok) /\ Inherits(Top(t), err)
  BY InertRight
<1>2. stack[t] # << >> /\ Plainly(Top(t))
  BY AtPlain DEF Served
<1> QED
  BY <1>1, <1>2, SendKeeps

LEMMA TopFd ==
    ASSUME IInv, PInv, NEW t \in Thread, NEW at, At(t, at)
    PROVE  Top(t).fd \in Fd => accepts[Top(t).fd] # 0
BY TopDuty DEF FdRight, At

LEMMA AddHolds ==
    ASSUME IInv, PInv, NEW t \in Thread,
           AddSearch(t) \/ AddQuery(t) \/ AddReply(t) \/ AddForward(t),
           up', UNCHANGED clientVars
    PROVE  PInv'
<1>2. PICK f : f = Top(t)
  OBVIOUS
<1>3. CASE AddSearch(t)
  <2>1. At(t, "add_search")
    BY <1>3 DEF AddSearch
  <2>2. PICK g : g = [f EXCEPT !.at = "add_query", !.p = SearchId(f.pkt.dst)]
    OBVIOUS
  <2>3. g.at = "add_query" /\ g.fd = f.fd
    BY <1>2, <2>1, <2>2, AtPlain DEF FrameType
  <2>4. g.at \in Inert
    BY <2>3 DEF Inert, PCs
  <2>5. Resume(t, g) /\ Local
    BY <1>2, <1>3, <2>2 DEF AddSearch
  <2> QED
    BY <1>2, <2>1, <2>3, <2>4, <2>5, InertLocal DEF Served
<1>4. CASE AddQuery(t)
  <2>1. At(t, "add_query")
    BY <1>4 DEF AddQuery
  <2>2. PICK n \in {0, 2, 3, 4} :
           \/ Resume(t, [f EXCEPT !.at = "add_reply", !.flag = n]) /\ Local
           \/ Resume(t, [f EXCEPT !.at = "add_fwd"]) /\ Local
    BY <1>2, <1>4, DieEnds DEF AddQuery, Goto
  <2>3. PICK g, h : /\ g = [f EXCEPT !.at = "add_reply", !.flag = n]
                    /\ h = [f EXCEPT !.at = "add_fwd"]
    OBVIOUS
  <2>4. g.at = "add_reply" /\ g.fd = f.fd /\ h.at = "add_fwd" /\ h.fd = f.fd
    BY <1>2, <2>1, <2>3, AtPlain DEF FrameType
  <2>5. g.at \in Inert /\ h.at \in Inert
    BY <2>4 DEF Inert, PCs
  <2>6. (Resume(t, g) \/ Resume(t, h)) /\ Local
    BY <2>2, <2>3
  <2> QED
    BY <1>2, <2>1, <2>4, <2>5, <2>6, InertLocal DEF Served
<1>5. CASE AddReply(t)
  <2>1. At(t, "add_reply")
    BY <1>5 DEF AddReply
  <2>2. PICK g, pkt : /\ g = [f EXCEPT !.at = "done"]
                      /\ pkt = [op |-> "ALLOW_ADDF", src |-> f.pkt.src,
                                dst |-> f.pkt.dst, ans |-> f.flag]
    OBVIOUS
  <2>3. g.at = "done" /\ g.fd = f.fd /\ pkt.op = "ALLOW_ADDF"
    BY <1>2, <2>1, <2>2, AtPlain DEF FrameType
  <2>4. g.at \in Inert
    BY <2>3 DEF Inert, PCs
  <2>5. Send(t, f.fd, pkt, g, g)
    BY <1>2, <1>5, <2>2 DEF AddReply
  <2>6. f.fd \in Fd => accepts[f.fd] # 0
    BY <1>2, <2>1, TopFd
  <2> QED
    BY <1>2, <2>1, <2>3, <2>4, <2>5, <2>6, InertSend DEF Served
<1>6. CASE AddForward(t)
  <2>1. At(t, "add_fwd")
    BY <1>6 DEF AddForward
  <2>2. PICK g : g = [f EXCEPT !.at = "done"]
    OBVIOUS
  <2>3. g.at = "done" /\ g.fd = f.fd
    BY <1>2, <2>1, <2>2, AtPlain DEF FrameType
  <2>4. g.at \in Inert
    BY <2>3 DEF Inert, PCs
  <2>5. PICK q \in Deref(f.p) : Send(t, q.fd, f.pkt, g, g)
    BY <1>2, <1>6, <2>2 DEF AddForward
  <2>6. q.fd \in Fd => accepts[q.fd] # 0
    BY DerefFd
  <2>7. f.pkt.op = "ADD_FRIEND"
    BY <1>2, <2>1, AtPlain, TopActive DEF Frames, AddRight, AddPCs, AddPacket
  <2>8. PICK pkt : pkt = f.pkt
    OBVIOUS
  <2> QED
    BY <1>2, <2>1, <2>3, <2>4, <2>5, <2>6, <2>7, <2>8, InertSend DEF Served
<1> QED
  BY <1>3, <1>4, <1>5, <1>6
LEMMA InsertHolds ==
    ASSUME IInv, PInv, NEW t \in Thread, NEW at, At(t, at), at \notin Served,
           NEW g, NEW h, g.at \in Inert, h.at \in Inert,
           g.fd = Top(t).fd, h.fd = Top(t).fd,
           NEW a, NEW b, Insert(t, a, b, g, h), UNCHANGED clientVars
    PROVE  PInv'
<1>1. StillClients /\ StillNet /\ UNCHANGED online
  BY DEF Insert, clientVars, StillClients, StillNet, netVars, ioVars
<1>2. Resume(t, g) \/ Resume(t, h)
  BY DEF Insert
<1> QED
  BY <1>1, <1>2, InertResume

LEMMA AllowHolds ==
    ASSUME IInv, PInv, NEW t \in Thread,
           AlwSource(t) \/ AlwDest(t) \/ AlwInsert1(t) \/ AlwInsert2(t),
           up', UNCHANGED clientVars
    PROVE  PInv'
<1>2. PICK f : f = Top(t)
  OBVIOUS
<1>3. CASE AlwSource(t)
  <2>1. At(t, "alw_src")
    BY <1>3 DEF AlwSource
  <2>2. PICK g : g = [f EXCEPT !.at = "alw_dst", !.p = SearchId(f.pkt.src)]
    OBVIOUS
  <2>3. g.at = "alw_dst" /\ g.fd = f.fd
    BY <1>2, <2>1, <2>2, AtPlain DEF FrameType
  <2>4. g.at \in Inert
    BY <2>3 DEF Inert, PCs
  <2>5. Resume(t, g) /\ Local
    BY <1>2, <1>3, <2>2 DEF AlwSource
  <2> QED
    BY <1>2, <2>1, <2>3, <2>4, <2>5, InertLocal DEF Served
<1>4. CASE AlwDest(t)
  <2>1. At(t, "alw_dst")
    BY <1>4 DEF AlwDest
  <2>2. PICK at \in {"alw_ins1", "alw_reply", "done"} :
           Resume(t, [f EXCEPT !.at = at, !.q = SearchId(f.pkt.dst)]) /\ Local
    BY <1>2, <1>4 DEF AlwDest
  <2>3. PICK g : g = [f EXCEPT !.at = at, !.q = SearchId(f.pkt.dst)]
    OBVIOUS
  <2>4. g.at = at /\ g.fd = f.fd
    BY <1>2, <2>1, <2>3, AtPlain DEF FrameType
  <2>5. g.at \in Inert
    BY <2>4 DEF Inert, PCs
  <2>6. Resume(t, g) /\ Local
    BY <2>2, <2>3
  <2> QED
    BY <1>2, <2>1, <2>4, <2>5, <2>6, InertLocal DEF Served
<1>5. CASE AlwInsert1(t)
  <2>1. At(t, "alw_ins1")
    BY <1>5 DEF AlwInsert1
  <2>2. PICK h : h = [f EXCEPT !.at = "alw_ins2"]
    OBVIOUS
  <2>3. h \in FrameType /\ h.at = "alw_ins2" /\ h.fd = f.fd
    BY <1>2, <2>1, <2>2, AtPlain DEF FrameType, PCs
  <2>4. PICK g, k : g = [h EXCEPT !.flag = 1] /\ k = [h EXCEPT !.wild = TRUE]
    OBVIOUS
  <2>5. g.at = "alw_ins2" /\ g.fd = f.fd /\ k.at = "alw_ins2" /\ k.fd = f.fd
    BY <2>3, <2>4 DEF FrameType
  <2>6. g.at \in Inert /\ k.at \in Inert
    BY <2>5 DEF Inert, PCs
  <2>7. Insert(t, h.pkt.src, h.pkt.dst, g, k)
    BY <1>2, <1>5, <2>2, <2>4 DEF AlwInsert1
  <2> QED
    BY <1>2, <2>1, <2>5, <2>6, <2>7, InsertHolds DEF Served
<1>6. CASE AlwInsert2(t)
  <2>1. At(t, "alw_ins2")
    BY <1>6 DEF AlwInsert2
  <2>2. PICK at \in {"alw_reply", "done"} :
           Insert(t, f.pkt.dst, f.pkt.src,
                  [f EXCEPT !.at = at, !.wild = FALSE], [f EXCEPT !.at = at, !.flag = 0])
    BY <1>2, <1>6 DEF AlwInsert2
  <2>4. PICK g, k : /\ g = [f EXCEPT !.at = at, !.wild = FALSE]
                    /\ k = [f EXCEPT !.at = at, !.flag = 0]
    OBVIOUS
  <2>5. g.at = at /\ g.fd = f.fd /\ k.at = at /\ k.fd = f.fd
    BY <1>2, <2>1, <2>4, AtPlain DEF FrameType
  <2>6. g.at \in Inert /\ k.at \in Inert
    BY <2>5 DEF Inert, PCs
  <2>7. Insert(t, f.pkt.dst, f.pkt.src, g, k)
    BY <2>2, <2>4
  <2> QED
    BY <1>2, <2>1, <2>5, <2>6, <2>7, InsertHolds DEF Served
<1> QED
  BY <1>3, <1>4, <1>5, <1>6

LEMMA AllowTells ==
    ASSUME IInv, PInv, NEW t \in Thread,
           AlwReply(t) \/ AlwOnline1(t) \/ AlwOnline2(t), up', UNCHANGED clientVars
    PROVE  PInv'
<1>2. PICK f : f = Top(t)
  OBVIOUS
<1>3. CASE AlwReply(t)
  <2>1. At(t, "alw_reply")
    BY <1>3 DEF AlwReply
  <2>2. PICK at \in {"alw_on1", "done"}, ans \in {0, 1, 3} :
           \E p \in Deref(f.p) :
              Send(t, p.fd, [op |-> "ALLOW_ADDF", src |-> f.pkt.src,
                             dst |-> f.pkt.dst, ans |-> ans],
                   [f EXCEPT !.at = at], [f EXCEPT !.at = at])
    BY <1>2, <1>3 DEF AlwReply
  <2>3. PICK g, pkt : /\ g = [f EXCEPT !.at = at]
                      /\ pkt = [op |-> "ALLOW_ADDF", src |-> f.pkt.src,
                                dst |-> f.pkt.dst, ans |-> ans]
    OBVIOUS
  <2>4. PICK p \in Deref(f.p) : Send(t, p.fd, pkt, g, g)
    BY <2>2, <2>3
  <2>5. g.at = at /\ g.fd = f.fd /\ pkt.op = "ALLOW_ADDF"
    BY <1>2, <2>1, <2>3, AtPlain DEF FrameType
  <2>6. g.at \in Inert
    BY <2>5 DEF Inert, PCs
  <2>7. p.fd \in Fd => accepts[p.fd] # 0
    BY DerefFd
  <2> QED
    BY <1>2, <2>1, <2>4, <2>5, <2>6, <2>7, InertSend DEF Served
<1>4. CASE AlwOnline1(t)
  <2>1. At(t, "alw_on1")
    BY <1>4 DEF AlwOnline1
  <2>2. PICK g : g = [f EXCEPT !.at = "alw_on2"]
    OBVIOUS
  <2>3. PICK p \in Deref(f.p), q \in Deref(f.q) :
           Send(t, p.fd, [op |-> "ONLINE", who |-> q], g, g)
    BY <1>2, <1>4, <2>2 DEF AlwOnline1
  <2>4. PICK pkt : pkt = [op |-> "ONLINE", who |-> q]
    OBVIOUS
  <2>5. g.at = "alw_on2" /\ g.fd = f.fd /\ pkt.op = "ONLINE"
    BY <1>2, <2>1, <2>2, <2>4, AtPlain DEF FrameType
  <2>6. g.at \in Inert
    BY <2>5 DEF Inert, PCs
  <2>7. p.fd \in Fd => accepts[p.fd] # 0
    BY DerefFd
  <2> QED
    BY <1>2, <2>1, <2>3, <2>4, <2>5, <2>6, <2>7, InertSend DEF Served
<1>5. CASE AlwOnline2(t)
  <2>1. At(t, "alw_on2")
    BY <1>5 DEF AlwOnline2
  <2>2. PICK g : g = [f EXCEPT !.at = "done"]
    OBVIOUS
  <2>3. PICK p \in Deref(f.p), q \in Deref(f.q) :
           Send(t, q.fd, [op |-> "ONLINE", who |-> p], g, g)
    BY <1>2, <1>5, <2>2 DEF AlwOnline2
  <2>4. PICK pkt : pkt = [op |-> "ONLINE", who |-> p]
    OBVIOUS
  <2>5. g.at = "done" /\ g.fd = f.fd /\ pkt.op = "ONLINE"
    BY <1>2, <2>1, <2>2, <2>4, AtPlain DEF FrameType
  <2>6. g.at \in Inert
    BY <2>5 DEF Inert, PCs
  <2>7. q.fd \in Fd => accepts[q.fd] # 0
    BY DerefFd
  <2> QED
    BY <1>2, <2>1, <2>3, <2>4, <2>5, <2>6, <2>7, InertSend DEF Served
<1> QED
  BY <1>3, <1>4, <1>5

LEMMA DoneHolds ==
    ASSUME IInv, PInv, NEW t \in Thread, Done(t), up', UNCHANGED clientVars
    PROVE  PInv'
<1>1. At(t, "done") /\ Return(t) /\ Local
  BY DieEnds DEF Done
<1>2. stack[t] # << >> /\ Plainly(Top(t))
  BY <1>1, AtPlain
<1> QED
  BY <1>1, <1>2, LocalStill, ReturnKeeps
LEMMA LoginGoes ==
    ASSUME NEW f, NEW g, f.at \in {"log_query", "log_check"},
           g.at \in {"log_check", "log_addr", "log_reply"}, g.fd = f.fd, g.id = f.id,
           f.at = "log_query" => g.at # "log_addr"
    PROVE  Inherits(f, g)
BY DEF Inherits, Follows, Asking, Adding, Closing, Removing

LEMMA LeavingGoes ==
    ASSUME NEW f, NEW g, f.at \in {"off_query", "off_row", "off_tell", "off_bye"},
           g.at \in {"off_row", "off_tell", "off_bye", "off_close"}, g.fd = f.fd
    PROVE  Inherits(f, g)
BY DEF Inherits, Follows, Asking, Adding, Closing, Removing

LEMMA LoginAsks ==
    ASSUME IInv, PInv, NEW t \in Thread, LogQuery(t) \/ LogCheck(t),
           up', UNCHANGED clientVars
    PROVE  PInv'
<1>1. PICK f : f = Top(t)
  OBVIOUS
<1>2. PICK at \in {"log_query", "log_check"} : At(t, at)
  BY DEF LogQuery, LogCheck
<1>3. stack[t] # << >> /\ f \in FrameType /\ f.at = at /\ Plainly(Top(t))
  BY <1>1, <1>2, AtPlain
<1>4. \/ \E flag \in {-3, -2, -1}, wild \in BOOLEAN : LogAnswer(t, flag, wild)
      \/ \E to \in {"log_check", "log_addr"} : Goto(t, to) /\ Local
                                               /\ (at = "log_query" => to # "log_addr")
  <2>1. -3 \in {-3, -2, -1} /\ -2 \in {-3, -2, -1} /\ -1 \in {-3, -2, -1}
    OBVIOUS
  <2>2. CASE LogQuery(t)
    <3>1. \/ LogAnswer(t, -1, FALSE) \/ LogAnswer(t, -2, TRUE)
          \/ Goto(t, "log_check") /\ Local
      BY <2>2 DEF LogQuery
    <3> QED
      BY <2>1, <3>1
  <2>3. CASE LogCheck(t)
    <3>1. at = "log_check"
      BY <1>2, <2>3 DEF LogCheck, At
    <3>2. LogAnswer(t, -3, FALSE) \/ (Goto(t, "log_addr") /\ Local)
      BY <2>3 DEF LogCheck
    <3> QED
      BY <2>1, <3>1, <3>2
  <2> QED
    BY <2>2, <2>3
<1>5. CASE \E flag \in {-3, -2, -1}, wild \in BOOLEAN : LogAnswer(t, flag, wild)
  <2>1. PICK flag \in {-3, -2, -1}, wild \in BOOLEAN : LogAnswer(t, flag, wild)
    BY <1>5
  <2>2. PICK g : g = [f EXCEPT !.at = "log_reply", !.flag = flag, !.wild = wild]
    OBVIOUS
  <2>3. g.at = "log_reply" /\ g.fd = f.fd /\ g.id = f.id
    BY <1>3, <2>2 DEF FrameType
  <2>4. Inherits(f, g)
    BY <1>3, <2>3, LoginGoes
  <2>5. Resume(t, g) /\ Local
    BY <1>1, <2>1, <2>2 DEF LogAnswer
  <2> QED
    BY <1>1, <1>3, <2>4, <2>5, LocalStill, ResumeKeeps
<1>6. CASE \E to \in {"log_check", "log_addr"} : Goto(t, to) /\ Local
                                               /\ (at = "log_query" => to # "log_addr")
  <2>1. PICK to \in {"log_check", "log_addr"} : Goto(t, to) /\ Local
                                               /\ (at = "log_query" => to # "log_addr")
    BY <1>6
  <2>2. PICK g : g = [f EXCEPT !.at = to]
    OBVIOUS
  <2>3. g.at = to /\ g.fd = f.fd /\ g.id = f.id
    BY <1>3, <2>2 DEF FrameType
  <2>4. Inherits(f, g)
    BY <1>3, <2>1, <2>3, LoginGoes
  <2>5. Resume(t, g) /\ Local
    BY <1>1, <2>1, <2>2 DEF Goto
  <2> QED
    BY <1>1, <1>3, <2>4, <2>5, LocalStill, ResumeKeeps
<1> QED
  BY <1>4, <1>5, <1>6

LEMMA NextRowGoes ==
    ASSUME IInv, NEW t \in Thread, NEW from, NEW tell, NEW over,
           NextRow(t, from, tell, over)
    PROVE  \E g : /\ g.at \in {from, tell, over} /\ g.fd = Top(t).fd
                  /\ Resume(t, g) /\ Local
<1>1. At(t, from) /\ Top(t) \in FrameType /\ Top(t).at = from
  BY AtPlain DEF NextRow
<1>2. PICK f : f = Top(t)
  OBVIOUS
<1>3. PICK g, h, k : /\ g = [f EXCEPT !.at = over]
                     /\ h = [f EXCEPT !.rows = f.rows \ {Least(f.rows)}]
                     /\ k = [f EXCEPT !.at = tell, !.rows = f.rows \ {Least(f.rows)},
                                      !.q = SearchId(Least(f.rows))]
  OBVIOUS
<1>4. /\ g.at = over /\ g.fd = f.fd /\ h.at = from /\ h.fd = f.fd
      /\ k.at = tell /\ k.fd = f.fd
  BY <1>1, <1>2, <1>3 DEF FrameType
<1>5. (Resume(t, g) \/ Resume(t, h) \/ Resume(t, k)) /\ Local
  BY <1>2, <1>3 DEF NextRow, Goto
<1> QED
  BY <1>2, <1>4, <1>5

LEMMA LoginTells ==
    ASSUME IInv, PInv, NEW t \in Thread, LogRow(t) \/ LogTell(t) \/ LogShow(t),
           up', UNCHANGED clientVars
    PROVE  PInv'
<1>2. PICK f : f = Top(t)
  OBVIOUS
<1>3. CASE LogRow(t)
  <2>1. At(t, "log_row")
    BY <1>3 DEF LogRow, NextRow
  <2>2. PICK g : /\ g.at \in {"log_row", "log_tell", "done"} /\ g.fd = Top(t).fd
                 /\ Resume(t, g) /\ Local
    BY <1>3, NextRowGoes DEF LogRow
  <2>3. g.at \in Inert
    BY <2>2 DEF Inert, PCs
  <2> QED
    BY <2>1, <2>2, <2>3, InertLocal DEF Served
<1>4. CASE LogTell(t)
  <2>1. At(t, "log_tell")
    BY <1>4 DEF LogTell
  <2>2. PICK g, h, pkt : /\ g = [f EXCEPT !.at = "log_show"]
                         /\ h = [f EXCEPT !.at = "log_row"]
                         /\ pkt = [op |-> "ONLINE", who |-> f.p]
    OBVIOUS
  <2>3. PICK q \in Deref(f.q) : Send(t, q.fd, pkt, g, h)
    BY <1>2, <1>4, <2>2 DEF LogTell
  <2>5. /\ g.at = "log_show" /\ g.fd = f.fd /\ h.at = "log_row" /\ h.fd = f.fd
        /\ pkt.op = "ONLINE"
    BY <1>2, <2>1, <2>2, AtPlain DEF FrameType
  <2>6. g.at \in Inert /\ h.at \in Inert
    BY <2>5 DEF Inert, PCs
  <2>7. q.fd \in Fd => accepts[q.fd] # 0
    BY DerefFd
  <2> QED
    BY <1>2, <2>1, <2>3, <2>5, <2>6, <2>7, InertSend DEF Served
<1>5. CASE LogShow(t)
  <2>1. At(t, "log_show")
    BY <1>5 DEF LogShow
  <2>2. PICK g, h : /\ g = [f EXCEPT !.at = "log_row"]
                    /\ h = [f EXCEPT !.at = "done"]
    OBVIOUS
  <2>3. PICK q \in Deref(f.q) : Send(t, f.fd, [op |-> "ONLINE", who |-> q], g, h)
    BY <1>2, <1>5, <2>2 DEF LogShow
  <2>4. PICK pkt : pkt = [op |-> "ONLINE", who |-> q]
    OBVIOUS
  <2>5. /\ g.at = "log_row" /\ g.fd = f.fd /\ h.at = "done" /\ h.fd = f.fd
        /\ pkt.op = "ONLINE"
    BY <1>2, <2>1, <2>2, <2>4, AtPlain DEF FrameType
  <2>6. g.at \in Inert /\ h.at \in Inert
    BY <2>5 DEF Inert, PCs
  <2>7. f.fd \in Fd => accepts[f.fd] # 0
    BY <1>2, <2>1, TopFd
  <2> QED
    BY <1>2, <2>1, <2>3, <2>4, <2>5, <2>6, <2>7, InertSend DEF Served
<1> QED
  BY <1>3, <1>4, <1>5

LEMMA LeavingTells ==
    ASSUME IInv, PInv, NEW t \in Thread,
           OffQuery(t) \/ OffRow(t) \/ OffTell(t) \/ OffBye(t), up', UNCHANGED clientVars
    PROVE  PInv'
<1>1. PICK f : f = Top(t)
  OBVIOUS
<1>2. PICK at \in {"off_query", "off_row", "off_tell", "off_bye"} : At(t, at)
  BY DEF OffQuery, OffRow, NextRow, OffTell, OffBye
<1>3. stack[t] # << >> /\ f \in FrameType /\ f.at = at /\ Plainly(Top(t))
  BY <1>1, <1>2, AtPlain
<1> DEFINE Stages == {"off_row", "off_tell", "off_bye", "off_close"}
<1>4. ASSUME NEW g, g.at \in Stages, g.fd = f.fd, Resume(t, g), Local PROVE PInv'
  <2>1. Inherits(f, g)
    BY <1>3, <1>4, LeavingGoes
  <2> QED
    BY <1>1, <1>3, <1>4, <2>1, LocalStill, ResumeKeeps
<1>5. ASSUME NEW g, g.at \in Stages, g.fd = f.fd,
             NEW fd, fd \in Fd => accepts[fd] # 0,
             NEW pkt, pkt.op \in {"OFFLINE", "ALLOW_DISCONNECT"}, Send(t, fd, pkt, g, g)
      PROVE  PInv'
  <2>1. Inherits(f, g)
    BY <1>3, <1>5, LeavingGoes
  <2> QED
    BY <1>1, <1>3, <1>5, <2>1, SendKeeps
<1>6. CASE OffQuery(t)
  <2>1. PICK g, h : /\ g = [f EXCEPT !.at = "off_row", !.rows = friends[f.id]]
                    /\ h = [f EXCEPT !.at = "off_bye", !.wild = TRUE]
    OBVIOUS
  <2>2. g.at \in Stages /\ g.fd = f.fd /\ h.at \in Stages /\ h.fd = f.fd
    BY <1>3, <2>1 DEF FrameType
  <2>3. (Resume(t, g) \/ Resume(t, h)) /\ Local
    BY <1>1, <1>6, <2>1 DEF OffQuery
  <2> QED
    BY <1>4, <2>2, <2>3
<1>7. CASE OffRow(t)
  <2>1. PICK g : /\ g.at \in {"off_row", "off_tell", "off_bye"} /\ g.fd = Top(t).fd
                 /\ Resume(t, g) /\ Local
    BY <1>7, NextRowGoes DEF OffRow
  <2> QED
    BY <1>1, <1>4, <2>1
<1>8. CASE OffTell(t)
  <2>1. PICK g, pkt : /\ g = [f EXCEPT !.at = "off_row"]
                      /\ pkt = [op |-> "OFFLINE", id |-> f.id]
    OBVIOUS
  <2>2. g.at \in Stages /\ g.fd = f.fd /\ pkt.op = "OFFLINE"
    BY <1>3, <2>1 DEF FrameType
  <2>3. PICK q \in Deref(f.q) : Send(t, q.fd, pkt, g, g)
    BY <1>1, <1>8, <2>1 DEF OffTell
  <2>4. q.fd \in Fd => accepts[q.fd] # 0
    BY DerefFd
  <2> HIDE DEF Stages
  <2> QED
    BY <1>5, <2>2, <2>3, <2>4
<1>9. CASE OffBye(t)
  <2>1. PICK g, pkt : /\ g = [f EXCEPT !.at = "off_close"]
                      /\ pkt = [op |-> "ALLOW_DISCONNECT"]
    OBVIOUS
  <2>2. g.at \in Stages /\ g.fd = f.fd /\ pkt.op = "ALLOW_DISCONNECT"
    BY <1>3, <2>1 DEF FrameType
  <2>3. Send(t, f.fd, pkt, g, g)
    BY <1>1, <1>9, <2>1 DEF OffBye
  <2>4. f.fd \in Fd => accepts[f.fd] # 0
    BY <1>1, <1>2, TopFd
  <2> HIDE DEF Stages
  <2> QED
    BY <1>5, <2>2, <2>3, <2>4
<1> QED
  BY <1>6, <1>7, <1>8, <1>9
----------------------------------------------------------------------------
(* The steps of login_action that decide who is in the list.               *)
LEMMA TopWorks ==
    ASSUME IInv, PInv, NEW t \in Thread, stack[t] # << >>, Asking(Top(t)),
           NEW c, Own(Top(t).fd, c)
    PROVE  /\ c \in Conn /\ Sound(c) /\ LoginsRight(c)
           /\ Works(c, t, Len(stack[t])) /\ Worked(c)
           /\ cli[c] = "log_wait" /\ Asks(c) = {} /\ Answers(c) = {}
           /\ mine[c] = Top(t).id /\ ~Granted(c)
<1>1. c \in Conn /\ Sound(c) /\ fdt[Top(t).fd] = c
  BY DEF Own, Sound
<1>2. LoginsRight(c)
  BY <1>1 DEF PInv, OneLogin
<1>3. Works(c, t, Len(stack[t])) /\ Worked(c)
  BY <1>1, TopActive DEF Works, Worked, Top
<1>4. cli[c] = "log_wait" /\ Asks(c) = {} /\ Answers(c) = {}
  BY <1>2, <1>3 DEF LoginsRight
<1>5. mine[c] = Top(t).id
  BY <1>2, <1>3, TopActive DEF LoginsRight, Top
<1>6. ~Granted(c)
  BY <1>4 DEF Granted
<1> QED
  BY <1>1, <1>2, <1>3, <1>4, <1>5, <1>6

LEMMA LogFriendsHolds ==
    ASSUME IInv, PInv, NEW t \in Thread, LogFriends(t), up', UNCHANGED clientVars
    PROVE  PInv'
<1>1. PICK f : f = Top(t)
  OBVIOUS
<1>2. At(t, "log_friends") /\ Local
  BY DEF LogFriends
<1>3. stack[t] # << >> /\ f \in FrameType /\ f.at = "log_friends" /\ Plainly(Top(t))
  BY <1>1, <1>2, AtPlain DEF Served
<1>4. CASE Resume(t, [f EXCEPT !.at = "log_row", !.rows = friends[f.id]])
  <2>1. PICK g : g = [f EXCEPT !.at = "log_row", !.rows = friends[f.id]]
    OBVIOUS
  <2>2. g.at = "log_row" /\ g.fd = f.fd
    BY <1>3, <2>1 DEF FrameType
  <2>3. g.at \in Inert
    BY <2>2 DEF Inert, PCs
  <2> QED
    BY <1>1, <1>2, <1>4, <2>1, <2>2, <2>3, InertLocal DEF Served
<1>5. CASE Call(t, [f EXCEPT !.at = "done"], Frame("off_ctl", f.fd, f.id, NoPkt))
  <2>1. PICK g, h : /\ g = Frame("off_ctl", f.fd, f.id, NoPkt)
                    /\ h = [f EXCEPT !.at = "done"]
    OBVIOUS
  <2>2. g.at = "off_ctl" /\ g.fd = f.fd /\ g.id = f.id
    BY <2>1 DEF Frame
  <2>3. h.at = "done" /\ h.fd = f.fd
    BY <1>3, <2>1 DEF FrameType
  <2>4. h.at \in Inert
    BY <2>3 DEF Inert, PCs
  <2>5. FdRight(f) /\ Duty(f)
    BY <1>1, <1>3, TopDuty
  <2>6. Follows(f, h) /\ FdRight(h) /\ Duty(h)
    BY <2>3, <2>4, <2>5, InertRight, InheritRight
  <2>7. ~(g.id < 0)
    <3>1. f \in Frames
      BY <1>1, <1>3, TopActive
    <3>2. f.id \in Nat
      BY <1>3, <3>1, IdAssumption DEF Frames, LoginRight, LogPCs, LogAfterAdd,
                                      IInv, ServerInv, TablesRight
    <3> QED
      BY <2>2, <3>2
  <2>8. ~Asking(g) /\ ~Closing(g) /\ FdRight(g)
    BY <2>2, <2>5, <2>7 DEF Asking, Adding, Closing, FdRight
  <2>9. Duty(g)
    BY <1>3, <2>2, <2>5, <2>8 DEF Duty
  <2>10. Turn(t, h, {g})
    BY <1>3, <1>5, <2>1, OnlineTypes, CallTurn
  <2> QED
    BY <1>1, <1>2, <1>3, <2>6, <2>8, <2>9, <2>10, LocalStill, LocalKeeps
<1> QED
  BY <1>1, <1>4, <1>5 DEF LogFriends

LEMMA LogAddrHolds ==
    ASSUME IInv, PInv, NEW t \in Thread, LogAddr(t), up', UNCHANGED clientVars
    PROVE  PInv'
<1>1. PICK f : f = Top(t)
  OBVIOUS
<1>2. At(t, "log_addr") /\ Local
  BY DEF LogAddr
<1>3. stack[t] # << >> /\ f \in FrameType /\ f.at = "log_addr" /\ Plainly(Top(t))
  BY <1>1, <1>2, AtPlain DEF Served
<1>4. FdRight(f) /\ Duty(f) /\ Asking(f) /\ f.fd \in Fd
  BY <1>1, <1>3, TopDuty DEF FdRight, Asking, Adding
<1> DEFINE temp == [id |-> f.id, fd |-> f.fd, addr |-> fdt[f.fd]]
<1>5. CASE IsOpen(f.fd) /\ Resume(t, [f EXCEPT !.at = "log_add", !.p = temp])
  <2>1. PICK g : g = [f EXCEPT !.at = "log_add", !.p = temp]
    OBVIOUS
  <2>2. /\ g.at = "log_add" /\ g.fd = f.fd /\ g.id = f.id
        /\ g.p.id = f.id /\ g.p.fd = f.fd /\ g.p.addr = fdt[f.fd]
    BY <1>3, <2>1 DEF FrameType
  <2>3. fdt[f.fd] \in Conn
    BY <1>4, <1>5, OnlineTypes DEF IsOpen
  <2>4. Follows(f, g) /\ FdRight(g)
    BY <1>3, <1>4, <2>2 DEF Follows, FdRight, Asking, Adding
  <2>5. ~Closing(g) /\ ~Removing(g)
    BY <2>2 DEF Closing, Removing
  <2>6. Duty(g)
    BY <2>2, <2>3, <2>5, ConnAssumption DEF Duty
  <2>7. Turn(t, g, {})
    BY <1>3, <1>5, <2>1, OnlineTypes, ResumeTurn
  <2> QED
    BY <1>1, <1>2, <1>3, <2>4, <2>6, <2>7, LocalStill, LocalKeeps
<1>6. CASE /\ IsOpen(f.fd) => link[fdt[f.fd]] \in {"gone", "reaped"}
           /\ Call(t, [f EXCEPT !.at = "done"], Frame("off_ctl", f.fd, -1, NoPkt))
  <2>1. PICK g, h : /\ g = Frame("off_ctl", f.fd, -1, NoPkt)
                    /\ h = [f EXCEPT !.at = "done"]
    OBVIOUS
  <2>2. g.at = "off_ctl" /\ g.fd = f.fd /\ g.id = -1
    BY <2>1 DEF Frame
  <2>3. h.at = "done" /\ h.fd = f.fd
    BY <1>3, <2>1 DEF FrameType
  <2>4. h.at \in Inert
    BY <2>3 DEF Inert, PCs
  <2>6. Follows(f, h) /\ FdRight(h) /\ Duty(h)
    BY <1>4, <2>3, <2>4, InertRight, InheritRight
  <2>7. ~Asking(g) /\ ~Removing(g) /\ FdRight(g)
    BY <1>4, <2>2 DEF Asking, Adding, Removing, FdRight
  <2>8. ASSUME NEW c \in Conn, Own(f.fd, c) PROVE FALSE
    <3>1. cli[c] = "log_wait"
      BY <1>1, <1>3, <1>4, <2>8, TopWorks
    <3>2. f.fd \in Fd /\ fdt[f.fd] = c /\ c # NoConn
      BY <2>8, ConnAssumption DEF Own
    <3>3. link[c] \in {"gone", "reaped"}
      BY <1>6, <3>2 DEF IsOpen
    <3>4. link[c] = "open"
      BY <3>1, <3>2 DEF PInv, LinksRight, Ended
    <3> QED
      BY <3>3, <3>4
  <2>9. Duty(g)
    BY <2>2, <2>8 DEF Duty
  <2>10. Turn(t, h, {g})
    BY <1>3, <1>6, <2>1, OnlineTypes, CallTurn
  <2> QED
    BY <1>1, <1>2, <1>3, <2>6, <2>7, <2>9, <2>10, LocalStill, LocalKeeps
<1> QED
  BY <1>1, <1>5, <1>6 DEF LogAddr

(* While a login is being worked on its client has no entry.               *)
LEMMA AddsFirst ==
    ASSUME IInv, PInv, NEW t \in Thread, stack[t] # << >>, Top(t).at = "log_add",
           NEW c, Own(Top(t).fd, c)
    PROVE  Absent(Top(t).fd)
<1> SUFFICES ASSUME NEW i \in DOMAIN online, online[i].fd = Top(t).fd PROVE FALSE
  BY DEF Absent
<1>1. Asking(Top(t))
  BY DEF Asking, Adding
<1>2. /\ c \in Conn /\ LoginsRight(c) /\ Works(c, t, Len(stack[t])) /\ ~Granted(c)
  BY <1>1, TopWorks
<1>3. EntryRight(online[i])
  BY DEF PInv, EntriesRight
<1>4. accepts[online[i].fd] = 1 /\ fdt[online[i].fd] = c
  BY DEF Own
<1>5. online[i].addr = c
  BY <1>2, <1>3, <1>4, ConnAssumption DEF EntryRight
<1>6. PICK h \in Active : h.at = "log_ok" /\ h.fd = Top(t).fd
  BY <1>2, <1>3, <1>4, <1>5 DEF EntryRight
<1>7. PICK u \in Thread : \E k \in DOMAIN stack[u] : h = stack[u][k]
  BY ActiveAt
<1>8. PICK k \in DOMAIN stack[u] : h = stack[u][k]
  BY <1>7
<1>9. Works(c, u, k)
  BY <1>4, <1>6, <1>8 DEF Works, Asking
<1>10. Len(stack[t]) \in DOMAIN stack[t]
  BY TopActive
<1>11. u = t /\ k = Len(stack[t])
  BY <1>2, <1>9, <1>10 DEF LoginsRight
<1> QED
  BY <1>6, <1>8, <1>11 DEF Top

LEMMA LogAddHolds ==
    ASSUME IInv, PInv, NEW t \in Thread, LogAdd(t), up', UNCHANGED clientVars
    PROVE  PInv'
<1>1. PICK f : f = Top(t)
  OBVIOUS
<1>2. /\ At(t, "log_add") /\ StillNet /\ StillClients
      /\ online' = Append(online, f.p)
  BY <1>1 DEF LogAdd, netVars, ioVars, ghostVars, clientVars, StillNet, StillClients
<1>3. /\ stack[t] # << >> /\ f \in FrameType /\ f.at = "log_add" /\ Plainly(Top(t))
      /\ f \in Active
  BY <1>1, <1>2, AtPlain, TopActive DEF Served
<1>4. /\ FdRight(f) /\ Duty(f) /\ Asking(f) /\ f.fd \in Fd /\ accepts[f.fd] # 0
      /\ f.p.fd = f.fd /\ f.p.id = f.id
  BY <1>1, <1>3, TopDuty DEF FdRight, Asking, Adding
<1>5. PICK g : g = [f EXCEPT !.at = "log_ok"]
  OBVIOUS
<1>6. g.at = "log_ok" /\ g.fd = f.fd /\ g.id = f.id
  BY <1>3, <1>5 DEF FrameType
<1>7. Turn(t, g, {}) /\ g \in Active'
  BY <1>1, <1>2, <1>3, <1>5, OnlineTypes, ResumeTurn DEF LogAdd, Goto
<1>8. Follows(Top(t), g) /\ FdRight(g) /\ ~Closing(g) /\ ~Removing(g)
  BY <1>1, <1>4, <1>6 DEF Follows, FdRight, Asking, Adding, Closing, Removing
<1>9. Steady
  BY <1>2, StillSteady
<1>10. PICK p, n : p = f.p /\ n = Len(online)
  OBVIOUS
<1>11. /\ n \in Nat /\ DOMAIN online = 1 .. n
       /\ DOMAIN online' = 1 .. n + 1 /\ online'[n + 1] = p
       /\ \A i \in 1 .. n : online'[i] = online[i]
  <2>1. PICK R : R = Entry \cup {p}
    OBVIOUS
  <2>2. online \in Seq(R) /\ p \in R
    BY <2>1, OnlineTypes, SeqMono
  <2> QED
    BY <1>2, <1>10, <2>2, AppendProperties
<1>12. \A i \in DOMAIN online' : i \in DOMAIN online \/ i = n + 1
  BY <1>11
<1>13. ASSUME NEW c, Own(f.fd, c) PROVE Absent(f.fd) /\ ~Granted(c) /\ mine[c] = f.id
                                        /\ cli[c] = "log_wait"
  BY <1>1, <1>3, <1>4, <1>13, AddsFirst, TopWorks
<1>14. LinksRight' /\ OneLogin'
  BY <1>7, <1>8, <1>9, SteadyMild, LinksKept, LoginsKept DEF PInv, Steady, TxSame
<1>15. FdsRight'
  <2>1. \A h : FdRight(h) => FdRight(h)'
    BY <1>2 DEF FdRight, StillNet
  <2>2. \A h \in Active' : FdRight(h)
    BY <1>7, <1>8, TurnActive DEF PInv, FdsRight
  <2>3. \A i \in DOMAIN online' : online'[i].fd \in Fd /\ accepts[online'[i].fd] # 0
    BY <1>4, <1>10, <1>11, <1>12 DEF PInv, FdsRight
  <2>4. accepts' = accepts
    BY <1>2 DEF StillNet
  <2> QED
    BY <2>1, <2>2, <2>3, <2>4 DEF FdsRight
<1>16. ASSUME NEW fd, fd # f.fd
       PROVE  /\ Absent(fd) => Absent(fd)'
              /\ \A id : Named(fd, id) => Named(fd, id)'
  BY <1>4, <1>10, <1>11, <1>12, <1>16 DEF Absent, Named
<1>17. Duties'
  <2> SUFFICES ASSUME NEW h \in Active' PROVE Duty(h)'
    BY DEF Duties
  <2>1. Duty(h)
    <3>1. h \in Active \/ h = g
      BY <1>7, TurnActive
    <3>2. Duty(g)
      BY <1>6, <1>8 DEF Duty
    <3> QED
      BY <3>1, <3>2 DEF PInv, Duties
  <2>2. h = g \/ h \in Active
    BY <1>7, TurnActive
  <2>3. UNCHANGED <<fdt, accepts, cli>>
    BY <1>9 DEF Steady
  <2>4. ASSUME NEW c \in Conn, Own(h.fd, c)'
        PROVE  /\ h.at = "find" => cli'[c] = "left"
               /\ Closing(h) => Granted(c)' /\ Absent(h.fd)'
               /\ Removing(h) \/ h.at = "log_friends" => Granted(c)' /\ Named(h.fd, h.id)'
    <3>1. Own(h.fd, c)
      BY <1>9, <2>4, SteadySame
    <3>2. Granted(c) => Granted(c)' /\ h.fd # f.fd
      BY <1>9, <1>13, <3>1, SteadySame
    <3> QED
      BY <1>16, <2>1, <2>3, <3>1, <3>2 DEF Duty
  <2> QED
    BY <2>1, <2>3, <2>4 DEF Duty
<1>18. OfflinesRight'
  <2> SUFFICES ASSUME NEW c \in Conn, NEW fd \in Fd, Own(fd, c)',
                      NEW i \in DOMAIN rx'[c], rx'[c][i].op = "OFFLINE"
               PROVE  /\ Granted(c)'
                      /\ \A j \in DOMAIN online' :
                            online'[j].fd = fd => online'[j].id = rx'[c][i].id
    BY DEF OfflinesRight, Named
  <2>1. rx' = rx /\ Own(fd, c)
    BY <1>9, SteadySame DEF Steady
  <2>2. Granted(c) /\ Named(fd, rx[c][i].id)
    BY <2>1 DEF PInv, OfflinesRight
  <2>3. Granted(c)' /\ fd # f.fd
    BY <1>9, <1>13, <2>1, <2>2, SteadySame
  <2>4. PICK id : id = rx[c][i].id
    OBVIOUS
  <2>5. Named(fd, id)'
    BY <1>16, <2>2, <2>3, <2>4
  <2> QED
    BY <2>1, <2>3, <2>4, <2>5 DEF Named
<1>19. EntriesRight'
  <2>1. \A i \in DOMAIN online : online'[i] = online[i]
    BY <1>11
  <2>2. ASSUME NEW e, EntryRight(e) PROVE EntryRight(e)'
    <3>1. link' = link
      BY <1>2 DEF StillNet
    <3> QED
      BY <1>3, <1>7, <1>9, <2>2, <3>1, SteadyMild, EntryPlain DEF Plainly
  <2>3. EntryRight(p)'
    <3>1. UNCHANGED <<fdt, accepts, cli, mine, link>>
      BY <1>2 DEF StillNet, StillClients
    <3>2. accepts[p.fd] = 1 =>
             /\ p.addr \in Conn /\ fdt[p.fd] \in {p.addr, NoConn}
             /\ fdt[p.fd] = NoConn => cli[p.addr] = "dead"
      BY <1>3, <1>4, <1>10 DEF Duty
    <3>3. ASSUME Own(p.fd, p.addr)'
          PROVE  /\ \E h \in Active' : h.at = "log_ok" /\ h.fd = p.fd
                 /\ p.id = mine'[p.addr]
                 /\ link'[p.addr] \in {"open", "gone"}
      <4>1. Own(f.fd, p.addr)
        BY <1>4, <1>9, <1>10, <3>3, SteadySame
      <4>2. mine[p.addr] = f.id /\ cli[p.addr] = "log_wait"
        BY <1>13, <4>1
      <4>3. link[p.addr] = "open"
        BY <4>1, <4>2 DEF Own, PInv, LinksRight, Ended
      <4> QED
        BY <1>4, <1>6, <1>7, <1>10, <3>1, <4>2, <4>3
    <3> QED
      BY <3>1, <3>2, <3>3 DEF EntryRight
  <2>4. ASSUME NEW i \in DOMAIN online' PROVE EntryRight(online[i])'
    <3>1. CASE i \in DOMAIN online
      <4>1. PICK e : e = online[i] /\ e = online'[i]
        BY <2>1, <3>1
      <4>2. EntryRight(e)'
        BY <2>2, <3>1, <4>1 DEF PInv, EntriesRight
      <4> QED
        BY <4>1, <4>2
    <3>2. CASE i = n + 1
      <4>1. p = online'[i]
        BY <1>11, <3>2
      <4> QED
        BY <2>3, <4>1
    <3> QED
      BY <1>12, <3>1, <3>2
  <2>5. ASSUME NEW i \in DOMAIN online', NEW j \in DOMAIN online', i # j,
               online'[i].fd = online'[j].fd, Own(online[i].fd, online[i].addr)'
        PROVE  FALSE
    <3>1. PICK fd, c : fd = online'[i].fd /\ c = online'[i].addr
      OBVIOUS
    <3>2. Own(fd, c)
      BY <1>9, <2>5, <3>1, SteadySame
    <3>3. CASE i \in DOMAIN online /\ j \in DOMAIN online
      BY <2>1, <2>5, <3>1, <3>2, <3>3 DEF PInv, EntriesRight
    <3>4. CASE i = n + 1 \/ j = n + 1
      <4>1. fd = f.fd
        BY <1>4, <1>10, <1>11, <2>5, <3>1, <3>4
      <4>2. Absent(fd)
        BY <1>13, <3>2, <4>1
      <4>3. i \in DOMAIN online \/ j \in DOMAIN online
        BY <1>12, <2>5
      <4> QED
        BY <2>1, <2>5, <3>1, <4>2, <4>3 DEF Absent
    <3> QED
      BY <1>12, <3>3, <3>4
  <2>6. \A i \in DOMAIN online' : EntryRight(online[i])'
    BY <2>4
  <2>7. \A i, j \in DOMAIN online' :
           online'[i].fd = online'[j].fd /\ Own(online[i].fd, online[i].addr)' => i = j
    BY <2>5
  <2> QED
    BY <2>6, <2>7 DEF EntriesRight
<1>20. ClaimsRight'
  <2>1. ASSUME NEW id, NEW fd, Claimed(id, fd)' PROVE Claimed(id, fd)
    <3>1. CASE \E i \in DOMAIN online' : online'[i].id = id /\ online'[i].fd = fd
      <4>1. PICK i \in DOMAIN online' : online'[i].id = id /\ online'[i].fd = fd
        BY <3>1
      <4>2. CASE i \in DOMAIN online
        BY <1>11, <4>1, <4>2 DEF Claimed
      <4>3. CASE i = n + 1
        <5>1. f.id = id /\ f.fd = fd /\ Adding(f)
          BY <1>3, <1>4, <1>10, <1>11, <4>1, <4>3 DEF Adding
        <5> QED
          BY <1>3, <5>1 DEF Claimed
      <4> QED
        BY <1>12, <4>2, <4>3
    <3>2. CASE \E h \in Active' : Adding(h) /\ h.id = id /\ h.fd = fd
      <4>1. PICK h \in Active' : Adding(h) /\ h.id = id /\ h.fd = fd
        BY <3>2
      <4>2. h # g
        BY <1>6, <4>1 DEF Adding
      <4>3. h \in Active
        BY <1>7, <4>2, TurnActive
      <4> QED
        BY <4>1, <4>3 DEF Claimed
    <3> QED
      BY <2>1, <3>1, <3>2 DEF Claimed
  <2> QED
    BY <1>9, <2>1, SteadyClaims DEF PInv
<1> QED
  BY <1>14, <1>15, <1>17, <1>18, <1>19, <1>20 DEF PInv
----------------------------------------------------------------------------
(* Writes whose packets matter: the answer to a login, and a new id.       *)
LEMMA PostAt ==
    ASSUME tx \in [Conn -> Seq(Replies)], NEW c \in Conn, NEW pkt,
           tx' = [tx EXCEPT ![c] = Append(@, pkt)]
    PROVE  /\ \A d \in Conn \ {c} : tx'[d] = tx[d]
           /\ \E n \in Nat :
                 /\ DOMAIN tx[c] = 1 .. n /\ n + 1 \notin 1 .. n
                 /\ DOMAIN tx'[c] = (1 .. n) \cup {n + 1} /\ tx'[c][n + 1] = pkt
                 /\ \A i \in 1 .. n : tx'[c][i] = tx[c][i]
<1>1. \A d \in Conn \ {c} : tx'[d] = tx[d]
  OBVIOUS
<1>2. PICK R : R = Replies \cup {pkt}
  OBVIOUS
<1>3. tx[c] \in Seq(R) /\ pkt \in R
  BY <1>2, SeqMono
<1>4. PICK n : n = Len(tx[c])
  OBVIOUS
<1>5. /\ n \in Nat /\ DOMAIN tx[c] = 1 .. n
      /\ DOMAIN tx'[c] = 1 .. n + 1 /\ tx'[c][n + 1] = pkt
      /\ \A i \in 1 .. n : tx'[c][i] = tx[c][i]
  BY <1>3, <1>4, AppendProperties
<1>6. 1 .. n + 1 = (1 .. n) \cup {n + 1} /\ n + 1 \notin 1 .. n
  BY <1>5
<1> QED
  BY <1>1, <1>5, <1>6

LEMMA PostMild ==
    ASSUME IInv, NEW c \in Conn, NEW pkt, link[c] = "open",
           tx' = [tx EXCEPT ![c] = Append(@, pkt)],
           UNCHANGED <<link, rx, fdt, accepts, cli, mine>>
    PROVE  Mild
<1>1. \A d \in Conn : Waiting(d) => tx'[d] = tx[d]
  BY OnlineTypes, PostAt DEF Waiting
<1>2. ASSUME NEW d \in Conn, NEW i \in Answers(d)
      PROVE  i \in Answers(d)' /\ tx'[d][i] = tx[d][i]
  <2>1. i \in DOMAIN tx[d] /\ tx[d][i].op = "LOGIN_FEEDBACK"
    BY <1>2 DEF Answers
  <2>2. i \in DOMAIN tx'[d] /\ tx'[d][i] = tx[d][i]
    BY <2>1, OnlineTypes, PostAt
  <2> QED
    BY <2>1, <2>2 DEF Answers
<1> QED
  BY <1>1, <1>2 DEF Mild, LinkSame

LEMMA WriteMild ==
    ASSUME IInv, NEW t \in Thread, NEW fd, NEW pkt, NEW ok, NEW err,
           WriteServer(t, fd, pkt, ok, err), up',
           UNCHANGED <<fdt, accepts, cli, mine>>
    PROVE  /\ Mild /\ rx' = rx
           /\ \A c \in Conn : link[c] = "gone" => link'[c] = "gone"
           /\ \/ \E c \in Conn : /\ fd \in Fd /\ c = fdt[fd] /\ link[c] = "open"
                                 /\ tx' = [tx EXCEPT ![c] = Append(@, pkt)]
                                 /\ Resume(t, ok) /\ UNCHANGED <<link, rx>>
              \/ /\ tx' = tx
                 /\ IsOpen(fd) => link[fdt[fd]] \in {"gone", "reaped"}
                 /\ Resume(t, ok) \/ Call(t, err, ErrorFrame(fd))
<1> USE OnlineTypes
<1>1. CASE /\ IsOpen(fd) /\ link[fdt[fd]] = "open"
           /\ tx' = [tx EXCEPT ![fdt[fd]] = Append(@, pkt)]
           /\ Resume(t, ok)
           /\ UNCHANGED <<link, rx, up>>
  <2>1. fd \in Fd /\ fdt[fd] \in Conn
    BY <1>1 DEF IsOpen
  <2>2. Mild
    BY <1>1, <2>1, PostMild
  <2> QED
    BY <1>1, <2>1, <2>2
<1>2. CASE /\ IsOpen(fd) /\ link[fdt[fd]] \in {"gone", "reaped"}
           /\ link' = [link EXCEPT ![fdt[fd]] = "gone"]
           /\ Resume(t, ok)
           /\ UNCHANGED <<rx, tx, up>>
  <2>1. PICK c \in Conn : c = fdt[fd]
    BY <1>2 DEF IsOpen
  <2>2. \A d \in Conn : LinkSame(d) /\ (link[d] = "gone" => link'[d] = "gone")
    BY <1>2, <2>1 DEF LinkSame
  <2>3. Mild
    BY <1>2, <2>2 DEF Mild, Answers
  <2> QED
    BY <1>2, <2>2, <2>3
<1>3. CASE /\ Failed(t, fd, err)
           /\ IsOpen(fd) => link[fdt[fd]] \in {"gone", "reaped"}
  <2>1. UNCHANGED <<link, rx, tx>>
    BY <1>3 DEF Failed, netVars
  <2>2. Mild
    BY <2>1 DEF Mild, LinkSame, Answers
  <2> QED
    BY <1>3, <2>1, <2>2 DEF Failed
<1> QED
  BY <1>1, <1>2, <1>3 DEF WriteServer

(* The answer to c's login: the only one, and nobody works on the login    *)
(* any more.                                                               *)
LEMMA AnswerPosted ==
    ASSUME IInv, PInv, NEW t \in Thread, stack[t] # << >>, Asking(Top(t)),
           NEW c \in Conn, fdt[Top(t).fd] = c, link[c] = "open",
           NEW pkt, pkt.op = "LOGIN_FEEDBACK",
           tx' = [tx EXCEPT ![c] = Append(@, pkt)],
           NEW ok, ~Asking(ok), Resume(t, ok),
           UNCHANGED <<link, rx, fdt, accepts, cli, mine>>
    PROVE  /\ OneLogin'
           /\ Own(Top(t).fd, c) /\ pkt.flag = 0 => Granted(c)'
<1>1. Mild
  BY PostMild
<1>2. Turn(t, ok, {}) /\ Follows(Top(t), ok)
  BY OnlineTypes, ResumeTurn DEF Follows, Asking
<1>3. ASSUME NEW d \in Conn, NEW u \in Thread, NEW i \in DOMAIN stack'[u], Works(d, u, i)'
      PROVE  /\ i \in DOMAIN stack[u] /\ Works(d, u, i)
             /\ stack'[u][i].id = stack[u][i].id
  BY <1>2, <1>3, WorksKept
<1>4. PICK n \in Nat :
         /\ DOMAIN tx[c] = 1 .. n /\ n + 1 \notin 1 .. n
         /\ DOMAIN tx'[c] = (1 .. n) \cup {n + 1} /\ tx'[c][n + 1] = pkt
         /\ \A i \in 1 .. n : tx'[c][i] = tx[c][i]
  <2>1. tx \in [Conn -> Seq(Replies)]
    BY OnlineTypes
  <2>2. tx' = [tx EXCEPT ![c] = Append(@, pkt)]
    OBVIOUS
  <2> QED
    BY ONLY <2>1, <2>2, PostAt
<1>5. Answers(c)' = Answers(c) \cup {n + 1}
  BY <1>4 DEF Answers
<1>6. ASSUME NEW d \in Conn, Sound(d)' PROVE LoginsRight(d)'
  <2>1. Sound(d) /\ LoginsRight(d)
    BY <1>1, <1>6, MildSame DEF PInv, OneLogin
  <2>2. Asks(d)' = Asks(d) /\ cli'[d] = cli[d] /\ mine'[d] = mine[d] /\ rx'[d] = rx[d]
    BY DEF Asks
  <2>3. \A u, v \in Thread : \A i \in DOMAIN stack'[u], j \in DOMAIN stack'[v] :
           Works(d, u, i)' /\ Works(d, v, j)' => u = v /\ i = j
    BY <1>3, <2>1 DEF LoginsRight
  <2>4. \A u \in Thread : \A i \in DOMAIN stack'[u] :
           Works(d, u, i)' => stack'[u][i].id = mine'[d]
    BY <1>3, <2>1, <2>2 DEF LoginsRight
  <2>5. Worked(d)' => Worked(d)
    BY <1>3 DEF Worked
  <2>6. \A i \in Asks(d)' : rx'[d][i].id = mine'[d]
    BY <2>1, <2>2 DEF LoginsRight
  <2>7. CASE d # c
    <3>1. tx'[d] = tx[d]
      BY <2>7, OnlineTypes, PostAt
    <3>2. Answers(d)' = Answers(d)
      BY <3>1 DEF Answers
    <3> QED
      BY <2>1, <2>2, <2>3, <2>4, <2>5, <2>6, <3>2 DEF LoginsRight
  <2>8. CASE d = c
    <3>1. Works(c, t, Len(stack[t])) /\ Worked(c)
      BY TopActive DEF Works, Worked, Top
    <3>2. Asks(c) = {} /\ Answers(c) = {} /\ cli[c] = "log_wait"
      BY <2>1, <2>8, <3>1 DEF LoginsRight
    <3>3. ASSUME Worked(c)' PROVE FALSE
      <4>1. PICK u \in Thread : \E i \in DOMAIN stack'[u] : Works(c, u, i)'
        BY <3>3 DEF Worked
      <4>2. PICK i \in DOMAIN stack'[u] : Works(c, u, i)'
        BY <4>1
      <4>3. i \in DOMAIN stack[u] /\ Works(c, u, i)
        BY <1>3, <4>2
      <4>4. u = t /\ i = Len(stack[t])
        BY <2>1, <2>8, <3>1, <4>3, TopActive DEF LoginsRight
      <4>5. stack'[u][i] = ok
        BY <1>2, <4>2, <4>4 DEF Turn
      <4> QED
        BY <4>2, <4>5 DEF Works
    <3>4. Answers(c)' = {n + 1}
      BY <1>5, <3>2
    <3> QED
      BY <2>2, <2>3, <2>4, <2>6, <2>8, <3>2, <3>3, <3>4 DEF LoginsRight
  <2> QED
    BY <2>7, <2>8
<1>7. ASSUME Own(Top(t).fd, c), pkt.flag = 0 PROVE Granted(c)'
  <2>1. cli'[c] = "log_wait"
    BY <1>7, TopWorks
  <2> QED
    BY <1>4, <1>5, <1>7, <2>1 DEF Granted
<1> QED
  BY <1>6, <1>7 DEF OneLogin

(* A client that waits for the answer to its login has not ended.          *)
LEMMA AskingOpen ==
    ASSUME IInv, PInv, NEW t \in Thread, stack[t] # << >>, Asking(Top(t)),
           IsOpen(Top(t).fd) => link[fdt[Top(t).fd]] \in {"gone", "reaped"},
           NEW c, Own(Top(t).fd, c)
    PROVE  FALSE
<1>1. cli[c] = "log_wait"
  BY TopWorks
<1>2. Top(t).fd \in Fd /\ c \in Conn /\ fdt[Top(t).fd] = c /\ c # NoConn
  BY ConnAssumption DEF Own
<1>3. link[c] \in {"gone", "reaped"}
  BY <1>2 DEF IsOpen
<1>4. link[c] = "open"
  BY <1>1, <1>2 DEF PInv, LinksRight, Ended
<1> QED
  BY <1>3, <1>4

(* The entry of a client has the id it logs in with.                       *)
LEMMA OwnNamed ==
    ASSUME IInv, PInv, NEW fd, NEW c, Own(fd, c), cli[c] \in {"log_wait", "in"}
    PROVE  Named(fd, mine[c])
<1> SUFFICES ASSUME NEW i \in DOMAIN online, online[i].fd = fd
             PROVE  online[i].id = mine[c]
  BY DEF Named
<1>1. EntryRight(online[i])
  BY DEF PInv, EntriesRight
<1>2. c \in Conn /\ accepts[fd] = 1 /\ fdt[fd] = c
  BY DEF Own
<1>3. online[i].addr = c
  BY <1>1, <1>2, ConnAssumption DEF EntryRight
<1> QED
  BY <1>1, <1>2, <1>3 DEF EntryRight

LEMMA PostHolds ==
    ASSUME IInv, NEW c \in Conn, NEW pkt, pkt.op # "REGISTER_SUCCESS",
           tx' = [tx EXCEPT ![c] = Append(@, pkt)], UNCHANGED <<rx, told>>
    PROVE  \A d \in Conn : \A id : Holds(d, id)' => Holds(d, id)
<1> SUFFICES ASSUME NEW d \in Conn, NEW id, Sent(d, id)' PROVE Sent(d, id)
  BY DEF Holds, Asks
<1>1. tx \in [Conn -> Seq(Replies)]
  BY OnlineTypes
<1>2. CASE d # c
  <2>1. tx'[d] = tx[d]
    BY <1>2, <1>1
  <2> QED
    BY <2>1 DEF Sent
<1>3. CASE d = c
  <2>1. PICK i \in DOMAIN tx'[c] : tx'[c][i].op = "REGISTER_SUCCESS" /\ tx'[c][i].id = id
    BY <1>3 DEF Sent
  <2>2. i \in DOMAIN tx[c] /\ tx'[c][i] = tx[c][i]
    BY <1>1, <2>1, PostAt
  <2> QED
    BY <1>3, <2>1, <2>2 DEF Sent
<1> QED
  BY <1>2, <1>3

LEMMA LoginAnswers ==
    ASSUME IInv, PInv, NEW t \in Thread, stack[t] # << >>,
           NEW f, f = Top(t), f.at \in {"log_ok", "log_reply"},
           NEW h, h.fd = f.fd, h.id = f.id,
           h.at = IF f.at = "log_ok" THEN "log_friends" ELSE "done",
           NEW pkt, pkt.op = "LOGIN_FEEDBACK", f.at = "log_ok" => pkt.flag = 0,
           Send(t, f.fd, pkt, h, h), up', UNCHANGED clientVars
    PROVE  PInv'
<1>1. /\ WriteServer(t, f.fd, pkt, h, h)
      /\ UNCHANGED <<fdt, accepts, issued, online, cli, mine, told>>
  BY DEF Send, ioVars, ghostVars, clientVars
<1>2. /\ Mild /\ rx' = rx
      /\ \A c \in Conn : link[c] = "gone" => link'[c] = "gone"
      /\ \/ \E c \in Conn : /\ f.fd \in Fd /\ c = fdt[f.fd] /\ link[c] = "open"
                            /\ tx' = [tx EXCEPT ![c] = Append(@, pkt)]
                            /\ Resume(t, h) /\ UNCHANGED <<link, rx>>
         \/ /\ tx' = tx
            /\ IsOpen(f.fd) => link[fdt[f.fd]] \in {"gone", "reaped"}
            /\ Resume(t, h) \/ Call(t, h, ErrorFrame(f.fd))
  BY <1>1, WriteMild
<1>3. FdRight(f) /\ Asking(f) /\ Asking(Top(t))
  BY TopDuty DEF Asking
<1>4. /\ ~Asking(h) /\ ~Closing(h) /\ ~Removing(h) /\ h.at \notin {"find", "log_add"}
      /\ FdRight(h) /\ Follows(Top(t), h)
  BY <1>3 DEF Asking, Adding, Closing, Removing, FdRight, Follows
<1>5. stack \in [Thread -> Seq(Frames)]
  BY OnlineTypes
<1>6. Fewer
  BY <1>1 DEF Fewer
<1>7. ASSUME NEW c \in Conn, f.fd \in Fd, c = fdt[f.fd], link[c] = "open",
             tx' = [tx EXCEPT ![c] = Append(@, pkt)], Resume(t, h), UNCHANGED link
      PROVE  PInv'
  <2>1. Turn(t, h, {})
    BY <1>5, <1>7, ResumeTurn
  <2>2. OneLogin' /\ (Own(f.fd, c) /\ pkt.flag = 0 => Granted(c)')
    BY <1>1, <1>2, <1>3, <1>4, <1>7, AnswerPosted
  <2>3. LinksRight' /\ OfflinesRight'
    BY <1>2, <1>6, LinksKept, OfflinesKept DEF PInv
  <2>4. FdsRight'
    BY <1>1, <1>4, <1>6, <2>1, FdsKept DEF PInv
  <2>5. Duty(h)'
    <3>1. ASSUME NEW d \in Conn, Own(h.fd, d)', h.at = "log_friends"
          PROVE  Granted(d)' /\ Named(h.fd, h.id)'
      <4>1. Own(f.fd, d)
        BY <1>2, <3>1, MildSame
      <4>2. d = c /\ f.at = "log_ok"
        BY <1>7, <3>1, <4>1 DEF Own
      <4>3. cli[d] = "log_wait" /\ mine[d] = f.id
        BY <1>3, <4>1, TopWorks
      <4>4. Named(h.fd, h.id)
        BY <4>1, <4>3, OwnNamed
      <4> QED
        BY <1>6, <2>2, <4>1, <4>2, <4>4, FewerSame
    <3> QED
      BY <1>4, <3>1 DEF Duty
  <2>6. Duties'
    BY <1>2, <1>6, <2>1, <2>5, DutiesKept DEF PInv
  <2>7. ASSUME NEW i \in DOMAIN online PROVE EntryRight(online[i])'
    <3>1. PICK e : e = online[i] /\ e = online'[i]
      BY <1>1
    <3>2. EntryRight(e)
      BY <3>1 DEF PInv, EntriesRight
    <3>3. ~Removes(Top(t), e)
      BY DEF Removes, Removing
    <3>4. ASSUME Own(e.fd, e.addr), Top(t).at = "log_ok", Top(t).fd = e.fd
          PROVE  Granted(e.addr)'
      BY <1>7, <2>2, <3>4 DEF Own
    <3>5. EntryRight(e)'
      BY <1>2, <1>7, <2>1, <3>2, <3>3, <3>4, EntryKept
    <3> QED
      BY <3>1, <3>5
  <2>8. EntriesRight'
    <3>1. \A i \in DOMAIN online' : EntryRight(online[i])'
      BY <1>1, <2>7
    <3>2. \A i, j \in DOMAIN online' :
             online'[i].fd = online'[j].fd /\ Own(online[i].fd, online[i].addr)' => i = j
      BY <1>1, <1>2, MildSame DEF PInv, EntriesRight
    <3> QED
      BY <3>1, <3>2 DEF EntriesRight
  <2>9. ClaimsRight'
    <3>1. \A d \in Conn : \A id : Holds(d, id)' => Holds(d, id)
      BY <1>1, <1>2, <1>7, PostHolds
    <3>2. \A id, fd : Claimed(id, fd)' => Claimed(id, fd)
      BY <1>4, <1>5, <1>6, <2>1, ClaimedKept
    <3>3. \A d \in Conn : Waiting(d)' => Waiting(d)
      BY <1>2, MildSame
    <3> QED
      BY <1>1, <3>1, <3>2, <3>3, ClaimsKept DEF PInv, Given
  <2> QED
    BY <2>2, <2>3, <2>4, <2>6, <2>8, <2>9 DEF PInv
<1>8. ASSUME tx' = tx, IsOpen(f.fd) => link[fdt[f.fd]] \in {"gone", "reaped"},
             Resume(t, h) \/ Call(t, h, ErrorFrame(f.fd))
      PROVE  PInv'
  <2>1. PICK g : g = ErrorFrame(f.fd)
    OBVIOUS
  <2>2. Turn(t, h, {}) \/ Turn(t, h, {g})
    BY <1>5, <1>8, <2>1, ResumeTurn, CallTurn
  <2>3. Turn(t, h, {g})
    BY <2>2 DEF Turn
  <2>4. ~Asking(g) /\ FdRight(g) /\ Duty(g)
    BY <1>3, <1>8, <2>1, ErrorDuty DEF FdRight
  <2>5. \A c : ~Own(f.fd, c)
    BY <1>3, <1>8, AskingOpen
  <2>6. Duty(h)
    BY <1>4, <2>5 DEF Duty
  <2>7. Steady
    BY <1>1, <1>2, <1>8 DEF Steady, Mild, TxSame, Answers, Sent
  <2>8. ASSUME NEW i \in DOMAIN online PROVE EntryRight(online[i])'
    <3>1. PICK e : e = online[i] /\ e = online'[i]
      BY <1>1
    <3>2. EntryRight(e)
      BY <3>1 DEF PInv, EntriesRight
    <3>3. ~Removes(Top(t), e)
      BY DEF Removes, Removing
    <3>4. Own(e.fd, e.addr) => e.addr \in Conn /\ e.fd # f.fd
      BY <2>5 DEF Own
    <3>5. EntryRight(e)'
      BY <1>2, <2>3, <3>2, <3>3, <3>4, EntryKept
    <3> QED
      BY <3>1, <3>5
  <2>9. (\A i \in DOMAIN online : EntryRight(online[i]))'
    BY <1>1, <2>8
  <2> QED
    BY <1>1, <1>4, <1>5, <2>3, <2>4, <2>6, <2>7, <2>9, SteadyKeeps
<1> QED
  BY <1>2, <1>7, <1>8

LEMMA LoginAnswerHolds ==
    ASSUME IInv, PInv, NEW t \in Thread, LogOk(t) \/ LogReply(t),
           up', UNCHANGED clientVars
    PROVE  PInv'
<1>1. PICK f : f = Top(t)
  OBVIOUS
<1>2. CASE LogOk(t)
  <2>1. stack[t] # << >> /\ f.at = "log_ok" /\ f \in FrameType
    BY <1>1, <1>2, AtPlain DEF LogOk
  <2>2. PICK h, pkt : /\ h = [f EXCEPT !.at = "log_friends"]
                      /\ pkt = [op |-> "LOGIN_FEEDBACK", flag |-> 0]
    OBVIOUS
  <2>3. /\ h.at = "log_friends" /\ h.fd = f.fd /\ h.id = f.id
        /\ pkt.op = "LOGIN_FEEDBACK" /\ pkt.flag = 0
    BY <2>1, <2>2 DEF FrameType
  <2>4. Send(t, f.fd, pkt, h, h)
    BY <1>1, <1>2, <2>2 DEF LogOk
  <2> QED
    BY <1>1, <2>1, <2>3, <2>4, LoginAnswers
<1>3. CASE LogReply(t)
  <2>1. stack[t] # << >> /\ f.at = "log_reply" /\ f \in FrameType
    BY <1>1, <1>3, AtPlain DEF LogReply
  <2>2. PICK h, pkt : /\ h = [f EXCEPT !.at = "done"]
                      /\ pkt = [op |-> "LOGIN_FEEDBACK", flag |-> f.flag]
    OBVIOUS
  <2>3. h.at = "done" /\ h.fd = f.fd /\ h.id = f.id /\ pkt.op = "LOGIN_FEEDBACK"
    BY <2>1, <2>2 DEF FrameType
  <2>4. Send(t, f.fd, pkt, h, h)
    BY <1>1, <1>3, <2>2 DEF LogReply
  <2> QED
    BY <1>1, <2>1, <2>3, <2>4, LoginAnswers
<1> QED
  BY <1>2, <1>3

(* The steps of Mild that keep the list.                                   *)
LEMMA MildKeeps ==
    ASSUME PInv, Mild, UNCHANGED online, NEW t \in Thread, NEW f, NEW G, Turn(t, f, G),
           stack[t] # << >> => FdRight(f) /\ (Duty(f) \/ Duty(f)'),
           \A g \in G : FdRight(g) /\ Duty(g),
           \A e : EntryRight(e) => EntryRight(e)',
           OneLogin', ClaimsRight'
    PROVE  PInv'
<1>1. Fewer
  BY DEF Fewer
<1>2. LinksRight' /\ OfflinesRight'
  BY <1>1, LinksKept, OfflinesKept DEF PInv
<1>3. FdsRight'
  BY <1>1, FdsKept DEF PInv, Mild
<1>4. Duties'
  BY <1>1, DutiesKept DEF PInv
<1>5. \A i \in DOMAIN online' : EntryRight(online[i])'
  <2> SUFFICES ASSUME NEW i \in DOMAIN online, NEW e, e = online[i], e = online'[i]
               PROVE  EntryRight(e)'
    OBVIOUS
  <2> QED
    BY DEF PInv, EntriesRight
<1>6. EntriesRight'
  BY <1>5, MildSame DEF PInv, EntriesRight
<1> QED
  BY <1>2, <1>3, <1>4, <1>6 DEF PInv

(* An id that is sent for the first time is nobody's.                      *)
LEMMA SendsNew ==
    ASSUME IInv, PInv, NEW t \in Thread, At(t, "reg_reply"), Top(t).id # -1
    PROVE  Top(t).id \notin Given
<1>1. stack[t] # << >> /\ up /\ Top(t).at = "reg_reply"
  BY DEF At
<1>2. PICK n \in DOMAIN stack[t] : Top(t) = stack[t][n]
  BY <1>1, TopActive DEF Top
<1>3. Replying(stack[t][n])
  BY <1>1, <1>2 DEF Replying
<1> QED
  BY <1>1, <1>2, <1>3 DEF IInv, ServerInv, IssuedRight, Given

LEMMA RegReplyHolds ==
    ASSUME IInv, PInv, NEW t \in Thread, RegReply(t), up', UNCHANGED clientVars
    PROVE  PInv'
<1>1. PICK f, id : f = Top(t) /\ id = Top(t).id
  OBVIOUS
<1>2. PICK h, pkt : /\ h = [f EXCEPT !.at = "done"]
                    /\ pkt = [op |-> "REGISTER_SUCCESS", id |-> id]
  OBVIOUS
<1>3. /\ At(t, "reg_reply") /\ WriteServer(t, f.fd, pkt, h, h)
      /\ issued' = issued \cup ({id} \ {-1})
      /\ UNCHANGED <<fdt, accepts, online, cli, mine, told>>
  BY <1>1, <1>2 DEF RegReply, ioVars, clientVars
<1>4. /\ stack[t] # << >> /\ f.at = "reg_reply" /\ f \in FrameType /\ Plainly(Top(t))
      /\ h.at = "done" /\ h.fd = f.fd /\ pkt.op = "REGISTER_SUCCESS" /\ pkt.id = id
  BY <1>1, <1>2, <1>3, AtPlain DEF FrameType
<1>5. /\ Mild /\ rx' = rx
      /\ \A c \in Conn : link[c] = "gone" => link'[c] = "gone"
      /\ \/ \E c \in Conn : /\ f.fd \in Fd /\ c = fdt[f.fd] /\ link[c] = "open"
                            /\ tx' = [tx EXCEPT ![c] = Append(@, pkt)]
                            /\ Resume(t, h) /\ UNCHANGED <<link, rx>>
         \/ /\ tx' = tx
            /\ IsOpen(f.fd) => link[fdt[f.fd]] \in {"gone", "reaped"}
            /\ Resume(t, h) \/ Call(t, h, ErrorFrame(f.fd))
  BY <1>3, WriteMild
<1>6. FdRight(f) /\ Duty(f)
  BY <1>1, <1>4, TopDuty
<1>7. Follows(Top(t), h) /\ FdRight(h) /\ Duty(h)
  <2>1. h.at \in Inert
    BY <1>4 DEF Inert, PCs
  <2> QED
    BY <1>1, <1>4, <1>6, <2>1, InertRight, InheritRight
<1>8. stack \in [Thread -> Seq(Frames)] /\ tx \in [Conn -> Seq(Replies)]
  BY OnlineTypes
<1>9. id # -1 => id \notin Given
  BY <1>1, <1>3, SendsNew
<1>10. Given' = Given \cup ({id} \ {-1})
  BY <1>3 DEF Given
<1>11. PICK G : /\ Turn(t, h, G)
                /\ \A g \in G : ~Asking(g) /\ FdRight(g) /\ Duty(g)
  <2>1. CASE Resume(t, h)
    <3>1. Turn(t, h, {})
      BY <1>4, <1>8, <2>1, ResumeTurn
    <3> QED
      BY <3>1
  <2>2. CASE /\ Call(t, h, ErrorFrame(f.fd))
             /\ IsOpen(f.fd) => link[fdt[f.fd]] \in {"gone", "reaped"}
    <3>1. PICK g : g = ErrorFrame(f.fd)
      OBVIOUS
    <3>2. Turn(t, h, {g})
      BY <1>4, <1>8, <2>2, <3>1, CallTurn
    <3>3. ~Asking(g) /\ FdRight(g) /\ Duty(g)
      BY <1>6, <2>2, <3>1, ErrorDuty DEF FdRight
    <3> QED
      BY <3>2, <3>3
  <2> QED
    BY <1>5, <2>1, <2>2
<1>12. ASSUME NEW d \in Conn
       PROVE  /\ Answers(d)' = Answers(d)
              /\ \A x : Sent(d, x)' => Sent(d, x) \/ (x = id /\ x # -1 /\ f.fd \in Fd /\ d = fdt[f.fd])
  <2>1. CASE tx'[d] = tx[d]
    BY <2>1 DEF Answers, Sent
  <2>2. CASE /\ f.fd \in Fd /\ d = fdt[f.fd] /\ tx' = [tx EXCEPT ![d] = Append(@, pkt)]
    <3>1. PICK n \in Nat :
             /\ DOMAIN tx[d] = 1 .. n /\ n + 1 \notin 1 .. n
             /\ DOMAIN tx'[d] = (1 .. n) \cup {n + 1} /\ tx'[d][n + 1] = pkt
             /\ \A i \in 1 .. n : tx'[d][i] = tx[d][i]
      <4>1. tx' = [tx EXCEPT ![d] = Append(@, pkt)]
        BY <2>2
      <4>2. tx \in [Conn -> Seq(Replies)]
        BY <1>8
      <4> QED
        BY ONLY <4>1, <4>2, PostAt
    <3>2. Answers(d)' = Answers(d)
      BY <1>4, <3>1 DEF Answers
    <3> QED
      BY <1>4, <2>2, <3>1, <3>2 DEF Sent
  <2> QED
    BY <1>5, <1>8, <2>1, <2>2
<1>13. OneLogin'
  BY <1>5, <1>7, <1>11, <1>12, LoginsKept DEF PInv
<1>14. ASSUME NEW e, EntryRight(e) PROVE EntryRight(e)'
  <2>1. CASE e.addr \in Conn
    BY <1>4, <1>5, <1>11, <1>14, <2>1, EntryPlain DEF Plainly
  <2>2. CASE e.addr \notin Conn
    BY <1>14, <2>2, <1>3 DEF EntryRight
  <2> QED
    BY <2>1, <2>2
<1>15. \A x, fd : Claimed(x, fd)' => Claimed(x, fd)
  <2>1. Fewer
    BY <1>3 DEF Fewer
  <2> QED
    BY <1>7, <1>8, <1>11, <2>1, ClaimedKept
<1>16. ASSUME NEW d \in Conn, NEW x, Holds(d, x)'
       PROVE  Holds(d, x) \/ (x = id /\ x # -1 /\ f.fd \in Fd /\ d = fdt[f.fd])
  BY <1>3, <1>5, <1>12, <1>16 DEF Holds, Asks
<1>17. ClaimsRight'
  <2>1. \A d \in Conn : Waiting(d)' => Waiting(d)
    BY <1>5, MildSame
  <2>2. ASSUME NEW d \in Conn, NEW x, Holds(d, x)', x \in Given PROVE Holds(d, x)
    BY <1>9, <1>16, <2>2
  <2>3. /\ \A d \in Conn : \A x : Holds(d, x) => x \in Given
        /\ \A x, fd : Claimed(x, fd) => x \in Given
    BY DEF PInv, ClaimsRight
  <2>4. /\ \A x, fd, g : Claimed(x, fd)' /\ Claimed(x, g)' => fd = g
        /\ \A x, fd : Claimed(x, fd)' => x \in Given'
    BY <1>10, <1>15 DEF PInv, ClaimsRight
  <2>5. \A d \in Conn : \A x : Holds(d, x)' => x \in Given'
    BY <1>10, <1>16, <2>3
  <2>6. ASSUME NEW c \in Conn, NEW d \in Conn, NEW x, Holds(c, x)', Holds(d, x)'
        PROVE  c = d
    <3>1. CASE x \in Given
      BY <2>2, <2>6, <3>1 DEF PInv, ClaimsRight
    <3>2. CASE x \notin Given
      BY <1>16, <2>3, <2>6, <3>2
    <3> QED
      BY <3>1, <3>2
  <2>7. ASSUME NEW c \in Conn, NEW x, NEW fd, Claimed(x, fd)', Holds(c, x)'
        PROVE  ~Waiting(c)' /\ \A g \in Fd : fdt'[g] = c => g = fd
    <3>1. Claimed(x, fd) /\ Holds(c, x)
      BY <1>15, <2>2, <2>3, <2>7
    <3> QED
      BY <1>3, <2>1, <3>1 DEF PInv, ClaimsRight
  <2> QED
    BY <2>4, <2>5, <2>6, <2>7 DEF ClaimsRight
<1> QED
  BY <1>3, <1>5, <1>7, <1>11, <1>13, <1>14, <1>17, MildKeeps
----------------------------------------------------------------------------
(* offline_action: the entry goes before the descriptor.                   *)
LEMMA SearchIdNone ==
    ASSUME IInv, NEW id
    PROVE  \/ SearchId(id) = NoEntry /\ \A i \in DOMAIN online : online[i].id # id
           \/ \E i \in DOMAIN online :
                 /\ SearchId(id) = online[i] /\ online[i].id = id
                 /\ SearchId(id) # NoEntry
<1>1. online \in Seq(Entry)
  BY OnlineTypes
<1>2. CASE \A i \in DOMAIN online : online[i].id # id
  BY <1>2 DEF SearchId, Newest
<1>3. CASE \E i \in DOMAIN online : online[i].id = id
  <2> DEFINE M == {i \in DOMAIN online : online[i].id = id}
  <2>0. Len(online) \in Nat /\ M \in SUBSET (1 .. Len(online)) /\ M # {}
    BY <1>1, <1>3
  <2>1. PICK k \in M : \A j \in M : j <= k
    BY <2>0, LastExists
  <2> DEFINE P(i) == /\ online[i].id = id
                     /\ \A j \in DOMAIN online : online[j].id = id => j <= i
             c == CHOOSE i \in DOMAIN online : P(i)
  <2>2. k \in DOMAIN online /\ P(k)
    BY <2>1
  <2>3. c \in DOMAIN online /\ P(c)
    BY <2>2
  <2>4. SearchId(id) = online[c]
    BY <2>2 DEF SearchId, Newest
  <2>5. online[c] \in Entry
    BY <1>1, <2>3
  <2> QED
    BY <2>3, <2>4, <2>5, EntryAssumption
<1> QED
  BY <1>2, <1>3

LEMMA SearchFdNone ==
    ASSUME IInv, NEW fd
    PROVE  \/ SearchFd(fd) = NoEntry /\ Absent(fd)
           \/ \E i \in DOMAIN online :
                 /\ SearchFd(fd) = online[i] /\ online[i].fd = fd
                 /\ SearchFd(fd) # NoEntry
<1>1. online \in Seq(Entry)
  BY OnlineTypes
<1>2. CASE Absent(fd)
  BY <1>2 DEF SearchFd, Newest, Absent
<1>3. CASE ~Absent(fd)
  <2> DEFINE M == {i \in DOMAIN online : online[i].fd = fd}
  <2>0. Len(online) \in Nat /\ M \in SUBSET (1 .. Len(online)) /\ M # {}
    BY <1>1, <1>3 DEF Absent
  <2>1. PICK k \in M : \A j \in M : j <= k
    BY <2>0, LastExists
  <2> DEFINE P(i) == /\ online[i].fd = fd
                     /\ \A j \in DOMAIN online : online[j].fd = fd => j <= i
             c == CHOOSE i \in DOMAIN online : P(i)
  <2>2. k \in DOMAIN online /\ P(k)
    BY <2>1
  <2>3. c \in DOMAIN online /\ P(c)
    BY <2>2
  <2>4. SearchFd(fd) = online[c]
    BY <2>2 DEF SearchFd, Newest
  <2>5. online[c] \in Entry
    BY <1>1, <2>3
  <2> QED
    BY <2>3, <2>4, <2>5, EntryAssumption
<1> QED
  BY <1>2, <1>3

(* A client has one entry at most.                                         *)
LEMMA OwnEntry ==
    ASSUME PInv, NEW fd, NEW c, Own(fd, c),
           NEW i \in DOMAIN online, online[i].fd = fd
    PROVE  /\ online[i].addr = c
           /\ \A j \in DOMAIN online : online[j].fd = fd => i = j
<1>1. EntryRight(online[i])
  BY DEF PInv, EntriesRight
<1>2. c \in Conn /\ accepts[fd] = 1 /\ fdt[fd] = c
  BY DEF Own
<1>3. online[i].addr = c
  BY <1>1, <1>2, ConnAssumption DEF EntryRight
<1> QED
  BY <1>3 DEF PInv, EntriesRight

LEMMA OffFindHolds ==
    ASSUME IInv, PInv, NEW t \in Thread, OffFind(t), up', UNCHANGED clientVars
    PROVE  PInv'
<1>1. PICK f, e : f = Top(t) /\ e = SearchFd(f.fd)
  OBVIOUS
<1>2. PICK id : id = IF e = NoEntry THEN -1 ELSE e.id
  OBVIOUS
<1>3. PICK g : g = [f EXCEPT !.at = "off_ctl", !.id = id]
  OBVIOUS
<1>4. At(t, "find") /\ Resume(t, g) /\ Local
  BY <1>1, <1>2, <1>3 DEF OffFind
<1>5. stack[t] # << >> /\ f.at = "find" /\ f \in FrameType
  BY <1>1, <1>4, AtPlain
<1>6. g.at = "off_ctl" /\ g.fd = f.fd /\ g.id = id
  BY <1>3, <1>5 DEF FrameType
<1>7. Turn(t, g, {}) /\ g \in Active'
  BY <1>4, <1>5, OnlineTypes, ResumeTurn
<1>8. StillClients /\ StillNet /\ online' = online /\ Steady
  BY <1>4, LocalStill, StillSteady
<1>9. FdRight(f) /\ Duty(f)
  BY <1>1, <1>5, TopDuty
<1>10. ~Asking(g) /\ FdRight(g) /\ Follows(Top(t), g)
  BY <1>6, <1>9 DEF Asking, Adding, FdRight, Follows
<1>11. CASE e = NoEntry /\ Absent(f.fd)
  <2>1. ~Removing(g)
    BY <1>2, <1>6, <1>11 DEF Removing
  <2>2. Duty(g)
    BY <1>5, <1>6, <1>9, <1>11, <2>1 DEF Duty, Granted
  <2>3. ASSUME NEW i \in DOMAIN online PROVE EntryRight(online[i])'
    <3>1. PICK x : x = online[i] /\ x = online'[i]
      BY <1>8
    <3>2. EntryRight(x)
      BY <3>1 DEF PInv, EntriesRight
    <3>3. ~Removes(Top(t), x)
      BY <1>1, <1>5, <1>11, <3>1 DEF Removes, Removing, Absent
    <3>4. EntryRight(x)'
      BY <1>1, <1>5, <1>7, <1>8, <3>2, <3>3, SteadyMild, EntryKept DEF StillNet
    <3> QED
      BY <3>1, <3>4
  <2>4. (\A i \in DOMAIN online : EntryRight(online[i]))'
    BY <1>8, <2>3
  <2> QED
    BY <1>7, <1>8, <1>10, <2>2, <2>4, OnlineTypes, SteadyKeeps
<1>12. CASE \E i \in DOMAIN online :
               e = online[i] /\ online[i].fd = f.fd /\ e # NoEntry
  <2>1. PICK i \in DOMAIN online : e = online[i] /\ online[i].fd = f.fd /\ e # NoEntry
    BY <1>12
  <2>2. g.id = e.id /\ ~(g.id < 0)
    <3>1. e \in Known /\ DOMAIN friends \subseteq Id
      BY <2>1, OnlineTypes DEF IInv, ServerInv, TablesRight
    <3>2. e.id \in Nat
      BY <3>1, IdAssumption DEF Known
    <3> QED
      BY <1>2, <1>6, <2>1, <3>2
  <2>3. Removing(g) /\ ~Closing(g)
    BY <1>6, <2>2 DEF Removing, Closing
  <2>4. ASSUME NEW c \in Conn, Own(g.fd, c) PROVE Granted(c) /\ Named(g.fd, g.id)
    <3>1. Granted(c)
      BY <1>5, <1>6, <1>9, <2>4 DEF Duty, Granted
    <3>2. \A j \in DOMAIN online : online[j].fd = f.fd => i = j
      BY <1>6, <2>1, <2>4, OwnEntry
    <3> QED
      BY <1>6, <2>1, <2>2, <3>1, <3>2 DEF Named
  <2>5. Duty(g)
    BY <1>6, <2>3, <2>4 DEF Duty
  <2>6. ASSUME NEW j \in DOMAIN online PROVE EntryRight(online[j])'
    <3>1. PICK x : x = online[j] /\ x = online'[j]
      BY <1>8
    <3>2. EntryRight(x)
      BY <3>1 DEF PInv, EntriesRight
    <3>3. ASSUME Own(x.fd, x.addr), Removes(Top(t), x) PROVE Removes(g, x)
      <4>1. x.fd = f.fd
        BY <1>1, <1>5, <3>3 DEF Removes, Removing
      <4>2. i = j
        BY <2>1, <3>1, <3>3, <4>1, OwnEntry
      <4> QED
        BY <2>1, <2>2, <2>3, <3>1, <4>2 DEF Removes
    <3>4. EntryRight(x)'
      BY <1>1, <1>5, <1>7, <1>8, <3>2, <3>3, SteadyMild, EntryKept DEF StillNet
    <3> QED
      BY <3>1, <3>4
  <2>7. (\A j \in DOMAIN online : EntryRight(online[j]))'
    BY <1>8, <2>6
  <2>8. stack \in [Thread -> Seq(Frames)]
    BY OnlineTypes
  <2> QED
    BY <1>7, <1>8, <1>10, <2>5, <2>7, <2>8, SteadyKeeps
<1> QED
  BY <1>1, <1>11, <1>12, SearchFdNone
LEMMA OffCtlGoes ==
    ASSUME IInv, PInv, NEW t \in Thread, OffCtl(t), ~(Top(t).id < 0),
           up', UNCHANGED clientVars
    PROVE  PInv'
<1>1. PICK f : f = Top(t)
  OBVIOUS
<1>2. PICK g : g = [f EXCEPT !.at = "off_del"]
  OBVIOUS
<1>3. At(t, "off_ctl") /\ Resume(t, g) /\ StillClients /\ StillNet /\ online' = online
  BY <1>1, <1>2 DEF OffCtl, Goto, netVars, ghostVars, clientVars, StillClients, StillNet
<1>4. stack[t] # << >> /\ f.at = "off_ctl" /\ f \in FrameType
  BY <1>1, <1>3, AtPlain
<1>5. g.at = "off_del" /\ g.fd = f.fd /\ g.id = f.id
  BY <1>2, <1>4 DEF FrameType
<1>6. Removing(f) /\ Removing(g) /\ ~Closing(g)
  BY <1>1, <1>4, <1>5 DEF Removing, Closing
<1>7. FdRight(f) /\ Duty(f)
  BY <1>1, <1>4, TopDuty
<1>8. ~Asking(g) /\ FdRight(g) /\ Follows(Top(t), g) /\ Duty(g)
  BY <1>5, <1>6, <1>7 DEF Asking, Adding, FdRight, Follows, Duty
<1>9. stack \in [Thread -> Seq(Frames)]
  BY OnlineTypes
<1>10. Turn(t, g, {}) /\ g \in Active' /\ Steady
  BY <1>3, <1>4, <1>9, ResumeTurn, StillSteady
<1>11. ASSUME NEW i \in DOMAIN online PROVE EntryRight(online[i])'
  <2>1. PICK x : x = online[i] /\ x = online'[i]
    BY <1>3
  <2>2. EntryRight(x)
    BY <2>1 DEF PInv, EntriesRight
  <2>3. Removes(Top(t), x) => Removes(g, x)
    BY <1>1, <1>4, <1>5, <1>6 DEF Removes
  <2>4. EntryRight(x)'
    BY <1>1, <1>3, <1>4, <1>10, <2>2, <2>3, SteadyMild, EntryKept DEF StillNet
  <2> QED
    BY <2>1, <2>4
<1>12. (\A i \in DOMAIN online : EntryRight(online[i]))'
  BY <1>3, <1>11
<1> QED
  BY <1>3, <1>8, <1>9, <1>10, <1>12, SteadyKeeps

LEMMA RemoveAtShifts ==
    ASSUME NEW S, NEW s \in Seq(S), NEW k \in DOMAIN s
    PROVE  /\ DOMAIN RemoveAt(s, k) = 1 .. Len(s) - 1
           /\ \A i \in 1 .. k - 1 : RemoveAt(s, k)[i] = s[i]
           /\ \A i \in k .. Len(s) - 1 : RemoveAt(s, k)[i] = s[i + 1]
<1>1. Len(s) \in Nat /\ k \in 1 .. Len(s)
  OBVIOUS
<1> DEFINE a == SubSeq(s, 1, k - 1)
           b == SubSeq(s, k + 1, Len(s))
<1>2. /\ a \in Seq(S) /\ Len(a) = k - 1 /\ \A i \in 1 .. k - 1 : a[i] = s[i]
      /\ b \in Seq(S) /\ Len(b) = Len(s) - k
      /\ \A i \in 1 .. Len(s) - k : b[i] = s[k + i]
  BY <1>1
<1>3. RemoveAt(s, k) = a \o b
  BY DEF RemoveAt
<1> HIDE DEF a, b
<1>4. /\ a \o b \in Seq(S) /\ Len(a \o b) = Len(a) + Len(b)
      /\ \A i \in 1 .. Len(a) + Len(b) :
            (a \o b)[i] = IF i <= Len(a) THEN a[i] ELSE b[i - Len(a)]
  BY <1>2, ConcatProperties
<1>5. DOMAIN (a \o b) = 1 .. Len(s) - 1
  BY <1>1, <1>2, <1>4
<1>6. ASSUME NEW i \in 1 .. k - 1 PROVE (a \o b)[i] = s[i]
  <2>1. i \in 1 .. Len(a) + Len(b) /\ i <= Len(a) /\ a[i] = s[i]
    BY <1>1, <1>2
  <2> QED
    BY <1>4, <2>1
<1>7. ASSUME NEW i \in k .. Len(s) - 1 PROVE (a \o b)[i] = s[i + 1]
  <2>1. i \in 1 .. Len(a) + Len(b) /\ ~(i <= Len(a)) /\ i - Len(a) = i - k + 1
    BY <1>1, <1>2
  <2>2. i - k + 1 \in 1 .. Len(s) - k /\ k + (i - k + 1) = i + 1
    BY <1>1
  <2>3. (a \o b)[i] = b[i - k + 1]
    BY <1>4, <2>1
  <2>4. b[i - k + 1] = s[k + (i - k + 1)]
    BY <1>2, <2>2
  <2> QED
    BY <2>2, <2>3, <2>4
<1> QED
  BY <1>3, <1>5, <1>6, <1>7

(* del_list BY_ID: where the entries that remain were before.              *)
LEMMA OffDelMoves ==
    ASSUME IInv, NEW t \in Thread, OffDel(t)
    PROVE  \E m \in [DOMAIN online' -> DOMAIN online] :
              /\ \A i \in DOMAIN online' : online'[i] = online[m[i]]
              /\ \A i, j \in DOMAIN online' : m[i] = m[j] => i = j
              /\ \/ \A i \in DOMAIN online : online[i].id # Top(t).id
                 \/ \E k \in DOMAIN online :
                       online[k].id = Top(t).id /\ \A i \in DOMAIN online' : m[i] # k
<1>1. PICK id, e : id = Top(t).id /\ e = SearchId(id)
  OBVIOUS
<1> DEFINE P(i) == online[i] = e /\ \A j \in DOMAIN online : online[j] = e => j <= i
           k == CHOOSE i \in DOMAIN online : P(i)
<1>2. online' = IF e = NoEntry THEN online ELSE RemoveAt(online, k)
  BY <1>1 DEF OffDel
<1>3. online \in Seq(Known)
  BY OnlineTypes
<1>4. CASE e = NoEntry /\ \A i \in DOMAIN online : online[i].id # id
  <2> DEFINE m == [i \in DOMAIN online |-> i]
  <2>1. online' = online
    BY <1>2, <1>4
  <2>2. m \in [DOMAIN online' -> DOMAIN online]
    BY <2>1
  <2>3. /\ \A i \in DOMAIN online' : online'[i] = online[m[i]]
        /\ \A i, j \in DOMAIN online' : m[i] = m[j] => i = j
    BY <2>1
  <2> HIDE DEF m
  <2> QED
    BY <1>1, <1>4, <2>2, <2>3
<1>5. CASE \E i \in DOMAIN online : e = online[i] /\ online[i].id = id /\ e # NoEntry
  <2> DEFINE M == {i \in DOMAIN online : online[i] = e}
             n == Len(online)
  <2>1. M # {}
    BY <1>5
  <2>2. n \in Nat /\ M \in SUBSET (1 .. n) /\ DOMAIN online = 1 .. n
    BY <1>3
  <2>3. PICK i \in M : \A j \in M : j <= i
    BY <2>1, <2>2, LastExists
  <2>4. i \in DOMAIN online /\ P(i)
    BY <2>3
  <2>5. k \in DOMAIN online /\ P(k)
    BY <2>4
  <2>6. online[k].id = id
    BY <1>5, <2>5
  <2>7. online' = RemoveAt(online, k)
    BY <1>2, <1>5
  <2> HIDE DEF k, M
  <2>8. /\ DOMAIN online' = 1 .. n - 1
        /\ \A j \in 1 .. k - 1 : online'[j] = online[j]
        /\ \A j \in k .. n - 1 : online'[j] = online[j + 1]
    BY <1>3, <2>5, <2>7, RemoveAtShifts
  <2> HIDE DEF n
  <2> DEFINE m == [j \in 1 .. n - 1 |-> IF j < k THEN j ELSE j + 1]
  <2>9. k \in 1 .. n
    BY <2>2, <2>5
  <2>10. m \in [DOMAIN online' -> DOMAIN online]
    BY <2>2, <2>8, <2>9
  <2>11. ASSUME NEW j \in DOMAIN online' PROVE online'[j] = online[m[j]] /\ m[j] # k
    <3>1. j \in 1 .. k - 1 \/ j \in k .. n - 1
      BY <2>2, <2>8, <2>9
    <3>2. m[j] = IF j < k THEN j ELSE j + 1
      BY <2>8
    <3> HIDE DEF m
    <3> QED
      BY <2>2, <2>8, <2>9, <3>1, <3>2
  <2>12. \A j, l \in DOMAIN online' : m[j] = m[l] => j = l
    BY <2>2, <2>8, <2>9
  <2> HIDE DEF m
  <2> QED
    BY <1>1, <2>5, <2>6, <2>10, <2>11, <2>12
<1> QED
  BY <1>1, <1>4, <1>5, SearchIdNone

LEMMA OffDelHolds ==
    ASSUME IInv, PInv, NEW t \in Thread, OffDel(t), up', UNCHANGED clientVars
    PROVE  PInv'
<1>1. PICK f : f = Top(t)
  OBVIOUS
<1>2. PICK g : g = [f EXCEPT !.at = "off_query"]
  OBVIOUS
<1>3. At(t, "off_del") /\ Resume(t, g) /\ StillClients /\ StillNet
  BY <1>1, <1>2 DEF OffDel, Goto, netVars, ioVars, ghostVars, clientVars,
                    StillClients, StillNet
<1>4. stack[t] # << >> /\ f.at = "off_del" /\ f \in FrameType
  BY <1>1, <1>3, AtPlain
<1>5. g.at = "off_query" /\ g.fd = f.fd
  BY <1>2, <1>4 DEF FrameType
<1>6. FdRight(f) /\ Duty(f) /\ Removing(f)
  BY <1>1, <1>4, TopDuty DEF Removing
<1>7. ~Asking(g) /\ FdRight(g) /\ Follows(Top(t), g) /\ ~Removing(g) /\ Closing(g)
  BY <1>5, <1>6 DEF Asking, Adding, FdRight, Follows, Removing, Closing
<1>8. stack \in [Thread -> Seq(Frames)]
  BY OnlineTypes
<1>9. Turn(t, g, {}) /\ g \in Active' /\ Steady /\ Mild
  BY <1>3, <1>4, <1>8, ResumeTurn, StillSteady, SteadyMild
<1>10. PICK m \in [DOMAIN online' -> DOMAIN online] :
          /\ \A i \in DOMAIN online' : online'[i] = online[m[i]]
          /\ \A i, j \in DOMAIN online' : m[i] = m[j] => i = j
          /\ \/ \A i \in DOMAIN online : online[i].id # f.id
             \/ \E k \in DOMAIN online :
                   online[k].id = f.id /\ \A i \in DOMAIN online' : m[i] # k
  BY <1>1, OffDelMoves
<1>11. \A i \in DOMAIN online' : m[i] \in DOMAIN online
  BY <1>10
<1>12. Fewer
  BY <1>10, <1>11 DEF Fewer
<1>13. ASSUME NEW i \in DOMAIN online', NEW x, x = online[m[i]], Own(x.fd, x.addr)
       PROVE  x.id # f.id
  <2> SUFFICES ASSUME x.id = f.id PROVE FALSE
    OBVIOUS
  <2>1. m[i] \in DOMAIN online
    BY <1>11
  <2>2. PICK k \in DOMAIN online : online[k].id = f.id /\ m[i] # k
    BY <1>10, <1>13, <2>1
  <2>3. Claimed(f.id, online[k].fd) /\ Claimed(f.id, x.fd)
    BY <1>13, <2>1, <2>2 DEF Claimed
  <2>4. online[k].fd = x.fd
    BY <2>3 DEF PInv, ClaimsRight
  <2> QED
    BY <1>13, <2>1, <2>2, <2>4, OwnEntry
<1>14. Duty(g)'
  <2>1. ASSUME NEW c \in Conn, Own(g.fd, c)' PROVE Granted(c)' /\ Absent(g.fd)'
    <3>1. Own(f.fd, c)
      BY <1>5, <1>9, <2>1, MildSame
    <3>2. Granted(c) /\ Named(f.fd, f.id)
      BY <1>6, <3>1 DEF Duty, Own
    <3>3. ASSUME NEW i \in DOMAIN online', online'[i].fd = f.fd PROVE FALSE
      <4>1. PICK x : x = online[m[i]] /\ x = online'[i]
        BY <1>10
      <4>2. x.id = f.id /\ x.addr = c
        <5>1. PICK k \in DOMAIN online : x = online[k]
          BY <1>11, <4>1
        <5>2. online[k].fd = f.fd
          BY <3>3, <4>1, <5>1
        <5>3. online[k].addr = c
          BY <3>1, <5>2, OwnEntry
        <5> QED
          BY <3>2, <5>1, <5>2, <5>3 DEF Named
      <4> QED
        BY <1>13, <3>1, <3>3, <4>1, <4>2
    <3> QED
      BY <1>5, <1>9, <3>2, <3>3, MildSame DEF Absent
  <2> QED
    BY <1>5, <1>7, <2>1 DEF Duty
<1>15. LinksRight' /\ OfflinesRight' /\ OneLogin'
  BY <1>7, <1>9, <1>12, LinksKept, OfflinesKept, LoginsKept DEF PInv, Steady, TxSame
<1>16. FdsRight' /\ Duties'
  BY <1>7, <1>9, <1>12, <1>14, FdsKept, DutiesKept DEF PInv, Mild
<1>17. ClaimsRight'
  BY <1>7, <1>8, <1>9, <1>12, ClaimedKept, SteadyClaims DEF PInv
<1>18. ASSUME NEW i \in DOMAIN online' PROVE EntryRight(online[i])'
  <2>1. PICK x : x = online[m[i]] /\ x = online'[i]
    BY <1>10
  <2>2. EntryRight(x)
    BY <1>11, <2>1 DEF PInv, EntriesRight
  <2>3. Own(x.fd, x.addr) => ~Removes(Top(t), x)
    BY <1>1, <1>4, <1>13, <2>1 DEF Removes, Removing
  <2>4. EntryRight(x)'
    BY <1>1, <1>3, <1>4, <1>9, <2>2, <2>3, EntryKept DEF StillNet
  <2> QED
    BY <2>1, <2>4
<1>19. ASSUME NEW i \in DOMAIN online', NEW j \in DOMAIN online',
              online'[i].fd = online'[j].fd, Own(online[i].fd, online[i].addr)'
       PROVE  i = j
  <2>1. PICK x, y : x = online[m[i]] /\ x = online'[i] /\ y = online[m[j]] /\ y = online'[j]
    BY <1>10
  <2>2. Own(x.fd, x.addr)
    BY <1>9, <1>19, <2>1, MildSame
  <2>3. m[i] = m[j]
    <3>1. PICK k \in DOMAIN online, l \in DOMAIN online : k = m[i] /\ l = m[j]
      BY <1>11
    <3>2. online[k].fd = x.fd /\ online[l].fd = x.fd
      BY <1>19, <2>1, <3>1
    <3>3. k = l
      BY <2>2, <3>2, OwnEntry
    <3> QED
      BY <3>1, <3>3
  <2> QED
    BY <1>10, <2>3
<1>20. EntriesRight'
  <2>1. \A i \in DOMAIN online' : EntryRight(online[i])'
    BY <1>18
  <2>2. \A i, j \in DOMAIN online' :
           online'[i].fd = online'[j].fd /\ Own(online[i].fd, online[i].addr)' => i = j
    BY <1>19
  <2> QED
    BY <2>1, <2>2 DEF EntriesRight
<1> QED
  BY <1>15, <1>16, <1>17, <1>20 DEF PInv

(* close() by offline_action: no entry is left with that descriptor.       *)
LEMMA CloseKeeps ==
    ASSUME IInv, PInv, NEW t \in Thread, stack[t] # << >>,
           NEW f, f = Top(t), Closing(f), Return(t), Close(f.fd),
           UNCHANGED <<online, accepts, issued, cli, mine, told>>
    PROVE  PInv'
<1>1. /\ Plainly(Top(t)) /\ ~Asking(f) /\ f.at # "log_add"
      /\ f \in Active /\ FdRight(f) /\ Duty(f)
  BY TopActive, TopDuty DEF Closing, Plainly, Asking, Adding, Removing
<1>2. CASE ~IsOpen(f.fd)
  <2>1. StillNet /\ StillClients /\ online' = online
    BY <1>2 DEF Close, netVars, ioVars, StillNet, StillClients
  <2> QED
    BY <1>1, <2>1, ReturnKeeps
<1>3. CASE IsOpen(f.fd)
  <2>1. PICK fd \in Fd, c \in Conn : fd = f.fd /\ c = fdt[fd]
    BY <1>3, OnlineTypes DEF IsOpen
  <2>2. /\ fdt' = [fdt EXCEPT ![fd] = NoConn] /\ tx' = tx
        /\ link' = [link EXCEPT ![c] = IF @ = "open" THEN "shut" ELSE "dead"]
        /\ rx' = [rx EXCEPT ![c] = << >>]
    BY <1>3, <2>1 DEF Close, ServerClosed
  <2>3. LinksRight /\ c # NoConn /\ NoConn \notin Conn
    BY ConnAssumption DEF PInv
  <2>4. /\ fdt'[fd] = NoConn /\ \A g \in Fd : g # fd => fdt'[g] = fdt[g]
        /\ \A d \in Conn : d # c => link'[d] = link[d] /\ rx'[d] = rx[d]
        /\ link'[c] \in {"shut", "dead"} /\ rx'[c] = << >>
    BY <2>2, OnlineTypes
  <2>5. \A g \in Fd : \A d \in Conn : fdt'[g] = d => fdt[g] = d /\ g # fd /\ d # c
    BY <2>1, <2>3, <2>4 DEF LinksRight
  <2>6. \A g, d : Own(g, d)' => Own(g, d) /\ g # fd /\ d # c
    BY <2>5 DEF Own
  <2>7. \A d \in Conn : Waiting(d)' => Waiting(d) /\ d # c
    BY <2>4 DEF Waiting
  <2>8. \A d \in Conn : Sound(d)' => Sound(d) /\ d # c
    BY <2>6, <2>7 DEF Sound
  <2>9. \A d \in Conn : (Granted(d)' <=> Granted(d)) /\ Answers(d)' = Answers(d)
    BY <2>2 DEF Granted, Answers
  <2>10. Turn(t, f, {})
    BY OnlineTypes, ReturnTurn
  <2>11. /\ \A g \in Active' : g \in Active
         /\ \A g \in Active : g \in Active' \/ g = f
    BY <1>1, <2>10, TurnActive
  <2>12. cli[c] = "dead" \/ (Own(fd, c) /\ Absent(fd) /\ Granted(c)) \/ accepts[fd] # 1
    BY <1>1, <2>1 DEF Duty, Own
  <2>13. LinksRight'
    <3>1. \A g, h \in Fd : fdt'[g] \in Conn /\ fdt'[g] = fdt'[h] => g = h
      BY <2>3, <2>5 DEF LinksRight
    <3>2. ASSUME NEW g \in Fd, fdt'[g] \in Conn
          PROVE  /\ accepts'[g] # 0
                 /\ link'[fdt'[g]] \in {"open", "gone", "reaped"}
                 /\ link'[fdt'[g]] = "open" <=> ~(cli'[fdt'[g]] \in {"left", "dead"})
      <4>1. PICK d \in Conn : d = fdt'[g] /\ d = fdt[g] /\ d # c
        BY <2>5, <3>2
      <4>2. link'[d] = link[d]
        BY <2>4, <4>1
      <4> QED
        BY <2>3, <4>1, <4>2 DEF LinksRight, Ended
    <3>3. \A d \in Conn : link'[d] \in {"none", "syn"} => d # c
      BY <2>4
    <3>4. \A d \in Conn : link'[d] = "none" =>
             cli'[d] = "off" /\ rx'[d] = << >> /\ tx'[d] = << >>
      BY <2>2, <2>3, <2>4, <3>3 DEF LinksRight
    <3>5. \A d \in Conn : link'[d] = "syn" =>
             /\ cli'[d] \in {"menu", "reg_wait", "log_wait"} /\ tx'[d] = << >>
             /\ \A i \in DOMAIN rx'[d] : rx'[d][i].op # "OFFLINE"
      BY <2>2, <2>3, <2>4, <3>3 DEF LinksRight
    <3>6. \A d \in Conn : cli'[d] = "off" => link'[d] = "none"
      <4>1. cli[c] # "off"
        BY <2>1, <2>3 DEF LinksRight
      <4> QED
        BY <2>3, <2>4, <4>1 DEF LinksRight
    <3> QED
      BY <3>1, <3>2, <3>4, <3>5, <3>6 DEF LinksRight, Ended
  <2>14. FdsRight'
    <3>1. \A g : FdRight(g) => FdRight(g)'
      BY DEF FdRight
    <3> QED
      BY <2>11, <3>1 DEF PInv, FdsRight
  <2>15. OneLogin'
    <3> SUFFICES ASSUME NEW d \in Conn, Sound(d)' PROVE LoginsRight(d)'
      BY DEF OneLogin
    <3>1. LoginsRight(d) /\ d # c
      BY <2>8 DEF PInv, OneLogin
    <3>2. \A u \in Thread : \A i \in DOMAIN stack'[u] :
             \/ i \in DOMAIN stack[u] /\ stack'[u][i] = stack[u][i]
             \/ stack'[u][i] = f
      BY <2>10 DEF Turn
    <3>3. ASSUME NEW u \in Thread, NEW i \in DOMAIN stack'[u], Works(d, u, i)'
          PROVE  /\ i \in DOMAIN stack[u] /\ Works(d, u, i)
                 /\ stack'[u][i].id = stack[u][i].id
      <4>1. PICK x : x = stack'[u][i]
        OBVIOUS
      <4>2. Asking(x) /\ fdt'[x.fd] = d
        BY <3>3, <4>1 DEF Works
      <4>3. i \in DOMAIN stack[u] /\ x = stack[u][i]
        BY <1>1, <3>2, <4>1, <4>2
      <4>4. x.fd \in Fd
        <5>1. x \in Active
          BY <4>3, ActiveAt
        <5> QED
          BY <4>2, <5>1 DEF PInv, FdsRight, FdRight
      <4> QED
        BY <2>5, <4>1, <4>2, <4>3, <4>4 DEF Works
    <3>4. Worked(d)' => Worked(d)
      BY <3>3 DEF Worked
    <3>5. \A u, v \in Thread : \A i \in DOMAIN stack'[u], j \in DOMAIN stack'[v] :
             Works(d, u, i)' /\ Works(d, v, j)' => u = v /\ i = j
      BY <3>1, <3>3 DEF LoginsRight
    <3>6. \A u \in Thread : \A i \in DOMAIN stack'[u] :
             Works(d, u, i)' => stack'[u][i].id = mine'[d]
      BY <3>1, <3>3 DEF LoginsRight
    <3>7. Asks(d)' = Asks(d) /\ rx'[d] = rx[d] /\ cli'[d] = cli[d] /\ mine'[d] = mine[d]
      BY <2>4, <3>1 DEF Asks
    <3>8. \A i \in Asks(d)' : rx'[d][i].id = mine'[d]
      BY <3>1, <3>7 DEF LoginsRight
    <3> QED
      BY <2>9, <3>1, <3>4, <3>5, <3>6, <3>7, <3>8 DEF LoginsRight
  <2>16. ASSUME NEW i \in DOMAIN online, accepts[fd] = 1, online[i].fd = fd
         PROVE  cli[c] = "dead"
    BY <2>12, <2>16 DEF Absent
  <2>17. EntriesRight'
    <3>1. ASSUME NEW i \in DOMAIN online, NEW e, e = online[i] PROVE EntryRight(e)'
      <4>1. EntryRight(e) /\ e.fd \in Fd
        BY <3>1 DEF PInv, EntriesRight, FdsRight
      <4>2. CASE e.fd = fd
        <5>1. accepts[fd] = 1 => e.addr = c /\ cli[c] = "dead"
          BY <2>1, <2>3, <2>16, <3>1, <4>1, <4>2 DEF EntryRight
        <5>2. ~Own(e.fd, e.addr)'
          BY <2>6, <4>2
        <5> QED
          BY <2>1, <2>4, <4>2, <5>1, <5>2 DEF EntryRight
      <4>3. CASE e.fd # fd
        <5>1. fdt'[e.fd] = fdt[e.fd]
          BY <2>4, <4>1, <4>3
        <5>2. ASSUME Own(e.fd, e.addr)', accepts[e.fd] = 1
              PROVE  /\ Granted(e.addr)' \/ \E g \in Active' : g.at = "log_ok" /\ g.fd = e.fd
                     /\ link'[e.addr] \in {"open", "gone"} \/ \E g \in Active' : Removes(g, e)
          <6>1. Own(e.fd, e.addr) /\ e.addr # c /\ e.addr \in Conn
            BY <2>6, <5>2 DEF Own
          <6>2. f.at # "log_ok" /\ ~Removes(f, e)
            BY <1>1 DEF Plainly, Removes
          <6>3. Granted(e.addr)' <=> Granted(e.addr)
            BY <2>9, <6>1
          <6>4. link'[e.addr] = link[e.addr]
            BY <2>4, <6>1
          <6> QED
            BY <2>11, <4>1, <5>2, <6>1, <6>2, <6>3, <6>4 DEF EntryRight
        <5> QED
          BY <2>6, <4>1, <5>1, <5>2 DEF EntryRight
      <4> QED
        BY <4>2, <4>3
    <3>2. \A i \in DOMAIN online' : EntryRight(online[i])'
      BY <3>1
    <3>3. \A i, j \in DOMAIN online' :
             online'[i].fd = online'[j].fd /\ Own(online[i].fd, online[i].addr)' => i = j
      BY <2>6 DEF PInv, EntriesRight
    <3> QED
      BY <3>2, <3>3 DEF EntriesRight
  <2>18. ASSUME NEW g \in Active, g.at = "log_add", g.fd = fd, accepts[fd] = 1
         PROVE  g.p.addr = c /\ cli[c] = "dead"
    <3>1. Duty(g) /\ Asking(g)
      BY <2>18 DEF PInv, Duties, Asking, Adding
    <3>2. g.p.addr = c
      BY <2>1, <2>3, <2>18, <3>1 DEF Duty
    <3>3. ASSUME Own(fd, c), Granted(c) PROVE FALSE
      <4>1. Sound(c) /\ LoginsRight(c)
        BY <3>3 DEF Sound, Own, PInv, OneLogin
      <4>2. PICK u \in Thread : \E i \in DOMAIN stack[u] : g = stack[u][i]
        BY ActiveAt
      <4>3. PICK i \in DOMAIN stack[u] : g = stack[u][i]
        BY <4>2
      <4>4. Worked(c)
        BY <2>1, <2>18, <3>1, <4>3 DEF Worked, Works
      <4>5. cli[c] = "log_wait" /\ Answers(c) = {}
        BY <4>1, <4>4 DEF LoginsRight
      <4> QED
        BY <3>3, <4>5 DEF Granted
    <3> QED
      BY <2>12, <2>18, <3>2, <3>3
  <2>19. Duties'
    <3> SUFFICES ASSUME NEW g \in Active' PROVE Duty(g)'
      BY DEF Duties
    <3>1. g \in Active /\ Duty(g) /\ FdRight(g)
      BY <2>11 DEF PInv, Duties, FdsRight
    <3>2. ASSUME g.at = "log_add", accepts[g.fd] = 1
          PROVE  /\ g.p.addr \in Conn
                 /\ fdt'[g.fd] \in {g.p.addr, NoConn}
                 /\ fdt'[g.fd] = NoConn => cli[g.p.addr] = "dead"
      <4>1. g.fd \in Fd
        BY <3>1, <3>2 DEF FdRight, Asking, Adding
      <4> QED
        BY <2>4, <2>18, <3>1, <3>2, <4>1 DEF Duty
    <3>3. ASSUME NEW d \in Conn, Own(g.fd, d)'
          PROVE  /\ g.at = "find" => cli[d] = "left"
                 /\ Closing(g) => Granted(d)' /\ Absent(g.fd)'
                 /\ Removing(g) \/ g.at = "log_friends" => Granted(d)' /\ Named(g.fd, g.id)'
      <4>1. Own(g.fd, d)
        BY <2>6, <3>3
      <4>2. /\ Absent(g.fd)' <=> Absent(g.fd)
            /\ Named(g.fd, g.id)' <=> Named(g.fd, g.id)
        BY DEF Absent, Named
      <4> QED
        BY <2>9, <3>1, <4>1, <4>2 DEF Duty
    <3> QED
      BY <3>2, <3>3 DEF Duty
  <2>20. OfflinesRight'
    <3> SUFFICES ASSUME NEW d \in Conn, NEW g \in Fd, Own(g, d)',
                        NEW i \in DOMAIN rx'[d], rx'[d][i].op = "OFFLINE"
                 PROVE  /\ Granted(d)'
                        /\ \A j \in DOMAIN online' :
                              online'[j].fd = g => online'[j].id = rx'[d][i].id
      BY DEF OfflinesRight, Named
    <3>1. Own(g, d) /\ rx'[d] = rx[d]
      BY <2>4, <2>6
    <3> QED
      BY <2>9, <3>1 DEF PInv, OfflinesRight, Named
  <2>21. ClaimsRight'
    <3>1. \A d \in Conn : \A id : Holds(d, id)' => Holds(d, id)
      BY <2>2, <2>4 DEF Holds, Asks, Sent
    <3>2. \A id, g : Claimed(id, g)' => Claimed(id, g)
      BY <2>11 DEF Claimed
    <3>3. Given' = Given
      BY DEF Given
    <3> QED
      BY <2>5, <2>7, <3>1, <3>2, <3>3, ClaimsKept DEF PInv
  <2> QED
    BY <2>13, <2>14, <2>15, <2>17, <2>19, <2>20, <2>21 DEF PInv
<1> QED
  BY <1>2, <1>3

LEMMA OffHolds ==
    ASSUME IInv, PInv, NEW t \in Thread, OffCtl(t) \/ OffClose(t),
           up', UNCHANGED clientVars
    PROVE  PInv'
<1>1. PICK f : f = Top(t)
  OBVIOUS
<1>2. CASE OffCtl(t) /\ ~(f.id < 0)
  BY <1>1, <1>2, OffCtlGoes
<1>3. CASE OffCtl(t) /\ f.id < 0
  <2>1. At(t, "off_ctl") /\ Return(t) /\ Close(f.fd)
        /\ UNCHANGED <<online, accepts, issued, cli, mine, told>>
    BY <1>1, <1>3 DEF OffCtl, ghostVars, clientVars
  <2>2. stack[t] # << >> /\ Closing(f)
    BY <1>1, <1>3, <2>1, AtPlain DEF Closing
  <2> QED
    BY <1>1, <2>1, <2>2, CloseKeeps
<1>4. CASE OffClose(t)
  <2>1. At(t, "off_close") /\ Return(t) /\ Close(f.fd)
        /\ UNCHANGED <<online, accepts, issued, cli, mine, told>>
    BY <1>1, <1>4, DieEnds DEF OffClose, ghostVars, clientVars
  <2>2. stack[t] # << >> /\ Closing(f)
    BY <1>1, <2>1, AtPlain DEF Closing
  <2> QED
    BY <1>1, <2>1, <2>2, CloseKeeps
<1> QED
  BY <1>2, <1>3, <1>4
----------------------------------------------------------------------------
(* A packet or a hangup gets a thread.                                     *)
LEMMA TailAt ==
    ASSUME NEW S, NEW s \in Seq(S), s # << >>
    PROVE  /\ 1 \in DOMAIN s /\ Head(s) = s[1] /\ Tail(s) \in Seq(S)
           /\ \A i \in DOMAIN Tail(s) :
                 i \in Nat \ {0} /\ i + 1 \in DOMAIN s /\ Tail(s)[i] = s[i + 1]
<1>1. Len(s) \in Nat \ {0} /\ DOMAIN s = 1 .. Len(s)
  OBVIOUS
<1>2. Tail(s) \in Seq(S) /\ DOMAIN Tail(s) = 1 .. Len(s) - 1
  OBVIOUS
<1>3. \A i \in 1 .. Len(s) - 1 : Tail(s)[i] = s[i + 1]
  OBVIOUS
<1>4. 1 \in DOMAIN s /\ Head(s) = s[1]
  BY <1>1
<1>5. \A i \in 1 .. Len(s) - 1 : i \in Nat \ {0} /\ i + 1 \in DOMAIN s
  BY <1>1
<1> QED
  BY <1>2, <1>3, <1>4, <1>5

LEMMA HangupHolds ==
    ASSUME IInv, PInv, NEW t \in Thread, NEW fd \in Fd, Hangup(t, fd),
           UNCHANGED clientVars
    PROVE  PInv'
<1>1. PICK g : g = ErrorFrame(fd)
  OBVIOUS
<1>2. PICK c : c = fdt[fd]
  OBVIOUS
<1>3. /\ stack[t] = << >> /\ fd \in epset /\ link[c] = "gone"
      /\ link' = [link EXCEPT ![c] = "reaped"]
      /\ stack' = [stack EXCEPT ![t] = <<g>>]
      /\ UNCHANGED <<rx, tx, fdt, accepts, issued, online, cli, mine, told>>
  BY <1>1, <1>2 DEF Hangup, ioVars, ghostVars, clientVars
<1>4. c \in Conn /\ LinksRight /\ accepts[fd] # 0
  BY <1>2, <1>3 DEF IInv, ServerInv, DescriptorsRight, PInv, LinksRight
<1>5. stack \in [Thread -> Seq(Frames)] /\ link \in [Conn -> LinkState]
  BY OnlineTypes
<1>6. Turn(t, g, {g}) /\ g \in Active'
  BY <1>3, <1>5, StartTurn
<1>7. g.at = "find" /\ g.fd = fd /\ ~Asking(g) /\ FdRight(g) /\ Duty(g)
  BY <1>1, <1>2, <1>3, <1>4, ErrorDuty DEF IsOpen
<1>8. Steady
  <2>1. \A d \in Conn : LinkSame(d)
    BY <1>3, <1>4, <1>5 DEF LinkSame
  <2> QED
    BY <1>3, <2>1 DEF Steady, TxSame, Answers, Sent
<1>9. ASSUME NEW i \in DOMAIN online PROVE EntryRight(online[i])'
  <2>1. PICK x : x = online[i] /\ x = online'[i]
    BY <1>3
  <2>2. EntryRight(x)
    BY <2>1 DEF PInv, EntriesRight
  <2>3. ASSUME Own(x.fd, x.addr), link[x.addr] = "gone", link'[x.addr] # "gone"
        PROVE  Removes(g, x)
    <3>1. x.fd \in Fd /\ x.addr \in Conn /\ fdt[x.fd] = x.addr
      BY <2>3 DEF Own
    <3>2. x.addr = c
      BY <1>3, <1>4, <1>5, <2>3, <3>1
    <3>3. x.fd = fd
      BY <1>2, <1>4, <3>1, <3>2 DEF LinksRight
    <3> QED
      BY <1>7, <3>3 DEF Removes
  <2>4. EntryRight(x)'
    BY <1>3, <1>6, <1>8, <2>2, <2>3, SteadyMild, EntryKept
  <2> QED
    BY <2>1, <2>4
<1>10. (\A i \in DOMAIN online : EntryRight(online[i]))'
  BY <1>3, <1>9
<1> QED
  BY <1>3, <1>5, <1>6, <1>7, <1>8, <1>10, SteadyKeeps

(* What a packet tells its handler is so.                                  *)
LEMMA ReceiveDuty ==
    ASSUME PInv, NEW fd \in Fd, NEW c \in Conn, fdt[fd] = c,
           1 \in DOMAIN rx[c], NEW pkt, pkt = rx[c][1],
           NEW g, g.fd = fd, pkt.op = "OFFLINE" => g.id = pkt.id,
           g.at = CASE pkt.op = "REGISTER"   -> "reg_insert"
                    [] pkt.op = "LOGIN"      -> "log_query"
                    [] pkt.op = "OFFLINE"    -> "off_ctl"
                    [] pkt.op = "ADD_FRIEND" -> "add_search"
                    [] pkt.op = "ALLOW_ADDF" -> "alw_src",
           pkt.op \in {"REGISTER", "LOGIN", "OFFLINE", "ADD_FRIEND", "ALLOW_ADDF"},
           pkt.op = "OFFLINE" => ~(pkt.id < 0)
    PROVE  /\ FdRight(g) /\ Duty(g)
           /\ Asking(g) <=> pkt.op = "LOGIN"
           /\ Adding(g) <=> pkt.op = "LOGIN"
<1>1. /\ g.at \in {"reg_insert", "log_query", "off_ctl", "add_search", "alw_src"}
      /\ g.at = "log_query" <=> pkt.op = "LOGIN"
      /\ g.at = "off_ctl" <=> pkt.op = "OFFLINE"
  OBVIOUS
<1>2. (Asking(g) <=> pkt.op = "LOGIN") /\ (Adding(g) <=> pkt.op = "LOGIN")
  BY <1>1 DEF Asking, Adding
<1>3. FdRight(g)
  BY <1>1 DEF FdRight, PInv, LinksRight
<1>4. ~Closing(g) /\ (Removing(g) => pkt.op = "OFFLINE")
  BY <1>1 DEF Closing, Removing
<1>5. ASSUME NEW d \in Conn, Own(g.fd, d), Removing(g)
      PROVE  Granted(d) /\ Named(g.fd, g.id)
  <2>1. d = c
    BY <1>5 DEF Own
  <2> QED
    BY <1>4, <1>5, <2>1 DEF PInv, OfflinesRight
<1> QED
  BY <1>1, <1>2, <1>3, <1>4, <1>5 DEF Duty

LEMMA RxTail ==
    ASSUME IInv, NEW c \in Conn, rx[c] # << >>, NEW r, r = Tail(rx[c])
    PROVE  /\ 1 \in DOMAIN rx[c] /\ Head(rx[c]) = rx[c][1] /\ rx[c][1] \in Requests
           /\ \A i \in DOMAIN r :
                 i \in Nat \ {0} /\ i + 1 \in DOMAIN rx[c] /\ r[i] = rx[c][i + 1]
<1>1. PICK s : s = rx[c]
  OBVIOUS
<1>2. rx \in [Conn -> Seq(Requests)]
  BY OnlineTypes
<1>3. s \in Seq(Requests) /\ s # << >> /\ r = Tail(s)
  BY <1>1, <1>2
<1>4. /\ 1 \in DOMAIN s /\ Head(s) = s[1]
      /\ \A i \in DOMAIN Tail(s) :
            i \in Nat \ {0} /\ i + 1 \in DOMAIN s /\ Tail(s)[i] = s[i + 1]
  BY ONLY <1>3, TailAt
<1>5. s[1] \in Requests
  BY <1>3, <1>4
<1> QED
  BY <1>1, <1>3, <1>4, <1>5

(* A request for a login becomes a frame that works on it.                 *)
LEMMA ReceiveLogin ==
    ASSUME IInv, PInv, NEW t \in Thread, stack[t] = << >>,
           NEW fd \in Fd, NEW c \in Conn, fdt[fd] = c, rx[c] # << >>,
           NEW pkt, pkt = rx[c][1], rx' = [rx EXCEPT ![c] = Tail(@)],
           NEW g, g.fd = fd, FdRight(g), Asking(g) <=> pkt.op = "LOGIN",
           pkt.op = "LOGIN" => g.id = pkt.id,
           stack' = [stack EXCEPT ![t] = <<g>>],
           UNCHANGED <<tx, fdt, cli, mine, accepts, link>>
    PROVE  OneLogin'
<1> SUFFICES ASSUME NEW d \in Conn, Sound(d)' PROVE LoginsRight(d)'
  BY DEF OneLogin
<1>1. Sound(d) /\ LoginsRight(d)
  BY DEF Sound, Own, Waiting, PInv, OneLogin
<1>2. stack \in [Thread -> Seq(Frames)] /\ rx \in [Conn -> Seq(Requests)]
  BY OnlineTypes
<1>3. /\ DOMAIN <<g>> = {1} /\ <<g>>[1] = g
      /\ stack'[t] = <<g>> /\ \A u \in Thread \ {t} : stack'[u] = stack[u]
  BY <1>2
<1>4. \A u \in Thread : \A i \in DOMAIN stack'[u] :
         \/ u # t /\ i \in DOMAIN stack[u] /\ stack'[u][i] = stack[u][i]
         \/ u = t /\ i = 1 /\ stack'[u][i] = g
  BY <1>3
<1>5. Answers(d)' = Answers(d)
  BY DEF Answers
<1>6. /\ 1 \in DOMAIN rx[c] /\ rx'[c] = Tail(rx[c])
      /\ \A i \in DOMAIN rx'[c] :
            i \in Nat \ {0} /\ i + 1 \in DOMAIN rx[c] /\ rx'[c][i] = rx[c][i + 1]
  <2>1. rx'[c] = Tail(rx[c])
    BY <1>2
  <2>2. \A r : r = Tail(rx[c]) =>
           /\ 1 \in DOMAIN rx[c]
           /\ \A i \in DOMAIN r :
                 i \in Nat \ {0} /\ i + 1 \in DOMAIN rx[c] /\ r[i] = rx[c][i + 1]
    BY RxTail
  <2> QED
    BY ONLY <2>1, <2>2
<1>7. \A i \in DOMAIN rx[c] : i \in Nat
  BY <1>2
<1>8. CASE pkt.op = "LOGIN" /\ d = c
  <2>1. 1 \in Asks(c)
    BY <1>6, <1>8 DEF Asks
  <2>2. Asks(c)' = {}
    <3> SUFFICES ASSUME NEW i \in DOMAIN rx'[c], rx'[c][i].op = "LOGIN" PROVE FALSE
      BY DEF Asks
    <3>1. i + 1 \in Asks(c) /\ i \in Nat \ {0}
      BY <1>6 DEF Asks
    <3>2. i + 1 = 1
      BY <1>1, <1>8, <2>1, <3>1 DEF LoginsRight
    <3> QED
      BY <3>1, <3>2
  <2>3. /\ ~Worked(c) /\ Answers(c) = {} /\ cli[c] = "log_wait" /\ pkt.id = mine[c]
    BY <1>1, <1>8, <2>1 DEF LoginsRight
  <2>4. ASSUME NEW u \in Thread, NEW i \in DOMAIN stack'[u], Works(c, u, i)'
        PROVE  u = t /\ i = 1 /\ stack'[u][i] = g
    <3>1. ~(i \in DOMAIN stack[u] /\ Works(c, u, i))
      BY <2>3 DEF Worked
    <3> QED
      BY <1>4, <2>4, <3>1 DEF Works
  <2>5. \A u, v \in Thread : \A i \in DOMAIN stack'[u], j \in DOMAIN stack'[v] :
           Works(c, u, i)' /\ Works(c, v, j)' => u = v /\ i = j
    BY <2>4
  <2>6. \A u \in Thread : \A i \in DOMAIN stack'[u] :
           Works(c, u, i)' => stack'[u][i].id = mine'[c]
    BY <1>8, <2>3, <2>4
  <2> QED
    BY <1>5, <1>8, <2>2, <2>3, <2>5, <2>6 DEF LoginsRight
<1>9. CASE ~(pkt.op = "LOGIN" /\ d = c)
  <2>1. ASSUME NEW u \in Thread, NEW i \in DOMAIN stack'[u], Works(d, u, i)'
        PROVE  /\ i \in DOMAIN stack[u] /\ Works(d, u, i)
               /\ stack'[u][i].id = stack[u][i].id
    BY <1>4, <1>9, <2>1 DEF Works
  <2>2. Worked(d)' => Worked(d)
    BY <2>1 DEF Worked
  <2>3. \A u, v \in Thread : \A i \in DOMAIN stack'[u], j \in DOMAIN stack'[v] :
           Works(d, u, i)' /\ Works(d, v, j)' => u = v /\ i = j
    BY <1>1, <2>1 DEF LoginsRight
  <2>4. \A u \in Thread : \A i \in DOMAIN stack'[u] :
           Works(d, u, i)' => stack'[u][i].id = mine'[d]
    BY <1>1, <2>1 DEF LoginsRight
  <2>5. CASE d = c
    <3>1. ASSUME NEW i \in Asks(c)'
          PROVE  i \in Nat /\ i + 1 \in Asks(c) /\ rx'[c][i] = rx[c][i + 1]
      BY <1>6, <3>1 DEF Asks
    <3>2. \A i, j \in Asks(c)' : i = j
      <4> SUFFICES ASSUME NEW i \in Asks(c)', NEW j \in Asks(c)' PROVE i = j
        OBVIOUS
      <4>1. i + 1 = j + 1 /\ i \in Nat /\ j \in Nat
        BY <1>1, <2>5, <3>1 DEF LoginsRight
      <4> QED
        BY <4>1
    <3>3. ASSUME NEW i \in Asks(c)' PROVE rx'[c][i].id = mine'[c]
      <4>1. PICK j : j = i + 1
        OBVIOUS
      <4>2. j \in Asks(c) /\ rx'[c][i] = rx[c][j]
        BY <3>1, <4>1
      <4>3. rx[c][j].id = mine[c]
        BY <1>1, <2>5, <4>2 DEF LoginsRight
      <4> QED
        BY <4>2, <4>3
    <3>4. Asks(c) = {} => Asks(c)' = {}
      BY <3>1
    <3> QED
      <4>1. \A i \in Asks(d)' : rx'[d][i].id = mine'[d]
        BY <2>5, <3>3
      <4>2. (\A i, j \in Asks(d)' : i = j) /\ (Asks(d) = {} => Asks(d)' = {})
        BY <2>5, <3>2, <3>4
      <4> QED
        BY <1>1, <1>5, <2>2, <2>3, <2>4, <4>1, <4>2 DEF LoginsRight
  <2>6. CASE d # c
    <3>1. rx'[d] = rx[d]
      BY <1>2, <2>6
    <3>2. Asks(d)' = Asks(d)
      BY <3>1 DEF Asks
    <3>3. \A i \in Asks(d)' : rx'[d][i].id = mine'[d]
      BY <1>1, <3>1, <3>2 DEF LoginsRight
    <3> QED
      BY <1>1, <1>5, <2>2, <2>3, <2>4, <3>2, <3>3 DEF LoginsRight
  <2> QED
    BY <2>5, <2>6
<1> QED
  BY <1>8, <1>9

LEMMA ReceiveHolds ==
    ASSUME IInv, PInv, NEW t \in Thread, NEW fd \in Fd, Receive(t, fd),
           UNCHANGED clientVars
    PROVE  PInv'
<1>1. PICK c, pkt : c = fdt[fd] /\ pkt = Head(rx[c])
  OBVIOUS
<1>2. PICK at, id :
         /\ at = CASE pkt.op = "REGISTER"   -> "reg_insert"
                   [] pkt.op = "LOGIN"      -> "log_query"
                   [] pkt.op = "OFFLINE"    -> "off_ctl"
                   [] pkt.op = "ADD_FRIEND" -> "add_search"
                   [] pkt.op = "ALLOW_ADDF" -> "alw_src"
         /\ id = IF pkt.op \in {"LOGIN", "OFFLINE"} THEN pkt.id ELSE 0
  OBVIOUS
<1>3. PICK g : g = Frame(at, fd, id, pkt)
  OBVIOUS
<1>4. /\ stack[t] = << >> /\ fd \in epset /\ rx[c] # << >>
      /\ rx' = [rx EXCEPT ![c] = Tail(@)]
      /\ stack' = [stack EXCEPT ![t] = <<g>>]
      /\ UNCHANGED <<link, tx, fdt, accepts, issued, online, cli, mine, told>>
  BY <1>1, <1>2, <1>3 DEF Receive, ioVars, ghostVars, clientVars
<1>5. c \in Conn /\ LinksRight /\ accepts[fd] # 0
  BY <1>1, <1>4 DEF IInv, ServerInv, DescriptorsRight, PInv, LinksRight
<1>6. stack \in [Thread -> Seq(Frames)] /\ rx \in [Conn -> Seq(Requests)]
  BY OnlineTypes
<1>7. /\ pkt = rx[c][1] /\ 1 \in DOMAIN rx[c] /\ rx'[c] = Tail(rx[c])
      /\ \A i \in DOMAIN rx'[c] :
            i + 1 \in DOMAIN rx[c] /\ rx'[c][i] = rx[c][i + 1]
  <2>1. rx'[c] = Tail(rx[c])
    BY <1>4, <1>5, <1>6
  <2>2. \A r : r = Tail(rx[c]) =>
           /\ 1 \in DOMAIN rx[c] /\ Head(rx[c]) = rx[c][1]
           /\ \A i \in DOMAIN r : i + 1 \in DOMAIN rx[c] /\ r[i] = rx[c][i + 1]
    BY <1>4, <1>5, RxTail
  <2> QED
    BY ONLY <1>1, <2>1, <2>2
<1>8. pkt \in Requests
  <2>1. rx[c][1] \in Requests
    BY <1>4, <1>5, RxTail
  <2> QED
    BY <1>7, <2>1
<1>9. /\ pkt.op \in {"REGISTER", "LOGIN", "OFFLINE", "ADD_FRIEND", "ALLOW_ADDF"}
      /\ pkt.op = "OFFLINE" => ~(pkt.id < 0)
  <2>1. pkt \in ToServer /\ \A i \in Id : i \in Nat
    BY <1>8, IdAssumption DEF Requests
  <2>2. pkt.op \in {"REGISTER", "LOGIN", "OFFLINE", "ADD_FRIEND", "ALLOW_ADDF"}
    BY <2>1 DEF ToServer
  <2>3. pkt.op = "OFFLINE" => pkt.id \in Id
    BY <2>1 DEF ToServer
  <2>4. pkt.op = "OFFLINE" => ~(pkt.id < 0)
    BY <2>1, <2>3
  <2> QED
    BY <2>2, <2>4
<1>10. /\ g.at = at /\ g.fd = fd /\ g.id = id
  BY <1>3 DEF Frame
<1>11. /\ FdRight(g) /\ Duty(g)
       /\ (Asking(g) <=> pkt.op = "LOGIN") /\ (Adding(g) <=> pkt.op = "LOGIN")
  <2>1. pkt.op = "OFFLINE" => g.id = pkt.id
    BY <1>2, <1>10
  <2>2. /\ fdt[fd] = c /\ c \in Conn /\ fd \in Fd /\ g.fd = fd
        /\ pkt = rx[c][1] /\ 1 \in DOMAIN rx[c]
    BY <1>1, <1>5, <1>7, <1>10
  <2>3. g.at = CASE pkt.op = "REGISTER"   -> "reg_insert"
                 [] pkt.op = "LOGIN"      -> "log_query"
                 [] pkt.op = "OFFLINE"    -> "off_ctl"
                 [] pkt.op = "ADD_FRIEND" -> "add_search"
                 [] pkt.op = "ALLOW_ADDF" -> "alw_src"
    BY <1>2, <1>10
  <2> QED
    BY ONLY PInv, <1>9, <2>1, <2>2, <2>3, ReceiveDuty
<1>12. pkt.op = "LOGIN" => g.id = pkt.id
  BY <1>2, <1>10
<1>13. Turn(t, g, {g}) /\ g \in Active'
  BY <1>4, <1>6, StartTurn
<1>14. ~Waiting(c)
  BY <1>1, <1>5 DEF LinksRight, Waiting
<1>15. \A d \in Conn : d # c => rx'[d] = rx[d]
  BY <1>4, <1>6
<1>16. \A d \in Conn : \A i \in DOMAIN rx'[d] : \E j \in DOMAIN rx[d] : rx'[d][i] = rx[d][j]
  BY <1>7, <1>15
<1>17. Mild
  BY <1>4, <1>14, <1>15, <1>16 DEF Mild, LinkSame, Answers
<1>18. OneLogin'
  <2>1. /\ stack[t] = << >> /\ fdt[fd] = c /\ c \in Conn /\ rx[c] # << >>
        /\ pkt = rx[c][1] /\ rx' = [rx EXCEPT ![c] = Tail(@)] /\ g.fd = fd
        /\ stack' = [stack EXCEPT ![t] = <<g>>]
        /\ UNCHANGED <<tx, fdt, cli, mine, accepts, link>>
    BY <1>1, <1>4, <1>5, <1>7, <1>10
  <2> QED
    BY ONLY IInv, PInv, <2>1, <1>11, <1>12, t \in Thread, fd \in Fd, ReceiveLogin
<1>19. ASSUME NEW e, EntryRight(e) PROVE EntryRight(e)'
  BY <1>4, <1>13, <1>17, <1>19, EntryKept
<1>20. ASSUME NEW d \in Conn, NEW x, Holds(d, x)' PROVE Holds(d, x)
  <2>1. (\E i \in Asks(d)' : rx'[d][i].id = x) => \E i \in Asks(d) : rx[d][i].id = x
    BY <1>16 DEF Asks
  <2> QED
    BY <1>4, <1>20, <2>1 DEF Holds, Sent
<1>21. ASSUME NEW x, NEW h, Claimed(x, h)'
       PROVE  Claimed(x, h) \/ (pkt.op = "LOGIN" /\ x = pkt.id /\ h = fd)
  BY <1>4, <1>10, <1>11, <1>12, <1>13, <1>21, TurnActive DEF Claimed
<1>22. pkt.op = "LOGIN" => Holds(c, pkt.id)
  BY <1>7 DEF Holds, Asks
<1>23. ClaimsRight'
  <2>1. ASSUME NEW x, NEW h, Claimed(x, h), pkt.op = "LOGIN", x = pkt.id
        PROVE  h = fd
    <3>1. \A k \in Fd : fdt[k] = c => k = h
      BY <1>5, <1>22, <2>1 DEF PInv, ClaimsRight
    <3> QED
      BY <1>1, <3>1
  <2>2. \A x, h, k : Claimed(x, h)' /\ Claimed(x, k)' => h = k
    <3>1. \A x, h, k : Claimed(x, h) /\ Claimed(x, k) => h = k
      BY DEF PInv, ClaimsRight
    <3> QED
      BY <1>21, <2>1, <3>1
  <2>3. Given' = Given
    BY <1>4 DEF Given
  <2>4. \A x, h : Claimed(x, h)' => x \in Given'
    <3>1. \A x, h : Claimed(x, h) => x \in Given
      BY DEF PInv, ClaimsRight
    <3>2. pkt.op = "LOGIN" => pkt.id \in Given
      BY <1>5, <1>22 DEF PInv, ClaimsRight
    <3> QED
      BY <1>21, <2>3, <3>1, <3>2
  <2>5. \A d \in Conn : \A x : Holds(d, x)' => x \in Given'
    BY <1>20, <2>3 DEF PInv, ClaimsRight
  <2>6. \A d, b \in Conn : \A x : Holds(d, x)' /\ Holds(b, x)' => d = b
    BY <1>20 DEF PInv, ClaimsRight
  <2>7. ASSUME NEW d \in Conn, NEW x, NEW h, Claimed(x, h)', Holds(d, x)'
        PROVE  ~Waiting(d)' /\ \A k \in Fd : fdt'[k] = d => k = h
    <3>1. Holds(d, x) /\ (Waiting(d)' <=> Waiting(d)) /\ fdt' = fdt
      BY <1>4, <1>17, <1>20, <2>7, MildSame
    <3>2. CASE Claimed(x, h)
      BY <3>1, <3>2 DEF PInv, ClaimsRight
    <3>3. CASE pkt.op = "LOGIN" /\ x = pkt.id /\ h = fd
      <4>1. d = c
        BY <1>5, <1>22, <3>1, <3>3 DEF PInv, ClaimsRight
      <4>2. \A k \in Fd : fdt[k] = c => k = fd
        BY <1>1, <1>5 DEF LinksRight
      <4> QED
        BY <1>14, <3>1, <3>3, <4>1, <4>2
    <3> QED
      BY <1>21, <2>7, <3>2, <3>3
  <2> QED
    BY <2>2, <2>4, <2>5, <2>6, <2>7 DEF ClaimsRight
<1> QED
  BY <1>4, <1>11, <1>13, <1>17, <1>18, <1>19, <1>23, MildKeeps
----------------------------------------------------------------------------
(* A descriptor that is given out for the first time is in no entry and no *)
(* frame; one that was given out before is nobody's own any more.          *)
LEMMA AcceptDoes ==
    ASSUME IInv, PInv, NEW c \in Conn, NEW fd \in Fd, link[c] = "syn",
           fdt[fd] = NoConn, fdt' = [fdt EXCEPT ![fd] = c],
           accepts' = [accepts EXCEPT ![fd] = @ + 1],
           link' = [link EXCEPT ![c] = "open"], UNCHANGED cli
    PROVE  /\ fdt'[fd] = c /\ \A g \in Fd \ {fd} : fdt'[g] = fdt[g]
           /\ \A g \in Fd \ {fd} : accepts'[g] = accepts[g]
           /\ accepts'[fd] = accepts[fd] + 1 /\ accepts[fd] \in Nat
           /\ link'[c] = "open" /\ \A d \in Conn \ {c} : link'[d] = link[d]
           /\ \A g \in Fd : fdt[g] # c
           /\ \A g \in Fd : accepts[g] # 0 => \A d \in Conn :
                 Own(g, d)' => g # fd /\ d # c /\ Own(g, d)
           /\ \A g, d : Own(g, d)' => Own(g, d) \/ (g = fd /\ d = c)
           /\ \A d \in Conn \ {c} : Sound(d)' => Sound(d)
           /\ Sound(c)' => Sound(c) /\ accepts[fd] = 0
<1>1. /\ fdt \in [Fd -> Conn \cup {NoConn}] /\ accepts \in [Fd -> Nat]
      /\ link \in [Conn -> LinkState]
  BY OnlineTypes
<1>2. /\ fdt'[fd] = c /\ \A g \in Fd \ {fd} : fdt'[g] = fdt[g]
      /\ \A g \in Fd \ {fd} : accepts'[g] = accepts[g]
      /\ accepts'[fd] = accepts[fd] + 1 /\ accepts[fd] \in Nat
      /\ link'[c] = "open" /\ \A d \in Conn \ {c} : link'[d] = link[d]
  BY <1>1
<1>3. \A g \in Fd : fdt[g] # c
  BY DEF PInv, LinksRight
<1>4. \A g, d : Own(g, d)' => Own(g, d) \/ (g = fd /\ d = c)
  BY <1>2 DEF Own
<1>5. ASSUME NEW g \in Fd, accepts[g] # 0, NEW d \in Conn, Own(g, d)'
      PROVE  g # fd /\ d # c /\ Own(g, d)
  <2>1. g # fd
    <3>1. accepts'[fd] = 1 => accepts[fd] = 0
      BY <1>2
    <3> QED
      BY <1>5, <3>1 DEF Own
  <2>2. Own(g, d)
    BY <1>4, <1>5, <2>1
  <2> QED
    BY <1>3, <2>1, <2>2 DEF Own
<1>6. \A d \in Conn \ {c} : Sound(d)' => Sound(d)
  BY <1>2, <1>4 DEF Sound, Waiting
<1>7. ASSUME Sound(c)' PROVE Sound(c) /\ accepts[fd] = 0
  <2>1. cli[c] # "dead" /\ ~Waiting(c)'
    BY <1>2, <1>7 DEF Sound, Waiting
  <2>2. PICK g \in Fd : Own(g, c)'
    BY <1>7, <2>1 DEF Sound
  <2>3. accepts[g] = 0 /\ g = fd
    BY <1>3, <1>4, <1>5, <2>2 DEF Own
  <2> QED
    BY <2>1, <2>3 DEF Sound, Waiting
<1> QED
  BY <1>2, <1>3, <1>4, <1>5, <1>6, <1>7

LEMMA AcceptLogins ==
    ASSUME IInv, PInv, NEW c \in Conn, NEW fd \in Fd, fdt' = [fdt EXCEPT ![fd] = c],
           fdt'[fd] = c, \A g \in Fd \ {fd} : fdt'[g] = fdt[g],
           \A g \in Fd : fdt[g] # c, UNCHANGED <<rx, tx, stack, cli, mine>>,
           \A d \in Conn \ {c} : Sound(d)' => Sound(d),
           Sound(c)' => Sound(c) /\ accepts[fd] = 0
    PROVE  OneLogin'
<1> SUFFICES ASSUME NEW d \in Conn, Sound(d)' PROVE LoginsRight(d)'
  BY DEF OneLogin
<1>1. Sound(d) /\ (d = c => accepts[fd] = 0)
  OBVIOUS
<1>2. LoginsRight(d)
  BY <1>1 DEF PInv, OneLogin
<1>3. ASSUME NEW t \in Thread, NEW i \in DOMAIN stack'[t], Works(d, t, i)'
      PROVE  i \in DOMAIN stack[t] /\ Works(d, t, i)
  <2>1. PICK f : f = stack[t][i] /\ f = stack'[t][i]
    OBVIOUS
  <2>2. i \in DOMAIN stack[t] /\ Asking(f) /\ fdt'[f.fd] = d /\ f \in Active
    BY <1>3, <2>1, ActiveAt DEF Works
  <2>3. f.fd \in Fd /\ accepts[f.fd] # 0
    BY <2>2 DEF PInv, FdsRight, FdRight
  <2>4. f.fd # fd
    BY <1>1, <2>2, <2>3
  <2> QED
    BY <2>1, <2>2, <2>3, <2>4 DEF Works
<1>4. Worked(d)' => Worked(d)
  BY <1>3 DEF Worked
<1>5. Asks(d)' = Asks(d) /\ Answers(d)' = Answers(d)
  BY DEF Asks, Answers
<1>6. \A t, u \in Thread : \A i \in DOMAIN stack'[t], j \in DOMAIN stack'[u] :
         Works(d, t, i)' /\ Works(d, u, j)' => t = u /\ i = j
  BY <1>2, <1>3 DEF LoginsRight
<1>7. \A t \in Thread : \A i \in DOMAIN stack'[t] :
         Works(d, t, i)' => stack'[t][i].id = mine'[d]
  BY <1>2, <1>3 DEF LoginsRight
<1> QED
  BY <1>2, <1>4, <1>5, <1>6, <1>7 DEF LoginsRight

LEMMA AcceptHolds ==
    ASSUME IInv, PInv, NEW c \in Conn, AcceptStep(c)
    PROVE  PInv'
<1>1. PICK fd \in Fd :
         /\ fdt[fd] = NoConn /\ fdt' = [fdt EXCEPT ![fd] = c]
         /\ accepts' = [accepts EXCEPT ![fd] = @ + 1]
  BY DEF AcceptStep, Accept
<1>2. /\ link[c] = "syn" /\ link' = [link EXCEPT ![c] = "open"]
      /\ UNCHANGED <<rx, tx, online, stack, issued, cli, mine, told>>
  BY DEF AcceptStep, Accept, clientVars
<1>3. /\ fdt'[fd] = c /\ \A g \in Fd \ {fd} : fdt'[g] = fdt[g]
      /\ \A g \in Fd \ {fd} : accepts'[g] = accepts[g]
      /\ accepts'[fd] = accepts[fd] + 1 /\ accepts[fd] \in Nat
      /\ link'[c] = "open" /\ \A d \in Conn \ {c} : link'[d] = link[d]
      /\ \A g \in Fd : fdt[g] # c
  <2>1. /\ fdt'[fd] = c /\ \A g \in Fd \ {fd} : fdt'[g] = fdt[g]
        /\ \A g \in Fd \ {fd} : accepts'[g] = accepts[g]
    <3>1. fdt \in [Fd -> Conn \cup {NoConn}] /\ accepts \in [Fd -> Nat]
      BY OnlineTypes
    <3> QED
      BY <1>1, <3>1
  <2>2. /\ accepts'[fd] = accepts[fd] + 1 /\ accepts[fd] \in Nat
        /\ link'[c] = "open" /\ \A d \in Conn \ {c} : link'[d] = link[d]
    BY <1>1, <1>2, AcceptDoes
  <2>3. \A g \in Fd : fdt[g] # c
    BY <1>1, <1>2, AcceptDoes
  <2> QED
    BY <2>1, <2>2, <2>3
<1>4. \A g \in Fd : accepts[g] # 0 => \A d \in Conn :
         Own(g, d)' => g # fd /\ d # c /\ Own(g, d)
  BY <1>1, <1>2, AcceptDoes
<1>5. \A g, d : Own(g, d)' => Own(g, d) \/ (g = fd /\ d = c)
  BY <1>1, <1>2, AcceptDoes
<1>6. OneLogin'
  <2>1. /\ \A d \in Conn \ {c} : Sound(d)' => Sound(d)
        /\ Sound(c)' => Sound(c) /\ accepts[fd] = 0
    <3>1. /\ fdt[fd] = NoConn /\ fdt' = [fdt EXCEPT ![fd] = c]
          /\ accepts' = [accepts EXCEPT ![fd] = @ + 1]
          /\ link[c] = "syn" /\ link' = [link EXCEPT ![c] = "open"]
          /\ UNCHANGED cli
      BY <1>1, <1>2
    <3>2. c \in Conn /\ fd \in Fd
      OBVIOUS
    <3>3. \A d \in Conn \ {c} : Sound(d)' => Sound(d)
      BY ONLY IInv, PInv, <3>1, <3>2, AcceptDoes
    <3>4. Sound(c)' => Sound(c) /\ accepts[fd] = 0
      BY ONLY IInv, PInv, <3>1, <3>2, AcceptDoes, ZenonT(30)
    <3> QED
      BY <3>3, <3>4
  <2>2. /\ fdt' = [fdt EXCEPT ![fd] = c] /\ fdt'[fd] = c
        /\ \A g \in Fd \ {fd} : fdt'[g] = fdt[g]
        /\ \A g \in Fd : fdt[g] # c
        /\ UNCHANGED <<rx, tx, stack, cli, mine>>
    BY <1>1, <1>2, <1>3
  <2> QED
    BY ONLY IInv, PInv, <2>1, <2>2, AcceptLogins
<1>7. Active' = Active /\ \A d \in Conn : Granted(d)' <=> Granted(d)
  BY <1>2 DEF Active, Granted, Answers
<1>8. LinksRight
  BY DEF PInv
<1>9. LinksRight'
  <2>1. accepts'[fd] # 0 /\ cli[c] \in {"menu", "reg_wait", "log_wait"}
    BY <1>2, <1>3, <1>8 DEF LinksRight
  <2>2. \A g \in Fd : g = fd \/ (g # fd /\ fdt'[g] = fdt[g] /\ fdt'[g] # c)
    BY <1>3
  <2>3. \A g, h \in Fd : fdt'[g] \in Conn /\ fdt'[g] = fdt'[h] => g = h
    BY <1>3, <1>8, <2>2 DEF LinksRight
  <2>4. ASSUME NEW g \in Fd, fdt'[g] \in Conn
        PROVE  /\ accepts'[g] # 0
               /\ link'[fdt'[g]] \in {"open", "gone", "reaped"}
               /\ link'[fdt'[g]] = "open" <=> ~(cli'[fdt'[g]] \in {"left", "dead"})
    <3>1. CASE g = fd
      BY <1>2, <1>3, <2>1, <3>1
    <3>2. CASE g # fd
      <4>1. PICK d : d = fdt[g] /\ d = fdt'[g]
        BY <1>3, <3>2
      <4>2. d \in Conn /\ d # c
        BY <1>3, <2>4, <4>1
      <4>3. /\ accepts[g] # 0 /\ link[d] \in {"open", "gone", "reaped"}
            /\ link[d] = "open" <=> ~(cli[d] \in {"left", "dead"})
        BY <1>8, <4>1, <4>2 DEF LinksRight, Ended
      <4>4. accepts'[g] # 0 /\ link'[d] = link[d] /\ cli'[d] = cli[d]
        BY <1>2, <1>3, <3>2, <4>2, <4>3
      <4> QED
        BY <4>1, <4>3, <4>4
    <3> QED
      BY <3>1, <3>2
  <2>5. \A d \in Conn : cli'[d] = "off" => link'[d] = "none"
    BY <1>2, <1>3, <1>8, <2>1 DEF LinksRight
  <2>6. \A d \in Conn : link'[d] \in {"none", "syn"} => d # c /\ link'[d] = link[d]
    BY <1>3
  <2>7. \A d \in Conn : link'[d] = "none" =>
           cli'[d] = "off" /\ rx'[d] = << >> /\ tx'[d] = << >>
    BY <1>2, <1>8, <2>6 DEF LinksRight
  <2>8. \A d \in Conn : link'[d] = "syn" =>
           /\ cli'[d] \in {"menu", "reg_wait", "log_wait"} /\ tx'[d] = << >>
           /\ \A i \in DOMAIN rx'[d] : rx'[d][i].op # "OFFLINE"
    BY <1>2, <1>8, <2>6 DEF LinksRight
  <2> QED
    BY <2>3, <2>4, <2>5, <2>7, <2>8 DEF LinksRight, Ended
<1>10. \A g \in Fd : accepts[g] # 0 => accepts'[g] # 0
  BY <1>3
<1>11. FdsRight'
  <2>1. \A f \in Active : FdRight(f)'
    BY <1>10 DEF PInv, FdsRight, FdRight
  <2>2. \A i \in DOMAIN online' : online'[i].fd \in Fd /\ accepts'[online'[i].fd] # 0
    BY <1>2, <1>10 DEF PInv, FdsRight
  <2> QED
    BY <1>7, <2>1, <2>2 DEF FdsRight
<1>12. \A g \in Fd : accepts[g] # 0 /\ accepts'[g] = 1 =>
          g # fd /\ accepts[g] = 1 /\ fdt'[g] = fdt[g]
  <2>1. accepts'[fd] = 1 => accepts[fd] = 0
    BY <1>3
  <2> QED
    BY <1>3, <2>1
<1>13. ASSUME NEW i \in DOMAIN online PROVE EntryRight(online[i])'
  <2>1. PICK e : e = online[i] /\ e = online'[i]
    BY <1>2
  <2>2. EntryRight(e) /\ e.fd \in Fd /\ accepts[e.fd] # 0
    BY <2>1 DEF PInv, EntriesRight, FdsRight
  <2>3. SUFFICES ASSUME accepts'[e.fd] = 1 PROVE EntryRight(e)'
    BY <2>1 DEF EntryRight
  <2>4. accepts[e.fd] = 1 /\ fdt'[e.fd] = fdt[e.fd]
    BY <1>12, <2>2, <2>3
  <2>5. /\ e.addr \in Conn /\ fdt'[e.fd] \in {e.addr, NoConn}
        /\ fdt'[e.fd] = NoConn => cli'[e.addr] = "dead"
    BY <1>2, <2>2, <2>4 DEF EntryRight
  <2>6. Own(e.fd, e.addr)' => Own(e.fd, e.addr) /\ link'[e.addr] = link[e.addr]
    BY <1>3, <1>4, <2>2, <2>5
  <2> QED
    BY <1>2, <1>7, <2>2, <2>4, <2>5, <2>6 DEF EntryRight
<1>14. EntriesRight'
  <2>1. (\A i \in DOMAIN online : EntryRight(online[i]))'
    BY <1>2, <1>13
  <2>2. ASSUME NEW i \in DOMAIN online, Own(online[i].fd, online[i].addr)'
        PROVE  Own(online[i].fd, online[i].addr)
    <3>1. PICK e : e = online[i] /\ e = online'[i]
      BY <1>2
    <3>2. e.fd \in Fd /\ accepts[e.fd] # 0
      BY <3>1 DEF PInv, FdsRight
    <3>3. Own(e.fd, e.addr)'
      BY <2>2, <3>1
    <3>4. e.addr \in Conn
      BY <3>3 DEF Own
    <3> QED
      BY <1>4, <3>1, <3>2, <3>3, <3>4
  <2> QED
    BY <1>2, <2>1, <2>2 DEF PInv, EntriesRight
<1>15. Duties'
  <2> SUFFICES ASSUME NEW f \in Active PROVE Duty(f)'
    BY <1>7 DEF Duties
  <2>1. Duty(f) /\ FdRight(f)
    BY DEF PInv, Duties, FdsRight
  <2>2. ASSUME f.at = "log_add", accepts'[f.fd] = 1
        PROVE  accepts[f.fd] = 1 /\ fdt'[f.fd] = fdt[f.fd]
    <3>1. f.fd \in Fd /\ accepts[f.fd] # 0
      BY <2>1, <2>2 DEF FdRight, Asking, Adding
    <3> QED
      BY <1>12, <2>2, <3>1
  <2>3. ASSUME NEW d \in Conn, Own(f.fd, d)' PROVE Own(f.fd, d)
    <3>1. f.fd \in Fd /\ accepts[f.fd] # 0
      BY <2>1, <2>3 DEF Own, FdRight
    <3> QED
      BY <1>4, <2>3, <3>1
  <2>4. /\ Absent(f.fd) => Absent(f.fd)'
        /\ Named(f.fd, f.id) => Named(f.fd, f.id)'
    BY <1>2 DEF Absent, Named
  <2> QED
    BY <1>2, <1>7, <2>1, <2>2, <2>3, <2>4 DEF Duty
<1>16. OfflinesRight'
  <2> SUFFICES ASSUME NEW d \in Conn, NEW g \in Fd, Own(g, d)',
                      NEW i \in DOMAIN rx[d], rx[d][i].op = "OFFLINE"
               PROVE  Granted(d) /\ Named(g, rx[d][i].id)
    BY <1>2, <1>7 DEF OfflinesRight, Named
  <2>1. d # c
    BY <1>2, <1>8 DEF LinksRight
  <2> QED
    BY <1>5, <2>1 DEF PInv, OfflinesRight
<1>17. ClaimsRight'
  <2>1. /\ \A x, h : Claimed(x, h)' <=> Claimed(x, h)
        /\ \A d \in Conn : \A x : Holds(d, x)' <=> Holds(d, x)
        /\ Given' = Given
    BY <1>2, <1>7 DEF Claimed, Holds, Sent, Asks, Given
  <2>2. ASSUME NEW d \in Conn, NEW x, NEW h, Claimed(x, h), Holds(d, x)
        PROVE  ~Waiting(d)' /\ \A g \in Fd : fdt'[g] = d => g = h
    <3>1. ~Waiting(d) /\ \A g \in Fd : fdt[g] = d => g = h
      BY <2>2 DEF PInv, ClaimsRight
    <3>2. d # c
      BY <1>2, <3>1 DEF Waiting
    <3> QED
      BY <1>3, <3>1, <3>2 DEF Waiting
  <2> QED
    BY <2>1, <2>2 DEF PInv, ClaimsRight
<1> QED
  BY <1>6, <1>9, <1>11, <1>14, <1>15, <1>16, <1>17 DEF PInv
----------------------------------------------------------------------------
(* A step of client c, which has not ended: what it may do to what PInv is *)
(* about.                                                                  *)
Alone(c) ==
    /\ UNCHANGED serverVars /\ ~Ended(c)
    /\ \A d \in Conn \ {c} :
          /\ link'[d] = link[d] /\ rx'[d] = rx[d] /\ tx'[d] = tx[d]
          /\ cli'[d] = cli[d] /\ mine'[d] = mine[d] /\ told'[d] = told[d]

(* Its connection.                                                         *)
Connects(c) ==
    /\ cli'[c] = "off" => link'[c] = "none"
    /\ link'[c] = "none" => cli'[c] = "off" /\ rx'[c] = << >> /\ tx'[c] = << >>
    /\ link'[c] = "syn" =>
          /\ cli'[c] \in {"menu", "reg_wait", "log_wait"} /\ tx'[c] = << >>
          /\ \A i \in DOMAIN rx'[c] : rx'[c][i].op # "OFFLINE"
    /\ link[c] = "open" => link'[c] = IF Ended(c)' THEN "gone" ELSE "open"
    /\ Waiting(c)' => Waiting(c)

(* Its login.                                                              *)
LogsIn(c) ==
    /\ Sound(c) /\ cli'[c] # "dead" => LoginsRight(c)'
    /\ Sound(c) /\ Granted(c) /\ cli'[c] # "dead" => Granted(c)'
    /\ \A fd \in Fd : Own(fd, c) /\ cli'[c] \in {"log_wait", "in"} => Named(fd, mine'[c])

(* Only one who is logged in says goodbye, and for itself.                 *)
Goodbyes(c) ==
    \A i \in DOMAIN rx'[c] : rx'[c][i].op = "OFFLINE" =>
        \/ \E j \in DOMAIN rx[c] : rx'[c][i] = rx[c][j]
        \/ cli[c] = "in" /\ cli'[c] = "in" /\ rx'[c][i].id = mine[c]

MovesOn(c) ==
    /\ Alone(c) /\ Connects(c) /\ LogsIn(c) /\ Goodbyes(c)
    /\ \A id : Holds(c, id)' => Holds(c, id)

LEMMA AloneSame ==
    ASSUME NEW c \in Conn, Alone(c), Connects(c)
    PROVE  /\ UNCHANGED <<online, fdt, up, stack, issued, accepts>>
           /\ Active' = Active
           /\ \A d \in Conn \ {c} : /\ Waiting(d)' <=> Waiting(d)
                                    /\ Ended(d)' <=> Ended(d)
                                    /\ Sound(d)' <=> Sound(d)
                                    /\ Granted(d)' <=> Granted(d)
                                    /\ Asks(d)' = Asks(d) /\ Answers(d)' = Answers(d)
                                    /\ \A id : Holds(d, id)' <=> Holds(d, id)
           /\ \A fd, d : Own(fd, d)' => Own(fd, d)
           /\ Sound(c)' => Sound(c) /\ cli'[c] # "dead"
<1>1. UNCHANGED <<online, fdt, up, stack, issued, accepts>>
  BY DEF Alone, serverVars
<1>2. Active' = Active
  BY <1>1 DEF Active
<1>3. \A fd, d : Own(fd, d)' => Own(fd, d)
  BY <1>1 DEF Alone, Own, Ended
<1>4. Sound(c)' => Sound(c) /\ cli'[c] # "dead"
  BY <1>3 DEF Alone, Connects, Sound, Ended
<1>5. ASSUME NEW d \in Conn \ {c}
      PROVE  /\ Waiting(d)' <=> Waiting(d)
             /\ Ended(d)' <=> Ended(d)
             /\ Sound(d)' <=> Sound(d)
             /\ Granted(d)' <=> Granted(d)
             /\ Asks(d)' = Asks(d) /\ Answers(d)' = Answers(d)
             /\ \A id : Holds(d, id)' <=> Holds(d, id)
  <2>1. /\ link'[d] = link[d] /\ rx'[d] = rx[d] /\ tx'[d] = tx[d]
        /\ cli'[d] = cli[d] /\ mine'[d] = mine[d] /\ told'[d] = told[d]
    BY DEF Alone
  <2>2. (Waiting(d)' <=> Waiting(d)) /\ (Ended(d)' <=> Ended(d))
    BY <2>1 DEF Waiting, Ended
  <2>3. \A fd : Own(fd, d)' <=> Own(fd, d)
    BY <1>1, <2>1 DEF Own
  <2>4. Sound(d)' <=> Sound(d)
    BY <2>1, <2>2, <2>3 DEF Sound
  <2>5. Asks(d)' = Asks(d) /\ Answers(d)' = Answers(d)
    BY <2>1 DEF Asks, Answers
  <2>6. Granted(d)' <=> Granted(d)
    BY <2>1, <2>5 DEF Granted
  <2>7. \A id : Sent(d, id)' <=> Sent(d, id)
    BY <2>1 DEF Sent
  <2>8. \A id : Holds(d, id)' <=> Holds(d, id)
    BY <2>1, <2>5, <2>7 DEF Holds
  <2> QED
    BY <2>2, <2>4, <2>5, <2>6, <2>8
<1> QED
  BY <1>1, <1>2, <1>3, <1>4, <1>5

LEMMA MovesLinks ==
    ASSUME LinksRight, NEW c \in Conn, Alone(c), Connects(c)
    PROVE  LinksRight'
<1>1. UNCHANGED <<fdt, accepts>>
  BY AloneSame
<1>2. ASSUME NEW fd \in Fd, fdt'[fd] \in Conn
      PROVE  /\ accepts'[fd] # 0
             /\ link'[fdt'[fd]] \in {"open", "gone", "reaped"}
             /\ link'[fdt'[fd]] = "open" <=> ~(cli'[fdt'[fd]] \in {"left", "dead"})
  <2>1. PICK d \in Conn : d = fdt[fd] /\ d = fdt'[fd]
    BY <1>1, <1>2
  <2>2. /\ accepts[fd] # 0 /\ link[d] \in {"open", "gone", "reaped"}
        /\ link[d] = "open" <=> ~(cli[d] \in {"left", "dead"})
    BY <2>1 DEF LinksRight, Ended
  <2>3. /\ link'[d] \in {"open", "gone", "reaped"}
        /\ link'[d] = "open" <=> ~(cli'[d] \in {"left", "dead"})
    BY <2>2 DEF Alone, Connects, Ended
  <2> QED
    BY <1>1, <2>1, <2>2, <2>3
<1>3. \A fd, g \in Fd : fdt'[fd] \in Conn /\ fdt'[fd] = fdt'[g] => fd = g
  BY <1>1 DEF LinksRight
<1>4. \A d \in Conn : cli'[d] = "off" => link'[d] = "none"
  BY DEF LinksRight, Alone, Connects
<1>5. \A d \in Conn : link'[d] = "none" =>
         cli'[d] = "off" /\ rx'[d] = << >> /\ tx'[d] = << >>
  BY DEF LinksRight, Alone, Connects
<1>6. \A d \in Conn : link'[d] = "syn" =>
         /\ cli'[d] \in {"menu", "reg_wait", "log_wait"} /\ tx'[d] = << >>
         /\ \A i \in DOMAIN rx'[d] : rx'[d][i].op # "OFFLINE"
  BY DEF LinksRight, Alone, Connects
<1> QED
  BY <1>2, <1>3, <1>4, <1>5, <1>6 DEF LinksRight, Ended

LEMMA MovesLogins ==
    ASSUME OneLogin, NEW c \in Conn, Alone(c), Connects(c), LogsIn(c)
    PROVE  OneLogin'
<1> SUFFICES ASSUME NEW d \in Conn, Sound(d)' PROVE LoginsRight(d)'
  BY DEF OneLogin
<1>1. CASE d = c
  BY <1>1, AloneSame DEF LogsIn
<1>2. CASE d # c
  <2>1. LoginsRight(d)
    BY <1>2, AloneSame DEF OneLogin
  <2>2. UNCHANGED <<stack, fdt>> /\ Asks(d)' = Asks(d) /\ Answers(d)' = Answers(d)
    BY <1>2, AloneSame
  <2>3. rx'[d] = rx[d] /\ tx'[d] = tx[d] /\ cli'[d] = cli[d] /\ mine'[d] = mine[d]
    BY <1>2 DEF Alone
  <2>4. \A t, i : Works(d, t, i)' <=> Works(d, t, i)
    BY <2>2 DEF Works
  <2>5. Worked(d)' <=> Worked(d)
    BY <2>2, <2>4 DEF Worked
  <2> QED
    BY <2>1, <2>2, <2>3, <2>4, <2>5 DEF LoginsRight
<1> QED
  BY <1>1, <1>2

LEMMA MovesEntry ==
    ASSUME LinksRight, NEW c \in Conn, Alone(c), Connects(c), LogsIn(c),
           NEW e, EntryRight(e), NEW k \in DOMAIN online, e = online[k]
    PROVE  EntryRight(e)'
<1>1. UNCHANGED <<fdt, accepts>> /\ Active' = Active
  BY AloneSame
<1> SUFFICES ASSUME accepts[e.fd] = 1 PROVE EntryRight(e)'
  BY <1>1 DEF EntryRight
<1>2. e.addr \in Conn /\ fdt[e.fd] \in {e.addr, NoConn}
  BY DEF EntryRight
<1>3. fdt[e.fd] = NoConn => cli'[e.addr] = "dead"
  BY <1>2 DEF EntryRight, Alone, Ended
<1>4. SUFFICES ASSUME Own(e.fd, e.addr)'
               PROVE  /\ Granted(e.addr)' \/ \E f \in Active : f.at = "log_ok" /\ f.fd = e.fd
                      /\ cli'[e.addr] \in {"log_wait", "in"} => e.id = mine'[e.addr]
                      /\ \/ link'[e.addr] \in {"open", "gone"}
                         \/ \E f \in Active : Removes(f, e)
  BY <1>1, <1>2, <1>3 DEF EntryRight
<1>5. Own(e.fd, e.addr) /\ e.fd \in Fd /\ fdt[e.fd] = e.addr
  BY <1>4, AloneSame DEF Own
<1>6. CASE e.addr # c
  <2>1. /\ Granted(e.addr)' <=> Granted(e.addr)
        /\ link'[e.addr] = link[e.addr] /\ mine'[e.addr] = mine[e.addr]
        /\ cli'[e.addr] = cli[e.addr]
    BY <1>2, <1>6, AloneSame DEF Alone
  <2> QED
    BY <1>5, <2>1 DEF EntryRight
<1>7. CASE e.addr = c
  <2>1. link[c] = "open"
    BY <1>2, <1>5, <1>7 DEF LinksRight, Alone
  <2>2. link'[c] \in {"open", "gone"}
    BY <2>1 DEF Connects
  <2>3. Sound(c) /\ cli'[c] # "dead"
    BY <1>4, <1>5, <1>7 DEF Sound, Own
  <2>4. Granted(c) => Granted(c)'
    BY <2>3 DEF LogsIn
  <2>5. cli'[c] \in {"log_wait", "in"} => e.id = mine'[c]
    BY <1>5, <1>7 DEF LogsIn, Named
  <2> QED
    BY <1>5, <1>7, <2>2, <2>4, <2>5 DEF EntryRight
<1> QED
  BY <1>6, <1>7
LEMMA MovesHolds ==
    ASSUME PInv, NEW c \in Conn, MovesOn(c)
    PROVE  PInv'
<1>1. Alone(c) /\ Connects(c) /\ LogsIn(c) /\ Goodbyes(c)
  BY DEF MovesOn
<1>2. UNCHANGED <<online, fdt, stack, issued, accepts>> /\ Active' = Active
  BY <1>1, AloneSame
<1>3. \A fd, d : Own(fd, d)' => Own(fd, d)
  BY <1>1, AloneSame
<1>4. LinksRight' /\ OneLogin'
  BY <1>1, MovesLinks, MovesLogins DEF PInv
<1>5. FdsRight'
  BY <1>2 DEF PInv, FdsRight, FdRight
<1>6. ASSUME NEW i \in DOMAIN online PROVE EntryRight(online[i])'
  <2>1. PICK e : e = online[i] /\ e = online'[i]
    BY <1>2
  <2>2. EntryRight(e)'
    BY <1>1, <2>1, MovesEntry DEF PInv, EntriesRight
  <2> QED
    BY <2>1, <2>2
<1>7. EntriesRight'
  <2>1. (\A i \in DOMAIN online : EntryRight(online[i]))'
    BY <1>2, <1>6
  <2>2. \A i, j \in DOMAIN online' :
           online'[i].fd = online'[j].fd /\ Own(online[i].fd, online[i].addr)' => i = j
    BY <1>2, <1>3 DEF PInv, EntriesRight
  <2> QED
    BY <1>2, <2>1, <2>2 DEF EntriesRight
<1>8. ASSUME NEW fd, NEW d \in Conn, Own(fd, d)'
      PROVE  /\ Own(fd, d)
             /\ Granted(d) => Granted(d)'
             /\ cli[d] = "left" => cli'[d] = "left"
  <2>1. Own(fd, d) /\ cli'[d] # "dead"
    BY <1>3, <1>8 DEF Own
  <2>2. Sound(d)
    BY <2>1 DEF Sound, Own
  <2>3. CASE d = c
    BY <1>1, <2>1, <2>2, <2>3 DEF LogsIn, Alone, Ended
  <2>4. CASE d # c
    BY <1>1, <2>1, <2>4, AloneSame DEF Alone
  <2> QED
    BY <2>3, <2>4
<1>9. \A fd, id : (Absent(fd)' <=> Absent(fd)) /\ (Named(fd, id)' <=> Named(fd, id))
  BY <1>2 DEF Absent, Named
<1>10. Duties'
  <2> SUFFICES ASSUME NEW f \in Active PROVE Duty(f)'
    BY <1>2 DEF Duties
  <2>1. Duty(f)
    BY DEF PInv, Duties
  <2>2. \A d \in Conn : cli[d] = "dead" => cli'[d] = "dead"
    BY <1>1 DEF Alone, Ended
  <2>3. f.at = "log_add" /\ accepts'[f.fd] = 1 =>
           /\ f.p.addr \in Conn
           /\ fdt'[f.fd] \in {f.p.addr, NoConn}
           /\ fdt'[f.fd] = NoConn => cli'[f.p.addr] = "dead"
    BY <1>2, <2>1, <2>2 DEF Duty
  <2>4. \A d \in Conn : Own(f.fd, d)' =>
           /\ f.at = "find" => cli'[d] = "left"
           /\ Closing(f) => Granted(d)' /\ Absent(f.fd)'
           /\ Removing(f) \/ f.at = "log_friends" => Granted(d)' /\ Named(f.fd, f.id)'
    BY <1>8, <1>9, <2>1 DEF Duty
  <2> QED
    BY <2>3, <2>4 DEF Duty
<1>11. OfflinesRight'
  <2> SUFFICES ASSUME NEW d \in Conn, NEW fd \in Fd, Own(fd, d)',
                      NEW i \in DOMAIN rx'[d], rx'[d][i].op = "OFFLINE"
               PROVE  Granted(d)' /\ Named(fd, rx'[d][i].id)
    BY <1>2 DEF OfflinesRight, Named
  <2>1. Own(fd, d) /\ (Granted(d) => Granted(d)')
    BY <1>8
  <2>2. CASE \E j \in DOMAIN rx[d] : rx'[d][i] = rx[d][j]
    <3>1. PICK j \in DOMAIN rx[d] : rx'[d][i] = rx[d][j]
      BY <2>2
    <3>2. Granted(d) /\ Named(fd, rx[d][j].id)
      BY <2>1, <3>1 DEF PInv, OfflinesRight
    <3> QED
      BY <2>1, <3>1, <3>2
  <2>3. CASE ~\E j \in DOMAIN rx[d] : rx'[d][i] = rx[d][j]
    <3>1. d = c
      BY <1>1, <2>3 DEF Alone
    <3>2. cli[c] = "in" /\ cli'[c] = "in" /\ rx'[c][i].id = mine[c]
      BY <1>1, <2>3, <3>1 DEF Goodbyes
    <3>3. Granted(c)'
      BY <3>2 DEF Granted
    <3>4. \A k \in DOMAIN online : online[k].fd = fd => online[k].id = mine[c]
      <4> SUFFICES ASSUME NEW k \in DOMAIN online, online[k].fd = fd
                   PROVE  online[k].id = mine[c]
        OBVIOUS
      <4>1. EntryRight(online[k]) /\ online[k].addr = c
        BY <2>1, <3>1, OwnEntry DEF PInv, EntriesRight
      <4> QED
        BY <2>1, <3>1, <3>2, <4>1 DEF EntryRight, Own
    <3> QED
      BY <3>1, <3>2, <3>3, <3>4 DEF Named
  <2> QED
    BY <2>2, <2>3
<1>12. ClaimsRight'
  <2>1. /\ \A id, fd : Claimed(id, fd)' <=> Claimed(id, fd)
        /\ Given' = Given
    BY <1>2 DEF Claimed, Given
  <2>2. \A d \in Conn : \A id : Holds(d, id)' => Holds(d, id)
    BY <1>1, AloneSame DEF MovesOn
  <2>3. \A d \in Conn : Waiting(d)' => Waiting(d)
    BY <1>1, AloneSame DEF Connects
  <2> QED
    BY <1>2, <2>1, <2>2, <2>3, ClaimsKept DEF PInv
<1> QED
  BY <1>4, <1>5, <1>7, <1>10, <1>11, <1>12 DEF PInv

(* A client that is not waiting for the answer to a login has nothing of   *)
(* one under way.                                                          *)
LEMMA IdleLogins ==
    ASSUME NEW c \in Conn, LoginsRight(c), cli[c] # "log_wait"
    PROVE  ~Worked(c) /\ Asks(c) = {} /\ Answers(c) = {}
BY DEF LoginsRight

LEMMA StaysIdle ==
    ASSUME NEW c \in Conn, ~Worked(c), Asks(c)' = {}, Answers(c)' = {},
           UNCHANGED <<stack, fdt>>
    PROVE  LoginsRight(c)'
<1>1. \A t \in Thread : \A i \in DOMAIN stack'[t] : ~Works(c, t, i)'
  BY DEF Worked, Works
<1>2. ~Worked(c)'
  BY <1>1 DEF Worked
<1> QED
  BY <1>1, <1>2 DEF LoginsRight

LEMMA SendAt ==
    ASSUME IInv, NEW c \in Conn, NEW m, ClientSend(c, m)
    PROVE  /\ \A d \in Conn : link'[d] = link[d] /\ (d # c => rx'[d] = rx[d])
           /\ \A i \in DOMAIN rx'[c] :
                 \/ i \in DOMAIN rx[c] /\ rx'[c][i] = rx[c][i]
                 \/ i = Len(rx[c]) + 1 /\ rx'[c][i] = m
<1>1. rx \in [Conn -> Seq(Requests)]
  BY OnlineTypes
<1>2. PICK s : s = rx[c]
  OBVIOUS
<1>3. s \in Seq(Requests \cup {m}) /\ m \in Requests \cup {m}
  BY <1>1, <1>2, SeqMono
<1>4. \/ rx'[c] = s
      \/ rx'[c] = Append(s, m)
  BY <1>1, <1>2 DEF ClientSend
<1>5. \A i \in DOMAIN Append(s, m) :
         \/ i \in DOMAIN s /\ Append(s, m)[i] = s[i]
         \/ i = Len(s) + 1 /\ Append(s, m)[i] = m
  <2>1. PICK r : r = Append(s, m)
    OBVIOUS
  <2>2. /\ r \in Seq(Requests \cup {m}) /\ Len(r) = Len(s) + 1 /\ r[Len(s) + 1] = m
        /\ \A i \in 1 .. Len(s) : r[i] = s[i]
    BY ONLY <1>3, <2>1, AppendProperties
  <2>3. DOMAIN r = 1 .. Len(s) + 1 /\ DOMAIN s = 1 .. Len(s) /\ Len(s) \in Nat
    BY <1>3, <2>2
  <2> QED
    BY <2>1, <2>2, <2>3
<1>6. \A d \in Conn : link'[d] = link[d] /\ (d # c => rx'[d] = rx[d])
  BY <1>1 DEF ClientSend
<1> QED
  BY <1>2, <1>4, <1>5, <1>6

LEMMA ReadAt ==
    ASSUME IInv, NEW c \in Conn, NEW state, NEW op, Read(c, state, op)
    PROVE  /\ 1 \in DOMAIN tx[c] /\ Head(tx[c]) = tx[c][1] /\ tx[c] # << >>
           /\ \A d \in Conn : d # c => tx'[d] = tx[d]
           /\ \A i \in DOMAIN tx'[c] :
                 i \in Nat \ {0} /\ i + 1 \in DOMAIN tx[c] /\ tx'[c][i] = tx[c][i + 1]
<1>1. tx \in [Conn -> Seq(Replies)]
  BY OnlineTypes
<1>2. PICK s : s = tx[c]
  OBVIOUS
<1>3. s \in Seq(Replies) /\ s # << >> /\ tx'[c] = Tail(s)
  BY <1>1, <1>2 DEF Read
<1>4. /\ 1 \in DOMAIN s /\ Head(s) = s[1]
      /\ \A i \in DOMAIN Tail(s) :
            i \in Nat \ {0} /\ i + 1 \in DOMAIN s /\ Tail(s)[i] = s[i + 1]
  BY ONLY <1>3, TailAt
<1>5. \A d \in Conn : d # c => tx'[d] = tx[d]
  BY <1>1 DEF Read
<1> QED
  BY <1>2, <1>3, <1>4, <1>5
----------------------------------------------------------------------------
(* The steps of a client.                                                  *)
LEMMA ConnectHolds ==
    ASSUME IInv, PInv, NEW c \in Conn, Connect(c), UNCHANGED serverVars
    PROVE  PInv'
<1>1. /\ cli[c] = "off" /\ cli' = [cli EXCEPT ![c] = "menu"]
      /\ link' = [link EXCEPT ![c] = "syn"] /\ UNCHANGED <<rx, tx, mine, told>>
  BY DEF Connect, Become
<1>2. cli'[c] = "menu" /\ link'[c] = "syn"
  BY <1>1, OnlineTypes
<1>3. link[c] = "none" /\ rx[c] = << >> /\ tx[c] = << >>
  BY <1>1 DEF PInv, LinksRight
<1>4. Alone(c)
  BY <1>1, OnlineTypes DEF Alone, Ended
<1>5. Connects(c)
  BY <1>1, <1>2, <1>3 DEF Connects, Waiting
<1>6. LogsIn(c)
  <2>1. ASSUME Sound(c) PROVE LoginsRight(c)'
    <3>1. ~Worked(c)
      BY <1>1, <2>1, IdleLogins DEF PInv, OneLogin
    <3>2. Asks(c)' = {} /\ Answers(c)' = {}
      BY <1>1, <1>3 DEF Asks, Answers
    <3> QED
      BY <1>4, <1>5, <3>1, <3>2, AloneSame, StaysIdle
  <2>2. ~Granted(c)
    BY <1>1 DEF Granted
  <2> QED
    BY <1>2, <2>1, <2>2 DEF LogsIn
<1>7. Goodbyes(c)
  BY <1>1 DEF Goodbyes
<1>8. \A id : Holds(c, id)' => Holds(c, id)
  BY <1>1 DEF Holds, Asks, Sent
<1> QED
  BY <1>4, <1>5, <1>6, <1>7, <1>8, MovesHolds DEF MovesOn

(* The connection of a client that goes on.                                *)
LEMMA StaysConnected ==
    ASSUME PInv, NEW c \in Conn, link'[c] = link[c],
           cli[c] # "off", ~Ended(c), cli'[c] # "off", ~Ended(c)',
           link[c] = "syn" =>
              /\ cli'[c] \in {"menu", "reg_wait", "log_wait"} /\ tx'[c] = << >>
              /\ \A i \in DOMAIN rx'[c] : rx'[c][i].op # "OFFLINE"
    PROVE  Connects(c)
BY DEF PInv, LinksRight, Connects, Waiting

LEMMA RegisterMoves ==
    ASSUME IInv, PInv, NEW c \in Conn, Register(c), UNCHANGED serverVars
    PROVE  PInv'
<1>1. PICK pwd \in Pwd :
         /\ Request(c, [op |-> "REGISTER", pwd |-> pwd], "reg_wait")
         /\ told' = [told EXCEPT ![c] = [id |-> 0, pwd |-> pwd]]
         /\ mine' = mine /\ cli[c] = "menu"
  BY DEF Register
<1>2. PICK m, r : /\ m = [op |-> "REGISTER", pwd |-> pwd]
                  /\ r = [id |-> 0, pwd |-> pwd]
  OBVIOUS
<1>3. /\ cli' = [cli EXCEPT ![c] = "reg_wait"] /\ ClientSend(c, m)
      /\ tx' = tx /\ told' = [told EXCEPT ![c] = r] /\ m.op = "REGISTER" /\ r.id = 0
  BY <1>1, <1>2 DEF Request, Become
<1>4. cli'[c] = "reg_wait" /\ told'[c] = r
  BY <1>3, OnlineTypes
<1>5. /\ \A d \in Conn : link'[d] = link[d] /\ (d # c => rx'[d] = rx[d])
      /\ \A i \in DOMAIN rx'[c] :
            \/ i \in DOMAIN rx[c] /\ rx'[c][i] = rx[c][i]
            \/ i = Len(rx[c]) + 1 /\ rx'[c][i] = m
  BY <1>3, SendAt
<1>6. Alone(c)
  <2>1. \A d \in Conn \ {c} : cli'[d] = cli[d] /\ told'[d] = told[d]
    BY <1>3, OnlineTypes
  <2> QED
    BY <1>1, <1>3, <1>5, <2>1 DEF Alone, Ended
<1>7. Connects(c)
  <2>1. link[c] = "syn" =>
           tx[c] = << >> /\ \A i \in DOMAIN rx[c] : rx[c][i].op # "OFFLINE"
    BY DEF PInv, LinksRight
  <2>2. \A i \in DOMAIN rx'[c] :
           \/ i \in DOMAIN rx[c] /\ rx'[c][i] = rx[c][i]
           \/ rx'[c][i].op # "OFFLINE"
    BY <1>3, <1>5
  <2> QED
    BY <1>1, <1>3, <1>4, <1>5, <2>1, <2>2, StaysConnected DEF Ended
<1>8. \A i \in Asks(c)' : i \in Asks(c) /\ rx'[c][i] = rx[c][i]
  BY <1>3, <1>5 DEF Asks
<1>9. LogsIn(c)
  <2>1. ASSUME Sound(c) PROVE LoginsRight(c)'
    <3>1. ~Worked(c) /\ Asks(c) = {} /\ Answers(c) = {}
      BY <1>1, <2>1, IdleLogins DEF PInv, OneLogin
    <3>2. Asks(c)' = {} /\ Answers(c)' = {}
      BY <1>3, <1>8, <3>1 DEF Answers
    <3> QED
      BY <1>6, <1>7, <3>1, <3>2, AloneSame, StaysIdle
  <2>2. ~Granted(c)
    BY <1>1 DEF Granted
  <2> QED
    BY <1>4, <2>1, <2>2 DEF LogsIn
<1>10. Goodbyes(c)
  BY <1>3, <1>5 DEF Goodbyes
<1>11. ASSUME NEW id, Holds(c, id)' PROVE Holds(c, id)
  <2>1. ~(told'[c] # None /\ told'[c].id = id /\ id # 0)
    BY <1>3, <1>4
  <2>2. (\E i \in Asks(c)' : rx'[c][i].id = id) => \E i \in Asks(c) : rx[c][i].id = id
    BY <1>8
  <2>3. Sent(c, id)' => Sent(c, id)
    BY <1>3 DEF Sent
  <2> QED
    BY <1>11, <2>1, <2>2, <2>3 DEF Holds
<1> QED
  BY <1>6, <1>7, <1>9, <1>10, <1>11, MovesHolds DEF MovesOn

LEMMA LoginMoves ==
    ASSUME IInv, PInv, NEW c \in Conn, Login(c), UNCHANGED serverVars
    PROVE  PInv'
<1>1. PICK a \in Account[c] \cup ({told[c]} \ {None}) :
         /\ a.id # 0
         /\ Request(c, [op |-> "LOGIN", id |-> a.id, pwd |-> a.pwd], "log_wait")
         /\ mine' = [mine EXCEPT ![c] = a.id]
         /\ told' = told /\ cli[c] \in {"menu", "login"}
  BY DEF Login
<1>2. PICK m : m = [op |-> "LOGIN", id |-> a.id, pwd |-> a.pwd]
  OBVIOUS
<1>3. /\ cli' = [cli EXCEPT ![c] = "log_wait"] /\ ClientSend(c, m)
      /\ tx' = tx /\ m.op = "LOGIN" /\ m.id = a.id
  BY <1>1, <1>2 DEF Request, Become
<1>4. cli'[c] = "log_wait" /\ mine'[c] = a.id
  BY <1>1, <1>3, OnlineTypes
<1>5. /\ \A d \in Conn : link'[d] = link[d] /\ (d # c => rx'[d] = rx[d])
      /\ \A i \in DOMAIN rx'[c] :
            \/ i \in DOMAIN rx[c] /\ rx'[c][i] = rx[c][i]
            \/ i = Len(rx[c]) + 1 /\ rx'[c][i] = m
  BY <1>3, SendAt
<1>6. Alone(c)
  <2>1. \A d \in Conn \ {c} : cli'[d] = cli[d] /\ mine'[d] = mine[d]
    BY <1>1, <1>3, OnlineTypes
  <2> QED
    BY <1>1, <1>3, <1>5, <2>1 DEF Alone, Ended
<1>7. Connects(c)
  <2>1. link[c] = "syn" =>
           tx[c] = << >> /\ \A i \in DOMAIN rx[c] : rx[c][i].op # "OFFLINE"
    BY DEF PInv, LinksRight
  <2>2. \A i \in DOMAIN rx'[c] :
           \/ i \in DOMAIN rx[c] /\ rx'[c][i] = rx[c][i]
           \/ rx'[c][i].op # "OFFLINE"
    BY <1>3, <1>5
  <2> QED
    BY <1>1, <1>3, <1>4, <1>5, <2>1, <2>2, StaysConnected DEF Ended
<1>8. ASSUME Sound(c) PROVE ~Worked(c) /\ Asks(c) = {} /\ Answers(c) = {}
  BY <1>1, <1>8, IdleLogins DEF PInv, OneLogin
<1>9. UNCHANGED <<stack, fdt>>
  BY <1>6, <1>7, AloneSame
<1>10. ASSUME Sound(c) PROVE LoginsRight(c)'
  <2>1. ~Worked(c) /\ Asks(c) = {} /\ Answers(c) = {}
    BY <1>8, <1>10
  <2>2. \A i \in Asks(c)' : i = Len(rx[c]) + 1 /\ rx'[c][i].id = mine'[c]
    BY <1>3, <1>4, <1>5, <2>1 DEF Asks
  <2>3. Answers(c)' = {}
    BY <1>3, <2>1 DEF Answers
  <2>4. \A t \in Thread : \A i \in DOMAIN stack'[t] : ~Works(c, t, i)'
    BY <1>9, <2>1 DEF Worked, Works
  <2>5. ~Worked(c)'
    BY <2>4 DEF Worked
  <2> QED
    BY <1>4, <2>2, <2>3, <2>4, <2>5 DEF LoginsRight
<1>11. ASSUME NEW fd \in Fd, Own(fd, c) PROVE Named(fd, mine'[c])
  <2> SUFFICES ASSUME NEW k \in DOMAIN online, online[k].fd = fd PROVE FALSE
    BY DEF Named
  <2>1. PICK e : e = online[k]
    OBVIOUS
  <2>2. e.addr = c /\ EntryRight(e) /\ e.fd = fd
    BY <1>11, <2>1, OwnEntry DEF PInv, EntriesRight
  <2>3. ~Granted(c)
    BY <1>1 DEF Granted
  <2>4. PICK f \in Active : f.at = "log_ok" /\ f.fd = fd
    BY <1>11, <2>2, <2>3 DEF EntryRight, Own
  <2>5. PICK t \in Thread : \E i \in DOMAIN stack[t] : f = stack[t][i]
    BY ActiveAt
  <2>6. PICK i \in DOMAIN stack[t] : f = stack[t][i]
    BY <2>5
  <2>7. Works(c, t, i)
    BY <1>11, <2>4, <2>6 DEF Works, Asking, Own
  <2>8. Sound(c)
    BY <1>11 DEF Own, Sound
  <2> QED
    BY <1>8, <2>7, <2>8 DEF Worked
<1>12. LogsIn(c)
  <2>1. ~Granted(c)
    BY <1>1 DEF Granted
  <2> QED
    BY <1>10, <1>11, <2>1 DEF LogsIn
<1>13. Goodbyes(c)
  BY <1>3, <1>5 DEF Goodbyes
<1>14. ASSUME NEW id, Holds(c, id)' PROVE Holds(c, id)
  <2>1. ASSUME NEW i \in Asks(c)', rx'[c][i].id = id PROVE Holds(c, id)
    <3>1. CASE i \in DOMAIN rx[c] /\ rx'[c][i] = rx[c][i]
      <4>1. i \in Asks(c) /\ rx[c][i].id = id
        BY <2>1, <3>1 DEF Asks
      <4> QED
        BY <4>1 DEF Holds
    <3>2. CASE rx'[c][i] = m
      <4>1. a.id = id /\ id # 0
        BY <1>1, <1>3, <2>1, <3>2
      <4>2. a \in Account[c] \/ (told[c] # None /\ a = told[c])
        OBVIOUS
      <4> QED
        BY <4>1, <4>2 DEF Holds
    <3> QED
      BY <1>5, <2>1, <3>1, <3>2 DEF Asks
  <2>2. Sent(c, id)' => Sent(c, id)
    BY <1>3 DEF Sent
  <2> QED
    BY <1>1, <1>14, <2>1, <2>2 DEF Holds
<1> QED
  BY <1>6, <1>7, <1>12, <1>13, <1>14, MovesHolds DEF MovesOn

(* One that is logged in and stays so asks for no login, and says goodbye  *)
(* for itself only.                                                        *)
LEMMA InMoves ==
    ASSUME IInv, PInv, NEW c \in Conn, cli[c] = "in", UNCHANGED serverVars,
           UNCHANGED <<cli, mine, told, link>>,
           \A d \in Conn \ {c} : rx'[d] = rx[d] /\ tx'[d] = tx[d],
           \A i \in DOMAIN rx'[c] :
              \/ \E j \in DOMAIN rx[c] : rx'[c][i] = rx[c][j]
              \/ rx'[c][i].op \notin {"LOGIN", "OFFLINE"}
              \/ rx'[c][i].op = "OFFLINE" /\ rx'[c][i].id = mine[c],
           \A i \in DOMAIN tx'[c] : \E j \in DOMAIN tx[c] : tx'[c][i] = tx[c][j]
    PROVE  PInv'
<1>1. Alone(c)
  BY DEF Alone, Ended
<1>2. Connects(c)
  <2>1. link[c] # "syn"
    BY DEF PInv, LinksRight
  <2> QED
    BY <2>1, StaysConnected DEF Ended
<1>3. \A i \in Asks(c)' : \E j \in Asks(c) : rx'[c][i] = rx[c][j]
  BY DEF Asks
<1>4. \A i \in Answers(c)' : \E j \in Answers(c) : tx'[c][i] = tx[c][j]
  BY DEF Answers
<1>5. LogsIn(c)
  <2>1. ASSUME Sound(c) PROVE LoginsRight(c)'
    <3>1. ~Worked(c) /\ Asks(c) = {} /\ Answers(c) = {}
      BY <2>1, IdleLogins DEF PInv, OneLogin
    <3>2. Asks(c)' = {} /\ Answers(c)' = {}
      BY <1>3, <1>4, <3>1
    <3> QED
      BY <1>1, <1>2, <3>1, <3>2, AloneSame, StaysIdle
  <2>2. Granted(c)'
    BY DEF Granted
  <2> QED
    BY <2>1, <2>2, OwnNamed DEF LogsIn
<1>6. Goodbyes(c)
  BY DEF Goodbyes
<1>7. ASSUME NEW id, Holds(c, id)' PROVE Holds(c, id)
  <2>1. (\E i \in Asks(c)' : rx'[c][i].id = id) => \E i \in Asks(c) : rx[c][i].id = id
    BY <1>3
  <2>2. Sent(c, id)' => Sent(c, id)
    BY DEF Sent
  <2> QED
    BY <1>7, <2>1, <2>2 DEF Holds
<1> QED
  BY <1>1, <1>2, <1>5, <1>6, <1>7, MovesHolds DEF MovesOn

LEMMA MenuMoves ==
    ASSUME IInv, PInv, NEW c \in Conn, AddFriend(c) \/ Offline(c),
           UNCHANGED serverVars
    PROVE  PInv'
<1>1. PICK m :
         /\ Request(c, m, "in") /\ cli[c] = "in" /\ UNCHANGED <<mine, told>>
         /\ m.op = "ADD_FRIEND" \/ (m.op = "OFFLINE" /\ m.id = mine[c])
  <2>1. CASE AddFriend(c)
    <3>1. PICK id : Request(c, [op |-> "ADD_FRIEND", src |-> mine[c], dst |-> id], "in")
      BY <2>1 DEF AddFriend
    <3>2. PICK m : m = [op |-> "ADD_FRIEND", src |-> mine[c], dst |-> id]
      OBVIOUS
    <3>3. Request(c, m, "in") /\ m.op = "ADD_FRIEND"
      BY <3>1, <3>2
    <3> QED
      BY <2>1, <3>3 DEF AddFriend
  <2>2. CASE Offline(c)
    <3>1. PICK m : m = [op |-> "OFFLINE", id |-> mine[c]]
      OBVIOUS
    <3>2. Request(c, m, "in") /\ m.op = "OFFLINE" /\ m.id = mine[c]
      BY <2>2, <3>1 DEF Offline
    <3> QED
      BY <2>2, <3>2 DEF Offline
  <2> QED
    BY <2>1, <2>2
<1>2. ClientSend(c, m) /\ cli' = cli /\ UNCHANGED <<tx, link>>
  BY <1>1, OnlineTypes DEF Request, Become, ClientSend
<1>3. \A d \in Conn \ {c} : rx'[d] = rx[d]
  BY <1>2, SendAt
<1>4. \A i \in DOMAIN rx'[c] :
         \/ \E j \in DOMAIN rx[c] : rx'[c][i] = rx[c][j]
         \/ rx'[c][i].op \notin {"LOGIN", "OFFLINE"}
         \/ rx'[c][i].op = "OFFLINE" /\ rx'[c][i].id = mine[c]
  <2>1. \A i \in DOMAIN rx'[c] :
           \/ i \in DOMAIN rx[c] /\ rx'[c][i] = rx[c][i]
           \/ i = Len(rx[c]) + 1 /\ rx'[c][i] = m
    BY <1>2, SendAt
  <2> QED
    BY <1>1, <2>1
<1> QED
  BY <1>1, <1>2, <1>3, <1>4, InMoves

LEMMA ReadMoves ==
    ASSUME IInv, PInv, NEW c \in Conn, UNCHANGED serverVars,
           \/ OnlineAction(c) \/ OfflineAction(c)
           \/ AllowAddfAction(c) \/ UnknownOptype(c)
    PROVE  PInv'
<1>1. /\ UNCHANGED <<link, rx, cli, mine, told>>
      /\ \E op : Read(c, "in", op)
  BY DEF OnlineAction, OfflineAction, AllowAddfAction, UnknownOptype, clientVars
<1>2. PICK op : Read(c, "in", op)
  BY <1>1
<1>3. cli[c] = "in" /\ \A d \in Conn \ {c} : tx'[d] = tx[d]
  BY <1>2, ReadAt DEF Read
<1>4. \A i \in DOMAIN tx'[c] : \E j \in DOMAIN tx[c] : tx'[c][i] = tx[c][j]
  BY <1>2, ReadAt
<1> QED
  BY <1>1, <1>3, <1>4, InMoves

LEMMA AnswerMoves ==
    ASSUME IInv, PInv, NEW c \in Conn, AddFriendAction(c), UNCHANGED serverVars
    PROVE  PInv'
<1>1. Read(c, "in", {"ADD_FRIEND"}) /\ UNCHANGED <<cli, mine, told>>
  BY DEF AddFriendAction, clientVars
<1>2. PICK ans : ClientSend(c, [op |-> "ALLOW_ADDF", src |-> Head(tx[c]).src,
                                dst |-> Head(tx[c]).dst, ans |-> ans])
  BY DEF AddFriendAction
<1>3. PICK m : m = [op |-> "ALLOW_ADDF", src |-> Head(tx[c]).src,
                    dst |-> Head(tx[c]).dst, ans |-> ans]
  OBVIOUS
<1>4. ClientSend(c, m) /\ m.op = "ALLOW_ADDF" /\ link' = link
  BY <1>2, <1>3 DEF ClientSend
<1>5. cli[c] = "in" /\ \A d \in Conn \ {c} : tx'[d] = tx[d]
  BY <1>1, ReadAt DEF Read
<1>6. \A i \in DOMAIN tx'[c] : \E j \in DOMAIN tx[c] : tx'[c][i] = tx[c][j]
  BY <1>1, ReadAt
<1>7. \A d \in Conn \ {c} : rx'[d] = rx[d]
  BY <1>4, SendAt
<1>8. \A i \in DOMAIN rx'[c] :
         \/ \E j \in DOMAIN rx[c] : rx'[c][i] = rx[c][j]
         \/ rx'[c][i].op \notin {"LOGIN", "OFFLINE"}
  BY <1>4, SendAt
<1> QED
  BY <1>1, <1>4, <1>5, <1>6, <1>7, <1>8, InMoves
LEMMA ExitMoves ==
    ASSUME IInv, PInv, NEW c \in Conn, Exit(c), cli[c] # "off", ~Ended(c),
           UNCHANGED serverVars
    PROVE  PInv'
<1>1. /\ cli' = [cli EXCEPT ![c] = IF cli[c] = "in" THEN "left" ELSE "dead"]
      /\ mine' = [mine EXCEPT ![c] = 0] /\ told' = [told EXCEPT ![c] = None]
      /\ link' = [link EXCEPT ![c] = IF link[c] = "open" THEN "gone" ELSE "dead"]
      /\ tx' = [tx EXCEPT ![c] = << >>] /\ rx' = rx
  BY DEF Exit, Become, ClientGone
<1>2. /\ cli'[c] = IF cli[c] = "in" THEN "left" ELSE "dead"
      /\ told'[c] = None /\ tx'[c] = << >>
      /\ link'[c] = IF link[c] = "open" THEN "gone" ELSE "dead"
  BY <1>1, OnlineTypes
<1>3. Alone(c)
  <2>1. \A d \in Conn \ {c} :
           /\ cli'[d] = cli[d] /\ mine'[d] = mine[d] /\ told'[d] = told[d]
           /\ link'[d] = link[d] /\ tx'[d] = tx[d]
    BY <1>1, OnlineTypes
  <2> QED
    BY <1>1, <2>1 DEF Alone
<1>4. Connects(c)
  BY <1>2 DEF Connects, Waiting, Ended
<1>5. LogsIn(c)
  <2>1. ASSUME Sound(c), cli'[c] # "dead" PROVE LoginsRight(c)'
    <3>1. ~Worked(c) /\ Asks(c) = {} /\ Answers(c) = {}
      BY <1>2, <2>1, IdleLogins DEF PInv, OneLogin
    <3>2. Asks(c)' = {} /\ Answers(c)' = {}
      BY <1>1, <1>2, <3>1 DEF Asks, Answers
    <3> QED
      BY <1>3, <1>4, <3>1, <3>2, AloneSame, StaysIdle
  <2>2. cli'[c] # "dead" => Granted(c)'
    BY <1>2 DEF Granted
  <2> QED
    BY <1>2, <2>1, <2>2 DEF LogsIn
<1>6. Goodbyes(c)
  BY <1>1 DEF Goodbyes
<1>7. ASSUME NEW id, Holds(c, id)' PROVE Holds(c, id)
  <2>1. ~Sent(c, id)' /\ Asks(c)' = Asks(c)
    BY <1>1, <1>2 DEF Sent, Asks
  <2> QED
    BY <1>1, <1>2, <1>7, <2>1 DEF Holds
<1> QED
  BY <1>3, <1>4, <1>5, <1>6, <1>7, MovesHolds DEF MovesOn

LEMMA RegisteredMoves ==
    ASSUME IInv, PInv, NEW c \in Conn, Registered(c), UNCHANGED serverVars
    PROVE  PInv'
<1>1. PICK m : m = Head(tx[c])
  OBVIOUS
<1>2. /\ Read(c, "reg_wait", {"REGISTER_SUCCESS"}) /\ m.id # -1
      /\ told' = [told EXCEPT ![c].id = m.id]
      /\ cli' = [cli EXCEPT ![c] = "menu"]
      /\ UNCHANGED <<link, rx, mine>>
  BY <1>1 DEF Registered, Become
<1>3. cli[c] = "reg_wait" /\ m.op = "REGISTER_SUCCESS"
  BY <1>1, <1>2 DEF Read
<1>4. /\ 1 \in DOMAIN tx[c] /\ m = tx[c][1] /\ tx[c] # << >>
      /\ \A d \in Conn : d # c => tx'[d] = tx[d]
      /\ \A i \in DOMAIN tx'[c] : i + 1 \in DOMAIN tx[c] /\ tx'[c][i] = tx[c][i + 1]
  BY <1>1, <1>2, ReadAt
<1>5. told \in [Conn -> Credentials \cup {None}] /\ told[c] \in Credentials
  BY <1>3, OnlineTypes DEF IInv, ClientInv, ClientRight
<1>6. PICK r : r = [told[c] EXCEPT !.id = m.id]
  OBVIOUS
<1>7. r.id = m.id /\ told' = [told EXCEPT ![c] = r]
  BY <1>2, <1>5, <1>6 DEF Credentials
<1>8. cli'[c] = "menu" /\ told'[c] = r
  BY <1>2, <1>5, <1>7, OnlineTypes
<1>9. Alone(c)
  <2>1. \A d \in Conn \ {c} : cli'[d] = cli[d] /\ told'[d] = told[d]
    BY <1>2, <1>7, OnlineTypes
  <2> QED
    BY <1>2, <1>3, <1>4, <2>1 DEF Alone, Ended
<1>10. Connects(c)
  <2>1. link[c] # "syn"
    BY <1>4 DEF PInv, LinksRight
  <2> QED
    BY <1>2, <1>3, <1>8, <2>1, StaysConnected DEF Ended
<1>11. Asks(c)' = Asks(c)
  BY <1>2 DEF Asks
<1>12. \A i \in DOMAIN tx'[c] : \E j \in DOMAIN tx[c] : tx'[c][i] = tx[c][j]
  BY <1>4
<1>13. LogsIn(c)
  <2>1. ASSUME Sound(c) PROVE LoginsRight(c)'
    <3>1. ~Worked(c) /\ Asks(c) = {} /\ Answers(c) = {}
      BY <1>3, <2>1, IdleLogins DEF PInv, OneLogin
    <3>2. Asks(c)' = {} /\ Answers(c)' = {}
      BY <1>11, <1>12, <3>1 DEF Answers
    <3> QED
      BY <1>9, <1>10, <3>1, <3>2, AloneSame, StaysIdle
  <2>2. ~Granted(c)
    BY <1>3 DEF Granted
  <2> QED
    BY <1>8, <2>1, <2>2 DEF LogsIn
<1>14. Goodbyes(c)
  BY <1>2 DEF Goodbyes
<1>15. ASSUME NEW id, Holds(c, id)' PROVE Holds(c, id)
  <2>1. Sent(c, id)' => Sent(c, id)
    BY <1>12 DEF Sent
  <2>2. m.id = id => Sent(c, id)
    BY <1>2, <1>3, <1>4 DEF Sent
  <2>3. told'[c].id = id => Sent(c, id)
    BY <1>7, <1>8, <2>2
  <2> QED
    BY <1>2, <1>11, <1>15, <2>1, <2>3 DEF Holds
<1> QED
  BY <1>9, <1>10, <1>13, <1>14, <1>15, MovesHolds DEF MovesOn

LEMMA LoggedInMoves ==
    ASSUME IInv, PInv, NEW c \in Conn, LoggedIn(c), UNCHANGED serverVars
    PROVE  PInv'
<1>1. PICK m : m = Head(tx[c])
  OBVIOUS
<1>2. PICK s : /\ cli' = [cli EXCEPT ![c] = s]
               /\ (m.flag = 0 /\ s = "in") \/ (m.flag \in {-1, -3} /\ s = "login")
  BY <1>1 DEF LoggedIn, Become
<1>3. /\ Read(c, "log_wait", {"LOGIN_FEEDBACK"})
      /\ UNCHANGED <<link, rx, mine, told>>
  BY DEF LoggedIn
<1>4. cli[c] = "log_wait" /\ m.op = "LOGIN_FEEDBACK"
  BY <1>1, <1>3 DEF Read
<1>5. /\ 1 \in DOMAIN tx[c] /\ m = tx[c][1] /\ tx[c] # << >>
      /\ \A d \in Conn : d # c => tx'[d] = tx[d]
  BY <1>1, <1>3, ReadAt
<1>6. \A i \in DOMAIN tx'[c] :
         i \in Nat \ {0} /\ i + 1 \in DOMAIN tx[c] /\ tx'[c][i] = tx[c][i + 1]
  BY <1>3, ReadAt
<1>7. cli'[c] = s /\ \A d \in Conn \ {c} : cli'[d] = cli[d]
  BY <1>2, OnlineTypes
<1>8. Alone(c)
  BY <1>3, <1>4, <1>5, <1>7 DEF Alone, Ended
<1>9. Connects(c)
  <2>1. link[c] # "syn"
    BY <1>5 DEF PInv, LinksRight
  <2> QED
    BY <1>2, <1>3, <1>4, <1>7, <2>1, StaysConnected DEF Ended
<1>10. Asks(c)' = Asks(c)
  BY <1>3 DEF Asks
<1>11. 1 \in Answers(c)
  BY <1>4, <1>5 DEF Answers
<1>12. ASSUME Sound(c)
       PROVE  /\ ~Worked(c) /\ Asks(c) = {} /\ Answers(c)' = {}
              /\ \A i \in Answers(c) : i = 1
  <2>1. LoginsRight(c)
    BY <1>12 DEF PInv, OneLogin
  <2>2. \A i \in Answers(c) : i = 1
    BY <1>11, <2>1 DEF LoginsRight
  <2>3. ASSUME NEW i \in Answers(c)' PROVE FALSE
    <3>1. i \in DOMAIN tx'[c] /\ tx'[c][i].op = "LOGIN_FEEDBACK"
      BY DEF Answers
    <3>2. i + 1 \in Answers(c) /\ i \in Nat \ {0}
      BY <1>6, <3>1 DEF Answers
    <3>3. i + 1 = 1
      BY <2>2, <3>2
    <3> QED
      BY <3>2, <3>3
  <2> QED
    BY <1>11, <2>1, <2>2, <2>3 DEF LoginsRight
<1>13. LogsIn(c)
  <2>1. ASSUME Sound(c) PROVE LoginsRight(c)'
    <3>1. ~Worked(c) /\ Asks(c)' = {} /\ Answers(c)' = {}
      BY <1>10, <1>12, <2>1
    <3> QED
      BY <1>8, <1>9, <3>1, AloneSame, StaysIdle
  <2>2. ASSUME Sound(c), Granted(c) PROVE Granted(c)'
    <3>1. m.flag = 0
      BY <1>4, <1>5, <1>12, <2>2 DEF Granted
    <3>2. s = "in"
      BY <1>2, <3>1
    <3> QED
      BY <1>7, <3>2 DEF Granted
  <2>3. \A fd \in Fd : Own(fd, c) => Named(fd, mine'[c])
    BY <1>3, <1>4, OwnNamed
  <2> QED
    BY <2>1, <2>2, <2>3 DEF LogsIn
<1>14. Goodbyes(c)
  BY <1>3 DEF Goodbyes
<1>15. ASSUME NEW id, Holds(c, id)' PROVE Holds(c, id)
  <2>1. Sent(c, id)' => Sent(c, id)
    BY <1>6 DEF Sent
  <2> QED
    BY <1>3, <1>10, <1>15, <2>1 DEF Holds
<1> QED
  BY <1>8, <1>9, <1>13, <1>14, <1>15, MovesHolds DEF MovesOn

LEMMA ClientHolds ==
    ASSUME IInv, PInv, up, NEW c \in Conn, UserStep(c) \/ ClientStep(c)
    PROVE  PInv'
<1>1. UNCHANGED serverVars
  BY DEF UserStep, ClientStep
<1>2. ASSUME Quit(c) \/ Disconnected(c) \/ DialogueExits(c) \/ AllowDisconnectAction(c)
      PROVE  PInv'
  BY <1>1, <1>2, ExitMoves
     DEF Quit, Disconnected, DialogueExits, AllowDisconnectAction, Ended
<1>3. CASE UserStep(c)
  <2>1. \/ Connect(c) \/ Register(c) \/ Login(c)
        \/ AddFriend(c) \/ Offline(c) \/ Quit(c)
    BY <1>3 DEF UserStep, UserActs
  <2> QED
    BY <1>1, <1>2, <2>1, ConnectHolds, RegisterMoves, LoginMoves, MenuMoves
<1>4. CASE ClientStep(c)
  <2>1. \/ Disconnected(c) \/ DialogueExits(c) \/ AllowDisconnectAction(c)
        \/ Registered(c) \/ LoggedIn(c) \/ AddFriendAction(c)
        \/ OnlineAction(c) \/ OfflineAction(c)
        \/ AllowAddfAction(c) \/ UnknownOptype(c)
    BY <1>4 DEF ClientStep, ClientReacts, Refused
  <2> QED
    BY <1>1, <1>2, <2>1, RegisteredMoves, LoggedInMoves, AnswerMoves, ReadMoves
<1> QED
  BY <1>3, <1>4
----------------------------------------------------------------------------
(* Every step.                                                             *)
LEMMA HandlerHolds ==
    ASSUME IInv, PInv, NEW t \in Thread, Handler(t), up', UNCHANGED clientVars
    PROVE  PInv'
<1>1. ~QueryExits(t)
  BY DieEnds DEF QueryExits
<1>2. CASE RegInsert(t) \/ RegMax(t) \/ RegCreate(t) \/ RegReply(t)
  BY <1>2, RegisterHolds, RegReplyHolds
<1>3. CASE LogQuery(t) \/ LogCheck(t) \/ LogAddr(t) \/ LogAdd(t) \/ LogFriends(t)
  BY <1>3, LoginAsks, LogAddrHolds, LogAddHolds, LogFriendsHolds
<1>4. CASE LogRow(t) \/ LogTell(t) \/ LogShow(t) \/ LogOk(t) \/ LogReply(t)
  BY <1>4, LoginTells, LoginAnswerHolds
<1>5. CASE OffFind(t) \/ OffCtl(t) \/ OffDel(t) \/ OffClose(t)
  BY <1>5, OffFindHolds, OffHolds, OffDelHolds
<1>6. CASE OffQuery(t) \/ OffRow(t) \/ OffTell(t) \/ OffBye(t)
  BY <1>6, LeavingTells
<1>7. CASE AddSearch(t) \/ AddQuery(t) \/ AddReply(t) \/ AddForward(t)
  BY <1>7, AddHolds
<1>8. CASE AlwSource(t) \/ AlwDest(t) \/ AlwInsert1(t) \/ AlwInsert2(t)
  BY <1>8, AllowHolds
<1>9. CASE AlwReply(t) \/ AlwOnline1(t) \/ AlwOnline2(t) \/ Done(t)
  BY <1>9, AllowTells, DoneHolds
<1> QED
  BY <1>1, <1>2, <1>3, <1>4, <1>5, <1>6, <1>7, <1>8, <1>9 DEF Handler

(* A server that is gone does not come back, and a dead one takes no step. *)
LEMMA HandlerUp == ASSUME NEW t, Handler(t) PROVE up
<1>1. CASE RegInsert(t) \/ RegMax(t) \/ RegCreate(t) \/ RegReply(t)
  BY <1>1 DEF RegInsert, RegMax, RegCreate, RegReply, At
<1>2. CASE LogQuery(t) \/ LogCheck(t) \/ LogAddr(t) \/ LogAdd(t) \/ LogOk(t)
  BY <1>2 DEF LogQuery, LogCheck, LogAddr, LogAdd, LogOk, At
<1>3. CASE LogFriends(t) \/ LogRow(t) \/ LogTell(t) \/ LogShow(t) \/ LogReply(t)
  BY <1>3 DEF LogFriends, LogRow, NextRow, LogTell, LogShow, LogReply, At
<1>4. CASE OffFind(t) \/ OffCtl(t) \/ OffDel(t) \/ OffQuery(t)
  BY <1>4 DEF OffFind, OffCtl, OffDel, OffQuery, At
<1>5. CASE OffRow(t) \/ OffTell(t) \/ OffBye(t) \/ OffClose(t)
  BY <1>5 DEF OffRow, NextRow, OffTell, OffBye, OffClose, At
<1>6. CASE AddSearch(t) \/ AddQuery(t) \/ AddReply(t) \/ AddForward(t)
  BY <1>6 DEF AddSearch, AddQuery, AddReply, AddForward, At
<1>7. CASE AlwSource(t) \/ AlwDest(t) \/ AlwInsert1(t) \/ AlwInsert2(t)
  BY <1>7 DEF AlwSource, AlwDest, AlwInsert1, AlwInsert2, At
<1>8. CASE AlwReply(t) \/ AlwOnline1(t) \/ AlwOnline2(t) \/ Done(t) \/ QueryExits(t)
  BY <1>8 DEF AlwReply, AlwOnline1, AlwOnline2, Done, QueryExits, At
<1> QED
  BY <1>1, <1>2, <1>3, <1>4, <1>5, <1>6, <1>7, <1>8 DEF Handler

LEMMA StutterHolds == ASSUME PInv, UNCHANGED vars PROVE PInv'
<1>1. /\ UNCHANGED <<link, rx, tx, online, fdt, stack, issued, accepts>>
      /\ UNCHANGED <<cli, mine, told>>
  BY DEF vars, netVars, serverVars, clientVars
<1>2. Active' = Active /\ \A f : FdRight(f)' <=> FdRight(f)
  BY <1>1 DEF Active, FdRight
<1>3. \A fd, c : Own(fd, c)' <=> Own(fd, c)
  BY <1>1 DEF Own
<1>4. \A c : /\ Asks(c)' = Asks(c) /\ Answers(c)' = Answers(c)
             /\ Waiting(c)' <=> Waiting(c)
  BY <1>1 DEF Asks, Answers, Waiting
<1>5. \A c : (Granted(c)' <=> Granted(c)) /\ (Sound(c)' <=> Sound(c))
  BY <1>1, <1>3, <1>4 DEF Granted, Sound
<1>6. \A c, t, i : Works(c, t, i)' <=> Works(c, t, i)
  BY <1>1 DEF Works
<1>7. \A c : Worked(c)' <=> Worked(c)
  BY <1>1, <1>6 DEF Worked
<1>8. \A c : LoginsRight(c) => LoginsRight(c)'
  BY <1>1, <1>4, <1>6, <1>7 DEF LoginsRight
<1>9. LinksRight' /\ FdsRight' /\ OneLogin'
  BY <1>1, <1>2, <1>5, <1>8 DEF PInv, LinksRight, FdsRight, OneLogin, Ended
<1>10. \A fd, id : (Absent(fd)' <=> Absent(fd)) /\ (Named(fd, id)' <=> Named(fd, id))
  BY <1>1 DEF Absent, Named
<1>11. \A f : Duty(f) => Duty(f)'
  BY <1>1, <1>3, <1>5, <1>10 DEF Duty
<1>12. \A e : EntryRight(e) => EntryRight(e)'
  BY <1>1, <1>2, <1>3, <1>5 DEF EntryRight
<1>13. EntriesRight'
  BY <1>1, <1>3, <1>12 DEF PInv, EntriesRight
<1>14. Duties' /\ OfflinesRight'
  BY <1>1, <1>2, <1>3, <1>5, <1>10, <1>11 DEF PInv, Duties, OfflinesRight
<1>15. /\ \A id, fd : Claimed(id, fd)' <=> Claimed(id, fd)
       /\ \A c, id : Holds(c, id)' <=> Holds(c, id)
       /\ Given' = Given
  BY <1>1, <1>2, <1>4 DEF Claimed, Holds, Sent, Given
<1>16. ClaimsRight'
  BY <1>1, <1>4, <1>15, ClaimsKept DEF PInv
<1> QED
  BY <1>9, <1>13, <1>14, <1>16 DEF PInv

OnlineInv == IInv /\ (up => PInv)

LEMMA OnlineInductive == ASSUME OnlineInv, [Next]_vars PROVE OnlineInv'
<1>1. IInv /\ IInv'
  BY Inductive DEF OnlineInv
<1> SUFFICES ASSUME up' PROVE PInv'
  BY <1>1 DEF OnlineInv
<1>2. ASSUME NEW c \in Conn, AcceptStep(c) PROVE PInv'
  <2>1. up
    BY <1>2 DEF AcceptStep, Accept
  <2> QED
    BY <1>1, <1>2, <2>1, AcceptHolds DEF OnlineInv
<1>3. ASSUME NEW t \in Thread, ThreadStep(t) PROVE PInv'
  <2>1. ServerStep(t) /\ UNCHANGED clientVars
    BY <1>3 DEF ThreadStep
  <2>2. ASSUME NEW fd \in Fd, Receive(t, fd) \/ Hangup(t, fd) PROVE PInv'
    <3>1. up
      BY <2>2 DEF Receive, Hangup
    <3> QED
      BY <1>1, <2>1, <2>2, <3>1, ReceiveHolds, HangupHolds DEF OnlineInv
  <2>3. CASE Handler(t)
    BY <1>1, <2>1, <2>3, HandlerUp, HandlerHolds DEF OnlineInv
  <2> QED
    BY <2>1, <2>2, <2>3 DEF ServerStep
<1>4. ASSUME NEW c \in Conn, UserStep(c) \/ ClientStep(c) PROVE PInv'
  <2>1. up' = up
    BY <1>4 DEF UserStep, ClientStep, serverVars
  <2> QED
    BY <1>1, <1>4, <2>1, ClientHolds DEF OnlineInv
<1>5. CASE UNCHANGED vars
  <2>1. up' = up
    BY <1>5 DEF vars, serverVars
  <2> QED
    BY <1>5, <2>1, StutterHolds DEF OnlineInv
<1> QED
  BY <1>2, <1>3, <1>4, <1>5 DEF Next

LEMMA OnlineInitially == ASSUME Unshared, Init PROVE OnlineInv
<1>1. IInv
  BY Initially
<1>2. /\ online = << >> /\ fdt = [fd \in Fd |-> NoConn]
      /\ stack = [t \in Thread |-> << >>]
      /\ link = [c \in Conn |-> "none"] /\ cli = [c \in Conn |-> "off"]
      /\ rx = [c \in Conn |-> << >>] /\ tx = [c \in Conn |-> << >>]
      /\ told = [c \in Conn |-> None]
  BY DEF Init, ServerInit, NetInit, ClientInit
<1>3. Active = {} /\ \A fd, c : ~Own(fd, c)
  BY <1>2, ConnAssumption DEF Active, Range, Own
<1>4. \A c \in Conn : Asks(c) = {} /\ Answers(c) = {} /\ ~Worked(c)
  <2>1. /\ \A c \in Conn : DOMAIN rx[c] = {} /\ DOMAIN tx[c] = {}
        /\ \A t \in Thread : DOMAIN stack[t] = {}
    BY <1>2
  <2> QED
    BY <2>1 DEF Asks, Answers, Worked, Works
<1>5. LinksRight
  BY <1>2, ConnAssumption DEF LinksRight
<1>6. FdsRight /\ EntriesRight /\ Duties
  BY <1>2, <1>3 DEF FdsRight, EntriesRight, Duties
<1>7. OneLogin
  <2>1. \A c \in Conn : \A t \in Thread : \A i \in DOMAIN stack[t] : ~Works(c, t, i)
    BY <1>2
  <2> QED
    BY <1>4, <2>1 DEF OneLogin, LoginsRight
<1>8. OfflinesRight
  BY <1>3 DEF OfflinesRight
<1>9. ClaimsRight
  <2>1. \A id, fd : ~Claimed(id, fd)
    BY <1>2, <1>3 DEF Claimed
  <2>2. \A c \in Conn : \A id : Holds(c, id) <=> \E a \in Account[c] : a.id = id
    BY <1>2, <1>4 DEF Holds, Sent
  <2>3. \A c \in Conn : \A id : Holds(c, id) => id \in Given
    BY <2>2, TablesAssumption DEF Given
  <2>4. \A c, d \in Conn : \A id : Holds(c, id) /\ Holds(d, id) => c = d
    BY <2>2 DEF Unshared
  <2> QED
    BY <2>1, <2>3, <2>4 DEF ClaimsRight
<1> QED
  BY <1>1, <1>5, <1>6, <1>7, <1>8, <1>9 DEF OnlineInv, PInv

LEMMA OnlineInvariance == ASSUME Unshared PROVE Spec => []OnlineInv
<1>1. Init => OnlineInv
  BY OnlineInitially
<1>2. OnlineInv /\ [Next]_vars => OnlineInv'
  BY OnlineInductive
<1> QED
  BY <1>1, <1>2, PTL DEF Spec

(* off_line_action deletes what login_action has added: once everything    *)
(* that was begun has ended, nobody who logged in and has ended is left in *)
(* the list, whether it said goodbye, was cut off, or ended while its own  *)
(* login was being served; a descriptor number that was given out again is *)
(* left out, as in the run.  The hypothesis keeps two logins of one        *)
(* account, which both pass search_list, out of it.                        *)
THEOREM GoneCorrect == ASSUME Unshared PROVE Spec => []GoneUsersLeave
<1>1. OnlineInv => GoneUsersLeave
  <2>1. ~up => GoneUsersLeave
    BY DEF GoneUsersLeave, Quiet
  <2> QED
    BY <2>1, QuietLeaves DEF OnlineInv
<1> QED
  BY <1>1, OnlineInvariance, PTL

(* What login_action's search and add are for: as long as no two clients   *)
(* use one account, no id is in the list with two descriptors; and of a    *)
(* logged-in client the list has one entry at most, with its own address   *)
(* and the id it logged in with, so what a handler sends to that id, found *)
(* by search_list BY_ID, goes to that client.  (A descriptor number that   *)
(* has been given out again is left out.)                                  *)
EntriesSpeak ==
    up =>
        /\ \A i, j \in DOMAIN online :
              online[i].id = online[j].id => online[i].fd = online[j].fd
        /\ \A c \in Conn, fd \in Fd :
              fdt[fd] = c /\ accepts[fd] = 1 /\ cli[c] = "in" =>
                  \A i, j \in DOMAIN online :
                      online[i].fd = fd /\ online[j].fd = fd =>
                          i = j /\ online[i].addr = c /\ online[i].id = mine[c]

(* The search (server_action.c:90) and the add (110) of login_action are   *)
(* two calls, and del_list goes by id: with accounts of their own, clients *)
(* still have entries that speak of them alone, for any number of them.    *)
THEOREM EntriesCorrect == ASSUME Unshared PROVE Spec => []EntriesSpeak
<1>1. ASSUME OnlineInv PROVE EntriesSpeak
  <2> SUFFICES ASSUME up PROVE EntriesSpeak
    BY DEF EntriesSpeak
  <2>1. IInv /\ PInv
    BY <1>1 DEF OnlineInv
  <2>2. ASSUME NEW i \in DOMAIN online, NEW j \in DOMAIN online,
               online[i].id = online[j].id
        PROVE  online[i].fd = online[j].fd
    <3>1. Claimed(online[i].id, online[i].fd) /\ Claimed(online[j].id, online[j].fd)
      BY DEF Claimed
    <3> QED
      BY <2>1, <2>2, <3>1 DEF PInv, ClaimsRight
  <2>3. ASSUME NEW c \in Conn, NEW fd \in Fd, fdt[fd] = c, accepts[fd] = 1,
               cli[c] = "in", NEW i \in DOMAIN online, NEW j \in DOMAIN online,
               online[i].fd = fd, online[j].fd = fd
        PROVE  i = j /\ online[i].addr = c /\ online[i].id = mine[c]
    <3>1. Own(fd, c)
      BY <2>3 DEF Own
    <3>2. online[i].addr = c /\ i = j
      BY <2>1, <2>3, <3>1, OwnEntry
    <3>3. Named(fd, mine[c])
      BY <2>1, <2>3, <3>1, OwnNamed
    <3> QED
      BY <2>3, <3>2, <3>3 DEF Named
  <2> QED
    BY <2>2, <2>3 DEF EntriesSpeak
<1>2. OnlineInv => EntriesSpeak
  BY <1>1
<1> QED
  BY <1>2, OnlineInvariance, PTL
=============================================================================
