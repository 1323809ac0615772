----------------------------- MODULE AddrProofs -----------------------------
(***************************************************************************)
(* Proofs about AddrSystem for any number of clients, whoever leaves and   *)
(* whatever is typed: its types, that the ids online are distinct, that a  *)
(* message reaches the owner of the id it was meant for, and that the      *)
(* lists sent to a client stay in step with the server's.                  *)
(***************************************************************************)
EXTENDS AddrSystem, SequenceTheorems, TLAPS

USE ListenAssumption, NodeAssumption, UserAssumption
----------------------------------------------------------------------------
(* The inductive invariant.                                                *)

(* A node that tells the truth, wherever it is.                            *)
Right(n) == n.id # 0 /\ n.id = given[n.cli]

(* The list: ids go down from the newest, no client is in it twice.        *)
Descending ==
    \A i, j \in 1 .. Len(online) :
        i < j => online[i].id > online[j].id /\ online[i].cli # online[j].cli

ListRight ==
    /\ \A i \in 1 .. Len(online) : Right(online[i])
    /\ \A i \in 1 .. Len(wcli) : given[wcli[i]] # 0

(* Who has not been accepted has nothing, and waits at most once.          *)
NewRight ==
    /\ \A c \in Client : given[c] = 0 => chan[c] = << >> /\ mycnode[c] = NoNode
    /\ \A c \in Client : main[c] = "connect" => given[c] = 0
    /\ \A i \in 1 .. Len(backlog) : given[backlog[i]] = 0 /\ main[backlog[i]] # "connect"
    /\ \A i, j \in 1 .. Len(backlog) : i # j => backlog[i] # backlog[j]

(* The nodes under way and in the memory of the clients.                   *)
NodesRight ==
    \A c \in Client :
        /\ \A i \in 1 .. Len(chan[c]) : Right(chan[c][i])
        /\ \A i \in 1 .. Len(view[c]) : Right(view[c][i])
        /\ \A i \in 1 .. Len(talk[c].nodes) : Right(talk[c].nodes[i])

(* What a client knows of itself, and where it will learn it from.         *)
OwnRight ==
    \A c \in Client :
        /\ c \in ended => main[c] = "gone"
        /\ main[c] = "own" /\ given[c] # 0 => chan[c] # << >> /\ chan[c][1].cli = c
        /\ mycnode[c] # NoNode => mycnode[c].id = given[c]

(* An id found and a message sent fit the node they come from.             *)
TalkRight ==
    /\ \A c \in Client : talk[c].pc = "text" /\ ~talk[c].freed =>
          Len(talk[c].nodes) = 1 /\ talk[c].nodes[1].id = talk[c].id
    /\ \A m \in udp : ~m.freed => m.id # 0 /\ given[m.to] = m.id

IInv == TypeOK /\ Descending /\ ListRight /\ NewRight /\ NodesRight /\ OwnRight /\ TalkRight
----------------------------------------------------------------------------
(* The operators on lists.                                                 *)

LEMMA FrameProperties ==
    ASSUME NEW list \in Seq(Entry)
    PROVE  /\ Frame(list) \in Seq(Node)
           /\ Len(Frame(list)) = Len(list)
           /\ \A i \in 1 .. Len(list) :
                 Frame(list)[i] = [id |-> list[i].id, cli |-> list[i].cli,
                                   last |-> i = Len(list)]
           /\ \A i \in 1 .. Len(list) :
                 /\ Frame(list)[i].id = list[i].id /\ Frame(list)[i].cli = list[i].cli
                 /\ Frame(list)[i].last <=> i = Len(list)
<1>1. Len(list) \in Nat /\ \A i \in 1 .. Len(list) : list[i] \in Entry
  OBVIOUS
<1>2. Frame(list) \in [1 .. Len(list) -> Node]
  BY <1>1 DEF Frame, Entry, Node
<1>3. Frame(list) \in Seq(Node) /\ Len(Frame(list)) = Len(list)
  BY <1>1, <1>2
<1> QED
  BY <1>3 DEF Frame

LEMMA ReceiversProperties ==
    ASSUME NEW list \in Seq(Entry)
    PROVE  /\ Receivers(list) \in Seq(Client)
           /\ Len(Receivers(list)) = Len(list)
           /\ \A i \in 1 .. Len(list) : Receivers(list)[i] = list[i].cli
<1>1. Len(list) \in Nat /\ \A i \in 1 .. Len(list) : list[i] \in Entry
  OBVIOUS
<1>2. Receivers(list) \in [1 .. Len(list) -> Client]
  BY <1>1 DEF Receivers, Entry
<1>3. Receivers(list) \in Seq(Client) /\ Len(Receivers(list)) = Len(list)
  BY <1>1, <1>2
<1> QED
  BY <1>3 DEF Receivers

LEMMA UnlinkProperties ==
    ASSUME online \in Seq(Entry), NEW k \in 1 .. Len(online)
    PROVE  /\ Unlink(k) \in Seq(Entry)
           /\ Len(Unlink(k)) = Len(online) - 1
           /\ \A j \in 1 .. Len(online) - 1 :
                 Unlink(k)[j] = IF j < k THEN online[j] ELSE online[j + 1]
<1>1. Len(online) \in Nat /\ Len(online) - 1 \in Nat
  OBVIOUS
<1>2. \A j \in 1 .. Len(online) - 1 :
         (IF j < k THEN online[j] ELSE online[j + 1]) \in Entry
  OBVIOUS
<1>3. Unlink(k) \in [1 .. Len(online) - 1 -> Entry]
  BY <1>2 DEF Unlink
<1>4. Unlink(k) \in Seq(Entry) /\ Len(Unlink(k)) = Len(online) - 1
  BY <1>1, <1>3
<1> QED
  BY <1>4 DEF Unlink

LEMMA AddListProperties ==
    ASSUME online \in Seq(Entry), NEW c \in Client
    PROVE  /\ NewId \in Nat \ {0}
           /\ AddList(c) \in Seq(Entry)
           /\ Len(AddList(c)) = Len(online) + 1
           /\ AddList(c)[1] = [id |-> NewId, cli |-> c]
           /\ \A i \in 2 .. Len(online) + 1 : AddList(c)[i] = online[i - 1]
<1>1. /\ Len(online) \in Nat
      /\ \A i \in 1 .. Len(online) : online[i].id \in Nat
  <2>1. \A i \in 1 .. Len(online) : online[i] \in Entry
    OBVIOUS
  <2> QED
    BY <2>1 DEF Entry
<1>2. NewId \in Nat \ {0}
  BY <1>1 DEF NewId, FirstId
<1>3. <<[id |-> NewId, cli |-> c]>> \in Seq(Entry)
  BY <1>2 DEF Entry
<1> QED
  BY <1>1, <1>2, <1>3 DEF AddList

LEMMA Joined ==
    ASSUME NEW s \in Seq(Node), NEW t \in Seq(Node)
    PROVE  /\ Len(s) \in Nat /\ Len(t) \in Nat
           /\ s \o t \in Seq(Node)
           /\ Len(s \o t) = Len(s) + Len(t)
           /\ \A i \in 1 .. Len(s) : (s \o t)[i] = s[i]
           /\ \A i \in 1 .. Len(t) : (s \o t)[Len(s) + i] = t[i]
  OBVIOUS

LEMMA WakeType ==
    ASSUME ready \in Seq(Client \cup {Listen}), NEW f \in Client \cup {Listen}
    PROVE  Wake(f) \in Seq(Client \cup {Listen})
  BY DEF Wake

(* A write reaches the client it is for, and nobody else.                  *)
LEMMA WriteProperties ==
    ASSUME TypeOK, NEW c \in Client, NEW nodes \in Seq(Node), Write(c, nodes)
    PROVE  /\ chan' \in [Client -> Seq(Node)]
           /\ hit' \subseteq Client /\ serverUp' \in BOOLEAN
           /\ \A d \in Client : d # c \/ c \in ended => chan'[d] = chan[d]
           /\ c \notin ended => chan'[c] = chan[c] \o nodes
           /\ serverUp' => serverUp
<1>1. chan \in [Client -> Seq(Node)] /\ hit \subseteq Client /\ serverUp \in BOOLEAN
  BY DEF TypeOK
<1>2. CASE c \notin ended
  <2>1. chan[c] \o nodes \in Seq(Node)
    BY <1>1
  <2>2. /\ chan' = [chan EXCEPT ![c] = chan[c] \o nodes]
        /\ UNCHANGED <<hit, serverUp>>
    BY <1>2 DEF Write
  <2> QED
    BY <1>1, <1>2, <2>1, <2>2
<1>3. CASE c \in ended
  <2>1. /\ UNCHANGED chan
        /\ hit' = hit \cup {c}
    BY <1>3 DEF Write
  <2>2. serverUp' \in BOOLEAN /\ (serverUp' => serverUp)
    <3>1. UNCHANGED serverUp \/ serverUp' = FALSE
      BY <1>3 DEF Write
    <3>2. CASE UNCHANGED serverUp
      BY <1>1, <3>2, Zenon
    <3>3. CASE serverUp' = FALSE
      BY <3>3
    <3> QED
      BY <3>1, <3>2, <3>3
  <2> QED
    BY <1>1, <1>3, <2>1, <2>2
<1> QED
  BY <1>2, <1>3
----------------------------------------------------------------------------
(* Before anything has happened.                                           *)
LEMMA InitIInv == Init => IInv
<1> SUFFICES ASSUME Init PROVE IInv
  OBVIOUS
<1> USE DEF Init, ServerInit, ClientInit
<1>1. TypeOK
  BY DEF TypeOK, MainPc, Talk, Idle
<1>2. Descending /\ ListRight /\ NewRight
  BY DEF Descending, ListRight, NewRight
<1>3. NodesRight /\ OwnRight /\ TalkRight
  BY DEF NodesRight, OwnRight, TalkRight, Idle
<1> QED
  BY <1>1, <1>2, <1>3 DEF IInv

(* Fetching the events tells nobody anything.                              *)
LEMMA EpollWaitIInv ==
    ASSUME IInv, EpollWait, UNCHANGED clientVars
    PROVE  IInv'
<1> USE DEF EpollWait, clientVars
<1>1. TypeOK'
  BY DEF IInv, TypeOK
<1>2. Descending' /\ ListRight' /\ NewRight'
  BY DEF IInv, Descending, ListRight, Right, NewRight
<1>3. NodesRight' /\ OwnRight' /\ TalkRight'
  BY DEF IInv, NodesRight, Right, OwnRight, TalkRight
<1> QED
  BY <1>1, <1>2, <1>3 DEF IInv

(* The newest id is the largest, so the next one is new; and the one who   *)
(* gets it had none, so no node speaks of it.                              *)
LEMMA AcceptIInv ==
    ASSUME IInv, Accept, UNCHANGED clientVars
    PROVE  IInv'
<1> DEFINE c == Head(backlog)
           list == AddList(c)
<1>1. /\ online \in Seq(Entry) /\ Len(online) \in Nat
      /\ backlog \in Seq(Client) /\ backlog # << >>
      /\ given \in [Client -> Nat] /\ chan \in [Client -> Seq(Node)]
      /\ ready \in Seq(Client \cup {Listen})
  BY SMTT(60) DEF IInv, TypeOK, Accept
<1>2. c \in Client /\ c = backlog[1] /\ 1 \in 1 .. Len(backlog)
  BY <1>1
<1>3. given[c] = 0 /\ main[c] # "connect" /\ chan[c] = << >>
  BY <1>2 DEF IInv, NewRight
<1>4. /\ NewId \in Nat \ {0}
      /\ list \in Seq(Entry) /\ Len(list) = Len(online) + 1
      /\ list[1] = [id |-> NewId, cli |-> c]
      /\ \A i \in 2 .. Len(online) + 1 : list[i] = online[i - 1]
  BY <1>1, <1>2, AddListProperties
<1>7. /\ online' = list /\ given' = [given EXCEPT ![c] = NewId]
      /\ wcli' = Receivers(list) /\ Write(c, <<OwnNode(list)>>)
      /\ ready' \in {ready, Wake(c)}
      /\ backlog' = Tail(backlog) /\ ended' = ended /\ events' = Tail(events)
      /\ events # << >>
  <2>1. list[1].id = NewId
    BY <1>4
  <2> QED
    BY <2>1 DEF Accept
<1> HIDE DEF c, list
<1>5. /\ Frame(list) \in Seq(Node)
      /\ OwnNode(list) \in Node
      /\ OwnNode(list).id = NewId /\ OwnNode(list).cli = c
  <2>1. 1 \in 1 .. Len(list)
    BY <1>1, <1>4
  <2>2. /\ Frame(list) \in Seq(Node)
        /\ Frame(list)[1] = [id |-> list[1].id, cli |-> list[1].cli,
                              last |-> 1 = Len(list)]
    BY <1>4, <2>1, FrameProperties
  <2>3. OwnNode(list) = [id |-> NewId, cli |-> c, last |-> 1 = Len(list)]
    BY <1>4, <2>2 DEF OwnNode
  <2> QED
    BY <1>2, <1>4, <2>2, <2>3 DEF Node
<1>6. <<OwnNode(list)>> \in Seq(Node) /\ Len(<<OwnNode(list)>>) = 1
      /\ <<OwnNode(list)>>[1] = OwnNode(list)
  BY <1>5
<1>8. /\ chan' \in [Client -> Seq(Node)]
      /\ hit' \subseteq Client /\ serverUp' \in BOOLEAN
      /\ \A d \in Client : d # c \/ c \in ended => chan'[d] = chan[d]
      /\ c \notin ended => chan'[c] = <<OwnNode(list)>>
  <2>1. IInv!1
    BY DEF IInv
  <2>2. c \notin ended => chan'[c] = chan[c] \o <<OwnNode(list)>>
    BY <1>2, <1>6, <1>7, <2>1, WriteProperties
  <2>3. chan[c] \o <<OwnNode(list)>> = <<OwnNode(list)>>
    BY <1>3, <1>6
  <2> QED
    BY <1>2, <1>6, <1>7, <2>1, <2>2, <2>3, WriteProperties
<1>9. /\ given' \in [Client -> Nat] /\ given'[c] = NewId
      /\ \A d \in Client : d # c => given'[d] = given[d]
      /\ \A d \in Client : given[d] # 0 => given'[d] = given[d]
  BY <1>1, <1>2, <1>3, <1>4, <1>7
<1>10. /\ backlog' \in Seq(Client) /\ Len(backlog') = Len(backlog) - 1
       /\ \A i \in 1 .. Len(backlog') : backlog'[i] = backlog[i + 1]
  BY <1>1, <1>7
<1>11. /\ wcli' \in Seq(Client) /\ Len(wcli') = Len(list)
       /\ \A i \in 1 .. Len(list) : wcli'[i] = list[i].cli
  BY <1>4, <1>7, ReceiversProperties
<1>12. TypeOK'
  <2>1. ready' \in Seq(Client \cup {Listen})
    BY <1>1, <1>2, <1>7, WakeType
  <2>2. events' \in Seq(Client \cup {Listen})
    BY <1>7 DEF IInv, TypeOK
  <2> QED
    BY <1>4, <1>7, <1>8, <1>9, <1>10, <1>11, <2>1, <2>2 DEF IInv, TypeOK, clientVars
<1>13. \A i \in 1 .. Len(online) :
          /\ online[i].id \in Nat /\ online[i].cli \in Client
          /\ online[i].id < NewId /\ online[i].cli # c
  <2> TAKE i \in 1 .. Len(online)
  <2>1. /\ online[i].id \in Nat /\ online[i].cli \in Client
        /\ online[1].id \in Nat /\ online # << >>
    <3>1. online[i] \in Entry /\ online[1] \in Entry
      BY <1>1
    <3> QED
      BY <1>1, <3>1, SMTT(60) DEF Entry
  <2>2. NewId = online[1].id + 1
    BY <2>1 DEF NewId
  <2>3. i = 1 \/ online[1].id > online[i].id
    <3>1. 1 \in 1 .. Len(online) /\ (i = 1 \/ 1 < i)
      BY <1>1
    <3> QED
      BY <3>1 DEF IInv, Descending
  <2>4. online[i].cli # c
    BY <1>3 DEF IInv, ListRight, Right
  <2> QED
    BY <2>1, <2>2, <2>3, <2>4
<1>14. Descending'
  <2> SUFFICES ASSUME NEW i \in 1 .. Len(list), NEW j \in 1 .. Len(list), i < j
               PROVE  list[i].id > list[j].id /\ list[i].cli # list[j].cli
    BY <1>7 DEF Descending
  <2>1. j \in 2 .. Len(online) + 1 /\ j - 1 \in 1 .. Len(online)
    BY <1>1, <1>4
  <2>2. CASE i = 1
    BY <1>4, <1>13, <2>1, <2>2
  <2>3. CASE i # 1
    <3>1. i \in 2 .. Len(online) + 1 /\ i - 1 \in 1 .. Len(online) /\ i - 1 < j - 1
      BY <1>1, <1>4, <2>1, <2>3, SMTT(60)
    <3> QED
      BY <1>4, <2>1, <3>1, SMTT(60) DEF IInv, Descending
  <2> QED
    BY <2>2, <2>3
<1>15. \A i \in 1 .. Len(list) : list[i].id # 0 /\ list[i].id = given'[list[i].cli]
  <2> TAKE i \in 1 .. Len(list)
  <2>1. CASE i = 1
    BY <1>4, <1>9, <2>1
  <2>2. CASE i # 1
    <3>1. i \in 2 .. Len(online) + 1 /\ i - 1 \in 1 .. Len(online)
      BY <1>1, <1>4, <2>2
    <3>2. list[i] = online[i - 1] /\ online[i - 1].cli \in Client
      BY <1>4, <1>13, <3>1
    <3>3. online[i - 1].id # 0 /\ online[i - 1].id = given[online[i - 1].cli]
      BY <3>1 DEF IInv, ListRight, Right
    <3> QED
      BY <1>9, <3>2, <3>3
  <2> QED
    BY <2>1, <2>2
<1>16. ListRight'
  <2>1. \A i \in 1 .. Len(online') : Right(online[i])'
    BY <1>7, <1>15 DEF Right
  <2>2. \A i \in 1 .. Len(wcli') : given'[wcli'[i]] # 0
    BY <1>11, <1>15
  <2> QED
    BY <2>1, <2>2 DEF ListRight
<1>17. NewRight'
  <2>1. \A d \in Client : given'[d] = 0 => chan'[d] = << >> /\ mycnode[d] = NoNode
    BY <1>2, <1>4, <1>8, <1>9 DEF IInv, NewRight
  <2>2. \A d \in Client : main[d] = "connect" => given'[d] = 0
    BY <1>2, <1>3, <1>9 DEF IInv, NewRight
  <2>3. \A i \in 1 .. Len(backlog') :
           /\ backlog'[i] \in Client /\ backlog'[i] # c
           /\ given[backlog'[i]] = 0 /\ main[backlog'[i]] # "connect"
    <3> TAKE i \in 1 .. Len(backlog')
    <3>1. i + 1 \in 1 .. Len(backlog) /\ i + 1 # 1
      BY <1>1, <1>10
    <3>2. backlog'[i] = backlog[i + 1] /\ backlog[i + 1] \in Client
      BY <1>1, <1>10, <3>1, SMTT(60)
    <3>3. backlog[i + 1] # backlog[1]
      BY <1>2, <3>1 DEF IInv, NewRight
    <3>4. given[backlog[i + 1]] = 0 /\ main[backlog[i + 1]] # "connect"
      BY <3>1 DEF IInv, NewRight
    <3> QED
      BY <1>2, <3>2, <3>3, <3>4
  <2>4. \A i, j \in 1 .. Len(backlog') : i # j => backlog'[i] # backlog'[j]
    <3> TAKE i, j \in 1 .. Len(backlog')
    <3>1. /\ i + 1 \in 1 .. Len(backlog) /\ j + 1 \in 1 .. Len(backlog)
          /\ i # j => i + 1 # j + 1
      BY <1>1, <1>10
    <3>2. i # j => backlog[i + 1] # backlog[j + 1]
      BY <3>1 DEF IInv, NewRight
    <3> QED
      BY <1>10, <3>2
  <2> QED
    BY <1>9, <2>1, <2>2, <2>3, <2>4 DEF NewRight, clientVars
<1>18. \A n \in Node : n.id # 0 /\ n.id = given[n.cli] => n.id = given'[n.cli]
  BY <1>9 DEF Node
<1>19. NodesRight'
  <2>1. ASSUME NEW d \in Client, NEW i \in 1 .. Len(chan'[d])
        PROVE  Right(chan[d][i])'
    <3>1. CASE d = c /\ c \notin ended
      <4>1. chan'[d] = <<OwnNode(list)>>
        BY <1>8, <3>1
      <4>2. Len(chan'[d]) = 1 /\ chan'[d][1] = OwnNode(list)
        BY <1>6, <4>1
      <4>3. i = 1
        BY <4>2
      <4> QED
        BY <1>4, <1>5, <1>9, <3>1, <4>2, <4>3 DEF Right
    <3>2. CASE d # c \/ c \in ended
      <4>1. chan'[d] = chan[d] /\ chan[d][i] \in Node
        BY <1>1, <1>8, <3>2
      <4>2. chan[d][i].id # 0 /\ chan[d][i].id = given[chan[d][i].cli]
        BY <4>1 DEF IInv, NodesRight, Right
      <4> QED
        BY <1>18, <4>1, <4>2 DEF Right
    <3> QED
      BY <3>1, <3>2
  <2>2. ASSUME NEW d \in Client
        PROVE  /\ \A i \in 1 .. Len(view[d]) : Right(view[d][i])'
               /\ \A i \in 1 .. Len(talk[d].nodes) : Right(talk[d].nodes[i])'
    <3>1. view[d] \in Seq(Node) /\ talk[d].nodes \in Seq(Node)
      BY DEF IInv, TypeOK, Talk
    <3>2. /\ \A i \in 1 .. Len(view[d]) : view[d][i] \in Node
          /\ \A i \in 1 .. Len(talk[d].nodes) : talk[d].nodes[i] \in Node
      BY <3>1
    <3> QED
      BY <1>18, <3>2 DEF IInv, NodesRight, Right, clientVars
  <2> QED
    BY <2>1, <2>2 DEF NodesRight, clientVars
<1>20. OwnRight'
  <2> SUFFICES ASSUME NEW d \in Client
               PROVE  /\ main[d] = "own" /\ given'[d] # 0
                         => chan'[d] # << >> /\ chan'[d][1].cli = d
                      /\ mycnode[d] # NoNode => mycnode[d].id = given'[d]
    BY <1>7 DEF IInv, OwnRight, clientVars
  <2>1. CASE d = c
    BY <1>3, <1>5, <1>6, <1>8, <2>1 DEF IInv, NewRight, OwnRight
  <2>2. CASE d # c
    BY <1>8, <1>9, <2>2 DEF IInv, OwnRight
  <2> QED
    BY <2>1, <2>2
<1>21. TalkRight'
  <2>1. \A m \in udp : m.to \in Client
    BY DEF IInv, TypeOK, Message
  <2>2. \A m \in udp : ~m.freed => m.id # 0 /\ given[m.to] = m.id
    BY DEF IInv, TalkRight
  <2>3. \A m \in udp : ~m.freed => m.id # 0 /\ given'[m.to] = m.id
    BY <1>9, <2>1, <2>2
  <2> QED
    BY <2>3 DEF IInv, TalkRight, clientVars
<1> QED
  BY <1>12, <1>14, <1>16, <1>17, <1>19, <1>20, <1>21 DEF IInv

(* An entry taken out leaves the others in their order.                    *)
LEMMA ReadGoneIInv ==
    ASSUME IInv, ReadGone, UNCHANGED clientVars
    PROVE  IInv'
<1> USE DEF clientVars, kernelVars
<1>1. /\ online \in Seq(Entry) /\ Len(online) \in Nat
      /\ events \in Seq(Client \cup {Listen}) /\ events # << >>
      /\ UNCHANGED <<serverUp, given, kernelVars>> /\ events' = Tail(events)
  BY DEF IInv, TypeOK, ReadGone
<1>2. wcli' = Receivers(online') /\ online' \in Seq(Entry)
  <2>1. \A i \in 1 .. Len(online) : Unlink(i) \in Seq(Entry)
    BY <1>1, UnlinkProperties
  <2> QED
    BY <1>1, <2>1 DEF ReadGone
<1>3. /\ wcli' \in Seq(Client) /\ Len(wcli') = Len(online')
      /\ \A i \in 1 .. Len(online') : wcli'[i] = online'[i].cli
  BY <1>2, ReceiversProperties
<1>4. TypeOK'
  BY <1>1, <1>2, <1>3 DEF IInv, TypeOK
<1>5. Descending' /\ \A i \in 1 .. Len(online') : Right(online[i])'
  <2>1. CASE UNCHANGED online
    BY <1>1, <2>1 DEF IInv, Descending, ListRight, Right
  <2>2. ASSUME NEW k \in 1 .. Len(online), online' = Unlink(k)
        PROVE  Descending' /\ \A i \in 1 .. Len(online') : Right(online[i])'
    <3>1. /\ Len(online') = Len(online) - 1
          /\ \A j \in 1 .. Len(online) - 1 :
                online'[j] = IF j < k THEN online[j] ELSE online[j + 1]
      BY <1>1, <2>2, UnlinkProperties
    <3>2. Descending'
      <4> SUFFICES ASSUME NEW i \in 1 .. Len(online'), NEW j \in 1 .. Len(online'), i < j
                   PROVE  /\ online'[i].id > online'[j].id
                          /\ online'[i].cli # online'[j].cli
        BY DEF Descending
      <4>1. PICK a \in 1 .. Len(online), b \in 1 .. Len(online) :
               a < b /\ online'[i] = online[a] /\ online'[j] = online[b]
        <5>1. CASE j < k
          <6>1. online'[i] = online[i] /\ online'[j] = online[j]
            BY <1>1, <3>1, <5>1
          <6> QED
            BY <1>1, <3>1, <6>1
        <5>2. CASE i < k /\ ~(j < k)
          <6>1. online'[i] = online[i] /\ online'[j] = online[j + 1]
            BY <3>1, <5>2
          <6> QED
            BY <1>1, <3>1, <6>1
        <5>3. CASE ~(i < k)
          <6>1. online'[i] = online[i + 1] /\ online'[j] = online[j + 1]
            BY <1>1, <3>1, <5>3
          <6> QED
            BY <1>1, <3>1, <6>1, SMTT(60)
        <5> QED
          BY <1>1, <3>1, <5>1, <5>2, <5>3
      <4> QED
        BY <4>1 DEF IInv, Descending
    <3>3. ASSUME NEW i \in 1 .. Len(online')
          PROVE  Right(online[i])'
      <4>1. PICK a \in 1 .. Len(online) : online'[i] = online[a]
        BY <1>1, <3>1
      <4> QED
        BY <1>1, <4>1 DEF IInv, ListRight, Right
    <3> QED
      BY <3>2, <3>3
  <2> QED
    BY <2>1, <2>2 DEF ReadGone
<1>6. ListRight'
  <2>1. \A i \in 1 .. Len(wcli') : given'[wcli'[i]] # 0
    BY <1>3, <1>5 DEF Right
  <2> QED
    BY <1>5, <2>1 DEF ListRight
<1>7. NewRight' /\ NodesRight'
  BY <1>1, SMTT(60) DEF IInv, NewRight, NodesRight, Right
<1>8. OwnRight' /\ TalkRight'
  BY <1>1 DEF IInv, OwnRight, TalkRight
<1> QED
  BY <1>4, <1>5, <1>6, <1>7, <1>8 DEF IInv

(* Every receiver has been accepted, so what it has not read begins with   *)
(* its own node as long as it has not read that.                           *)
LEMMA WriteCliIInv ==
    ASSUME IInv, WriteCli, UNCHANGED clientVars
    PROVE  IInv'
<1> DEFINE c == Head(wcli)
<1> USE DEF clientVars
<1>1. /\ online \in Seq(Entry) /\ Len(online) \in Nat
      /\ wcli \in Seq(Client) /\ wcli # << >> /\ wcli' = Tail(wcli)
      /\ chan \in [Client -> Seq(Node)]
      /\ Write(c, Frame(online))
      /\ UNCHANGED <<online, events, given, backlog, ready, ended>>
  BY DEF IInv, TypeOK, WriteCli
<1>2. c \in Client /\ given[c] # 0
  <2>1. c = wcli[1] /\ 1 \in 1 .. Len(wcli)
    BY <1>1
  <2> QED
    BY <1>1, <2>1 DEF IInv, ListRight
<1> HIDE DEF c
<1>3. /\ Frame(online) \in Seq(Node) /\ Len(Frame(online)) = Len(online)
      /\ \A i \in 1 .. Len(online) :
            Frame(online)[i].id = online[i].id /\ Frame(online)[i].cli = online[i].cli
  BY <1>1, FrameProperties
<1>4. \A i \in 1 .. Len(Frame(online)) : Right(Frame(online)[i])
  BY <1>3 DEF IInv, ListRight, Right
<1>5. /\ chan' \in [Client -> Seq(Node)]
      /\ hit' \subseteq Client /\ serverUp' \in BOOLEAN
      /\ \A d \in Client : d # c \/ c \in ended => chan'[d] = chan[d]
      /\ c \notin ended => chan'[c] = chan[c] \o Frame(online)
  BY <1>1, <1>2, <1>3, WriteProperties DEF IInv
<1>6. TypeOK'
  <2>1. wcli' \in Seq(Client)
    BY <1>1
  <2> QED
    BY <1>1, <1>5, <2>1 DEF IInv, TypeOK
<1>7. Descending'
  BY <1>1 DEF IInv, Descending
<1>8. ListRight'
  <2>1. \A i \in 1 .. Len(wcli') : i + 1 \in 1 .. Len(wcli) /\ wcli'[i] = wcli[i + 1]
    BY <1>1
  <2> QED
    BY <1>1, <2>1 DEF IInv, ListRight, Right
<1>9. NewRight'
  BY <1>1, <1>2, <1>5 DEF IInv, NewRight
<1>10. c \notin ended =>
         /\ Len(chan[c]) \in Nat
         /\ Len(chan'[c]) = Len(chan[c]) + Len(online)
         /\ \A i \in 1 .. Len(chan[c]) : chan'[c][i] = chan[c][i]
         /\ \A i \in 1 .. Len(online) : chan'[c][Len(chan[c]) + i] = Frame(online)[i]
  <2>1. chan[c] \in Seq(Node)
    BY <1>1, <1>2
  <2> DEFINE s == chan[c]
             t == Frame(online)
  <2>2. s \in Seq(Node) /\ t \in Seq(Node) /\ Len(t) = Len(online)
    BY <1>3, <2>1
  <2>3. c \notin ended => chan'[c] = s \o t
    BY <1>5
  <2> HIDE DEF s, t
  <2>4. /\ Len(s) \in Nat /\ Len(s \o t) = Len(s) + Len(t)
        /\ \A i \in 1 .. Len(s) : (s \o t)[i] = s[i]
        /\ \A i \in 1 .. Len(t) : (s \o t)[Len(s) + i] = t[i]
    BY <2>2, Joined
  <2> QED
    BY <2>2, <2>3, <2>4 DEF s, t
<1>11. NodesRight'
  <2>1. ASSUME NEW d \in Client, NEW i \in 1 .. Len(chan'[d])
        PROVE  Right(chan[d][i])'
    <3>1. CASE chan'[d] = chan[d]
      BY <1>1, <3>1 DEF IInv, NodesRight, Right
    <3>2. CASE d = c /\ c \notin ended
      <4>1. CASE i <= Len(chan[c])
        <5>1. chan'[c][i] = chan[c][i] /\ i \in 1 .. Len(chan[c])
          BY <1>10, <3>2, <4>1
        <5> QED
          BY <1>1, <1>2, <3>2, <5>1 DEF IInv, NodesRight, Right
      <4>2. CASE i > Len(chan[c])
        <5>1. PICK k \in 1 .. Len(online) : chan'[c][i] = Frame(online)[k]
          <6>1. /\ i - Len(chan[c]) \in 1 .. Len(online)
                /\ i = Len(chan[c]) + (i - Len(chan[c]))
            BY <1>1, <1>10, <3>2, <4>2
          <6> QED
            BY <1>10, <3>2, <6>1
        <5> QED
          BY <1>1, <1>3, <1>4, <3>2, <5>1 DEF Right
      <4> QED
        BY <1>10, <3>2, <4>1, <4>2
    <3> QED
      BY <1>5, <3>1, <3>2
  <2> QED
    BY <1>1, <2>1 DEF IInv, NodesRight, Right
<1>12. OwnRight'
  <2>1. ASSUME NEW d \in Client, main[d] = "own", given[d] # 0
        PROVE  chan'[d] # << >> /\ chan'[d][1].cli = d
    <3>1. /\ chan[d] # << >> /\ chan[d][1].cli = d /\ chan[d] \in Seq(Node)
          /\ chan'[d] \in Seq(Node)
      BY <1>1, <1>5, <2>1 DEF IInv, OwnRight
    <3>2. 1 \in 1 .. Len(chan[d]) /\ Len(chan[d]) \in Nat
      BY <3>1
    <3>3. CASE d = c /\ c \notin ended
      <4>1. chan'[d][1] = chan[d][1] /\ Len(chan'[d]) >= 1
        BY <1>1, <1>3, <1>10, <3>2, <3>3
      <4> QED
        BY <3>1, <4>1
    <3>4. CASE d # c \/ c \in ended
      BY <1>5, <3>1, <3>4
    <3> QED
      BY <3>3, <3>4
  <2> QED
    BY <1>1, <2>1 DEF IInv, OwnRight
<1>13. TalkRight'
  BY <1>1 DEF IInv, TalkRight
<1> QED
  BY <1>6, <1>7, <1>8, <1>9, <1>11, <1>12, <1>13 DEF IInv
----------------------------------------------------------------------------
(* A client changes nothing of the server's process.                       *)
LEMMA ListKept ==
    ASSUME IInv, UNCHANGED processVars
    PROVE  Descending' /\ ListRight'
  BY DEF IInv, Descending, ListRight, Right, processVars

LEMMA ConnectIInv ==
    ASSUME IInv, NEW c \in Client, Connect(c)
    PROVE  IInv'
<1> USE DEF Connect, processVars
<1>1. /\ main \in [Client -> MainPc] /\ main[c] = "connect"
      /\ backlog \in Seq(Client)
      /\ main' \in [Client -> MainPc] /\ main'[c] \in {"own", "gone"}
      /\ \A d \in Client : d # c => main'[d] = main[d]
  BY DEF IInv, TypeOK, MainPc
<1>2. given[c] = 0 /\ chan[c] = << >> /\ \A i \in 1 .. Len(backlog) : backlog[i] # c
  BY <1>1 DEF IInv, NewRight
<1>3. TypeOK'
  <2>1. Wake(Listen) \in Seq(Client \cup {Listen})
    BY WakeType DEF IInv, TypeOK
  <2>2. backlog' \in Seq(Client)
    BY <1>1
  <2>3. ready' \in Seq(Client \cup {Listen})
    BY <2>1 DEF IInv, TypeOK
  <2> QED
    BY <1>1, <2>2, <2>3 DEF IInv, TypeOK
<1>4. NewRight'
  <2>1. CASE UNCHANGED backlog
    <3>1. NewRight /\ UNCHANGED <<given, chan, mycnode, backlog>>
      BY <2>1 DEF IInv
    <3>2. \A d \in Client : main'[d] = "connect" => main[d] = "connect"
      BY <1>1
    <3>3. \A i \in 1 .. Len(backlog) : backlog[i] \in Client
      BY <1>1
    <3> QED
      BY ONLY <3>1, <3>2, <3>3 DEF NewRight
  <2>2. CASE backlog' = Append(backlog, c)
    <3>1. /\ Len(backlog) \in Nat /\ Len(backlog') = Len(backlog) + 1
          /\ backlog'[Len(backlog) + 1] = c
          /\ \A i \in 1 .. Len(backlog) : backlog'[i] = backlog[i] /\ backlog[i] \in Client
      BY <1>1, <2>2
    <3>2. ASSUME NEW i \in 1 .. Len(backlog')
          PROVE  given[backlog'[i]] = 0 /\ main'[backlog'[i]] # "connect"
      <4>1. i = Len(backlog) + 1 \/ i \in 1 .. Len(backlog)
        BY <3>1
      <4> QED
        BY <1>1, <1>2, <3>1, <4>1 DEF IInv, NewRight
    <3>3. ASSUME NEW i \in 1 .. Len(backlog'), NEW j \in 1 .. Len(backlog'), i # j
          PROVE  backlog'[i] # backlog'[j]
      <4>1. /\ i = Len(backlog) + 1 \/ i \in 1 .. Len(backlog)
            /\ j = Len(backlog) + 1 \/ j \in 1 .. Len(backlog)
        BY <3>1
      <4> QED
        BY <1>2, <3>1, <3>3, <4>1 DEF IInv, NewRight
    <3> QED
      BY <1>1, <1>2, <3>2, <3>3 DEF IInv, NewRight
  <2> QED
    BY <2>1, <2>2
<1>5. NodesRight' /\ TalkRight'
  BY DEF IInv, NodesRight, Right, TalkRight
<1>6. OwnRight'
  BY <1>1, <1>2 DEF IInv, OwnRight
<1> QED
  BY <1>3, <1>4, <1>5, <1>6, ListKept DEF IInv

(* The first node a client reads is about itself.                          *)
LEMMA ReadOwnIInv ==
    ASSUME IInv, NEW c \in Client, ReadOwn(c)
    PROVE  IInv'
<1> USE DEF ReadOwn, processVars
<1>1. /\ main \in [Client -> MainPc] /\ chan \in [Client -> Seq(Node)]
      /\ mycnode \in [Client -> Node \cup {NoNode}]
      /\ main[c] = "own" /\ chan[c] # << >> /\ chan[c] \in Seq(Node)
  BY DEF IInv, TypeOK
<1>2. /\ Head(chan[c]) \in Node /\ Head(chan[c]) = chan[c][1]
      /\ Tail(chan[c]) \in Seq(Node) /\ Len(Tail(chan[c])) = Len(chan[c]) - 1
      /\ 1 \in 1 .. Len(chan[c]) /\ Len(chan[c]) \in Nat
      /\ \A i \in 1 .. Len(Tail(chan[c])) : Tail(chan[c])[i] = chan[c][i + 1]
  BY <1>1
<1>3. /\ chan' = [chan EXCEPT ![c] = Tail(chan[c])]
      /\ mycnode' = [mycnode EXCEPT ![c] = Head(chan[c])]
      /\ main' = [main EXCEPT ![c] = "recv"]
  OBVIOUS
<1>4. TypeOK'
  BY <1>1, <1>2, <1>3 DEF IInv, TypeOK, MainPc
<1>5. given[c] # 0
  BY <1>1 DEF IInv, NewRight
<1>6. NewRight'
  <2>1. backlog \in Seq(Client)
    BY DEF IInv, TypeOK
  <2> QED
    BY <1>1, <1>3, <1>5, <2>1 DEF IInv, NewRight
<1>7. NodesRight'
  <2>1. \A i \in 1 .. Len(Tail(chan[c])) : Right(Tail(chan[c])[i])
    BY <1>2 DEF IInv, NodesRight
  <2> QED
    BY <1>1, <1>3, <2>1 DEF IInv, NodesRight, Right
<1>8. OwnRight'
  <2>1. chan[c][1].cli = c /\ Right(chan[c][1])
    BY <1>1, <1>2, <1>5 DEF IInv, OwnRight, NodesRight
  <2>2. mycnode'[c].id = given[c]
    BY <1>1, <1>2, <1>3, <2>1 DEF Right
  <2> QED
    BY <1>1, <1>3, <2>2 DEF IInv, OwnRight
<1>9. TalkRight'
  BY DEF IInv, TalkRight
<1> QED
  BY <1>4, <1>6, <1>7, <1>8, <1>9, ListKept DEF IInv

(* The end of a process takes what it knew with it.                        *)
LEMMA HangUpIInv ==
    ASSUME IInv, NEW c \in Client, Alive(c), HangUp(c),
           UNCHANGED <<processVars, backlog, hit, udp, sends>>
    PROVE  IInv'
<1> USE DEF HangUp, processVars
<1>1. /\ main \in [Client -> MainPc] /\ chan \in [Client -> Seq(Node)]
      /\ mycnode \in [Client -> Node \cup {NoNode}]
      /\ view \in [Client -> Seq(Node)] /\ talk \in [Client -> Talk]
      /\ flag \in [Client -> BOOLEAN]
      /\ ready \in Seq(Client \cup {Listen})
  BY DEF IInv, TypeOK
<1>2. TypeOK'
  <2>1. ready' \in Seq(Client \cup {Listen})
    BY <1>1, WakeType
  <2>2. Idle \in Talk
    BY DEF Idle, Talk
  <2> QED
    BY <1>1, <2>1, <2>2 DEF IInv, TypeOK, MainPc
<1>3. NewRight'
  <2>1. backlog \in Seq(Client)
    BY DEF IInv, TypeOK
  <2> QED
    BY <1>1, <2>1 DEF IInv, NewRight, Alive
<1>4. NodesRight'
  BY <1>1 DEF IInv, NodesRight, Right, Idle
<1>5. OwnRight'
  BY <1>1 DEF IInv, OwnRight
<1>6. TalkRight'
  BY <1>1 DEF IInv, TalkRight, Idle
<1> QED
  BY <1>2, <1>3, <1>4, <1>5, <1>6, ListKept DEF IInv

LEMMA ReadNodeIInv ==
    ASSUME IInv, NEW c \in Client, ReadNode(c)
    PROVE  IInv'
<1> DEFINE node == Head(chan[c])
           kept == IF flag[c] THEN << >> ELSE view[c]
<1> USE DEF processVars
<1>1. /\ main[c] = "recv" /\ chan[c] # << >> /\ chan[c] \in Seq(Node)
      /\ chan \in [Client -> Seq(Node)]
      /\ view \in [Client -> Seq(Node)] /\ flag \in [Client -> BOOLEAN]
      /\ talk \in [Client -> Talk]
  BY DEF IInv, TypeOK, ReadNode
<1>2. /\ node \in Node /\ node = chan[c][1] /\ node.last \in BOOLEAN
      /\ Tail(chan[c]) \in Seq(Node) /\ Len(Tail(chan[c])) = Len(chan[c]) - 1
      /\ 1 \in 1 .. Len(chan[c]) /\ Len(chan[c]) \in Nat
      /\ \A i \in 1 .. Len(Tail(chan[c])) : Tail(chan[c])[i] = chan[c][i + 1]
  <2>1. /\ node \in Node /\ node = chan[c][1]
        /\ Tail(chan[c]) \in Seq(Node) /\ Len(Tail(chan[c])) = Len(chan[c]) - 1
        /\ 1 \in 1 .. Len(chan[c]) /\ Len(chan[c]) \in Nat
        /\ \A i \in 1 .. Len(Tail(chan[c])) : Tail(chan[c])[i] = chan[c][i + 1]
    BY <1>1
  <2>2. node.last \in BOOLEAN
    BY <2>1 DEF Node
  <2> QED
    BY <2>1, <2>2
<1>3. /\ chan' = [chan EXCEPT ![c] = Tail(chan[c])]
      /\ view' = [view EXCEPT ![c] = <<node>> \o kept]
      /\ flag' = [flag EXCEPT ![c] = node.last]
      /\ talk' \in {talk, [talk EXCEPT ![c].freed = TRUE, ![c].nodes = << >>]}
      /\ UNCHANGED <<processVars, backlog, ready, ended, hit, main, mycnode, udp, sends>>
  BY DEF ReadNode
<1>4. /\ <<node>> \in Seq(Node) /\ kept \in Seq(Node)
      /\ <<node>> \o kept \in Seq(Node)
      /\ Len(<<node>> \o kept) = Len(kept) + 1 /\ Len(kept) \in Nat
      /\ (<<node>> \o kept)[1] = node
      /\ \A i \in 1 .. Len(kept) : (<<node>> \o kept)[i + 1] = kept[i]
  <2>1. <<node>> \in Seq(Node) /\ kept \in Seq(Node)
    BY <1>1, <1>2
  <2> HIDE DEF node, kept
  <2> QED
    BY <2>1
<1> HIDE DEF node, kept
<1>5. talk' \in [Client -> Talk]
  <2>1. [talk[c] EXCEPT !.freed = TRUE, !.nodes = << >>] \in Talk
    <3>1. << >> \in Seq(Node)
      OBVIOUS
    <3>2. talk[c] \in [pc : {"id", "search", "text"}, id : Nat,
                       nodes : Seq(Node), freed : BOOLEAN]
      BY <1>1 DEF Talk
    <3> QED
      BY <3>1, <3>2 DEF Talk
  <2> QED
    BY <1>1, <1>3, <2>1
<1>6. TypeOK'
  BY <1>1, <1>2, <1>3, <1>4, <1>5 DEF IInv, TypeOK
<1>7. NewRight'
  <2>1. given[c] # 0
    BY <1>1 DEF IInv, NewRight
  <2> QED
    BY <1>1, <1>3, <2>1 DEF IInv, NewRight
<1>8. NodesRight'
  <2>1. Right(node) /\ \A i \in 1 .. Len(Tail(chan[c])) : Right(Tail(chan[c])[i])
    <3>1. \A i \in 1 .. Len(Tail(chan[c])) : i + 1 \in 1 .. Len(chan[c])
      BY <1>2
    <3> QED
      BY <1>2, <3>1 DEF IInv, NodesRight
  <2>2. \A i \in 1 .. Len(kept) : Right(kept[i])
    BY <1>1 DEF IInv, NodesRight, kept
  <2>3. ASSUME NEW i \in 1 .. Len(<<node>> \o kept)
        PROVE  Right((<<node>> \o kept)[i])
    <3>1. i = 1 \/ (i - 1 \in 1 .. Len(kept) /\ i = (i - 1) + 1)
      BY <1>4
    <3> QED
      BY <1>4, <2>1, <2>2, <3>1
  <2>4. \A d \in Client : talk'[d].nodes = talk[d].nodes \/ talk'[d].nodes = << >>
    BY <1>1, <1>3, ZenonT(60) DEF Talk
  <2> QED
    BY <1>1, <1>3, <2>1, <2>3, <2>4 DEF IInv, NodesRight, Right
<1>9. OwnRight'
  BY <1>1, <1>3 DEF IInv, OwnRight
<1>10. TalkRight'
  <2>1. \A d \in Client : talk'[d] = talk[d] \/ talk'[d].freed
    BY <1>1, <1>3 DEF Talk
  <2> QED
    BY <1>3, <2>1 DEF IInv, TalkRight
<1> QED
  BY <1>3, <1>6, <1>7, <1>8, <1>9, <1>10, ListKept DEF IInv

(* What send_cli and recvfrom() can disturb.                               *)
LEMMA TalkingIInv ==
    ASSUME IInv, UNCHANGED <<serverVars, main, mycnode, view, flag>>,
           talk' \in [Client -> Talk], udp' \subseteq Message, sends' \in Nat,
           \A d \in Client : \A i \in 1 .. Len(talk'[d].nodes) : Right(talk'[d].nodes[i]),
           TalkRight'
    PROVE  IInv'
<1> USE DEF serverVars, processVars, kernelVars
<1>1. TypeOK'
  BY DEF IInv, TypeOK
<1>2. NewRight' /\ OwnRight'
  BY DEF IInv, NewRight, OwnRight
<1>3. NodesRight'
  BY DEF IInv, NodesRight, Right
<1> QED
  BY <1>1, <1>2, <1>3, ListKept DEF IInv

LEMMA TypeIdIInv ==
    ASSUME IInv, NEW c \in Client, NEW i \in Typed, TypeId(c, i)
    PROVE  IInv'
<1> USE DEF TypeId
<1>1. /\ talk \in [Client -> Talk] /\ view \in [Client -> Seq(Node)]
      /\ sends \in Nat /\ udp \subseteq Message /\ i \in Nat
  BY DEF IInv, TypeOK, Typed
<1>2. talk' = [talk EXCEPT ![c] =
                 [pc |-> "search", id |-> i, nodes |-> view[c], freed |-> FALSE]]
  OBVIOUS
<1>3. [pc |-> "search", id |-> i, nodes |-> view[c], freed |-> FALSE] \in Talk
  BY <1>1 DEF Talk
<1>4. talk' \in [Client -> Talk]
  BY <1>1, <1>2, <1>3
<1>5. \A d \in Client : \A k \in 1 .. Len(talk'[d].nodes) : Right(talk'[d].nodes[k])
  <2>1. \A d \in Client : talk'[d].nodes = IF d = c THEN view[c] ELSE talk[d].nodes
    BY <1>1, <1>2
  <2> QED
    BY <2>1 DEF IInv, NodesRight
<1>6. TalkRight'
  BY <1>1, <1>2 DEF IInv, TalkRight, serverVars, processVars
<1> QED
  BY <1>1, <1>4, <1>5, <1>6, TalkingIInv

(* The node found has the id searched for.                                 *)
LEMMA FoundIInv ==
    ASSUME IInv, NEW c \in Client, Found(c)
    PROVE  IInv'
<1>1. /\ talk \in [Client -> Talk] /\ talk[c] \in Talk
      /\ sends \in Nat /\ udp \subseteq Message
  BY DEF IInv, TypeOK
<1>2. PICK k \in 1 .. Len(talk[c].nodes) :
         /\ talk[c].nodes[k].id = talk[c].id
         /\ talk' = [talk EXCEPT ![c].pc = "text", ![c].nodes = <<talk[c].nodes[k]>>]
  BY DEF Found
<1>3. UNCHANGED <<serverVars, main, mycnode, view, flag, udp, sends>>
  BY DEF Found
<1>4. /\ talk[c].nodes \in Seq(Node) /\ talk[c].nodes[k] \in Node
      /\ <<talk[c].nodes[k]>> \in Seq(Node)
      /\ Len(<<talk[c].nodes[k]>>) = 1
  <2>1. talk[c].nodes \in Seq(Node)
    BY <1>1 DEF Talk
  <2> QED
    BY <2>1
<1>5. /\ talk' \in [Client -> Talk]
      /\ talk'[c].nodes = <<talk[c].nodes[k]>> /\ talk'[c].id = talk[c].id
      /\ \A d \in Client : d # c => talk'[d] = talk[d]
  <2>1. talk[c] \in [pc : {"id", "search", "text"}, id : Nat,
                     nodes : Seq(Node), freed : BOOLEAN]
    BY <1>1 DEF Talk
  <2>2. [talk[c] EXCEPT !.pc = "text", !.nodes = <<talk[c].nodes[k]>>] \in Talk
    BY <1>4, <2>1 DEF Talk
  <2> QED
    BY <1>1, <1>2, <2>1, <2>2
<1>6. \A d \in Client : \A i \in 1 .. Len(talk'[d].nodes) : Right(talk'[d].nodes[i])
  BY <1>4, <1>5 DEF IInv, NodesRight
<1>7. TalkRight'
  <2>1. Len(talk'[c].nodes) = 1 /\ talk'[c].nodes[1].id = talk'[c].id
    BY <1>2, <1>4, <1>5
  <2> QED
    BY <1>3, <1>5, <2>1 DEF IInv, TalkRight, serverVars, processVars
<1> QED
  BY <1>1, <1>3, <1>5, <1>6, <1>7, TalkingIInv

LEMMA NotOnlineIInv ==
    ASSUME IInv, NEW c \in Client, NotOnline(c)
    PROVE  IInv'
<1> USE DEF NotOnline
<1>1. /\ talk \in [Client -> Talk] /\ sends \in Nat /\ udp \subseteq Message
      /\ Idle \in Talk /\ talk' = [talk EXCEPT ![c] = Idle]
  BY DEF IInv, TypeOK, Idle, Talk
<1>2. \A d \in Client : \A i \in 1 .. Len(talk'[d].nodes) : Right(talk'[d].nodes[i])
  BY <1>1 DEF IInv, NodesRight, Idle
<1>3. TalkRight'
  BY <1>1 DEF IInv, TalkRight, Idle, serverVars, processVars
<1> QED
  BY <1>1, <1>2, <1>3, TalkingIInv

LEMMA FoundFreedIInv ==
    ASSUME IInv, NEW c \in Client, FoundFreed(c)
    PROVE  IInv'
<1> USE DEF FoundFreed
<1>1. /\ talk \in [Client -> Talk] /\ talk[c] \in Talk /\ talk[c].freed
      /\ sends \in Nat /\ udp \subseteq Message
  BY DEF IInv, TypeOK
<1>2. /\ talk' \in [Client -> Talk]
      /\ talk'[c].freed /\ talk'[c].nodes = talk[c].nodes
      /\ \A d \in Client : d # c => talk'[d] = talk[d]
  <2>1. talk[c] \in [pc : {"id", "search", "text"}, id : Nat,
                     nodes : Seq(Node), freed : BOOLEAN]
    BY <1>1 DEF Talk
  <2>2. [talk[c] EXCEPT !.pc = "text"] \in Talk
    BY <2>1 DEF Talk
  <2> QED
    BY <1>1, <2>1, <2>2
<1>3. \A d \in Client : \A i \in 1 .. Len(talk'[d].nodes) : Right(talk'[d].nodes[i])
  BY <1>2 DEF IInv, NodesRight
<1>4. TalkRight'
  BY <1>2 DEF IInv, TalkRight, serverVars, processVars
<1> QED
  BY <1>1, <1>2, <1>3, <1>4, TalkingIInv

(* A message goes to the owner of the id, for the node found says so.      *)
LEMMA SendToIInv ==
    ASSUME IInv, NEW c \in Client, SendTo(c)
    PROVE  IInv'
<1>1. /\ talk \in [Client -> Talk] /\ talk[c] \in Talk /\ talk[c].pc = "text"
      /\ sends \in Nat /\ udp \subseteq Message
      /\ Idle \in Talk /\ talk' = [talk EXCEPT ![c] = Idle]
      /\ UNCHANGED <<serverVars, main, mycnode, view, flag, sends>>
  BY DEF IInv, TypeOK, Idle, Talk, SendTo
<1>2. talk[c].id \in Nat /\ talk[c].nodes \in Seq(Node)
  BY <1>1 DEF Talk
<1>3. \A d \in Client : \A i \in 1 .. Len(talk'[d].nodes) : Right(talk'[d].nodes[i])
  BY <1>1 DEF IInv, NodesRight, Idle
<1>4. udp' = udp \/ \E m \in Message : /\ udp' = udp \cup {m}
                                       /\ m.freed \/ (m.id # 0 /\ given[m.to] = m.id)
  <2>1. CASE talk[c].freed
    <3>1. ASSUME NEW d \in Client,
                 udp' = udp \cup {[to |-> d, id |-> talk[c].id, freed |-> TRUE]}
          PROVE  \E m \in Message : udp' = udp \cup {m} /\ m.freed
      <4>1. [to |-> d, id |-> talk[c].id, freed |-> TRUE] \in Message
        BY <1>2 DEF Message
      <4> QED
        BY <3>1, <4>1
    <3> QED
      BY <2>1, <3>1 DEF SendTo
  <2>2. CASE ~talk[c].freed
    <3> DEFINE m == [to |-> talk[c].nodes[1].cli, id |-> talk[c].id, freed |-> FALSE]
    <3>1. udp' = udp \cup {m}
      BY <2>2 DEF SendTo
    <3>2. /\ 1 \in 1 .. Len(talk[c].nodes) /\ talk[c].nodes[1].id = talk[c].id
      BY <1>1, <2>2 DEF IInv, TalkRight
    <3>3. Right(talk[c].nodes[1]) /\ talk[c].nodes[1] \in Node
      BY <1>2, <3>2 DEF IInv, NodesRight
    <3>4. talk[c].nodes[1].cli \in Client
      BY <3>3 DEF Node
    <3>5. m \in Message /\ m.id # 0 /\ given[m.to] = m.id
      BY <1>2, <3>2, <3>3, <3>4 DEF Right, Message
    <3> QED
      BY <3>1, <3>5
  <2> QED
    BY <2>1, <2>2
<1>5. TalkRight'
  <2>1. given' = given
    BY <1>1 DEF serverVars, processVars
  <2>2. \A m \in udp : ~m.freed => m.id # 0 /\ given[m.to] = m.id
    BY DEF IInv, TalkRight
  <2>3. \A m \in udp' : ~m.freed => m.id # 0 /\ given'[m.to] = m.id
    BY <1>4, <2>1, <2>2
  <2>4. \A d \in Client : talk'[d] = talk[d] \/ talk'[d].pc = "id"
    BY <1>1 DEF Idle
  <2> QED
    BY <2>3, <2>4 DEF IInv, TalkRight
<1>6. udp' \subseteq Message /\ talk' \in [Client -> Talk]
  BY <1>1, <1>4
<1> QED
  BY <1>1, <1>3, <1>5, <1>6, TalkingIInv

(* A message that is read or lost.                                         *)
LEMMA LessUdpIInv ==
    ASSUME IInv, NEW m \in udp, udp' = udp \ {m},
           UNCHANGED <<serverVars, main, mycnode, view, flag, talk, sends>>
    PROVE  IInv'
<1>1. talk' \in [Client -> Talk] /\ udp' \subseteq Message /\ sends' \in Nat
  BY DEF IInv, TypeOK
<1>2. \A d \in Client : \A i \in 1 .. Len(talk'[d].nodes) : Right(talk'[d].nodes[i])
  BY DEF IInv, NodesRight
<1>3. TalkRight'
  BY DEF IInv, TalkRight, serverVars, processVars
<1> QED
  BY <1>1, <1>2, <1>3, TalkingIInv
----------------------------------------------------------------------------
LEMMA NextIInv == IInv /\ [Next]_vars => IInv'
<1> SUFFICES ASSUME IInv, [Next]_vars PROVE IInv'
  OBVIOUS
<1>1. CASE ServerNext /\ UNCHANGED clientVars
  BY <1>1, EpollWaitIInv, AcceptIInv, ReadGoneIInv, WriteCliIInv DEF ServerNext
<1>2. ASSUME NEW c \in Client,
             Connect(c) \/ ReadOwn(c) \/ ReadOwnFails(c) \/ ReadNode(c)
      PROVE  IInv'
  BY <1>2, ConnectIInv, ReadOwnIInv, ReadNodeIInv, HangUpIInv DEF ReadOwnFails, Alive
<1>3. ASSUME NEW c \in Client, NEW i \in Typed, TypeId(c, i)
      PROVE  IInv'
  BY <1>3, TypeIdIInv
<1>4. ASSUME NEW c \in Client,
             Found(c) \/ NotOnline(c) \/ FoundFreed(c) \/ SendTo(c)
      PROVE  IInv'
  BY <1>4, FoundIInv, NotOnlineIInv, FoundFreedIInv, SendToIInv
<1>5. ASSUME NEW c \in Client, RecvFrom(c) \/ Leave(c)
      PROVE  IInv'
  BY <1>5, LessUdpIInv, HangUpIInv DEF RecvFrom, Leave
<1>6. ASSUME NEW m \in udp, LoseMessage(m)
      PROVE  IInv'
  BY <1>6, LessUdpIInv DEF LoseMessage
<1>7. CASE UNCHANGED vars
  <2>1. UNCHANGED <<serverVars, main, mycnode, view, flag, talk, udp, sends>>
    BY <1>7 DEF vars, clientVars
  <2>2. talk' \in [Client -> Talk] /\ udp' \subseteq Message /\ sends' \in Nat
    BY <2>1 DEF IInv, TypeOK
  <2>3. TalkRight'
    BY <2>1 DEF IInv, TalkRight, serverVars, processVars
  <2>4. \A d \in Client : \A i \in 1 .. Len(talk'[d].nodes) : Right(talk'[d].nodes[i])
    BY <2>1 DEF IInv, NodesRight
  <2> QED
    BY <2>1, <2>2, <2>3, <2>4, TalkingIInv
<1> QED
  BY <1>1, <1>2, <1>3, <1>4, <1>5, <1>6, <1>7 DEF Next, ClientNext

LEMMA Invariance == Spec => []IInv
  BY InitIInv, NextIInv, PTL DEF Spec

(* The types; an id is on its way to a client only once it is given.       *)
THEOREM TypeCorrect == Spec => []TypeOK
<1>1. IInv => TypeOK
  BY DEF IInv
<1> QED
  BY <1>1, Invariance, PTL

(* server.c:126: one more than the newest id is an id that nobody has, and *)
(* nobody is in the list twice.                                            *)
THEOREM IdsCorrect == Spec => []IdsDistinct
<1>1. IInv => IdsDistinct
  <2> SUFFICES ASSUME IInv, NEW i \in 1 .. Len(online), NEW j \in 1 .. Len(online), i # j
               PROVE  online[i].id # online[j].id /\ online[i].cli # online[j].cli
    BY DEF IdsDistinct
  <2>1. Len(online) \in Nat /\ \A k \in 1 .. Len(online) : online[k].id \in Nat
    <3>1. \A k \in 1 .. Len(online) : online[k] \in Entry
      BY DEF IInv, TypeOK
    <3> QED
      <4>1. Len(online) \in Nat
        BY DEF IInv, TypeOK
      <4> QED
        BY <3>1, <4>1 DEF Entry
  <2>2. i < j \/ j < i
    BY <2>1
  <2> QED
    BY <2>1, <2>2 DEF IInv, Descending
<1> QED
  BY <1>1, Invariance, PTL

(* Whoever receives a message is the one it was meant for, whatever has    *)
(* come and gone while it was typed (client.c:242) - but for the addresses *)
(* read from a list that was being freed.                                  *)
THEOREM MessagesReachOwners == Spec => []ForOwner
<1>1. IInv => ForOwner
  <2> SUFFICES ASSUME IInv, NEW m \in udp, ~m.freed, mycnode[m.to] # NoNode
               PROVE  mycnode[m.to].id = m.id
    BY DEF ForOwner
  <2>1. m.to \in Client
    BY DEF IInv, TypeOK, Message
  <2> QED
    BY <2>1 DEF IInv, OwnRight, TalkRight
<1> QED
  BY <1>1, Invariance, PTL
-----------------------------------------------------------------------------
(* The lists sent to a client never run into each other, and the client    *)
(* ends up with the server's: InStep.                                      *)

(* Only what has ended raises an event; so who lives is in the list, and   *)
(* write_cli, once begun, comes to everybody who has to be told.           *)
Listed ==
    /\ \A i \in 1 .. Len(events) : events[i] # Listen => events[i] \in ended
    /\ \A i \in 1 .. Len(ready) : ready[i] # Listen => ready[i] \in ended
    /\ \A c \in Client : given[c] # 0 /\ c \notin ended =>
          \E i \in 1 .. Len(online) : online[i].cli = c
    /\ \A c \in Client : main[c] \in {"connect", "own"} => flag[c]

InStepAt(c) ==
    serverUp /\ Alive(c) /\ Accepted(c) =>
        Whole(c) /\ (~Contains(wcli, c) => Current(c))

SInv == IInv /\ Listed /\ InStep
----------------------------------------------------------------------------
LEMMA AtEach == InStep <=> \A c \in Client : InStepAt(c)
  BY DEF InStep, InStepAt

(* A client of which nothing changes that its reading depends on.          *)
LEMMA KeptAt ==
    ASSUME NEW c \in Client, InStepAt(c), serverUp' => serverUp,
           Alive(c)' => Alive(c), Pending(c)' = Pending(c),
           flag'[c] = flag[c], view'[c] = view[c], given'[c] = given[c],
           online' = online, Contains(wcli, c) => Contains(wcli', c)
    PROVE  InStepAt(c)'
<1>1. Whole(c)' <=> Whole(c)
  BY DEF Whole
<1>2. Current(c)' <=> Current(c)
  BY DEF Current, Frame
<1> QED
  BY <1>1, <1>2 DEF InStepAt, Accepted

(* The server has its list changed, and goes to tell everybody: nothing    *)
(* but the end of what is under way matters.                               *)
LEMMA TellingAt ==
    ASSUME NEW c \in Client, OwnRight', Listed', TypeOK',
           wcli' = Receivers(online'),
           serverUp' /\ Alive(c)' /\ Accepted(c)' => Whole(c)'
    PROVE  InStepAt(c)'
<1> SUFFICES ASSUME serverUp', Alive(c)', Accepted(c)' PROVE Contains(wcli', c)
  BY DEF InStepAt
<1>1. c \notin ended'
  BY DEF OwnRight, Alive
<1>2. PICK i \in 1 .. Len(online') : online'[i].cli = c
  BY <1>1 DEF Listed, Accepted
<1>3. Len(wcli') = Len(online') /\ wcli'[i] = online'[i].cli
  BY <1>2, ReceiversProperties DEF TypeOK
<1> QED
  BY <1>2, <1>3 DEF Contains

LEMMA InitSInv == Init => SInv
<1> SUFFICES ASSUME Init PROVE SInv
  OBVIOUS
<1>1. Listed
  BY DEF Init, ServerInit, ClientInit, Listed
<1>2. InStep
  BY DEF Init, ServerInit, ClientInit, InStep, Accepted
<1> QED
  BY <1>1, <1>2, InitIInv DEF SInv

LEMMA EpollWaitSInv ==
    ASSUME SInv, EpollWait, UNCHANGED clientVars
    PROVE  SInv'
<1> USE DEF EpollWait, clientVars
<1>1. Listed'
  BY DEF SInv, Listed
<1>2. ASSUME NEW c \in Client PROVE InStepAt(c)'
  <2>1. InStepAt(c)
    BY AtEach DEF SInv
  <2> QED
    BY <2>1, KeptAt DEF Alive, Pending
<1> QED
  BY <1>1, <1>2, AtEach, EpollWaitIInv DEF SInv, InStep, InStepAt

(* An event that waits, or is fetched, stays what it is.                   *)
LEMMA WakeListed ==
    ASSUME ready \in Seq(Client \cup {Listen}), NEW f \in Client \cup {Listen}
    PROVE  \A i \in 1 .. Len(Wake(f)) :
              Wake(f)[i] = f \/ \E j \in 1 .. Len(ready) : Wake(f)[i] = ready[j]
  BY DEF Wake

(* The new client is told of itself alone, whatever it is to be told next. *)
LEMMA AcceptSInv ==
    ASSUME SInv, Accept, UNCHANGED clientVars
    PROVE  SInv'
<1> DEFINE c == Head(backlog)
           list == AddList(c)
<1> USE DEF clientVars
<1>1. /\ online \in Seq(Entry) /\ Len(online) \in Nat
      /\ backlog \in Seq(Client) /\ backlog # << >>
      /\ given \in [Client -> Nat] /\ chan \in [Client -> Seq(Node)]
      /\ main \in [Client -> MainPc] /\ flag \in [Client -> BOOLEAN]
      /\ ready \in Seq(Client \cup {Listen})
      /\ events \in Seq(Client \cup {Listen}) /\ events # << >>
      /\ \A d \in Client : main[d] = "recv" => mycnode[d] \in Node
  <2>1. TypeOK
    BY DEF SInv, IInv
  <2>2. online \in Seq(Entry) => Len(online) \in Nat
    OBVIOUS
  <2>3. backlog # << >> /\ events # << >>
    BY DEF Accept
  <2> QED
    BY <2>1, <2>2, <2>3 DEF TypeOK
<1>2. c \in Client /\ c = backlog[1] /\ 1 \in 1 .. Len(backlog)
  BY <1>1
<1>3. given[c] = 0 /\ main[c] # "connect" /\ chan[c] = << >> /\ mycnode[c] = NoNode
  BY <1>2 DEF SInv, IInv, NewRight
<1>4. /\ NewId \in Nat \ {0}
      /\ list \in Seq(Entry) /\ Len(list) = Len(online) + 1
      /\ list[1] = [id |-> NewId, cli |-> c]
      /\ \A i \in 2 .. Len(online) + 1 : list[i] = online[i - 1]
  BY <1>1, <1>2, AddListProperties
<1>5. /\ online' = list /\ given' = [given EXCEPT ![c] = NewId]
      /\ wcli' = Receivers(list) /\ Write(c, <<OwnNode(list)>>)
      /\ ready' = IF c \in ended THEN Wake(c) ELSE ready
      /\ events' = Tail(events) /\ ended' = ended
  <2>1. list[1].id = NewId
    BY <1>4
  <2> QED
    BY <2>1 DEF Accept
<1> HIDE DEF c, list
<1>6. IInv'
  BY AcceptIInv DEF SInv
<1>7. /\ \A d \in Client : d # c => chan'[d] = chan[d] /\ given'[d] = given[d]
      /\ c \notin ended => chan'[c] = <<OwnNode(list)>>
      /\ serverUp' => serverUp
  <2>1. OwnNode(list) \in Node
    <3>1. 1 \in 1 .. Len(list)
      BY <1>1, <1>4
    <3>2. Frame(list)[1] = [id |-> list[1].id, cli |-> list[1].cli, last |-> 1 = Len(list)]
      BY <1>4, <3>1, FrameProperties
    <3> QED
      BY <1>2, <1>4, <3>2 DEF OwnNode, Node
  <2>2. <<OwnNode(list)>> \in Seq(Node) /\ TypeOK
    BY <2>1 DEF SInv, IInv
  <2>3. /\ \A d \in Client : d # c => chan'[d] = chan[d]
        /\ c \notin ended => chan'[c] = chan[c] \o <<OwnNode(list)>>
        /\ serverUp' => serverUp
    BY <1>2, <1>5, <2>2, WriteProperties
  <2>4. chan[c] \o <<OwnNode(list)>> = <<OwnNode(list)>>
    BY <1>3, <2>2
  <2> QED
    BY <1>1, <1>2, <1>5, <2>3, <2>4
<1>8. Listed'
  <2>1. ASSUME NEW i \in 1 .. Len(events'), events'[i] # Listen PROVE events'[i] \in ended
    <3>1. i + 1 \in 1 .. Len(events) /\ events'[i] = events[i + 1]
      BY <1>1, <1>5
    <3> QED
      BY <2>1, <3>1 DEF SInv, Listed
  <2>2. ASSUME NEW i \in 1 .. Len(ready'), ready'[i] # Listen PROVE ready'[i] \in ended
    <3>1. \/ \E j \in 1 .. Len(ready) : ready'[i] = ready[j]
          \/ c \in ended /\ ready'[i] = c
      BY <1>1, <1>2, <1>5, WakeListed
    <3> QED
      BY <2>2, <3>1 DEF SInv, Listed
  <2>3. ASSUME NEW d \in Client, given'[d] # 0, d \notin ended
        PROVE  \E i \in 1 .. Len(list) : list[i].cli = d
    <3>1. CASE d = c
      <4>1. 1 \in 1 .. Len(list) /\ list[1].cli = c
        BY <1>1, <1>4
      <4> QED
        BY <3>1, <4>1
    <3>2. CASE d # c
      <4>1. PICK i \in 1 .. Len(online) : online[i].cli = d
        BY <1>7, <2>3, <3>2 DEF SInv, Listed
      <4>2. i + 1 \in 1 .. Len(list) /\ i + 1 \in 2 .. Len(online) + 1 /\ (i + 1) - 1 = i
        BY <1>1, <1>4
      <4>3. list[i + 1] = online[i]
        BY <1>4, <4>2
      <4> QED
        BY <4>1, <4>2, <4>3
    <3> QED
      BY <3>1, <3>2
  <2>4. \A d \in Client : main[d] \in {"connect", "own"} => flag[d]
    BY DEF SInv, Listed
  <2> QED
    BY <1>5, <2>1, <2>2, <2>3, <2>4 DEF Listed
<1>9. ASSUME NEW d \in Client, serverUp', Alive(d)', Accepted(d)'
      PROVE  Whole(d)'
  <2>1. CASE d = c
    <3>1. main[c] = "own" /\ c \notin ended /\ flag[c]
      BY <1>1, <1>2, <1>3, <1>9, <2>1
         DEF SInv, IInv, OwnRight, Listed, Alive, MainPc
    <3>2. Pending(d)' = << >>
      <4>1. main'[d] = "own" /\ chan'[d] = <<OwnNode(list)>>
        BY <1>7, <2>1, <3>1
      <4>2. Tail(<<OwnNode(list)>>) = << >>
        OBVIOUS
      <4> QED
        BY <4>1, <4>2 DEF Pending
    <3> QED
      BY <2>1, <3>1, <3>2 DEF Whole
  <2>2. CASE d # c
    <3>1. Whole(d)
      BY <1>7, <1>9, <2>2 DEF SInv, InStep, Alive, Accepted
    <3> QED
      BY <1>7, <2>2, <3>1 DEF Whole, Pending
  <2> QED
    BY <2>1, <2>2
<1> QED
  BY <1>5, <1>6, <1>8, <1>9, TellingAt DEF SInv, IInv, InStep, InStepAt

(* Who goes is taken out of the list; everybody else is about to be told.  *)
LEMMA ReadGoneSInv ==
    ASSUME SInv, ReadGone, UNCHANGED clientVars
    PROVE  SInv'
<1> USE DEF clientVars, kernelVars
<1>1. /\ online \in Seq(Entry) /\ Len(online) \in Nat
      /\ events \in Seq(Client \cup {Listen}) /\ events # << >>
      /\ events' = Tail(events) /\ Head(events) # Listen
      /\ UNCHANGED <<serverUp, given, kernelVars>>
  BY DEF SInv, IInv, TypeOK, ReadGone
<1>2. IInv'
  BY ReadGoneIInv DEF SInv
<1>3. Head(events) \in ended
  <2>1. 1 \in 1 .. Len(events) /\ Head(events) = events[1]
    BY <1>1
  <2> QED
    BY <1>1, <2>1 DEF SInv, Listed
<1>4. wcli' = Receivers(online')
  BY <1>1 DEF ReadGone
<1>5. ASSUME NEW d \in Client, given[d] # 0, d \notin ended
      PROVE  \E i \in 1 .. Len(online') : online'[i].cli = d
  <2>1. PICK i \in 1 .. Len(online) : online[i].cli = d
    BY <1>5 DEF SInv, Listed
  <2>2. CASE UNCHANGED online
    BY <2>1, <2>2
  <2>3. ASSUME NEW k \in 1 .. Len(online), IsFirst(k, Head(events)), online' = Unlink(k)
        PROVE  \E j \in 1 .. Len(online') : online'[j].cli = d
    <3>1. /\ Len(online') = Len(online) - 1
          /\ \A j \in 1 .. Len(online) - 1 :
                online'[j] = IF j < k THEN online[j] ELSE online[j + 1]
      BY <1>1, <2>3, UnlinkProperties
    <3>2. i # k
      BY <1>3, <1>5, <2>1, <2>3 DEF IsFirst
    <3>3. CASE i < k
      <4>1. i \in 1 .. Len(online) - 1 /\ online'[i] = online[i]
        BY <1>1, <3>1, <3>3
      <4> QED
        BY <2>1, <3>1, <4>1
    <3>4. CASE i > k
      <4>1. i - 1 \in 1 .. Len(online) - 1 /\ ~(i - 1 < k) /\ (i - 1) + 1 = i
        BY <1>1, <3>4
      <4>2. online'[i - 1] = online[i]
        BY <3>1, <4>1
      <4> QED
        BY <2>1, <3>1, <4>1, <4>2
    <3> QED
      BY <1>1, <3>2, <3>3, <3>4
  <2> QED
    BY <2>2, <2>3 DEF ReadGone
<1>6. Listed'
  <2>1. ASSUME NEW i \in 1 .. Len(events'), events'[i] # Listen PROVE events'[i] \in ended
    <3>1. i + 1 \in 1 .. Len(events) /\ events'[i] = events[i + 1]
      BY <1>1
    <3> QED
      BY <2>1, <3>1 DEF SInv, Listed
  <2> QED
    BY <1>1, <1>5, <2>1 DEF SInv, Listed
<1>7. ASSUME NEW d \in Client, serverUp', Alive(d)', Accepted(d)'
      PROVE  Whole(d)'
  <2>1. Whole(d)
    BY <1>1, <1>7 DEF SInv, InStep, Alive, Accepted
  <2> QED
    BY <1>1, <2>1 DEF Whole, Pending
<1> QED
  BY <1>2, <1>4, <1>6, <1>7, TellingAt DEF SInv, IInv, InStep, InStepAt

(* A client that changes nothing its reading depends on, seen from all.    *)
LEMMA ConnectSInv ==
    ASSUME SInv, NEW c \in Client, Connect(c)
    PROVE  SInv'
<1> USE DEF Connect, processVars
<1>1. /\ main \in [Client -> MainPc] /\ main[c] = "connect"
      /\ main'[c] \in {"own", "gone"}
      /\ \A d \in Client : d # c => main'[d] = main[d]
      /\ ready \in Seq(Client \cup {Listen})
      /\ ready' \in {ready, Wake(Listen)}
  BY DEF SInv, IInv, TypeOK
<1>2. given[c] = 0
  BY <1>1 DEF SInv, IInv, NewRight
<1>3. Listed'
  <2>1. \A i \in 1 .. Len(ready') :
           ready'[i] = Listen \/ \E j \in 1 .. Len(ready) : ready'[i] = ready[j]
    BY <1>1, WakeListed
  <2> QED
    BY <1>1, <2>1 DEF SInv, Listed
<1>4. ASSUME NEW d \in Client PROVE InStepAt(d)'
  <2>1. CASE d = c
    BY <1>2, <2>1 DEF InStepAt, Accepted
  <2>2. CASE d # c
    <3>1. InStepAt(d)
      BY AtEach DEF SInv
    <3> QED
      BY <1>1, <2>2, <3>1, KeptAt DEF Alive, Pending
  <2> QED
    BY <2>1, <2>2
<1> QED
  BY <1>3, <1>4, ConnectIInv DEF SInv, InStep, InStepAt

(* The own node was never counted among what is to be read.                *)
LEMMA ReadOwnSInv ==
    ASSUME SInv, NEW c \in Client, ReadOwn(c)
    PROVE  SInv'
<1> USE DEF ReadOwn, processVars
<1>1. /\ main \in [Client -> MainPc] /\ chan \in [Client -> Seq(Node)]
      /\ main[c] = "own" /\ main'[c] = "recv" /\ chan'[c] = Tail(chan[c])
      /\ \A d \in Client : d # c => main'[d] = main[d] /\ chan'[d] = chan[d]
  BY DEF SInv, IInv, TypeOK
<1>2. Listed'
  BY <1>1 DEF SInv, Listed
<1>3. ASSUME NEW d \in Client PROVE InStepAt(d)'
  <2>1. Pending(d)' = Pending(d) /\ (Alive(d)' => Alive(d))
    BY <1>1 DEF Pending, Alive
  <2>2. InStepAt(d)
    BY AtEach DEF SInv
  <2> QED
    BY <2>1, <2>2, KeptAt
<1> QED
  BY <1>2, <1>3, ReadOwnIInv DEF SInv, InStep, InStepAt

LEMMA HangUpSInv ==
    ASSUME SInv, NEW c \in Client, Alive(c), HangUp(c),
           UNCHANGED <<processVars, backlog, hit, udp, sends>>
    PROVE  SInv'
<1> USE DEF HangUp, processVars
<1>1. /\ main \in [Client -> MainPc] /\ chan \in [Client -> Seq(Node)]
      /\ view \in [Client -> Seq(Node)] /\ flag \in [Client -> BOOLEAN]
      /\ main'[c] = "gone" /\ ended' = ended \cup {c}
      /\ \A d \in Client : d # c => /\ main'[d] = main[d] /\ chan'[d] = chan[d]
                                    /\ view'[d] = view[d] /\ flag'[d] = flag[d]
      /\ ready \in Seq(Client \cup {Listen})
      /\ ready' \in {ready, Wake(c)}
  BY DEF SInv, IInv, TypeOK
<1>2. Listed'
  <2>1. \A i \in 1 .. Len(ready') :
           ready'[i] = c \/ \E j \in 1 .. Len(ready) : ready'[i] = ready[j]
    BY <1>1, WakeListed
  <2>2. ASSUME NEW i \in 1 .. Len(ready'), ready'[i] # Listen
        PROVE  ready'[i] \in ended'
    <3>1. CASE ready'[i] = c
      BY <1>1, <3>1
    <3>2. ASSUME NEW j \in 1 .. Len(ready), ready'[i] = ready[j]
          PROVE  ready'[i] \in ended'
      BY <1>1, <2>2, <3>2 DEF SInv, Listed
    <3> QED
      BY <2>1, <3>1, <3>2
  <2>3. \A d \in Client : main'[d] \in {"connect", "own"} => flag'[d]
    BY <1>1 DEF SInv, Listed
  <2> QED
    BY <1>1, <2>2, <2>3 DEF SInv, Listed
<1>3. ASSUME NEW d \in Client PROVE InStepAt(d)'
  <2>1. CASE d = c
    BY <1>1, <2>1 DEF InStepAt, Alive
  <2>2. CASE d # c
    <3>1. InStepAt(d)
      BY AtEach DEF SInv
    <3> QED
      BY <1>1, <2>2, <3>1, KeptAt DEF Alive, Pending
  <2> QED
    BY <2>1, <2>2
<1> QED
  BY <1>2, <1>3, HangUpIInv DEF SInv, InStep, InStepAt

(* What send_cli and recvfrom() do reads the list and changes nothing.     *)
LEMMA TalkingSInv ==
    ASSUME SInv, UNCHANGED <<serverVars, main, mycnode, view, flag>>, IInv'
    PROVE  SInv'
<1> USE DEF serverVars, processVars, kernelVars
<1>1. Listed'
  BY DEF SInv, Listed
<1>2. ASSUME NEW d \in Client PROVE InStepAt(d)'
  <2>1. InStepAt(d)
    BY AtEach DEF SInv
  <2> QED
    BY <2>1, KeptAt DEF Alive, Pending
<1> QED
  BY <1>1, <1>2 DEF SInv, InStep, InStepAt

LEMMA TailJoined ==
    ASSUME NEW s \in Seq(Node), s # << >>, NEW t \in Seq(Node)
    PROVE  Tail(s \o t) = Tail(s) \o t
<1>1. /\ Tail(s) \in Seq(Node) /\ Len(Tail(s)) = Len(s) - 1
      /\ \A i \in 1 .. Len(Tail(s)) : Tail(s)[i] = s[i + 1]
  BY HeadTailProperties
<1>2. /\ s \o t \in Seq(Node) /\ s \o t # << >>
      /\ Len(s \o t) = Len(s) + Len(t) /\ Len(s) \in Nat /\ Len(t) \in Nat
      /\ \A i \in 1 .. Len(s) + Len(t) :
            (s \o t)[i] = IF i <= Len(s) THEN s[i] ELSE t[i - Len(s)]
  BY ConcatProperties, ConcatEqualIffEmpty, LenProperties
<1>3. /\ Tail(s \o t) \in Seq(Node) /\ Len(Tail(s \o t)) = Len(s) + Len(t) - 1
      /\ \A i \in 1 .. Len(s) + Len(t) - 1 : Tail(s \o t)[i] = (s \o t)[i + 1]
  BY <1>2, HeadTailProperties
<1>4. /\ Tail(s) \o t \in Seq(Node) /\ Len(Tail(s) \o t) = Len(s) + Len(t) - 1
      /\ \A i \in 1 .. Len(s) + Len(t) - 1 :
            (Tail(s) \o t)[i] = IF i <= Len(s) - 1 THEN Tail(s)[i] ELSE t[i - (Len(s) - 1)]
  BY <1>1, <1>2, ConcatProperties
<1>5. ASSUME NEW i \in 1 .. Len(s) + Len(t) - 1
      PROVE  Tail(s \o t)[i] = (Tail(s) \o t)[i]
  <2>1. i + 1 \in 1 .. Len(s) + Len(t) /\ i + 1 - Len(s) = i - (Len(s) - 1)
    BY <1>2
  <2>2. CASE i <= Len(s) - 1
    <3>1. i + 1 <= Len(s) /\ i \in 1 .. Len(Tail(s))
      BY <1>1, <1>2, <2>2
    <3> QED
      BY <1>1, <1>2, <1>3, <1>4, <2>1, <2>2, <3>1
  <2>3. CASE ~(i <= Len(s) - 1)
    <3>1. ~(i + 1 <= Len(s))
      BY <1>2, <2>3
    <3> QED
      BY <1>2, <1>3, <1>4, <2>1, <2>3, <3>1
  <2> QED
    BY <2>2, <2>3
<1> HIDE DEF Node
<1> QED
  BY <1>2, <1>3, <1>4, <1>5, SeqEqual

(* The whole list follows whatever the client has not read, all of which   *)
(* ends where a list ends.                                                 *)
LEMMA WriteCliSInv ==
    ASSUME SInv, WriteCli, UNCHANGED clientVars
    PROVE  SInv'
<1> USE DEF clientVars
<1>1. /\ online \in Seq(Entry) /\ Len(online) \in Nat
      /\ wcli \in Seq(Client) /\ wcli # << >> /\ wcli' = Tail(wcli)
      /\ chan \in [Client -> Seq(Node)]
      /\ Write(Head(wcli), Frame(online))
      /\ UNCHANGED <<online, events, given, backlog, ready, ended>>
  BY DEF SInv, IInv, TypeOK, WriteCli
<1>2. PICK c \in Client : c = Head(wcli)
  BY <1>1
<1>3. IInv'
  BY WriteCliIInv DEF SInv
<1>4. /\ Frame(online) \in Seq(Node) /\ Len(Frame(online)) = Len(online)
      /\ \A i \in 1 .. Len(online) : Frame(online)[i].last <=> i = Len(online)
  BY <1>1, FrameProperties
<1>5. /\ \A d \in Client : d # c => chan'[d] = chan[d]
      /\ c \notin ended => chan'[c] = chan[c] \o Frame(online)
      /\ serverUp' => serverUp
  BY <1>1, <1>2, <1>4, WriteProperties DEF SInv, IInv
<1>6. Listed'
  BY <1>1 DEF SInv, Listed
<1>7. ASSUME NEW d \in Client, d # c PROVE InStepAt(d)'
  <2>1. Contains(wcli, d) => Contains(wcli', d)
    <3>1. ASSUME NEW i \in 1 .. Len(wcli), wcli[i] = d
          PROVE  i - 1 \in 1 .. Len(wcli') /\ wcli'[i - 1] = d
      BY <1>1, <1>2, <1>7, <3>1
    <3> QED
      BY <3>1 DEF Contains
  <2>2. InStepAt(d)
    BY AtEach DEF SInv
  <2> QED
    BY <1>1, <1>5, <1>7, <2>1, <2>2, KeptAt DEF Alive, Pending
<1>8. ASSUME serverUp', Alive(c)', Accepted(c)'
      PROVE  Whole(c)' /\ Current(c)'
  <2> DEFINE s == Pending(c)
             t == Frame(online)
  <2>1. serverUp /\ Alive(c) /\ Accepted(c) /\ c \notin ended
    BY <1>1, <1>5, <1>8 DEF SInv, IInv, OwnRight, Alive, Accepted
  <2>2. Whole(c)
    BY <2>1 DEF SInv, InStep
  <2>3. Len(online) >= 1
    BY <1>1, <2>1 DEF SInv, Listed, Accepted
  <2>4. s \in Seq(Node) /\ Pending(c)' = s \o t
    <3>1. CASE main[c] = "own"
      <4>1. chan[c] # << >> /\ chan[c] \in Seq(Node)
        BY <1>1, <2>1, <3>1 DEF SInv, IInv, OwnRight, Accepted
      <4>2. Tail(chan[c]) \in Seq(Node)
        BY <4>1, HeadTailProperties
      <4>3. Tail(chan[c] \o t) = Tail(chan[c]) \o t
        BY <1>4, <4>1, TailJoined
      <4> QED
        BY <1>5, <2>1, <3>1, <4>2, <4>3 DEF Pending
    <3>2. CASE main[c] # "own"
      BY <1>1, <1>5, <2>1, <3>2 DEF Pending
    <3> QED
      BY <3>1, <3>2
  <2>5. Frame(online)' = t
    BY <1>1 DEF Frame
  <2>6. (s # << >> => s[Len(s)].last) /\ (s = << >> => flag[c])
    BY <2>2 DEF Whole
  <2> HIDE DEF s, t
  <2>7. t \in Seq(Node) /\ Len(t) >= 1 /\ t[Len(t)].last
    BY <1>1, <1>4, <2>3 DEF t
  <2>8. /\ Len(s) \in Nat /\ Len(t) \in Nat /\ s \o t # << >>
        /\ Len(s \o t) = Len(s) + Len(t)
        /\ \A i \in 1 .. Len(s) : (s \o t)[i] = s[i]
        /\ \A i \in 1 .. Len(t) : (s \o t)[Len(s) + i] = t[i]
    BY <2>4, <2>7, Joined
  <2>9. Whole(c)'
    BY <2>4, <2>7, <2>8 DEF Whole
  <2>10. IF Len(s) = 0 THEN flag[c] ELSE (s \o t)[Len(s)].last
    <3>1. s = << >> <=> Len(s) = 0
      BY <2>4
    <3>2. Len(s) # 0 => Len(s) \in 1 .. Len(s)
      BY <2>8
    <3>3. CASE Len(s) = 0
      BY <2>6, <3>1, <3>3
    <3>4. CASE Len(s) # 0
      BY <2>6, <2>8, <3>1, <3>2, <3>4
    <3> QED
      BY <3>3, <3>4
  <2>11. Current(c)'
    <3>1. Len(s \o t) - Len(t) = Len(s)
      BY <2>8
    <3>2. Before(s \o t, t, Len(s), flag[c])
      BY <2>8, <2>10 DEF Before
    <3>3. flag'[c] = flag[c] /\ Len(s \o t) >= Len(t)
      BY <2>8
    <3> QED
      BY <2>4, <2>5, <3>1, <3>2, <3>3 DEF Current
  <2> QED
    BY <2>9, <2>11
<1>9. InStepAt(c)'
  BY <1>8 DEF InStepAt
<1> QED
  BY <1>3, <1>6, <1>7, <1>9 DEF SInv, InStep, InStepAt

(* A turn of receive_from_server, for the node and the list alone: before  *)
(* the server's list begins, at its first node, or behind it.              *)
LEMMA BeforeStep ==
    ASSUME NEW s \in Seq(Node), NEW list \in Seq(Node), NEW m \in Nat, m >= 1,
           NEW f, Len(s) = Len(list) + m, Before(s, list, m, f)
    PROVE  Before(Tail(s), list, m - 1, s[1].last)
<1>1. Len(list) \in Nat /\ s # << >>
  OBVIOUS
<1>2. \A i \in 1 .. Len(s) - 1 : Tail(s)[i] = s[i + 1]
  BY <1>1, HeadTailProperties
<1>3. \A k \in 1 .. Len(list) : Tail(s)[m - 1 + k] = list[k]
  <2> TAKE k \in 1 .. Len(list)
  <2>1. m - 1 + k \in 1 .. Len(s) - 1 /\ m - 1 + k + 1 = m + k
    BY <1>1
  <2>2. s[m + k] = list[k]
    BY DEF Before
  <2> QED
    BY <1>2, <2>1, <2>2
<1>4. s[m].last
  BY DEF Before
<1>5. m # 1 => Tail(s)[m - 1].last
  <2>1. m # 1 => m - 1 \in 1 .. Len(s) - 1 /\ m - 1 + 1 = m
    BY <1>1
  <2> QED
    BY <1>2, <1>4, <2>1
<1>6. m - 1 = 0 <=> m = 1
  OBVIOUS
<1>7. IF m - 1 = 0 THEN s[1].last ELSE Tail(s)[m - 1].last
  BY <1>4, <1>5, <1>6
<1> QED
  BY <1>3, <1>7 DEF Before

LEMMA ReadingStep ==
    ASSUME NEW s \in Seq(Node), s # << >>, NEW list \in Seq(Node), NEW n \in Nat,
           Len(list) = Len(s) + n,
           \A i \in 1 .. Len(list) : list[i].last <=> i = Len(list),
           \A k \in 1 .. Len(s) : s[k] = list[k + n],
           NEW v, v = [k \in 1 .. n |-> list[1 + n - k]]
    PROVE  Reading(Tail(s), list, n + 1, s[1].last, <<s[1]>> \o v)
<1>1. /\ Len(s) \in Nat \ {0} /\ 1 \in 1 .. Len(s) /\ s[1] \in Node
      /\ Tail(s) \in Seq(Node) /\ Len(Tail(s)) = Len(s) - 1
      /\ \A i \in 1 .. Len(s) - 1 : Tail(s)[i] = s[i + 1]
  BY HeadTailProperties
<1>2. \A k \in 1 .. Len(Tail(s)) : Tail(s)[k] = list[k + (n + 1)]
  <2> TAKE k \in 1 .. Len(Tail(s))
  <2>1. k + 1 \in 1 .. Len(s) /\ k + 1 + n = k + (n + 1) /\ k \in 1 .. Len(s) - 1
    BY <1>1
  <2>2. s[k + 1] = list[k + 1 + n]
    BY <2>1
  <2> QED
    BY <1>1, <2>1, <2>2
<1>3. s[1] = list[1 + n] /\ 1 + n \in 1 .. Len(list)
  BY <1>1
<1>4. s[1].last = (Tail(s) = << >>)
  <2>1. s[1].last <=> 1 + n = Len(list)
    BY <1>3
  <2>2. 1 + n = Len(list) <=> Len(Tail(s)) = 0
    <3>1. Len(Tail(s)) = Len(s) - 1 /\ Len(s) \in Nat /\ Len(list) = Len(s) + n
      BY <1>1
    <3>2. Len(s) = 1 <=> Len(Tail(s)) = 0
      BY <3>1
    <3>3. \A a, b \in Nat : b = a + n => (a = 1 <=> 1 + n = b)
      OBVIOUS
    <3>4. Len(list) \in Nat
      OBVIOUS
    <3> QED
      BY <3>1, <3>2, <3>3, <3>4
  <2>3. Tail(s) = << >> <=> Len(Tail(s)) = 0
    BY <1>1, EmptySeq
  <2>4. s[1].last \in BOOLEAN
    BY <1>1 DEF Node
  <2> QED
    BY <2>1, <2>2, <2>3, <2>4
<1>5. <<s[1]>> \o v = [k \in 1 .. n + 1 |-> list[1 + (n + 1) - k]]
  <2> DEFINE w == [k \in 1 .. n + 1 |-> list[1 + (n + 1) - k]]
  <2>1. v \in Seq(Node) /\ Len(v) = n /\ \A k \in 1 .. n : v[k] = list[1 + n - k]
    <3>1. \A k \in 1 .. n : 1 + n - k \in 1 .. Len(list)
      BY <1>1
    <3>2. v \in [1 .. n -> Node]
      BY <3>1
    <3> QED
      BY <3>2
  <2>2. w \in Seq(Node) /\ Len(w) = n + 1
    <3>1. \A k \in 1 .. n + 1 : 1 + (n + 1) - k \in 1 .. Len(list)
      BY <1>1
    <3>2. w \in [1 .. n + 1 -> Node]
      BY <3>1
    <3> QED
      BY <3>2
  <2>3. <<s[1]>> \in Seq(Node) /\ Len(<<s[1]>>) = 1 /\ <<s[1]>>[1] = s[1]
    BY <1>1
  <2>4. /\ <<s[1]>> \o v \in Seq(Node) /\ Len(<<s[1]>> \o v) = 1 + n
        /\ \A k \in 1 .. 1 + n :
              (<<s[1]>> \o v)[k] = IF k <= 1 THEN <<s[1]>>[k] ELSE v[k - 1]
    BY <2>1, <2>3, ConcatProperties
  <2>5. ASSUME NEW k \in 1 .. n + 1 PROVE (<<s[1]>> \o v)[k] = w[k]
    <3>1. CASE k = 1
      BY <1>3, <2>3, <2>4, <3>1
    <3>2. CASE k # 1
      <4>1. k - 1 \in 1 .. n /\ 1 + n - (k - 1) = 1 + (n + 1) - k
        BY <3>2
      <4> QED
        BY <2>1, <2>4, <3>2, <4>1
    <3> QED
      BY <3>1, <3>2
  <2> HIDE DEF w
  <2>6. <<s[1]>> \o v = w
    BY <2>2, <2>4, <2>5, SeqEqual
  <2> QED
    BY <2>6 DEF w
<1> QED
  BY <1>2, <1>4, <1>5 DEF Reading

(* A node that is read leaves what is under way and joins what is held.    *)
LEMMA ReadNodeSInv ==
    ASSUME SInv, NEW c \in Client, ReadNode(c)
    PROVE  SInv'
<1> DEFINE s == chan[c]
           list == Frame(online)
           kept == IF flag[c] THEN << >> ELSE view[c]
<1> USE DEF processVars
<1>1. /\ main[c] = "recv" /\ s \in Seq(Node) /\ s # << >>
      /\ chan \in [Client -> Seq(Node)]
      /\ view \in [Client -> Seq(Node)] /\ flag \in [Client -> BOOLEAN]
      /\ online \in Seq(Entry)
      /\ chan' = [chan EXCEPT ![c] = Tail(s)]
      /\ view' = [view EXCEPT ![c] = <<s[1]>> \o kept]
      /\ flag' = [flag EXCEPT ![c] = s[1].last]
      /\ UNCHANGED <<processVars, backlog, ready, ended, hit, main, mycnode, udp, sends>>
  <2>1. /\ main[c] = "recv" /\ s \in Seq(Node) /\ s # << >>
        /\ chan \in [Client -> Seq(Node)]
        /\ view \in [Client -> Seq(Node)] /\ flag \in [Client -> BOOLEAN]
        /\ online \in Seq(Entry)
    BY DEF SInv, IInv, TypeOK, ReadNode
  <2>2. Head(s) = s[1]
    BY <2>1
  <2> QED
    BY <2>1, <2>2 DEF ReadNode
<1>2. /\ Len(s) \in Nat \ {0} /\ 1 \in 1 .. Len(s) /\ s[1] \in Node
      /\ Tail(s) \in Seq(Node) /\ Len(Tail(s)) = Len(s) - 1
      /\ \A i \in 1 .. Len(s) - 1 : Tail(s)[i] = s[i + 1]
  BY <1>1, HeadTailProperties
<1>3. /\ list \in Seq(Node) /\ Len(list) \in Nat /\ Len(list) = Len(online)
      /\ \A i \in 1 .. Len(list) : list[i].last <=> i = Len(list)
  <2>1. Len(online) \in Nat
    BY <1>1
  <2> QED
    BY <1>1, <2>1, FrameProperties
<1>4. Pending(c) = s /\ Frame(online)' = list
  BY <1>1 DEF Pending, Frame
<1>5. Pending(c)' = Tail(s) /\ flag'[c] = s[1].last /\ view'[c] = <<s[1]>> \o kept
  BY <1>1 DEF Pending
<1>6. Listed'
  BY <1>1 DEF SInv, Listed
<1>7. ASSUME NEW d \in Client, d # c PROVE InStepAt(d)'
  <2>1. InStepAt(d)
    BY AtEach DEF SInv
  <2> QED
    BY <1>1, <1>7, <2>1, KeptAt DEF Alive, Pending
<1> HIDE DEF s, list, kept
<1>8. ASSUME serverUp', Alive(c)', Accepted(c)'
      PROVE  Whole(c)' /\ (~Contains(wcli', c) => Current(c)')
  <2>1. Whole(c) /\ (~Contains(wcli, c) => Current(c))
    BY <1>1, <1>8 DEF SInv, InStep, Alive, Accepted
  <2>2. s[Len(s)].last
    BY <1>1, <1>4, <2>1 DEF Whole
  <2>3. Whole(c)'
    <3>1. CASE Len(s) = 1
      <4>1. Tail(s) = << >>
        <5>1. Len(Tail(s)) = 0 /\ Tail(s) \in Seq(Node)
          BY <1>2, <3>1
        <5> QED
          BY <5>1, EmptySeq
      <4> QED
        BY <1>5, <2>2, <3>1, <4>1 DEF Whole
    <3>2. CASE Len(s) # 1
      <4>1. Len(s) - 1 \in 1 .. Len(s) - 1 /\ (Len(s) - 1) + 1 = Len(s)
        BY <1>2, <3>2
      <4>2. Tail(s)[Len(Tail(s))] = s[Len(s)]
        BY <1>2, <4>1
      <4>3. Tail(s) # << >>
        <5>1. Len(Tail(s)) # 0
          BY <1>2, <3>2
        <5>2. Len(<< >>) = 0
          OBVIOUS
        <5> QED
          BY <5>1, <5>2
      <4> QED
        BY <1>5, <2>2, <4>2, <4>3 DEF Whole
    <3> QED
      BY <3>1, <3>2
  <2>4. ASSUME ~Contains(wcli', c) PROVE Current(c)'
    <3>1. IF Len(s) >= Len(list)
          THEN Before(s, list, Len(s) - Len(list), flag[c])
          ELSE Reading(s, list, Len(list) - Len(s), flag[c], view[c])
      <4>1. Current(c)
        BY <1>1, <2>1, <2>4
      <4> QED
        BY <1>4, <4>1 DEF Current, list
    <3>2. Current(c)' <=>
            IF Len(Tail(s)) >= Len(list)
            THEN Before(Tail(s), list, Len(Tail(s)) - Len(list), s[1].last)
            ELSE Reading(Tail(s), list, Len(list) - Len(Tail(s)), s[1].last, <<s[1]>> \o kept)
      BY <1>4, <1>5 DEF Current
    <3>3. CASE Len(s) > Len(list)
      <4> DEFINE m == Len(s) - Len(list)
      <4>1. /\ m \in Nat /\ m >= 1 /\ Len(s) = Len(list) + m /\ Len(s) >= Len(list)
            /\ Len(Tail(s)) >= Len(list) /\ Len(Tail(s)) - Len(list) = m - 1
        BY <1>2, <1>3, <3>3
      <4>2. Before(s, list, m, flag[c])
        BY <3>1, <4>1
      <4> HIDE DEF m
      <4>3. Before(Tail(s), list, m - 1, s[1].last)
        BY <1>1, <1>3, <4>1, <4>2, BeforeStep
      <4> QED
        BY <3>2, <4>1, <4>3
    <3>4. CASE Len(s) <= Len(list)
      <4> DEFINE n == Len(list) - Len(s)
      <4>1. /\ n \in Nat /\ Len(list) = Len(s) + n
            /\ ~(Len(Tail(s)) >= Len(list)) /\ Len(list) - Len(Tail(s)) = n + 1
        BY <1>2, <1>3, <3>4
      <4>2. /\ \A k \in 1 .. Len(s) : s[k] = list[k + n]
            /\ kept = [k \in 1 .. n |-> list[1 + n - k]]
        <5>1. CASE Len(s) = Len(list)
          <6>1. Len(s) - Len(list) = 0 /\ n = 0 /\ Len(s) >= Len(list)
            BY <1>2, <1>3, <5>1
          <6>2. flag[c] /\ \A k \in 1 .. Len(list) : s[0 + k] = list[k]
            BY <3>1, <6>1 DEF Before
          <6>3. \A k \in 1 .. Len(s) : s[k] = list[k + 0]
            BY <1>2, <5>1, <6>2
          <6>4. kept = << >>
            BY <6>2 DEF kept
          <6> HIDE DEF n
          <6> QED
            BY <6>1, <6>3, <6>4
        <5>2. CASE Len(s) # Len(list)
          <6>1. ~(Len(s) >= Len(list))
            BY <1>2, <1>3, <3>4, <5>2
          <6>2. Reading(s, list, n, flag[c], view[c])
            BY <3>1, <6>1
          <6> HIDE DEF n
          <6>3. ~flag[c]
            BY <1>1, <6>2 DEF Reading
          <6> QED
            BY <6>2, <6>3 DEF Reading, kept
        <5> QED
          BY <5>1, <5>2
      <4> HIDE DEF n
      <4>3. Reading(Tail(s), list, n + 1, s[1].last, <<s[1]>> \o kept)
        BY <1>1, <1>3, <4>1, <4>2, ReadingStep
      <4> QED
        BY <3>2, <4>1, <4>3
    <3> QED
      BY <1>2, <1>3, <3>3, <3>4
  <2> QED
    BY <2>3, <2>4
<1>9. InStepAt(c)'
  BY <1>8 DEF InStepAt
<1> QED
  BY <1>6, <1>7, <1>9, ReadNodeIInv DEF SInv, InStep, InStepAt
----------------------------------------------------------------------------
LEMMA NextSInv == SInv /\ [Next]_vars => SInv'
<1> SUFFICES ASSUME SInv, [Next]_vars PROVE SInv'
  OBVIOUS
<1> USE DEF serverVars
<1>1. CASE ServerNext /\ UNCHANGED clientVars
  BY <1>1, EpollWaitSInv, AcceptSInv, ReadGoneSInv, WriteCliSInv DEF ServerNext
<1>2. ASSUME NEW c \in Client,
             Connect(c) \/ ReadOwn(c) \/ ReadOwnFails(c) \/ ReadNode(c) \/ Leave(c)
      PROVE  SInv'
  BY <1>2, ConnectSInv, ReadOwnSInv, ReadNodeSInv, HangUpSInv DEF ReadOwnFails, Leave, Alive
<1>3. IInv'
  BY NextIInv DEF SInv
<1>4. ASSUME NEW c \in Client,
             \/ \E i \in Typed : TypeId(c, i)
             \/ Found(c) \/ NotOnline(c) \/ FoundFreed(c) \/ SendTo(c) \/ RecvFrom(c)
      PROVE  SInv'
  BY <1>3, <1>4, TalkingSInv DEF TypeId, Found, NotOnline, FoundFreed, SendTo, RecvFrom
<1>5. ASSUME NEW m \in udp, LoseMessage(m)
      PROVE  SInv'
  BY <1>3, <1>5, TalkingSInv DEF LoseMessage
<1>6. CASE UNCHANGED vars
  BY <1>3, <1>6, TalkingSInv DEF vars, clientVars
<1> QED
  BY <1>1, <1>2, <1>4, <1>5, <1>6 DEF Next, ClientNext

(* The lists share one stream, and no client ever takes the end of one for *)
(* the beginning of the next; when write_cli is through with a client, what *)
(* it holds and what is under way to it are the server's list              *)
(* (server.c:109, client.c:213).                                           *)
THEOREM ListsInStep == Spec => []InStep
<1>1. SInv => InStep
  BY DEF SInv
<1> QED
  BY <1>1, InitSInv, NextSInv, PTL DEF Spec
============================================================================
