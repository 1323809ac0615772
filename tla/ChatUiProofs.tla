---------------------------- MODULE ChatUiProofs ----------------------------
(***************************************************************************)
(* Proofs about ChatUi for any friends, any number of rows and whatever is *)
(* typed and sent: its types, the loop over all friends, the flag iniface, *)
(* the rows of the chat screen, and the answers that come from the helper. *)
(***************************************************************************)
EXTENDS ChatUi, SequenceTheorems, TLAPS

USE NoneAssumption, RowsAssumption, BoundAssumption
----------------------------------------------------------------------------
(* The inductive invariant.                                                *)

(* What a thread has in hand, and how long the list can be.                *)
HandsRight ==
    /\ tcp.at # "read" => tcp.id \in Friend
    /\ helper.at = "ask" => helper.id \in Friend
    /\ Len(plist) + (IF tcp.at = "online" THEN 1 ELSE 0) <= packets
    /\ Len(ui.ids) <= 2
    /\ ui.at = "lock" => ui.i = 1

(* After the user's Enter the cursor is one row further down.              *)
Entered == ui.at \in {"send", "lock", "send_all", "show"}

(* The cursor is below the line, or (d = 1) one row above that, if a fresh *)
(* screen has come between the user's Enter and the user's own message.    *)
(* The rows used so far are above the next one - or include it, if such a  *)
(* message has taken it.                                                   *)
ScreenAt(d) ==
    IF Entered
    THEN /\ cursor = Rows + 2 - d
         /\ \A r \in lines : r + d + row_count <= Rows - (IF slip THEN 0 ELSE 1)
         /\ d = 1 => row_count <= Rows - (IF slip THEN 1 ELSE 2)
    ELSE /\ cursor = Rows + 1 - d
         /\ \A r \in lines : r + d + row_count <= Rows - 1
         /\ d = 1 => row_count <= Rows - 2

ScreenRight == InChat => ScreenAt(0) \/ ScreenAt(1)

(* Where a request and its answer are, as long as every helper has         *)
(* answered.                                                               *)
Asking == helper.at \in {"open_id", "open_result", "read"}

Idle == helper.at = "none" /\ fifoId = << >> /\ fifoResult = << >>

Answering ==
    \/ Asking /\ fifoId = <<tcp.id>> /\ fifoResult = << >>
    \/ helper.at = "ask" /\ helper.id = tcp.id /\ fifoId = << >> /\ fifoResult = << >>
    \/ /\ helper.at = "none" /\ fifoId = << >>
       /\ Len(fifoResult) = 1 /\ fifoResult[1].id = tcp.id

AnswerRight ==
    ~broken =>
        /\ tcp.at \in {"read", "online", "offline"} => Idle
        /\ tcp.at \in {"open_id", "open_result", "write"} =>
               Asking /\ fifoId = << >> /\ fifoResult = << >>
        /\ tcp.at = "answer" => Answering

IInv == TypeOK /\ HandsRight /\ BroadcastWalk /\ InFaceRight /\ ScreenRight /\ AnswerRight
----------------------------------------------------------------------------
(* The threads.                                                            *)

MainStep == Choose \/ NoFriend \/ Escape \/ Enter \/ UiRuns
UdpStep == Receive \/ UdpRuns
TcpStep == Packet \/ TcpRuns \/ Helper \/ HelperGone

LEMMA Bounds == MaxPackets \in Nat /\ MaxMsgs \in Nat /\ MaxLines \in Nat
  OBVIOUS

(* What each leaves alone.                                                 *)
LEMMA MainKeeps ==
    ASSUME MainStep
    PROVE  UNCHANGED <<addfVars, plist, udp, packets, msgs>>
  BY DEF MainStep, Choose, NoFriend, Escape, Enter, UiRuns, Search, Face, SendOne,
         SendSeveral, LockAll, SendNext, UnlockAll, ShowMine, listVars, countVars

LEMMA UdpKeeps ==
    ASSUME UdpStep
    PROVE  UNCHANGED <<addfVars, listVars, packets, typed, uiVars>>
  BY DEF UdpStep, Receive, UdpRuns, SearchSource, ReadFlag, ShowTheirs, countVars

LEMMA TcpKeeps ==
    ASSUME TcpStep
    PROVE  UNCHANGED <<held, screenVars, msgs, typed, uiVars, udp>>
  BY DEF TcpStep, Packet, TcpRuns, UpdateList, AskFriend, Helper, HelperGone,
         listVars, countVars

LEMMA InitIInv == Init => IInv
<1> SUFFICES ASSUME Init PROVE IInv
  OBVIOUS
<1> USE DEF Init, AddfInit, Menu, UdpIdle, TcpIdle, NoHelper
<1>1. TypeOK
  <2>1. AddfTypeOK
    <3>1. alive \in BOOLEAN /\ broken \in BOOLEAN
      OBVIOUS
    <3>2. /\ tcp \in [at : {"read", "online", "offline", "open_id", "open_result", "write",
                           "answer"},
                     id : Friend \cup {None}]
          /\ helper \in [at : {"none", "open_id", "open_result", "read", "ask"},
                        id : Friend \cup {None}]
      OBVIOUS
    <3>3. fifoId \in Seq(Friend) /\ fds \subseteq {"id", "result"}
      OBVIOUS
    <3>4. fifoResult \in Seq([id : Friend, yes : BOOLEAN])
      OBVIOUS
    <3> QED
      BY <3>1, <3>2, <3>3, <3>4 DEF AddfTypeOK
  <2>2. plist \in Seq(Friend) /\ Len(plist) <= MaxPackets
    BY Bounds
  <2>3. /\ Menu \in [at : {"menu", "search", "no_friend", "face", "type", "send", "lock",
                          "send_all", "show"},
                    mode : {"S", "M", "A"}, ids : Seq(Friend), i : 0 .. MaxPackets + 2]
        /\ udp \in [at : {"recv", "search", "flag", "show"}, id : Friend \cup {None}]
    BY Bounds
  <2>4. /\ row_count \in 0 .. Rows /\ cursor \in 0 .. Rows + 2 /\ lines \subseteq 0 .. Rows
        /\ packets \in 0 .. MaxPackets /\ msgs \in 0 .. MaxMsgs /\ typed \in 0 .. MaxLines
    BY Bounds
  <2> QED
    BY <2>1, <2>2, <2>3, <2>4 DEF TypeOK
<1>2. HandsRight /\ BroadcastWalk /\ InFaceRight
  BY DEF HandsRight, BroadcastWalk, InFaceRight
<1>3. ScreenRight /\ AnswerRight
  BY DEF ScreenRight, AnswerRight, InChat, Idle
<1> QED
  BY <1>1, <1>2, <1>3 DEF IInv
----------------------------------------------------------------------------
(* The broadcast and the flag.                                             *)

(* UnlockAll and the two returns apart, whoever sends to all holds mutex,  *)
(* and only who does not find it held changes the list.                    *)
LEMMA WalkStep ==
    ASSUME IInv, [Next]_vars
    PROVE  BroadcastWalk'
<1>1. ui \in [at : {"menu", "search", "no_friend", "face", "type", "send", "lock",
                    "send_all", "show"},
              mode : {"S", "M", "A"}, ids : Seq(Friend), i : 0 .. MaxPackets + 2]
      /\ plist \in Seq(Friend) /\ Len(plist) \in Nat
  BY DEF IInv, TypeOK
<1>2. CASE MainStep
  <2> USE DEF IInv, BroadcastWalk
  <2>1. plist' = plist
    BY <1>2, MainKeeps
  <2>2. CASE Choose \/ NoFriend \/ Escape \/ Search \/ Face
    BY <1>1, <2>2 DEF Choose, NoFriend, Escape, Search, Face, Menu
  <2>3. CASE Enter
    BY <1>1, <2>3 DEF Enter
  <2>8. CASE SendOne
    BY <1>1, <2>8 DEF SendOne, Menu
  <2>9. CASE ShowMine
    BY <1>1, <2>9 DEF ShowMine
  <2>7. CASE SendSeveral
    BY <1>1, <2>7 DEF SendSeveral
  <2>4. CASE LockAll
    BY <1>1, <2>1, <2>4 DEF LockAll, HandsRight
  <2>5. CASE SendNext
    <3>1. CASE ui' = [ui EXCEPT !.i = @ + 1]
      BY <1>1, <2>1, <2>5, <3>1 DEF SendNext, listVars
    <3>2. CASE ui' = Menu
      BY <3>2 DEF Menu
    <3> QED
      BY <2>5, <3>1, <3>2 DEF SendNext
  <2>6. CASE UnlockAll
    BY <1>1, <2>6 DEF UnlockAll
  <2> QED
    BY <1>2, <2>2, <2>3, <2>4, <2>5, <2>6, <2>7, <2>8, <2>9 DEF MainStep, UiRuns
<1>3. CASE UdpStep
  BY <1>3, UdpKeeps DEF IInv, BroadcastWalk, listVars, uiVars
<1>4. CASE TcpStep
  <2>1. UNCHANGED <<held, ui>>
    BY <1>4, TcpKeeps DEF uiVars
  <2>2. UNCHANGED plist \/ ~held
    BY <1>4 DEF TcpStep, Packet, TcpRuns, UpdateList, AskFriend, Helper, HelperGone, listVars
  <2> QED
    BY <2>1, <2>2 DEF IInv, BroadcastWalk
<1>5. CASE UNCHANGED vars
  BY <1>5 DEF vars, listVars, uiVars, IInv, BroadcastWalk
<1> QED
  BY <1>2, <1>3, <1>4, <1>5 DEF Next, MainStep, UdpStep, TcpStep

LEMMA FaceStep ==
    ASSUME IInv, [Next]_vars
    PROVE  InFaceRight'
<1>1. ui \in [at : {"menu", "search", "no_friend", "face", "type", "send", "lock",
                    "send_all", "show"},
              mode : {"S", "M", "A"}, ids : Seq(Friend), i : 0 .. MaxPackets + 2]
  BY DEF IInv, TypeOK
<1>2. CASE MainStep
  <2> USE DEF IInv, InFaceRight
  <2>1. CASE Choose \/ Search \/ Face
    BY <1>1, <2>1 DEF Choose, Search, Face
  <2>2. CASE NoFriend \/ Escape
    BY <1>1, <2>2 DEF NoFriend, Escape, Menu
  <2>3. CASE Enter \/ SendSeveral \/ LockAll \/ UnlockAll \/ ShowMine
    BY <1>1, <2>3 DEF Enter, SendSeveral, LockAll, UnlockAll, ShowMine
  <2>4. CASE SendOne \/ SendNext
    BY <1>1, <2>4 DEF SendOne, SendNext, Menu
  <2> QED
    BY <1>2, <2>1, <2>2, <2>3, <2>4 DEF MainStep, UiRuns
<1>3. CASE UdpStep \/ TcpStep \/ UNCHANGED vars
  <2>1. UNCHANGED uiVars
    BY <1>3, UdpKeeps, TcpKeeps DEF vars
  <2> QED
    BY <2>1 DEF uiVars, IInv, InFaceRight
<1> QED
  BY <1>2, <1>3 DEF Next, MainStep, UdpStep, TcpStep
----------------------------------------------------------------------------
(* The list, and what the threads have in hand.                            *)

LEMMA DelListProperties ==
    ASSUME plist \in Seq(Friend), NEW f, DelList(f)
    PROVE  plist' \in Seq(Friend) /\ Len(plist') \in Nat /\ Len(plist') <= Len(plist)
<1>1. Len(plist) \in Nat
  OBVIOUS
<1>2. ASSUME NEW i \in 1 .. Len(plist),
             plist' = SubSeq(plist, 1, i - 1) \o SubSeq(plist, i + 1, Len(plist))
      PROVE  plist' \in Seq(Friend) /\ Len(plist') = Len(plist) - 1
  <2> DEFINE a == SubSeq(plist, 1, i - 1)
             b == SubSeq(plist, i + 1, Len(plist))
  <2>1. /\ 1 \in Int /\ i - 1 \in Int /\ i + 1 \in Int /\ Len(plist) \in Int
        /\ \A j \in 1 .. i - 1 : plist[j] \in Friend
        /\ \A j \in i + 1 .. Len(plist) : plist[j] \in Friend
    BY <1>1
  <2>2. a \in Seq(Friend) /\ Len(a) = IF 1 <= i - 1 THEN i - 1 - 1 + 1 ELSE 0
    BY <2>1, SubSeqProperties
  <2>3. /\ b \in Seq(Friend)
        /\ Len(b) = IF i + 1 <= Len(plist) THEN Len(plist) - (i + 1) + 1 ELSE 0
    BY <2>1, SubSeqProperties
  <2>4. Len(a) = i - 1 /\ Len(b) = Len(plist) - i
    BY <1>1, <2>2, <2>3
  <2> HIDE DEF a, b
  <2>5. a \o b \in Seq(Friend) /\ Len(a \o b) = Len(a) + Len(b)
    BY <2>2, <2>3, ConcatProperties
  <2>6. plist' = a \o b
    BY <1>2 DEF a, b
  <2>7. i \in Nat /\ 1 <= i /\ i <= Len(plist)
    BY <1>1
  <2>8. Len(a \o b) = Len(plist) - 1
    BY <1>1, <2>4, <2>5, <2>7
  <2> QED
    BY <2>5, <2>6, <2>8
<1>3. CASE plist' = plist
  BY <1>1, <1>3
<1>4. CASE plist' # plist
  <2>1. PICK i \in 1 .. Len(plist) :
                plist' = SubSeq(plist, 1, i - 1) \o SubSeq(plist, i + 1, Len(plist))
    BY <1>4 DEF DelList
  <2>2. plist' \in Seq(Friend) /\ Len(plist') = Len(plist) - 1
    BY <1>2, <2>1
  <2>3. Len(plist) >= 1
    BY <1>1
  <2> QED
    BY <1>1, <2>2, <2>3
<1> QED
  BY <1>3, <1>4

(* An entry is added or taken out.                                         *)
LEMMA UpdateListProperties ==
    ASSUME IInv, UpdateList
    PROVE  /\ plist' \in Seq(Friend) /\ Len(plist') \in Nat
           /\ Len(plist') <= Len(plist) + (IF tcp.at = "online" THEN 1 ELSE 0)
           /\ tcp' = TcpIdle
<1>1. plist \in Seq(Friend) /\ Len(plist) \in Nat
  BY DEF IInv, TypeOK
<1>2. CASE tcp.at = "online" /\ plist' = <<tcp.id>> \o plist
  <2>1. tcp.id \in Friend
    BY <1>2 DEF IInv, HandsRight
  <2>2. <<tcp.id>> \in Seq(Friend) /\ Len(<<tcp.id>>) = 1
    BY <2>1
  <2>3. plist' \in Seq(Friend) /\ Len(plist') = 1 + Len(plist)
    BY <1>1, <1>2, <2>2, ConcatProperties
  <2> QED
    BY <1>1, <1>2, <2>3 DEF UpdateList
<1>3. CASE tcp.at = "offline" /\ DelList(tcp.id)
  BY <1>1, <1>3, DelListProperties DEF UpdateList
<1> QED
  BY <1>2, <1>3 DEF UpdateList

LEMMA HandsStep ==
    ASSUME IInv, [Next]_vars
    PROVE  HandsRight'
<1>1. /\ ui \in [at : {"menu", "search", "no_friend", "face", "type", "send", "lock",
                       "send_all", "show"},
                 mode : {"S", "M", "A"}, ids : Seq(Friend), i : 0 .. MaxPackets + 2]
      /\ tcp \in [at : {"read", "online", "offline", "open_id", "open_result", "write",
                        "answer"},
                  id : Friend \cup {None}]
      /\ plist \in Seq(Friend) /\ Len(plist) \in Nat /\ packets \in Nat
  BY Bounds DEF IInv, TypeOK, AddfTypeOK
<1> USE DEF IInv, HandsRight
<1>2. CASE MainStep
  <2>1. UNCHANGED <<tcp, helper, plist, packets>>
    BY <1>2, MainKeeps DEF addfVars
  <2>2. CASE Choose
    <3>1. \/ \E f \in Friend : ui'.ids = <<f>> /\ ui'.at = "search"
          \/ \E f, g \in Friend : ui'.ids = <<f, g>> /\ ui'.at = "face"
          \/ ui'.ids = << >> /\ ui'.at = "face"
      BY <2>2 DEF Choose
    <3>2. Len(ui'.ids) <= 2
      <4>1. CASE \E f \in Friend : ui'.ids = <<f>>
        <5>1. PICK f \in Friend : ui'.ids = <<f>>
          BY <4>1
        <5>2. Len(<<f>>) <= 2
          OBVIOUS
        <5> QED
          BY ONLY <5>1, <5>2
      <4>2. CASE \E f, g \in Friend : ui'.ids = <<f, g>>
        <5>1. PICK f \in Friend, g \in Friend : ui'.ids = <<f, g>>
          BY <4>2
        <5>2. Len(<<f, g>>) <= 2
          OBVIOUS
        <5> QED
          BY ONLY <5>1, <5>2
      <4>3. CASE ui'.ids = << >>
        BY ONLY <4>3
      <4> QED
        BY <3>1, <4>1, <4>2, <4>3
    <3>3. ui'.at # "lock"
      BY <3>1
    <3> QED
      BY <2>1, <3>2, <3>3
  <2>3. CASE Search \/ Face \/ NoFriend \/ Escape
    BY <1>1, <2>1, <2>3 DEF Search, Face, NoFriend, Escape, Menu
  <2>4. CASE Enter
    BY <1>1, <2>1, <2>4 DEF Enter
  <2>5. CASE SendOne \/ SendNext
    BY <1>1, <2>1, <2>5, SMTT(60) DEF SendOne, SendNext, Menu
  <2>6. CASE SendSeveral
    BY <1>1, <2>1, <2>6 DEF SendSeveral
  <2>7. CASE LockAll \/ UnlockAll \/ ShowMine
    BY <1>1, <2>1, <2>7 DEF LockAll, UnlockAll, ShowMine
  <2> QED
    BY <1>2, <2>2, <2>3, <2>4, <2>5, <2>6, <2>7 DEF MainStep, UiRuns
<1>3. CASE UdpStep \/ UNCHANGED vars
  <2>1. UNCHANGED <<tcp, helper, plist, packets, ui>>
    BY <1>3, UdpKeeps DEF vars, addfVars, listVars, uiVars, countVars
  <2> QED
    BY <2>1
<1>4. CASE TcpStep
  <2>1. ui' = ui
    BY <1>4, TcpKeeps DEF uiVars
  <2>2. CASE Packet
    <3>1. plist' = plist /\ packets' = packets + 1 /\ tcp.at = "read"
      BY <2>2 DEF Packet, listVars
    <3>2. \/ \E f \in Friend, at \in {"online", "offline"} : tcp' = [at |-> at, id |-> f]
          \/ \E f \in Friend : tcp' = [at |-> "open_id", id |-> f]
          \/ tcp' = tcp
      BY <2>2 DEF Packet, AddFriendAction
    <3>3. (tcp'.at # "read" => tcp'.id \in Friend) \/ tcp' = tcp
      BY <3>2
    <3>4. helper'.at # "ask" \/ helper' = helper
      <4>1. \/ \E f \in Friend : helper' = [at |-> "open_id", id |-> None]
            \/ helper' = helper
        BY <2>2 DEF Packet, AddFriendAction
      <4> QED
        BY <4>1
    <3> QED
      BY <1>1, <2>1, <3>1, <3>3, <3>4
  <2>3. CASE UpdateList
    <3>1. packets' = packets /\ helper' = helper
      BY <2>3 DEF UpdateList, countVars
    <3> QED
      BY <1>1, <2>1, <2>3, <3>1, UpdateListProperties DEF TcpIdle
  <2>4. CASE AskFriend
    <3>1. UNCHANGED <<plist, packets, helper>>
      BY <2>4 DEF AskFriend, AddfClient, OpenId, OpenResult, WriteId, ReadAnswer, listVars,
                  countVars
    <3>2. /\ tcp.at # "online" /\ tcp'.at # "online"
          /\ tcp'.at # "read" => tcp.at # "read" /\ tcp'.id = tcp.id
      BY <1>1, <2>4 DEF AskFriend, AddfClient, OpenId, OpenResult, WriteId, ReadAnswer, TcpIdle
    <3> QED
      BY <2>1, <3>1, <3>2
  <2>5. CASE Helper \/ HelperGone
    <3>1. UNCHANGED <<plist, packets, tcp>>
      BY <2>5 DEF Helper, HelperGone, HelperRuns, HelperOpenId, HelperOpenResult, HelperRead,
                  HelperAnswers, HelperEnds, listVars, countVars
    <3>2. helper'.at = "ask" => helper'.id \in Friend
      <4>1. CASE HelperRead
        <5>1. Head(fifoId) \in Friend
          BY <4>1, HeadTailProperties DEF TypeOK, AddfTypeOK, HelperRead
        <5> QED
          BY <4>1, <5>1 DEF HelperRead
      <4>2. CASE HelperOpenId \/ HelperOpenResult
        BY <4>2 DEF HelperOpenId, HelperOpenResult, TypeOK, AddfTypeOK
      <4>3. CASE HelperAnswers \/ HelperEnds
        BY <4>3 DEF HelperAnswers, HelperEnds, NoHelper
      <4> QED
        BY <2>5, <4>1, <4>2, <4>3 DEF Helper, HelperGone, HelperRuns
    <3> QED
      BY <2>1, <3>1, <3>2
  <2> QED
    BY <1>4, <2>2, <2>3, <2>4, <2>5 DEF TcpStep, TcpRuns
<1> QED
  BY <1>2, <1>3, <1>4 DEF Next, MainStep, UdpStep, TcpStep
----------------------------------------------------------------------------
(* The rows of the chat screen.                                            *)

(* A message takes the row that is row_count + above over the cursor.      *)
LEMMA DisplayOpen ==
    ASSUME row_count \in 1 .. Rows, InChat,
           NEW above \in {1, 2}, NEW row \in 0 .. Rows,
           cursor = row + row_count + above, Display(above)
    PROVE  /\ row_count' = row_count - 1
           /\ lines' = lines \cup {row}
           /\ cursor' = row + 1 + row_count
  BY DEF Display

(* On a fresh screen that is the first row, above the input row or not.    *)
LEMMA DisplayFull ==
    ASSUME row_count = 0, InChat, NEW above \in {1, 2}, Display(above)
    PROVE  row_count' = Rows - 1 /\ lines' = {0} /\ cursor' = Rows + 1
  BY DEF Display

LEMMA ScreenTypes ==
    ASSUME IInv
    PROVE  /\ row_count \in 0 .. Rows /\ cursor \in Int /\ lines \subseteq Int
           /\ slip \in BOOLEAN /\ Rows \in Nat
           /\ ui \in [at : {"menu", "search", "no_friend", "face", "type", "send", "lock",
                            "send_all", "show"},
                      mode : {"S", "M", "A"}, ids : Seq(Friend), i : 0 .. MaxPackets + 2]
  BY DEF IInv, TypeOK

(* The user's own message: the cursor is where the Enter has put it, and   *)
(* the row is a fresh one unless a friend's message has taken it.          *)
LEMMA ShowMineScreen ==
    ASSUME IInv, ShowMine
    PROVE  /\ ~Entered'
           /\ ScreenAt(0)' \/ ScreenAt(1)'
           /\ row_count > 0 => lines' # lines \/ slip'
<1>1. /\ Entered /\ ~Entered' /\ InChat
      /\ slip' = slip /\ Display(2)
  BY ScreenTypes DEF ShowMine, InChat, Entered
<1>2. CASE row_count = 0
  <2>1. row_count' = Rows - 1 /\ lines' = {0} /\ cursor' = Rows + 1
    BY <1>1, <1>2, DisplayFull
  <2>2. ScreenAt(0)'
    BY <1>1, <2>1 DEF ScreenAt
  <2> QED
    BY <1>1, <1>2, <2>2
<1>3. ASSUME row_count > 0, NEW d \in {0, 1}, ScreenAt(d)
      PROVE  ScreenAt(d)' /\ (lines' # lines \/ slip')
  <2> DEFINE row == Rows - d - row_count
  <2>1. /\ cursor = Rows + 2 - d
        /\ \A r \in lines : r + d + row_count <= Rows - (IF slip THEN 0 ELSE 1)
        /\ d = 1 => row_count <= Rows - (IF slip THEN 1 ELSE 2)
    BY <1>1, <1>3 DEF ScreenAt
  <2>2. row \in 0 .. Rows /\ cursor = row + row_count + 2 /\ row_count \in 1 .. Rows
    BY <1>3, <2>1, ScreenTypes, SMTT(60)
  <2>3. /\ row_count' = row_count - 1 /\ lines' = lines \cup {row}
        /\ cursor' = Rows + 1 - d
    <3> HIDE DEF row
    <3>1. /\ row_count' = row_count - 1 /\ lines' = lines \cup {row}
          /\ cursor' = row + 1 + row_count
      BY <1>1, <2>2, DisplayOpen
    <3> QED
      BY <3>1, ScreenTypes, <1>3, SMTT(60) DEF row
  <2>4. row + d + row_count = Rows
    BY <1>3, ScreenTypes
  <2> HIDE DEF row
  <2>5. \A r \in lines' : r + d + row_count' <= Rows - 1
    <3> SUFFICES ASSUME NEW r \in lines' PROVE r + d + row_count' <= Rows - 1
      OBVIOUS
    <3>1. CASE r \in lines
      BY <1>3, <2>1, <2>3, <3>1, ScreenTypes, SMTT(60)
    <3>2. CASE r = row
      BY <1>3, <2>2, <2>3, <2>4, <3>2, ScreenTypes
    <3> QED
      BY <2>3, <3>1, <3>2
  <2>6. ScreenAt(d)'
    BY <1>1, <1>3, <2>1, <2>3, <2>5, ScreenTypes DEF ScreenAt
  <2>7. slip \/ row \notin lines
    BY <1>3, <2>1, <2>4, ScreenTypes
  <2> QED
    BY <1>1, <2>3, <2>6, <2>7
<1>4. ScreenAt(0) \/ ScreenAt(1)
  BY <1>1 DEF IInv, ScreenRight
<1>5. CASE row_count > 0
  BY <1>1, <1>3, <1>4, <1>5
<1> QED
  BY <1>1, <1>2, <1>5, ScreenTypes

(* A friend's message: after an Enter it takes the row of the user's own.  *)
LEMMA ShowTheirsScreen ==
    ASSUME IInv, ShowTheirs, InChat
    PROVE  /\ ScreenAt(0)' \/ ScreenAt(1)'
           /\ row_count > 0 => lines' # lines \/ slip'
<1>1. /\ ui' = ui /\ Display(1) /\ (Entered' <=> Entered)
      /\ Entered => slip'
  BY DEF ShowTheirs, Entered, uiVars
<1>2. CASE row_count = 0
  <2>1. row_count' = Rows - 1 /\ lines' = {0} /\ cursor' = Rows + 1
    BY <1>2, <1>1, DisplayFull
  <2>2. IF Entered THEN ScreenAt(1)' ELSE ScreenAt(0)'
    BY <1>1, <2>1 DEF ScreenAt
  <2> QED
    BY <1>2, <2>2
<1>3. ASSUME row_count > 0, NEW d \in {0, 1}, ScreenAt(d), Entered
      PROVE  ScreenAt(d)'
  <2> DEFINE row == Rows + 1 - d - row_count
  <2>1. /\ cursor = Rows + 2 - d
        /\ \A r \in lines : r + d + row_count <= Rows
        /\ d = 1 => row_count <= Rows - 1
    BY <1>3, ScreenTypes DEF ScreenAt
  <2>2. row \in 0 .. Rows /\ cursor = row + row_count + 1 /\ row_count \in 1 .. Rows
    <3>1. row_count \in Int /\ 1 <= row_count /\ row_count <= Rows /\ Rows \in Nat
      BY <1>3, ScreenTypes
    <3>2. CASE d = 0
      BY <2>1, <3>1, <3>2
    <3>3. CASE d = 1
      BY <2>1, <3>1, <3>3
    <3> QED
      BY <3>2, <3>3
  <2>3. /\ row_count' = row_count - 1 /\ lines' = lines \cup {row}
        /\ cursor' = Rows + 2 - d
    <3> HIDE DEF row
    <3>1. /\ row_count' = row_count - 1 /\ lines' = lines \cup {row}
          /\ cursor' = row + 1 + row_count
      BY <1>1, <2>2, DisplayOpen
    <3> QED
      BY <3>1, ScreenTypes, <1>3, SMTT(60) DEF row
  <2>4. row + d + row_count = Rows + 1
    BY <1>3, ScreenTypes
  <2> HIDE DEF row
  <2>5. \A r \in lines' : r + d + row_count' <= Rows
    <3> SUFFICES ASSUME NEW r \in lines' PROVE r + d + row_count' <= Rows
      OBVIOUS
    <3>1. CASE r \in lines
      BY <1>3, <2>1, <2>3, <3>1, ScreenTypes, SMTT(60)
    <3>2. CASE r = row
      BY <1>3, <2>2, <2>3, <2>4, <3>2, ScreenTypes
    <3> QED
      BY <2>3, <3>1, <3>2
  <2> QED
    BY <1>1, <1>3, <2>1, <2>3, <2>5, ScreenTypes DEF ScreenAt
<1>4. ASSUME row_count > 0, NEW d \in {0, 1}, ScreenAt(d), ~Entered
      PROVE  ScreenAt(d)' /\ lines' # lines
  <2> DEFINE row == Rows - d - row_count
  <2>1. /\ cursor = Rows + 1 - d
        /\ \A r \in lines : r + d + row_count <= Rows - 1
        /\ d = 1 => row_count <= Rows - 2
    BY <1>4 DEF ScreenAt
  <2>2. row \in 0 .. Rows /\ cursor = row + row_count + 1 /\ row_count \in 1 .. Rows
    BY <1>4, <2>1, ScreenTypes, SMTT(60)
  <2>3. /\ row_count' = row_count - 1 /\ lines' = lines \cup {row}
        /\ cursor' = Rows + 1 - d
    <3> HIDE DEF row
    <3>1. /\ row_count' = row_count - 1 /\ lines' = lines \cup {row}
          /\ cursor' = row + 1 + row_count
      BY <1>1, <2>2, DisplayOpen
    <3> QED
      BY <3>1, ScreenTypes, <1>4, SMTT(60) DEF row
  <2>4. row + d + row_count = Rows
    BY <1>4, ScreenTypes
  <2> HIDE DEF row
  <2>5. \A r \in lines' : r + d + row_count' <= Rows - 1
    <3> SUFFICES ASSUME NEW r \in lines' PROVE r + d + row_count' <= Rows - 1
      OBVIOUS
    <3>1. CASE r \in lines
      BY <1>4, <2>1, <2>3, <3>1, ScreenTypes, SMTT(60)
    <3>2. CASE r = row
      BY <1>4, <2>2, <2>3, <2>4, <3>2, ScreenTypes
    <3> QED
      BY <2>3, <3>1, <3>2
  <2>6. ScreenAt(d)'
    BY <1>1, <1>4, <2>1, <2>3, <2>5, ScreenTypes DEF ScreenAt
  <2>7. row \notin lines
    BY <1>4, <2>1, <2>4, ScreenTypes
  <2> QED
    BY <2>3, <2>6, <2>7
<1>5. ScreenAt(0) \/ ScreenAt(1)
  BY DEF IInv, ScreenRight
<1>6. CASE row_count > 0
  BY <1>1, <1>3, <1>4, <1>5, <1>6
<1> QED
  BY <1>2, <1>6, ScreenTypes

(* Whatever moves the main thread, the cursor and the rows agree with the  *)
(* place where it is.                                                      *)
LEMMA ScreenStep ==
    ASSUME IInv, [Next]_vars
    PROVE  ScreenRight'
<1> USE DEF ScreenRight
<1>1. /\ row_count \in 0 .. Rows /\ cursor \in Int /\ lines \subseteq Int
      /\ slip \in BOOLEAN /\ Rows \in Nat
      /\ ui \in [at : {"menu", "search", "no_friend", "face", "type", "send", "lock",
                       "send_all", "show"},
                 mode : {"S", "M", "A"}, ids : Seq(Friend), i : 0 .. MaxPackets + 2]
  BY ScreenTypes
<1>2. InChat => ScreenAt(0) \/ ScreenAt(1)
  BY DEF IInv
<1>3. ASSUME UNCHANGED <<row_count, cursor, lines, slip>>,
             InChat' => InChat /\ (Entered' <=> Entered)
      PROVE  ScreenRight'
  BY <1>2, <1>3 DEF ScreenAt
<1>4. CASE Choose
  <2>1. /\ cursor' = Rows + 1 /\ lines' = {} /\ ui'.at \in {"search", "face"}
    BY <1>4 DEF Choose, Draw
  <2> QED
    BY <2>1 DEF ScreenAt, Entered
<1>5. CASE NoFriend \/ Escape
  <2>1. ~InChat'
    BY <1>5 DEF NoFriend, Escape, Menu, InChat
  <2> QED
    BY <2>1
<1>6. CASE Enter
  <2>1. /\ cursor' = cursor + 1 /\ slip' = FALSE /\ Entered' /\ ~Entered /\ InChat
        /\ UNCHANGED <<row_count, lines>>
    BY <1>1, <1>6 DEF Enter, Entered, InChat
  <2>2. ASSUME NEW d \in {0, 1}, ScreenAt(d)
        PROVE  ScreenAt(d)'
    BY <1>1, <2>1, <2>2 DEF ScreenAt
  <2> QED
    BY <1>2, <2>1, <2>2
<1>7. CASE Search \/ Face \/ SendOne \/ SendSeveral \/ LockAll \/ SendNext \/ UnlockAll
  <2>1. UNCHANGED <<row_count, cursor, lines, slip>>
    BY <1>7 DEF Search, Face, SendOne, SendSeveral, LockAll, SendNext, UnlockAll, screenVars
  <2>2. InChat' => InChat /\ (Entered' <=> Entered)
    <3> USE DEF InChat, Entered
    <3>1. CASE Search \/ Face
      BY <1>1, <3>1 DEF Search, Face
    <3>2. CASE SendOne \/ SendNext
      BY <1>1, <3>2 DEF SendOne, SendNext, Menu
    <3>3. CASE SendSeveral \/ LockAll \/ UnlockAll
      BY <1>1, <3>3 DEF SendSeveral, LockAll, UnlockAll
    <3> QED
      BY <1>7, <3>1, <3>2, <3>3
  <2> QED
    BY <1>3, <2>1, <2>2
<1>8. CASE ShowMine
  BY <1>8, ShowMineScreen
<1>9. CASE ShowTheirs
  <2>1. CASE InChat
    BY <1>9, <2>1, ShowTheirsScreen
  <2>2. CASE ~InChat
    BY <1>9, <2>2 DEF ShowTheirs, uiVars, InChat
  <2> QED
    BY <2>1, <2>2
<1>10. CASE Receive \/ SearchSource \/ ReadFlag \/ TcpStep \/ UNCHANGED vars
  <2>1. UNCHANGED <<row_count, cursor, lines, slip, ui>>
    BY <1>10, TcpKeeps DEF Receive, SearchSource, ReadFlag, vars, screenVars, uiVars
  <2> QED
    BY <1>3, <2>1 DEF InChat, Entered
<1> QED
  BY <1>4, <1>5, <1>6, <1>7, <1>8, <1>9, <1>10 DEF Next, UiRuns, UdpRuns, TcpStep
----------------------------------------------------------------------------
(* The requests and their answers.                                         *)

LEMMA AnswerTypes ==
    ASSUME IInv
    PROVE  /\ tcp \in [at : {"read", "online", "offline", "open_id", "open_result", "write",
                             "answer"},
                       id : Friend \cup {None}]
           /\ helper \in [at : {"none", "open_id", "open_result", "read", "ask"},
                          id : Friend \cup {None}]
           /\ fifoId \in Seq(Friend) /\ broken \in BOOLEAN
           /\ fifoResult \in Seq([id : Friend, yes : BOOLEAN])
  BY DEF IInv, TypeOK, AddfTypeOK

(* The one answer there is for pthread_tcp is that to its question.        *)
LEMMA AnswerStep ==
    ASSUME IInv, [Next]_vars
    PROVE  AnswerRight'
<1> SUFFICES ASSUME ~broken' PROVE AnswerRight'
  BY DEF AnswerRight
<1> USE AnswerTypes DEF AnswerRight
<1>1. AnswerRight
  BY DEF IInv
<1>2. CASE UNCHANGED addfVars
  BY <1>1, <1>2 DEF addfVars, Idle, Asking, Answering
<1>3. CASE Packet
  <2>1. /\ tcp.at = "read" /\ UNCHANGED <<fifoId, fifoResult, broken>>
        /\ \/ \E f \in Friend, at \in {"online", "offline"} :
                 tcp' = [at |-> at, id |-> f] /\ helper' = helper
           \/ \E f \in Friend : /\ tcp' = [at |-> "open_id", id |-> f]
                                /\ helper' = [at |-> "open_id", id |-> None]
           \/ UNCHANGED <<tcp, helper>>
    BY <1>3 DEF Packet, AddFriendAction
  <2>2. Idle /\ ~broken
    BY <1>1, <2>1
  <2>3. CASE \E f \in Friend, at \in {"online", "offline"} :
                tcp' = [at |-> at, id |-> f] /\ helper' = helper
    BY <2>1, <2>2, <2>3 DEF Idle
  <2>4. CASE \E f \in Friend : /\ tcp' = [at |-> "open_id", id |-> f]
                               /\ helper' = [at |-> "open_id", id |-> None]
    BY <2>1, <2>2, <2>4 DEF Idle, Asking
  <2>5. CASE UNCHANGED <<tcp, helper>>
    BY <2>1, <2>2, <2>5 DEF Idle
  <2> QED
    BY <2>1, <2>3, <2>4, <2>5
<1>4. CASE UpdateList
  <2>1. /\ tcp.at \in {"online", "offline"} /\ tcp' = TcpIdle
        /\ UNCHANGED <<helper, fifoId, fifoResult, broken>>
    BY <1>4 DEF UpdateList
  <2> QED
    BY <1>1, <2>1 DEF TcpIdle, Idle
<1>5. CASE OpenId \/ OpenResult
  BY <1>1, <1>5 DEF OpenId, OpenResult, Asking
<1>6. CASE WriteId
  <2>1. CASE tcp' = tcp
    <3>1. UNCHANGED <<tcp, helper, fifoId, fifoResult, broken>>
      BY <1>6, <2>1 DEF WriteId
    <3> QED
      BY <1>1, <3>1 DEF Idle, Asking, Answering
  <2>2. CASE tcp' # tcp
    <3>1. /\ tcp.at = "write" /\ tcp' = [tcp EXCEPT !.at = "answer"]
          /\ fifoId' = Append(fifoId, tcp.id) /\ UNCHANGED <<helper, fifoResult, broken>>
      BY <1>6, <2>2 DEF WriteId
    <3>2. fifoId = << >> /\ Asking /\ fifoResult = << >>
      BY <1>1, <3>1
    <3>3. fifoId' = <<tcp.id>>
      BY <3>1, <3>2
    <3>4. tcp'.id = tcp.id /\ tcp'.at = "answer"
      BY <3>1
    <3> QED
      BY <3>1, <3>2, <3>3, <3>4 DEF Answering, Asking
  <2> QED
    BY <2>1, <2>2
<1>7. CASE ReadAnswer
  <2>1. /\ tcp.at = "answer" /\ tcp' = TcpIdle /\ UNCHANGED <<helper, fifoId, broken>>
        /\ \/ fifoResult # << >> /\ fifoResult' = Tail(fifoResult)
           \/ fifoResult = << >> /\ helper.at = "none"
    BY <1>7 DEF ReadAnswer
  <2>2. helper.at = "none" /\ fifoId = << >> /\ Len(fifoResult) = 1
    BY <1>1, <2>1 DEF Answering, Asking
  <2>3. fifoResult' = << >>
    <3> DEFINE S == [id : Friend, yes : BOOLEAN]
    <3>1. fifoResult \in Seq(S) /\ fifoResult # << >> /\ fifoResult' = Tail(fifoResult)
      <4>1. fifoResult # << >>
        BY ONLY <2>2
      <4>2. fifoResult' = Tail(fifoResult)
        BY <2>1, <4>1
      <4> QED
        BY <4>1, <4>2
    <3> HIDE DEF S
    <3>2. fifoResult' \in Seq(S) /\ Len(fifoResult') = 0
      BY <2>2, <3>1, HeadTailProperties
    <3> QED
      BY <3>2, EmptySeq
  <2> QED
    BY <2>1, <2>2, <2>3 DEF TcpIdle, Idle
<1>8. CASE HelperOpenId \/ HelperOpenResult
  BY <1>1, <1>8 DEF HelperOpenId, HelperOpenResult, Idle, Asking, Answering
<1>9. CASE HelperRead
  <2>1. /\ helper.at = "read" /\ fifoId # << >>
        /\ helper' = [at |-> "ask", id |-> Head(fifoId)]
        /\ fifoId' = Tail(fifoId) /\ UNCHANGED <<tcp, fifoResult, broken>>
    BY <1>9 DEF HelperRead
  <2>2. tcp.at = "answer" /\ fifoId = <<tcp.id>> /\ fifoResult = << >>
    BY <1>1, <2>1 DEF Idle, Answering
  <2>3. Head(fifoId) = tcp.id /\ Tail(fifoId) = << >>
    BY <2>2
  <2> QED
    BY <2>1, <2>2, <2>3 DEF Answering
<1>10. CASE HelperAnswers
  <2>1. PICK yes \in BOOLEAN : fifoResult' = Append(fifoResult, [id |-> helper.id, yes |-> yes])
    BY <1>10 DEF HelperAnswers
  <2>2. helper.at = "ask" /\ helper' = NoHelper /\ UNCHANGED <<tcp, fifoId, broken>>
    BY <1>10 DEF HelperAnswers
  <2>3. tcp.at = "answer" /\ helper.id = tcp.id /\ fifoId = << >> /\ fifoResult = << >>
    BY <1>1, <2>2 DEF Idle, Asking, Answering
  <2>4. fifoResult' = <<[id |-> tcp.id, yes |-> yes]>>
    BY <2>1, <2>3
  <2>5. Len(fifoResult') = 1 /\ fifoResult'[1].id = tcp.id
    BY <2>4
  <2> QED
    BY <2>2, <2>3, <2>5 DEF NoHelper, Answering
<1>11. CASE HelperGone
  BY <1>11 DEF HelperGone, HelperEnds
<1>12. CASE MainStep \/ UdpStep \/ UNCHANGED vars
  BY <1>2, <1>12, MainKeeps, UdpKeeps DEF vars
<1> QED
  BY <1>3, <1>4, <1>5, <1>6, <1>7, <1>8, <1>9, <1>10, <1>11, <1>12
     DEF Next, MainStep, UdpStep, TcpRuns, AskFriend, AddfClient, Helper, HelperRuns
----------------------------------------------------------------------------
(* The types.                                                              *)

Places == {"menu", "search", "no_friend", "face", "type", "send", "lock", "send_all", "show"}
Ui == [at : Places, mode : {"S", "M", "A"}, ids : Seq(Friend), i : 0 .. MaxPackets + 2]

LEMMA AddfTypeStep ==
    ASSUME IInv, [Next]_vars
    PROVE  AddfTypeOK'
<1> USE AnswerTypes
<1>1. alive \in BOOLEAN /\ fds \subseteq {"id", "result"} /\ AddfTypeOK
  BY DEF IInv, TypeOK, AddfTypeOK
<1>2. CASE UNCHANGED addfVars
  BY <1>1, <1>2 DEF addfVars, AddfTypeOK
<1>3. CASE Packet
  <2>1. /\ UNCHANGED <<fifoId, fifoResult, fds, broken>>
        /\ alive' \in BOOLEAN
        /\ \/ \E f \in Friend, at \in {"online", "offline"} :
                 tcp' = [at |-> at, id |-> f] /\ helper' = helper
           \/ \E f \in Friend : /\ tcp' = [at |-> "open_id", id |-> f]
                                /\ helper' = [at |-> "open_id", id |-> None]
           \/ UNCHANGED <<tcp, helper>>
    BY <1>1, <1>3 DEF Packet, AddFriendAction
  <2> QED
    BY <1>1, <2>1 DEF AddfTypeOK
<1>4. CASE UpdateList \/ OpenId \/ OpenResult
  BY <1>1, <1>4 DEF UpdateList, OpenId, OpenResult, TcpIdle, AddfTypeOK
<1>5. CASE WriteId
  <2>1. CASE tcp' = tcp
    BY <1>1, <1>5, <2>1 DEF WriteId, AddfTypeOK
  <2>2. CASE tcp' # tcp
    <3>1. /\ tcp.at = "write" /\ tcp' = [tcp EXCEPT !.at = "answer"]
          /\ fifoId' = Append(fifoId, tcp.id)
          /\ UNCHANGED <<alive, helper, fifoResult, fds, broken>>
      BY <1>5, <2>2 DEF WriteId
    <3>2. tcp.id \in Friend
      BY <3>1 DEF IInv, HandsRight
    <3>3. fifoId' \in Seq(Friend)
      BY <3>1, <3>2, AppendProperties
    <3> QED
      BY <1>1, <3>1, <3>3 DEF AddfTypeOK
  <2> QED
    BY <2>1, <2>2
<1>6. CASE ReadAnswer
  <2>1. fifoResult' \in Seq([id : Friend, yes : BOOLEAN])
    <3> DEFINE S == [id : Friend, yes : BOOLEAN]
    <3>1. fifoResult \in Seq(S)
      OBVIOUS
    <3> HIDE DEF S
    <3>2. fifoResult' \in Seq(S)
      <4>1. CASE fifoResult # << >>
        <5>1. fifoResult' = Tail(fifoResult)
          BY <1>6, <4>1 DEF ReadAnswer
        <5> QED
          BY <3>1, <4>1, <5>1, HeadTailProperties
      <4>2. CASE fifoResult = << >>
        BY <1>6, <3>1, <4>2 DEF ReadAnswer
      <4> QED
        BY <4>1, <4>2
    <3> QED
      BY <3>2 DEF S
  <2> QED
    BY <1>1, <1>6, <2>1 DEF ReadAnswer, TcpIdle, AddfTypeOK
<1>7. CASE HelperOpenId \/ HelperOpenResult \/ HelperGone
  <2>1. UNCHANGED <<alive, tcp, fifoId, fifoResult, fds>>
    BY <1>7 DEF HelperOpenId, HelperOpenResult, HelperGone, HelperEnds
  <2>2. /\ helper' \in [at : {"none", "open_id", "open_result", "read", "ask"},
                        id : Friend \cup {None}]
        /\ broken' \in BOOLEAN
    <3>1. CASE HelperOpenId \/ HelperOpenResult
      BY <3>1 DEF HelperOpenId, HelperOpenResult
    <3>2. CASE HelperGone
      BY <3>2 DEF HelperGone, HelperEnds, NoHelper
    <3> QED
      BY <1>7, <3>1, <3>2
  <2> QED
    BY <1>1, <2>1, <2>2 DEF AddfTypeOK
<1>8. CASE HelperRead
  <2>1. Head(fifoId) \in Friend /\ fifoId' \in Seq(Friend)
    BY <1>8, HeadTailProperties DEF HelperRead
  <2> QED
    BY <1>1, <1>8, <2>1 DEF HelperRead, AddfTypeOK
<1>10. CASE MainStep \/ UdpStep \/ UNCHANGED vars
  BY <1>2, <1>10, MainKeeps, UdpKeeps DEF vars
<1>9. CASE HelperAnswers
  <2>1. PICK yes \in BOOLEAN : fifoResult' = Append(fifoResult, [id |-> helper.id, yes |-> yes])
    BY <1>9 DEF HelperAnswers
  <2>2. helper.id \in Friend
    BY <1>9 DEF HelperAnswers, IInv, HandsRight
  <2>3. fifoResult' \in Seq([id : Friend, yes : BOOLEAN])
    BY <2>1, <2>2, AppendProperties
  <2> QED
    BY <1>1, <1>9, <2>3 DEF HelperAnswers, NoHelper, AddfTypeOK
<1> QED
  BY <1>3, <1>4, <1>5, <1>6, <1>7, <1>8, <1>9, <1>10
     DEF Next, MainStep, UdpStep, TcpRuns, AskFriend, AddfClient, Helper, HelperRuns

LEMMA UiTypeStep ==
    ASSUME IInv, [Next]_vars
    PROVE  ui' \in Ui /\ iniface' \in {0, 1} /\ {lost, leaked}' \subseteq BOOLEAN
<1>1. /\ ui \in Ui /\ iniface \in {0, 1} /\ lost \in BOOLEAN /\ leaked \in BOOLEAN
      /\ plist \in Seq(Friend) /\ Len(plist) \in Nat /\ Len(plist) <= MaxPackets
      /\ MaxPackets \in Nat
  BY Bounds DEF IInv, TypeOK, Ui, Places
<1>2. CASE UdpStep \/ TcpStep \/ UNCHANGED vars
  BY <1>1, <1>2, UdpKeeps, TcpKeeps DEF vars, uiVars
<1>3. CASE Choose
  <2>1. UNCHANGED <<iniface, lost, leaked>>
    BY <1>3 DEF Choose
  <2>2. ASSUME NEW f \in Friend, NEW g \in Friend
        PROVE  <<f>> \in Seq(Friend) /\ <<f, g>> \in Seq(Friend)
    BY <2>2
  <2>3. << >> \in Seq(Friend) /\ 1 \in 0 .. MaxPackets + 2
    BY <1>1
  <2>4. CASE \E f \in Friend :
                ui' = [at |-> "search", mode |-> "S", ids |-> <<f>>, i |-> 1]
    <3>1. PICK f \in Friend : ui' = [at |-> "search", mode |-> "S", ids |-> <<f>>, i |-> 1]
      BY <2>4
    <3> DEFINE q == <<f>>
    <3>2. q \in Seq(Friend)
      BY <2>2
    <3> HIDE DEF q
    <3>3. ui' = [at |-> "search", mode |-> "S", ids |-> q, i |-> 1]
      BY <3>1 DEF q
    <3> QED
      BY <1>1, <2>1, <2>3, <3>2, <3>3 DEF Ui, Places
  <2>5. CASE \E f, g \in Friend :
                ui' = [at |-> "face", mode |-> "M", ids |-> <<f, g>>, i |-> 1]
    <3>1. PICK f \in Friend, g \in Friend :
                  ui' = [at |-> "face", mode |-> "M", ids |-> <<f, g>>, i |-> 1]
      BY <2>5
    <3> DEFINE q == <<f, g>>
    <3>2. q \in Seq(Friend)
      BY <2>2
    <3> HIDE DEF q
    <3>3. ui' = [at |-> "face", mode |-> "M", ids |-> q, i |-> 1]
      BY <3>1 DEF q
    <3> QED
      BY <1>1, <2>1, <2>3, <3>2, <3>3 DEF Ui, Places
  <2>6. CASE ui' = [at |-> "face", mode |-> "A", ids |-> << >>, i |-> 1]
    <3> DEFINE q == << >>
    <3>1. q \in Seq(Friend)
      BY <2>3
    <3> HIDE DEF q
    <3>2. ui' = [at |-> "face", mode |-> "A", ids |-> q, i |-> 1]
      BY <2>6 DEF q
    <3> QED
      BY <1>1, <2>1, <2>3, <3>1, <3>2 DEF Ui, Places
  <2> QED
    BY <1>1, <1>3, <2>1, <2>4, <2>5, <2>6 DEF Choose
<1>4. Menu \in Ui
  BY <1>1 DEF Menu, Ui, Places
<1>5. CASE Search \/ Face \/ ShowMine \/ LockAll \/ UnlockAll
  <2>1. \E at \in Places : ui' = [ui EXCEPT !.at = at]
    BY <1>5 DEF Search, Face, ShowMine, LockAll, UnlockAll, Places
  <2>2. ui' \in Ui
    BY <1>1, <2>1 DEF Ui
  <2> QED
    BY <1>1, <1>5, <2>2 DEF Search, Face, ShowMine, LockAll, UnlockAll
<1>6. CASE NoFriend \/ Escape \/ SendOne
  <2>1. ui' = Menu \/ ui' = [ui EXCEPT !.at = "show"]
    BY <1>6 DEF NoFriend, Escape, SendOne
  <2>2. ui' \in Ui
    <3>1. CASE ui' = [ui EXCEPT !.at = "show"]
      BY <1>1, <3>1 DEF Ui, Places
    <3> QED
      BY <1>4, <2>1, <3>1
  <2> QED
    BY <1>1, <1>6, <2>2 DEF NoFriend, Escape, SendOne
<1>7. CASE Enter
  <2>1. PICK at \in Places : ui' = [ui EXCEPT !.at = at, !.i = 1]
    BY <1>7 DEF Enter, Places
  <2>2. ui' \in Ui
    <3>1. 1 \in 0 .. MaxPackets + 2
      BY <1>1
    <3> QED
      BY <1>1, <2>1, <3>1 DEF Ui
  <2> QED
    BY <1>1, <1>7, <2>2 DEF Enter
<1>8. CASE SendSeveral
  <2>1. CASE ui.i < Len(ui.ids)
    <3>1. ui' = [ui EXCEPT !.i = @ + 1] /\ Len(ui.ids) <= 2
      BY <1>8, <2>1 DEF SendSeveral, IInv, HandsRight
    <3>2. Len(ui.ids) \in Nat /\ ui.i \in Nat
      BY <1>1 DEF Ui
    <3>3. ui.i + 1 \in 0 .. MaxPackets + 2
      BY <1>1, <2>1, <3>1, <3>2
    <3> QED
      BY <1>1, <1>8, <3>1, <3>3 DEF Ui, SendSeveral
  <2>2. CASE ~(ui.i < Len(ui.ids))
    BY <1>1, <1>8, <2>2 DEF SendSeveral, Ui, Places
  <2> QED
    BY <2>1, <2>2
<1>9. CASE SendNext
  <2>1. ui.i + 1 \in 0 .. MaxPackets + 2
    BY <1>1, <1>9 DEF SendNext, Ui
  <2>2. ui' \in Ui
    <3>1. CASE ui' = [ui EXCEPT !.i = @ + 1]
      BY <1>1, <2>1, <3>1 DEF Ui
    <3> QED
      BY <1>4, <1>9, <3>1 DEF SendNext
  <2> QED
    BY <1>1, <1>9, <2>2 DEF SendNext
<1> QED
  BY <1>2, <1>3, <1>5, <1>6, <1>7, <1>8, <1>9
     DEF Next, UiRuns, UdpStep, TcpStep

LEMMA DisplayTypes ==
    ASSUME IInv, NEW above \in {1, 2}, Display(above)
    PROVE  row_count' \in 0 .. Rows /\ cursor' \in 0 .. Rows + 2 /\ lines' \subseteq 0 .. Rows
<1> DEFINE full == row_count <= 0
           r    == IF full THEN Rows ELSE row_count
           from == IF full THEN Rows + 1 ELSE cursor
           row  == IF from > r + above THEN from - (r + above) ELSE 0
<1>1. /\ row_count \in 0 .. Rows /\ cursor \in 0 .. Rows + 2 /\ lines \subseteq 0 .. Rows
      /\ Rows \in Nat /\ Rows > 0
  BY DEF IInv, TypeOK
<1>2. r \in 1 .. Rows /\ from \in 0 .. Rows + 2
  BY <1>1
<1>3. /\ row_count' = r - 1
      /\ IF InChat
         THEN lines' = (IF full THEN {} ELSE lines) \cup {row} /\ cursor' = row + 1 + r
         ELSE UNCHANGED <<lines, cursor>>
  BY DEF Display
<1>4. row \in 0 .. Rows /\ row + 1 + r \in 0 .. Rows + 2
  <2> HIDE DEF r, from
  <2> QED
    BY <1>1, <1>2
<1> HIDE DEF full, r, from, row
<1>5. row_count' \in 0 .. Rows
  BY <1>1, <1>2, <1>3
<1>6. CASE InChat
  BY <1>1, <1>3, <1>4, <1>5, <1>6
<1>7. CASE ~InChat
  BY <1>1, <1>3, <1>5, <1>7
<1> QED
  BY <1>6, <1>7

LEMMA ScreenTypeStep ==
    ASSUME IInv, [Next]_vars
    PROVE  /\ row_count' \in 0 .. Rows /\ cursor' \in 0 .. Rows + 2 /\ lines' \subseteq 0 .. Rows
           /\ slip' \in BOOLEAN
<1>1. /\ row_count \in 0 .. Rows /\ cursor \in 0 .. Rows + 2 /\ lines \subseteq 0 .. Rows
      /\ slip \in BOOLEAN /\ Rows \in Nat
  BY DEF IInv, TypeOK
<1>2. CASE Choose
  BY <1>1, <1>2 DEF Choose, Draw
<1>3. CASE Enter
  <2>1. cursor <= Rows + 1
    BY <1>1, <1>3 DEF Enter, IInv, ScreenRight, ScreenAt, InChat, Entered
  <2>2. cursor' = cursor + 1 /\ slip' = FALSE /\ UNCHANGED <<row_count, lines>>
    BY <1>3 DEF Enter
  <2>3. cursor' \in 0 .. Rows + 2
    BY <1>1, <2>1, <2>2
  <2> QED
    BY <1>1, <2>2, <2>3
<1>4. CASE ShowMine
  BY <1>1, <1>4, DisplayTypes DEF ShowMine
<1>5. CASE ShowTheirs
  <2>1. slip' \in BOOLEAN
    BY <1>1, <1>5 DEF ShowTheirs
  <2> QED
    BY <1>5, <2>1, DisplayTypes DEF ShowTheirs
<1>6. CASE UNCHANGED screenVars
  BY <1>1, <1>6 DEF screenVars
<1>7. CASE TcpStep \/ UNCHANGED vars
  BY <1>6, <1>7, TcpKeeps DEF vars
<1>8. CASE \/ NoFriend \/ Escape \/ Search \/ Face \/ SendOne \/ SendSeveral \/ LockAll
           \/ SendNext \/ UnlockAll \/ Receive \/ SearchSource \/ ReadFlag
  BY <1>6, <1>8 DEF NoFriend, Escape, Search, Face, SendOne, SendSeveral, LockAll, SendNext,
                    UnlockAll, Receive, SearchSource, ReadFlag
<1> QED
  BY <1>2, <1>3, <1>4, <1>5, <1>7, <1>8 DEF Next, UiRuns, UdpRuns, TcpStep

LEMMA CountTypeStep ==
    ASSUME IInv, [Next]_vars
    PROVE  /\ packets' \in 0 .. MaxPackets /\ msgs' \in 0 .. MaxMsgs /\ typed' \in 0 .. MaxLines
           /\ held' \in BOOLEAN
           /\ udp' \in [at : {"recv", "search", "flag", "show"}, id : Friend \cup {None}]
<1>1. /\ packets \in 0 .. MaxPackets /\ msgs \in 0 .. MaxMsgs /\ typed \in 0 .. MaxLines
      /\ held \in BOOLEAN
      /\ udp \in [at : {"recv", "search", "flag", "show"}, id : Friend \cup {None}]
      /\ MaxPackets \in Nat /\ MaxMsgs \in Nat /\ MaxLines \in Nat
  BY Bounds DEF IInv, TypeOK
<1>2. CASE MainStep
  <2>1. UNCHANGED <<packets, msgs, udp>>
    BY <1>2, MainKeeps
  <2>2. held' \in BOOLEAN
    BY <1>1, <1>2 DEF MainStep, UiRuns, Choose, NoFriend, Escape, Enter, Search, Face, SendOne,
                      SendSeveral, LockAll, SendNext, UnlockAll, ShowMine, listVars
  <2>3. typed' \in 0 .. MaxLines
    <3>1. CASE Enter
      BY <1>1, <3>1 DEF Enter
    <3>2. CASE ~Enter
      BY <1>1, <1>2, <3>2 DEF MainStep, UiRuns, Choose, NoFriend, Escape, Search, Face, SendOne,
                  SendSeveral, LockAll, SendNext, UnlockAll, ShowMine, countVars
    <3> QED
      BY <3>1, <3>2
  <2> QED
    BY <1>1, <2>1, <2>2, <2>3
<1>3. CASE UdpStep
  <2>1. UNCHANGED <<packets, typed, held>>
    BY <1>3, UdpKeeps DEF listVars
  <2>2. msgs' \in 0 .. MaxMsgs
    <3>1. CASE Receive
      BY <1>1, <3>1 DEF Receive
    <3>2. CASE UdpRuns
      BY <1>1, <3>2 DEF UdpRuns, SearchSource, ReadFlag, ShowTheirs, countVars
    <3> QED
      BY <1>3, <3>1, <3>2 DEF UdpStep
  <2>3. udp' \in [at : {"recv", "search", "flag", "show"}, id : Friend \cup {None}]
    <3>1. \/ \E f \in Friend : udp' = [at |-> "search", id |-> f]
          \/ \E at \in {"flag", "show"} : udp' = [udp EXCEPT !.at = at]
          \/ udp' = UdpIdle
      BY <1>3 DEF UdpStep, Receive, UdpRuns, SearchSource, ReadFlag, ShowTheirs
    <3> QED
      BY <1>1, <3>1 DEF UdpIdle
  <2> QED
    BY <1>1, <2>1, <2>2, <2>3
<1>4. CASE TcpStep
  <2>1. UNCHANGED <<msgs, typed, held, udp>>
    BY <1>4, TcpKeeps
  <2>2. packets' \in 0 .. MaxPackets
    <3>1. CASE Packet
      BY <1>1, <3>1 DEF Packet
    <3>2. CASE TcpRuns \/ Helper \/ HelperGone
      BY <1>1, <3>2 DEF TcpRuns, UpdateList, AskFriend, Helper, HelperGone, countVars
    <3> QED
      BY <1>4, <3>1, <3>2 DEF TcpStep
  <2> QED
    BY <1>1, <2>1, <2>2
<1>5. CASE UNCHANGED vars
  BY <1>1, <1>5 DEF vars, listVars, countVars
<1> QED
  BY <1>2, <1>3, <1>4, <1>5 DEF Next, MainStep, UdpStep, TcpStep

LEMMA ListTypeStep ==
    ASSUME IInv, [Next]_vars
    PROVE  plist' \in Seq(Friend) /\ Len(plist') <= MaxPackets
<1>1. plist' \in Seq(Friend)
  <2>1. plist \in Seq(Friend)
    BY DEF IInv, TypeOK
  <2>2. CASE UpdateList
    BY <2>2, UpdateListProperties
  <2>3. CASE UNCHANGED plist
    BY <2>1, <2>3
  <2> QED
    BY <2>2, <2>3, MainKeeps, UdpKeeps
       DEF Next, MainStep, UdpStep, TcpRuns, Packet, AskFriend, Helper, HelperGone, vars, listVars
<1>2. Len(plist') <= packets'
  <2>1. Len(plist') \in Nat /\ packets' \in Nat
    BY <1>1, CountTypeStep, Bounds
  <2> QED
    BY <2>1, HandsStep DEF HandsRight
<1> QED
  BY <1>1, <1>2, CountTypeStep, Bounds

LEMMA TypeStep ==
    ASSUME IInv, [Next]_vars
    PROVE  TypeOK'
<1>1. AddfTypeOK' /\ plist' \in Seq(Friend) /\ Len(plist') <= MaxPackets
  BY AddfTypeStep, ListTypeStep
<1>2. ui' \in Ui /\ iniface' \in {0, 1} /\ {lost, leaked}' \subseteq BOOLEAN
  BY UiTypeStep
<1> QED
  BY <1>1, <1>2, ScreenTypeStep, CountTypeStep DEF TypeOK, Ui, Places
----------------------------------------------------------------------------
(* The theorems.                                                           *)

LEMMA NextIInv == IInv /\ [Next]_vars => IInv'
  BY TypeStep, HandsStep, WalkStep, FaceStep, ScreenStep, AnswerStep DEF IInv

LEMMA Invariance == Spec => []IInv
  BY InitIInv, NextIInv, PTL DEF Spec

(* For any number of friends, rows, packets, messages and lines, every     *)
(* variable of the client (client.c:23) has its type, and the row counter  *)
(* stays within the screen.                                                *)
THEOREM TypeCorrect == Spec => []TypeOK
<1>1. IInv => TypeOK
  BY DEF IInv
<1> QED
  BY <1>1, Invariance, PTL

(* However long the list and whatever pthread_tcp is told, the loop that   *)
(* sends to all friends (client.c:281) stands on an entry or at the end.   *)
THEOREM BroadcastCorrect == Spec => []BroadcastWalk
<1>1. IInv => BroadcastWalk
  BY DEF IInv
<1> QED
  BY <1>1, Invariance, PTL

(* iniface says whether the user is in the chat screen (client.c:30), but  *)
(* for a return after a failed sendto.                                     *)
THEOREM FlagCorrect == Spec => []InFaceRight
<1>1. IInv => InFaceRight
  BY DEF IInv
<1> QED
  BY <1>1, Invariance, PTL

(* For a screen of any number of rows: no message is displayed over        *)
(* another one (client.c:176, :384), but for one that has come between the *)
(* user's Enter and the user's own message.                                *)
THEOREM RowsCorrect == Spec => RowsKept
<1>1. IInv /\ [Next]_vars
        => [(ShowMine \/ ShowTheirs) /\ InChat /\ row_count > 0 => lines' # lines \/ slip']_vars
  BY ShowMineScreen, ShowTheirsScreen
<1> QED
  BY <1>1, Invariance, PTL DEF Spec, RowsKept

(* The answer that pthread_tcp reads (client.c:473) was given by a user    *)
(* who was shown the request it is for, unless a helper has ended.         *)
THEOREM AnswerCorrect == Spec => AnswerShown
<1>1. ASSUME IInv, ReadAnswer
      PROVE  \/ broken
             \/ fifoResult # << >> /\ Head(fifoResult).id = tcp.id
  <2>1. CASE ~broken
    <3>1. tcp.at = "answer" /\ (fifoResult # << >> \/ helper.at = "none")
      BY <1>1 DEF ReadAnswer
    <3>2. Answering
      BY <1>1, <2>1, <3>1 DEF IInv, AnswerRight
    <3>3. Len(fifoResult) = 1 /\ fifoResult[1].id = tcp.id
      BY <3>1, <3>2 DEF Answering, Asking
    <3>4. fifoResult # << >>
      BY ONLY <3>3
    <3>5. Head(fifoResult) = fifoResult[1]
      BY <3>4, AnswerTypes, <1>1
    <3> QED
      BY <3>3, <3>4, <3>5
  <2>2. CASE broken
    BY <2>2
  <2> QED
    BY <2>1, <2>2
<1>2. IInv /\ [Next]_vars
        => [ReadAnswer => \/ broken
                          \/ fifoResult # << >> /\ Head(fifoResult).id = tcp.id]_addfVars
  BY <1>1
<1> QED
  BY <1>2, Invariance, PTL DEF Spec, AnswerShown
============================================================================
