------------------------------- MODULE ChatUi -------------------------------
(***************************************************************************)
(* The inside of a chat client of project/ (client.c): the main thread in  *)
(* send_message_mgmt, pthread_tcp, which keeps the list of friends, and    *)
(* pthread_udp, which displays their messages.  They share the list, the   *)
(* flag iniface, the row counter and the screen, under three mutexes.      *)
(*                                                                         *)
(* A section under mutex_iniface or mutex_count waits for nothing and is   *)
(* one step, and so is a list call; only the loop that sends to all friends*)
(* holds mutex for several steps.                                          *)
(***************************************************************************)
EXTENDS AddfHelper, FiniteSets

CONSTANTS
    Rows,        \* the rows for messages: 15 in the code
    MaxPackets,  \* bounds what the server sends, and the list,
    MaxMsgs,     \* ... and what friends send
    MaxLines     \* bounds what the user types

ASSUME RowsAssumption == Rows \in Nat \ {0}
ASSUME BoundAssumption == {MaxPackets, MaxMsgs, MaxLines} \subseteq Nat

VARIABLES
    plist,       \* the friends online, newest first
    held,        \* mutex is held, by the main thread's loop
    iniface,     \* are we in the chat screen?
    row_count,   \* rows left for messages
    cursor,      \* the row the cursor is in, in the chat screen
    lines,       \* the rows with a message, in the chat screen
    ui,          \* the main thread: place, mode, receivers, position
    udp,         \* pthread_udp: place, and whose message
    packets, msgs, typed,  \* for the bounds
    lost,        \* ghost: a failed sendto has returned past iniface = 0 ...
    leaked,      \* ... or past the unlock
    slip         \* ghost: a message was displayed after the user's Enter
                 \* and before the user's own message

listVars == <<plist, held>>
screenVars == <<row_count, cursor, lines, slip>>
countVars == <<packets, msgs, typed>>
uiVars == <<ui, iniface, lost, leaked>>
vars == <<addfVars, listVars, screenVars, countVars, uiVars, udp>>

Menu == [at |-> "menu", mode |-> "S", ids |-> << >>, i |-> 0]
UdpIdle == [at |-> "recv", id |-> None]

Init ==
    /\ AddfInit
    /\ plist = << >> /\ held = FALSE
    /\ iniface = 0 /\ row_count = Rows
    /\ cursor = 0 /\ lines = {}
    /\ ui = Menu /\ udp = UdpIdle
    /\ packets = 0 /\ msgs = 0 /\ typed = 0
    /\ lost = FALSE /\ leaked = FALSE /\ slip = FALSE
----------------------------------------------------------------------------
(* The screen.  Rows 0 to Rows - 1 are for messages, a line is drawn below *)
(* them, and the user types in the row below that.                         *)
InChat == ui.at \notin {"menu", "no_friend"}

(* send_message_Iface.                                                     *)
Draw == cursor' = Rows + 1 /\ lines' = {}

(* Mutant: no fresh screen when the last row is used.                      *)
DisplayNoReset(above) ==
    LET row == IF cursor > row_count + above THEN cursor - (row_count + above) ELSE 0
    IN  /\ row_count' = row_count - 1
        /\ IF InChat
           THEN /\ lines' = lines \cup {row}
                /\ cursor' = row + 1 + row_count
           ELSE UNCHANGED <<lines, cursor>>

(* Mutant: no row_count--.                                                 *)
DisplaySameRow(above) ==
    LET full == row_count <= 0
        r    == IF full THEN Rows ELSE row_count
        from == IF full THEN Rows + 1 ELSE cursor
        row  == IF from > r + above THEN from - (r + above) ELSE 0
    IN  /\ row_count' = r
        /\ IF InChat
           THEN /\ lines' = (IF full THEN {} ELSE lines) \cup {row}
                /\ cursor' = row + 1 + r
           ELSE UNCHANGED <<lines, cursor>>

(* Under mutex_count: a fresh screen when no row is left; MOVEUP by        *)
(* row_count + above, which the top of the screen stops; one row less; the *)
(* message and a line feed; MOVEDOWN(row_count + 1), the input row is      *)
(* blanked.  What it does to another screen is not modelled.               *)
Display(above) ==
    LET full == row_count <= 0
        r    == IF full THEN Rows ELSE row_count
        from == IF full THEN Rows + 1 ELSE cursor
        row  == IF from > r + above THEN from - (r + above) ELSE 0
    IN  /\ row_count' = r - 1
        /\ IF InChat
           THEN /\ lines' = (IF full THEN {} ELSE lines) \cup {row}
                /\ cursor' = row + 1 + r
           ELSE UNCHANGED <<lines, cursor>>
----------------------------------------------------------------------------
(* send_message_mgmt: to one friend, to several, to all.  The screen is    *)
(* drawn first.                                                            *)
Choose ==
    /\ alive /\ ui.at = "menu" /\ typed < MaxLines
    /\ \/ \E f \in Friend :
             ui' = [at |-> "search", mode |-> "S", ids |-> <<f>>, i |-> 1]
       \/ \E f, g \in Friend :
             ui' = [at |-> "face", mode |-> "M", ids |-> <<f, g>>, i |-> 1]
       \/ ui' = [at |-> "face", mode |-> "A", ids |-> << >>, i |-> 1]
    /\ Draw
    /\ UNCHANGED <<addfVars, listVars, row_count, slip, countVars, iniface, lost, leaked,
                   udp>>

(* Single mode looks the friend up before every line that is typed.        *)
Search ==
    /\ alive /\ ui.at = "search" /\ ~held
    /\ ui' = [ui EXCEPT !.at =
                IF \E i \in DOMAIN plist : plist[i] = ui.ids[1] THEN "face" ELSE "no_friend"]
    /\ UNCHANGED <<addfVars, listVars, screenVars, countVars, iniface, lost, leaked, udp>>

(* "id%d not exist or not online"; a key.                                  *)
NoFriend ==
    /\ alive /\ ui.at = "no_friend"
    /\ ui' = Menu /\ iniface' = 0
    /\ UNCHANGED <<addfVars, listVars, screenVars, countVars, lost, leaked, udp>>

Face ==
    /\ alive /\ ui.at = "face"
    /\ ui' = [ui EXCEPT !.at = "type"]
    /\ iniface' = 1 /\ lost' = FALSE
    /\ UNCHANGED <<addfVars, listVars, screenVars, countVars, leaked, udp>>

(* Mutant: iniface stays.                                                  *)
EscapeInFace ==
    /\ alive /\ ui.at = "type"
    /\ ui' = Menu
    /\ UNCHANGED <<addfVars, listVars, screenVars, countVars, iniface, lost, leaked, udp>>

(* data_input_msg: Escape ...                                              *)
Escape ==
    /\ alive /\ ui.at = "type"
    /\ ui' = Menu /\ iniface' = 0
    /\ UNCHANGED <<addfVars, listVars, screenVars, countVars, lost, leaked, udp>>

(* ... or Enter, which moves the cursor to the next row at once.           *)
Enter ==
    /\ alive /\ ui.at = "type" /\ typed < MaxLines
    /\ typed' = typed + 1
    /\ cursor' = cursor + 1 /\ slip' = FALSE
    /\ ui' = [ui EXCEPT !.at = IF ui.mode = "A" THEN "lock" ELSE "send", !.i = 1]
    /\ UNCHANGED <<addfVars, listVars, row_count, lines, packets, msgs, iniface, lost,
                   leaked, udp>>

(* Single: a failed sendto returns to the menu as it is.                   *)
SendOne ==
    /\ alive /\ ui.at = "send" /\ ui.mode = "S"
    /\ \/ ui' = [ui EXCEPT !.at = "show"] /\ UNCHANGED lost
       \/ ui' = Menu /\ lost' = TRUE
    /\ UNCHANGED <<addfVars, listVars, screenVars, countVars, iniface, leaked, udp>>

(* Several: each is looked up; absence and failure are passed over.        *)
SendSeveral ==
    /\ alive /\ ui.at = "send" /\ ui.mode = "M" /\ ~held
    /\ ui' = IF ui.i < Len(ui.ids) THEN [ui EXCEPT !.i = @ + 1]
             ELSE [ui EXCEPT !.at = "show"]
    /\ UNCHANGED <<addfVars, listVars, screenVars, countVars, iniface, lost, leaked, udp>>

(* All: lock, a sendto for each entry, unlock.                             *)
LockAll ==
    /\ alive /\ ui.at = "lock" /\ ~held
    /\ held' = TRUE
    /\ ui' = [ui EXCEPT !.at = "send_all"]
    /\ UNCHANGED <<addfVars, plist, screenVars, countVars, iniface, lost, leaked, udp>>

(* A failed one returns with the mutex held.                               *)
SendNext ==
    /\ alive /\ ui.at = "send_all" /\ ui.i <= Len(plist)
    /\ \/ ui' = [ui EXCEPT !.i = @ + 1] /\ UNCHANGED <<lost, leaked>>
       \/ ui' = Menu /\ lost' = TRUE /\ leaked' = TRUE
    /\ UNCHANGED <<addfVars, listVars, screenVars, countVars, iniface, udp>>

(* Mutant: no unlock.                                                      *)
UnlockAllNot ==
    /\ alive /\ ui.at = "send_all" /\ ui.i > Len(plist)
    /\ ui' = [ui EXCEPT !.at = "show"]
    /\ UNCHANGED <<addfVars, listVars, screenVars, countVars, iniface, lost, leaked, udp>>

UnlockAll ==
    /\ alive /\ ui.at = "send_all" /\ ui.i > Len(plist)
    /\ held' = FALSE
    /\ ui' = [ui EXCEPT !.at = "show"]
    /\ UNCHANGED <<addfVars, plist, screenVars, countVars, iniface, lost, leaked, udp>>

(* "mine:%s", then the next line.                                          *)
ShowMine ==
    /\ alive /\ ui.at = "show"
    /\ Display(2)
    /\ ui' = [ui EXCEPT !.at = IF ui.mode = "S" THEN "search" ELSE "face"]
    /\ UNCHANGED <<addfVars, listVars, slip, countVars, iniface, lost, leaked, udp>>
----------------------------------------------------------------------------
(* pthread_udp: recvfrom.                                                  *)
Receive ==
    /\ alive /\ udp.at = "recv" /\ msgs < MaxMsgs
    /\ msgs' = msgs + 1
    /\ \E f \in Friend : udp' = [at |-> "search", id |-> f]
    /\ UNCHANGED <<addfVars, listVars, screenVars, packets, typed, uiVars>>

(* Only friends who are online, from the port they are known by.           *)
SearchSource ==
    /\ alive /\ udp.at = "search" /\ ~held
    /\ \/ /\ \E i \in DOMAIN plist : plist[i] = udp.id
          /\ udp' = [udp EXCEPT !.at = "flag"]
       \/ udp' = UdpIdle
    /\ UNCHANGED <<addfVars, listVars, screenVars, countVars, uiVars>>

(* Out of the chat screen the message is printed where the cursor is.      *)
ReadFlag ==
    /\ alive /\ udp.at = "flag"
    /\ udp' = IF iniface = 1 THEN [udp EXCEPT !.at = "show"] ELSE UdpIdle
    /\ UNCHANGED <<addfVars, listVars, screenVars, countVars, uiVars>>

(* "id%d:%s".                                                              *)
ShowTheirs ==
    /\ alive /\ udp.at = "show"
    /\ Display(1)
    /\ slip' = (slip \/ ui.at \in {"send", "lock", "send_all", "show"})
    /\ udp' = UdpIdle
    /\ UNCHANGED <<addfVars, listVars, countVars, uiVars>>
----------------------------------------------------------------------------
(* pthread_tcp: Read_client and analysis_receive.  Packets that only print *)
(* something are left out.                                                 *)
Packet ==
    /\ alive /\ tcp.at = "read" /\ packets < MaxPackets
    /\ packets' = packets + 1
    /\ \/ \E f \in Friend, at \in {"online", "offline"} :
             /\ tcp' = [at |-> at, id |-> f]
             /\ UNCHANGED <<alive, helper, fifoId, fifoResult, fds, broken>>
       \/ \E f \in Friend : AddFriendAction(f)
       \/ /\ alive' = FALSE
          /\ UNCHANGED <<tcp, helper, fifoId, fifoResult, fds, broken>>
    /\ UNCHANGED <<listVars, screenVars, msgs, typed, uiVars, udp>>

(* The newest entry of id f, if there is one, is the one to go.            *)
DelList(f) ==
    \/ \E i \in 1 .. Len(plist) :
          /\ plist[i] = f
          /\ \A j \in 1 .. i - 1 : plist[j] # f
          /\ plist' = SubSeq(plist, 1, i - 1) \o SubSeq(plist, i + 1, Len(plist))
    \/ /\ \A i \in 1 .. Len(plist) : plist[i] # f
       /\ UNCHANGED plist

(* Mutant: the list calls do not take the mutex.                           *)
UpdateListUnlocked ==
    /\ alive
    /\ \/ tcp.at = "online" /\ plist' = <<tcp.id>> \o plist
       \/ tcp.at = "offline" /\ DelList(tcp.id)
    /\ tcp' = TcpIdle
    /\ UNCHANGED <<alive, helper, fifoId, fifoResult, fds, broken, held, screenVars,
                   countVars, uiVars, udp>>

(* online_action, offline_action: add_list, del_list.                      *)
UpdateList ==
    /\ alive /\ ~held
    /\ \/ tcp.at = "online" /\ plist' = <<tcp.id>> \o plist
       \/ tcp.at = "offline" /\ DelList(tcp.id)
    /\ tcp' = TcpIdle
    /\ UNCHANGED <<alive, helper, fifoId, fifoResult, fds, broken, held, screenVars,
                   countVars, uiVars, udp>>

AskFriend ==
    /\ AddfClient
    /\ UNCHANGED <<listVars, screenVars, countVars, uiVars, udp>>
Helper ==
    /\ HelperRuns
    /\ UNCHANGED <<listVars, screenVars, countVars, uiVars, udp>>
HelperGone ==
    /\ HelperEnds
    /\ UNCHANGED <<listVars, screenVars, countVars, uiVars, udp>>
----------------------------------------------------------------------------
UiRuns ==
    \/ Search \/ Face \/ SendOne \/ SendSeveral
    \/ LockAll \/ SendNext \/ UnlockAll \/ ShowMine
UdpRuns == SearchSource \/ ReadFlag \/ ShowTheirs
TcpRuns == UpdateList \/ AskFriend

Next ==
    \/ Choose \/ NoFriend \/ Escape \/ Enter \/ UiRuns
    \/ Receive \/ UdpRuns
    \/ Packet \/ TcpRuns
    \/ Helper \/ HelperGone

Spec == Init /\ [][Next]_vars

(* A thread that can go on does, and whoever is asked to grant a friend    *)
(* request answers.  The user need not type, nor anybody send anything.    *)
FairSpec ==
    /\ Spec
    /\ WF_vars(UiRuns) /\ WF_vars(UdpRuns) /\ WF_vars(TcpRuns) /\ WF_vars(Helper)
----------------------------------------------------------------------------
(* Every variable has its type; the row counter stays within the screen.   *)
TypeOK ==
    /\ AddfTypeOK
    /\ plist \in Seq(Friend) /\ Len(plist) <= MaxPackets
    /\ held \in BOOLEAN /\ iniface \in {0, 1}
    /\ row_count \in 0 .. Rows
    /\ cursor \in 0 .. Rows + 2 /\ lines \subseteq 0 .. Rows
    /\ ui \in [at : {"menu", "search", "no_friend", "face", "type", "send", "lock",
                     "send_all", "show"},
               mode : {"S", "M", "A"}, ids : Seq(Friend), i : 0 .. MaxPackets + 2]
    /\ udp \in [at : {"recv", "search", "flag", "show"}, id : Friend \cup {None}]
    /\ packets \in 0 .. MaxPackets /\ msgs \in 0 .. MaxMsgs /\ typed \in 0 .. MaxLines
    /\ {lost, leaked, slip} \subseteq BOOLEAN

(* The walk of the loop that sends to all friends stands on an entry of    *)
(* the list or at its end, whatever pthread_tcp is told in the meantime.   *)
BroadcastWalk == ui.at = "send_all" => held /\ ui.i <= Len(plist) + 1

(* "Are we in the chat screen" (client.c:30): while the user types a       *)
(* message iniface says so, and in the menu it says not, but for the       *)
(* returns after a failed sendto.                                          *)
InFaceRight ==
    /\ ui.at = "type" => iniface = 1
    /\ ui.at = "menu" /\ iniface = 1 => lost

(* No message is printed over another one (client.c:176, :384): the main   *)
(* thread, which has moved the cursor by an Enter, and pthread_udp, which  *)
(* has not, find different rows.  The Enter itself is outside of           *)
(* mutex_count: a message displayed after it and before the user's own is  *)
(* the exception.                                                          *)
RowsKept ==
    [][(ShowMine \/ ShowTheirs) /\ InChat /\ row_count > 0 => lines' # lines \/ slip']_vars

(* pthread_tcp comes back to read the next packet, though it waits for the *)
(* mutex of the list and for a user in another terminal.  The exceptions   *)
(* are the return with the mutex held (client.c:293), a helper that has    *)
(* ended without an answer, and the end of the client.                     *)
PacketHandled ==
    tcp.at # "read" ~> tcp.at = "read" \/ leaked \/ broken \/ ~alive
============================================================================
