----------------------------- MODULE AddfHelper -----------------------------
(***************************************************************************)
(* project/allow_addf_action.c and add_friend_action of project/client.c:  *)
(* the client's pthread_tcp starts a program in another terminal to ask    *)
(* whether a friend request is granted, and waits for the answer.  Two     *)
(* FIFOs lead there and back.  pthread_tcp never closes its ends, so they, *)
(* and what is in the FIFOs, last from one request to the next.            *)
(***************************************************************************)
EXTENDS Integers, Sequences

CONSTANTS Friend, None

ASSUME NoneAssumption == None \notin Friend

VARIABLES
    alive,       \* the client's process
    tcp,         \* pthread_tcp: where it is, and whom its packet is about
    helper,      \* the program: where it is, and the id it shows
    fifoId,      \* ./fifo_id: the ids not yet read
    fifoResult,  \* ./fifo_result: the answers not yet read
    fds,         \* the FIFOs of which the client has an end open
    broken       \* ghost: a helper has ended before its answer

addfVars == <<alive, tcp, helper, fifoId, fifoResult, fds, broken>>

NoHelper == [at |-> "none", id |-> None]
TcpIdle == [at |-> "read", id |-> None]

AddfInit ==
    /\ alive = TRUE
    /\ tcp = TcpIdle /\ helper = NoHelper
    /\ fifoId = << >> /\ fifoResult = << >>
    /\ fds = {} /\ broken = FALSE

AddfTypeOK ==
    /\ alive \in BOOLEAN /\ broken \in BOOLEAN
    /\ tcp \in [at : {"read", "online", "offline", "open_id", "open_result", "write",
                      "answer"},
                id : Friend \cup {None}]
    /\ helper \in [at : {"none", "open_id", "open_result", "read", "ask"},
                   id : Friend \cup {None}]
    /\ fifoId \in Seq(Friend)
    /\ fifoResult \in Seq([id : Friend, yes : BOOLEAN])
    /\ fds \subseteq {"id", "result"}
----------------------------------------------------------------------------
(* add_friend_action.  system() hands the program to the terminal and      *)
(* returns; both sides see to it that the FIFOs are there.                 *)
AddFriendAction(f) ==
    /\ alive /\ tcp.at = "read"
    /\ tcp' = [at |-> "open_id", id |-> f]
    /\ helper' = [at |-> "open_id", id |-> None]
    /\ UNCHANGED <<alive, fifoId, fifoResult, fds, broken>>

(* open() of a FIFO returns when the other end is open or being opened.    *)
OpenId ==
    /\ alive /\ tcp.at = "open_id"
    /\ helper.at # "none"
    /\ tcp' = [tcp EXCEPT !.at = "open_result"]
    /\ fds' = fds \cup {"id"}
    /\ UNCHANGED <<alive, helper, fifoId, fifoResult, broken>>

OpenResult ==
    /\ alive /\ tcp.at = "open_result"
    /\ helper.at \in {"open_result", "read", "ask"}
    /\ tcp' = [tcp EXCEPT !.at = "write"]
    /\ fds' = fds \cup {"result"}
    /\ UNCHANGED <<alive, helper, fifoId, fifoResult, broken>>

(* With no reader left it is SIGPIPE, which nothing handles.               *)
WriteId ==
    /\ alive /\ tcp.at = "write"
    /\ \/ /\ helper.at # "none"
          /\ fifoId' = Append(fifoId, tcp.id)
          /\ tcp' = [tcp EXCEPT !.at = "answer"]
          /\ UNCHANGED alive
       \/ /\ helper.at = "none"
          /\ alive' = FALSE
          /\ UNCHANGED <<fifoId, tcp>>
    /\ UNCHANGED <<helper, fifoResult, fds, broken>>

(* Mutant: the read does not wait (O_NONBLOCK).                            *)
ReadAnswerNonblock ==
    /\ alive /\ tcp.at = "answer"
    /\ fifoResult' = IF fifoResult = << >> THEN << >> ELSE Tail(fifoResult)
    /\ tcp' = TcpIdle
    /\ UNCHANGED <<alive, helper, fifoId, fds, broken>>

(* read: an answer, or the end of file, which is not told from an answer:  *)
(* result is then uninitialised.  Either way an ALLOW_ADDF goes out.       *)
ReadAnswer ==
    /\ alive /\ tcp.at = "answer"
    /\ \/ fifoResult # << >> /\ fifoResult' = Tail(fifoResult)
       \/ fifoResult = << >> /\ helper.at = "none" /\ UNCHANGED fifoResult
    /\ tcp' = TcpIdle
    /\ UNCHANGED <<alive, helper, fifoId, fds, broken>>
----------------------------------------------------------------------------
(* allow_addf_action.c: main, while its client lives.                      *)
HelperOpenId ==
    /\ helper.at = "open_id"
    /\ alive /\ (tcp.at = "open_id" \/ "id" \in fds)
    /\ helper' = [helper EXCEPT !.at = "open_result"]
    /\ UNCHANGED <<alive, tcp, fifoId, fifoResult, fds, broken>>

HelperOpenResult ==
    /\ helper.at = "open_result"
    /\ alive /\ (tcp.at = "open_result" \/ "result" \in fds)
    /\ helper' = [helper EXCEPT !.at = "read"]
    /\ UNCHANGED <<alive, tcp, fifoId, fifoResult, fds, broken>>

(* "id: %d request a friend, Y/N".                                         *)
HelperRead ==
    /\ helper.at = "read" /\ fifoId # << >>
    /\ helper' = [at |-> "ask", id |-> Head(fifoId)]
    /\ fifoId' = Tail(fifoId)
    /\ UNCHANGED <<alive, tcp, fifoResult, fds, broken>>

(* The user's key; the program has done its work and ends.                 *)
HelperAnswers ==
    /\ helper.at = "ask"
    /\ \E yes \in BOOLEAN :
          fifoResult' = Append(fifoResult, [id |-> helper.id, yes |-> yes])
    /\ helper' = NoHelper
    /\ UNCHANGED <<alive, tcp, fifoId, fds, broken>>

(* The terminal is closed, or did not open.                                *)
HelperEnds ==
    /\ helper.at # "none"
    /\ helper' = NoHelper
    /\ broken' = TRUE
    /\ UNCHANGED <<alive, tcp, fifoId, fifoResult, fds>>

AddfClient == OpenId \/ OpenResult \/ WriteId \/ ReadAnswer
HelperRuns == HelperOpenId \/ HelperOpenResult \/ HelperRead \/ HelperAnswers
----------------------------------------------------------------------------
(* "Open another terminal, to learn whether the request is granted"        *)
(* (client.c:447): unless a helper has ended without an answer, what       *)
(* pthread_tcp takes for the answer was given by a user who was shown the  *)
(* request that it goes on to answer.                                      *)
AnswerShown ==
    [][ReadAnswer => \/ broken
                     \/ fifoResult # << >> /\ Head(fifoResult).id = tcp.id]_addfVars
============================================================================
