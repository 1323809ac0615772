---------------------------- MODULE MCOnlineList ----------------------------
(* Two threads, three nodes; one user logged in on two descriptors, since  *)
(* the server's search and add are separate calls, and another user.       *)
EXTENDS OnlineList

CONSTANTS t1, t2, n1, n2, n3, noEntry

MCEntry == {[id |-> 1, sockfd |-> 5],
            [id |-> 1, sockfd |-> 6],
            [id |-> 2, sockfd |-> 6]}
============================================================================
