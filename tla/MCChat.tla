------------------------------- MODULE MCChat -------------------------------
EXTENDS ChatSystem, TLC

CONSTANTS c1, c2, c3, p1, p2, t1, t2

NoUsers == << >>
TwoUsers == <<p1, p1>>

NoTables == << >>
TwoFriends == 1 :> {2} @@ 2 :> {1}
TwoStrangers == 1 :> {} @@ 2 :> {}

NoAccounts == [c \in Conn |-> {}]
OwnAccounts == c1 :> {[id |-> 1, pwd |-> p1]} @@ c2 :> {[id |-> 2, pwd |-> p1]}
OneAccount == c1 :> {[id |-> 1, pwd |-> p1]} @@ c2 :> {}
RightAndWrong == c1 :> {[id |-> 1, pwd |-> p1]}
                   @@ c2 :> {[id |-> 2, pwd |-> p1], [id |-> 2, pwd |-> p2]}
MinusOne == -1

Threads == Permutations(Thread)
============================================================================
