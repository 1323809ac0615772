---------------------------- MODULE OnlineUsers ----------------------------
(***************************************************************************)
(* What the online-user list of project/linklist.c promises its callers,   *)
(* with no pointer in sight: one sequence of entries, newest last, and for *)
(* every call one instant between its start and its return at which it     *)
(* takes effect.  OnlineList shows that the linked list implements this.   *)
(*                                                                         *)
(* A search promises less than the callers assume: that an entry matched   *)
(* at one instant of the call ("found"), never that it still exists when   *)
(* the call returns.                                                       *)
(***************************************************************************)
EXTENDS Naturals, Sequences

CONSTANTS
    Thread,  \* the threads that call the list
    Entry,   \* the entries the callers add: records with an id and a sockfd
    NoArg    \* the argument of a thread that is in no call

VARIABLES
    users,   \* the entries, oldest first
    op,      \* op[t]: what thread t's call has come to
    arg      \* arg[t]: the entry or the key the call was given

vars == <<users, op, arg>>

(* A key is what del_list and search_list are given: a number and the flag *)
(* that says which field it is compared with.                              *)
Key == [flag : {"BY_ID"}, num : {e.id : e \in Entry}]
         \cup [flag : {"BY_SOCKFD"}, num : {e.sockfd : e \in Entry}]

Matches(e, k) == IF k.flag = "BY_ID" THEN e.id = k.num ELSE e.sockfd = k.num

(* s with its i-th element removed.                                        *)
Without(s, i) ==
    [j \in 1 .. Len(s) - 1 |-> IF j < i THEN s[j] ELSE s[j + 1]]

(* i is the newest entry of s that matches k.                              *)
IsNewest(s, i, k) ==
    /\ Matches(s[i], k)
    /\ \A j \in i + 1 .. Len(s) : ~Matches(s[j], k)

NoneMatches(s, k) == \A i \in 1 .. Len(s) : ~Matches(s[i], k)
----------------------------------------------------------------------------
Init ==
    /\ users = << >>
    /\ op = [t \in Thread |-> "none"]
    /\ arg = [t \in Thread |-> NoArg]

Call(t, name, a) ==
    /\ op[t] = "none"
    /\ op' = [op EXCEPT ![t] = name]
    /\ arg' = [arg EXCEPT ![t] = a]
    /\ UNCHANGED users

Become(t, from, to) ==
    /\ op[t] = from
    /\ op' = [op EXCEPT ![t] = to]
    /\ arg' = IF to = "none" THEN [arg EXCEPT ![t] = NoArg] ELSE arg

(* The entry becomes the newest one.                                       *)
Add(t) ==
    /\ Become(t, "add", "none")
    /\ users' = Append(users, arg[t])

(* The newest match disappears, and nothing else does.                     *)
Delete(t) ==
    /\ Become(t, "del", "deleted")
    /\ \E i \in 1 .. Len(users) :
          /\ IsNewest(users, i, arg[t])
          /\ users' = Without(users, i)

(* The only reason for a delete to leave the list alone.                   *)
DeleteMiss(t) ==
    /\ Become(t, "del", "none")
    /\ NoneMatches(users, arg[t])
    /\ UNCHANGED users

Found(t) ==
    /\ Become(t, "search", "found")
    /\ ~NoneMatches(users, arg[t])
    /\ UNCHANGED users

Absent(t) ==
    /\ Become(t, "search", "none")
    /\ NoneMatches(users, arg[t])
    /\ UNCHANGED users

Return(t) ==
    /\ Become(t, "deleted", "none") \/ Become(t, "found", "none")
    /\ UNCHANGED users

Next ==
    \E t \in Thread :
        \/ \E e \in Entry : Call(t, "add", e)
        \/ \E k \in Key, name \in {"del", "search"} : Call(t, name, k)
        \/ Add(t) \/ Delete(t) \/ DeleteMiss(t)
        \/ Found(t) \/ Absent(t) \/ Return(t)

Spec == Init /\ [][Next]_vars
============================================================================
