----------------------------- MODULE OnlineList -----------------------------
(***************************************************************************)
(* project/linklist.c: the singly linked list of online users behind a     *)
(* sentinel node, shared by the handler threads of the server and by the   *)
(* threads of the client, at the level of its pointers.                    *)
(*                                                                         *)
(* The steps are the code's reads and writes of shared memory.  Those made *)
(* under the mutex are separate steps only where something reads without   *)
(* the mutex: the walk of show_list, and the `return phead->next' of       *)
(* search_list, which comes after its pthread_mutex_unlock.                *)
(*                                                                         *)
(* `chain' is a ghost: the linked nodes, oldest first, so that             *)
(* Sentinel -> chain[Len] -> ... -> chain[1] -> NULL.  No guard reads it.  *)
(***************************************************************************)
EXTENDS Naturals, Sequences

CONSTANTS
    Thread, NoThread,  \* the callers; the owner of a free mutex
    Node,              \* the addresses malloc may return (bounds the list)
    Sentinel, NULL,    \* the head node of Create_list; the null pointer
    Entry, NoEntry,    \* what callers add; the content of a freed node
    NoArg

ASSUME ThreadAssumption == NoThread \notin Thread
ASSUME NodeAssumption   == Sentinel # NULL /\ Sentinel \notin Node /\ NULL \notin Node
ASSUME EntryAssumption  == NoEntry \notin Entry

VARIABLES
    mutex,   \* the owner of the mutex
    next,    \* next[n]: the field of that name
    val,     \* val[n]: the other fields of a node
    heap,    \* the allocated nodes
    pc,      \* pc[t]: where thread t is
    arg,     \* arg[t]: ptemp, or the pair (fd_id, flag)
    phead,   \* phead[t]: the cursor of a walk
    pnode,   \* pnode[t]: the node being added or freed; the node returned
    chain    \* ghost

vars == <<mutex, next, val, heap, pc, arg, phead, pnode, chain>>

(* The abstract state: the contents of the chain, and how far a call that  *)
(* is at pc value p has come.  show_list is not part of the contract.      *)
Contents == [i \in 1 .. Len(chain) |-> val[chain[i]]]

Phase(p) ==
    CASE p = "add_link"    -> "add"
      [] p = "del_walk"    -> "del"
      [] p = "del_free"    -> "deleted"
      [] p = "srch_walk"   -> "search"
      [] p = "srch_return" -> "found"
      [] OTHER             -> "none"

AbsOp == [t \in Thread |-> Phase(pc[t])]

Abs == INSTANCE OnlineUsers WITH users <- Contents, op <- AbsOp

Key == Abs!Key
Matches(n, k) == Abs!Matches(val[n], k)

Locked == {"add_link", "del_walk", "del_free", "srch_walk"}
Walking == {"del_walk", "srch_walk"}
PC == Locked \cup {"idle", "srch_return", "show_walk"}

(* What a read of n->next may return: of a freed node, anything the        *)
(* allocator or the memory's next owner has left there.                    *)
ReadNext(n) == IF n = Sentinel \/ n \in heap THEN {next[n]} ELSE Node \cup {NULL}
----------------------------------------------------------------------------
(* POnline = Create_list(NULL): the sentinel alone.                        *)
Init ==
    /\ mutex = NoThread
    /\ next = [n \in Node \cup {Sentinel} |-> NULL]
    /\ val = [n \in Node |-> NoEntry]
    /\ heap = {}
    /\ pc = [t \in Thread |-> "idle"]
    /\ arg = [t \in Thread |-> NoArg]
    /\ phead = [t \in Thread |-> Sentinel]
    /\ pnode = [t \in Thread |-> NULL]
    /\ chain = << >>

Goto(t, from, to) == pc[t] = from /\ pc' = [pc EXCEPT ![t] = to]

EnterUnlocked(t, to, a) ==   \* mutant: the lock is not waited for
    /\ Goto(t, "idle", to)
    /\ mutex' = t
    /\ arg' = [arg EXCEPT ![t] = a]

(* pthread_mutex_lock, as the first statement of a call.                   *)
Enter(t, to, a) ==
    /\ Goto(t, "idle", to)
    /\ mutex = NoThread
    /\ mutex' = t
    /\ arg' = [arg EXCEPT ![t] = a]

Unlock == mutex' = NoThread

(* A call returns, and its locals are gone.                                *)
Leave(t, from) ==
    /\ pc[t] \in from
    /\ pc' = [pc EXCEPT ![t] = "idle"]
    /\ arg' = [arg EXCEPT ![t] = NoArg]
    /\ phead' = [phead EXCEPT ![t] = Sentinel]

(* add_list: lock, malloc, *pnode = *ptemp.                                *)
AddEnter(t, e) ==
    /\ Enter(t, "add_link", e)
    /\ \E n \in Node \ heap :
          /\ heap' = heap \cup {n}
          /\ val' = [val EXCEPT ![n] = e]
          /\ pnode' = [pnode EXCEPT ![t] = n]
    /\ UNCHANGED <<next, phead, chain>>

AddLinkTail(t) ==   \* mutant: pnode->next is left NULL
    /\ Leave(t, {"add_link"})
    /\ next' = [next EXCEPT ![Sentinel] = pnode[t]]
    /\ chain' = Append(chain, pnode[t])
    /\ pnode' = [pnode EXCEPT ![t] = NULL]
    /\ Unlock
    /\ UNCHANGED <<val, heap>>

AddLink(t) ==
    /\ Leave(t, {"add_link"})
    /\ next' = [next EXCEPT ![pnode[t]] = next[Sentinel], ![Sentinel] = pnode[t]]
    /\ chain' = Append(chain, pnode[t])
    /\ pnode' = [pnode EXCEPT ![t] = NULL]
    /\ Unlock
    /\ UNCHANGED <<val, heap>>

(* del_list and search_list: lock; the cursor is on the sentinel.          *)
WalkEnter(t, to, k) ==
    /\ Enter(t, to, k)
    /\ phead' = [phead EXCEPT ![t] = Sentinel]
    /\ pnode' = [pnode EXCEPT ![t] = NULL]
    /\ UNCHANGED <<next, val, heap, chain>>

WalkStepFirst(t) ==   \* mutant: the comparison is left out of the loop
    /\ pc[t] \in Walking
    /\ \E n \in ReadNext(phead[t]) :
          /\ n # NULL
          /\ phead' = [phead EXCEPT ![t] = n]
    /\ UNCHANGED <<mutex, next, val, heap, pc, arg, pnode, chain>>

(* The else branch of both loops: phead = phead->next.                     *)
WalkStep(t) ==
    /\ pc[t] \in Walking
    /\ \E n \in ReadNext(phead[t]) :
          /\ n # NULL /\ ~Matches(n, arg[t])
          /\ phead' = [phead EXCEPT ![t] = n]
    /\ UNCHANGED <<mutex, next, val, heap, pc, arg, pnode, chain>>

(* The loop ran to the end: unlock, and search_list returns NULL.          *)
WalkMiss(t) ==
    /\ Leave(t, Walking)
    /\ NULL \in ReadNext(phead[t])
    /\ Unlock
    /\ UNCHANGED <<next, val, heap, pnode, chain>>

(* p = phead->next; phead->next = phead->next->next.                       *)
DelUnlink(t) ==
    /\ Goto(t, "del_walk", "del_free")
    /\ \E n \in ReadNext(phead[t]) :
          /\ n # NULL /\ Matches(n, arg[t])
          /\ next' = [next EXCEPT ![phead[t]] = next[n]]
          /\ pnode' = [pnode EXCEPT ![t] = n]
          /\ chain' = Abs!Without(chain, CHOOSE i \in DOMAIN chain : chain[i] = n)
    /\ UNCHANGED <<mutex, val, heap, arg, phead>>

DelFreeNot(t) ==   \* mutant: break before free(p)
    /\ Leave(t, {"del_free"})
    /\ pnode' = [pnode EXCEPT ![t] = NULL]
    /\ Unlock
    /\ UNCHANGED <<next, val, heap, chain>>

DelFreeHeld(t) ==   \* mutant: a return inside the loop, with the lock held
    /\ Leave(t, {"del_free"})
    /\ heap' = heap \ {pnode[t]}
    /\ next' = [next EXCEPT ![pnode[t]] = NULL]
    /\ val' = [val EXCEPT ![pnode[t]] = NoEntry]
    /\ pnode' = [pnode EXCEPT ![t] = NULL]
    /\ UNCHANGED <<mutex, chain>>

(* free(p), break, unlock.                                                 *)
DelFree(t) ==
    /\ Leave(t, {"del_free"})
    /\ heap' = heap \ {pnode[t]}
    /\ next' = [next EXCEPT ![pnode[t]] = NULL]
    /\ val' = [val EXCEPT ![pnode[t]] = NoEntry]
    /\ pnode' = [pnode EXCEPT ![t] = NULL]
    /\ Unlock
    /\ UNCHANGED chain

(* search_list has compared phead->next, and unlocks...                    *)
SearchMatch(t) ==
    /\ Goto(t, "srch_walk", "srch_return")
    /\ \E n \in ReadNext(phead[t]) : n # NULL /\ Matches(n, arg[t])
    /\ Unlock
    /\ UNCHANGED <<next, val, heap, arg, phead, pnode, chain>>

(* ... and only then evaluates phead->next again, to return it.            *)
SearchReturn(t) ==
    /\ Leave(t, {"srch_return"})
    /\ \E n \in ReadNext(phead[t]) : pnode' = [pnode EXCEPT ![t] = n]
    /\ UNCHANGED <<mutex, next, val, heap, chain>>

(* show_list takes no lock; a login or an offline handler calls it.        *)
ShowEnter(t) ==
    /\ Goto(t, "idle", "show_walk")
    /\ pnode' = [pnode EXCEPT ![t] = NULL]
    /\ phead' = [phead EXCEPT ![t] = Sentinel]
    /\ UNCHANGED <<mutex, next, val, heap, arg, chain>>

ShowStep(t) ==
    /\ pc[t] = "show_walk"
    /\ \E n \in ReadNext(phead[t]) :
          \/ /\ n # NULL
             /\ phead' = [phead EXCEPT ![t] = n]
             /\ UNCHANGED pc
          \/ /\ n = NULL
             /\ Goto(t, "show_walk", "idle")
             /\ phead' = [phead EXCEPT ![t] = Sentinel]
    /\ UNCHANGED <<mutex, next, val, heap, arg, pnode, chain>>

Start(t) ==
    \/ \E e \in Entry : AddEnter(t, e)
    \/ \E k \in Key, to \in Walking : WalkEnter(t, to, k)
    \/ ShowEnter(t)

(* The rest of a call.                                                     *)
Run(t) ==
    \/ AddLink(t) \/ DelUnlink(t) \/ DelFree(t)
    \/ WalkStep(t) \/ WalkMiss(t) \/ SearchMatch(t) \/ SearchReturn(t)
    \/ ShowStep(t)

Next == \E t \in Thread : Start(t) \/ Run(t)

Spec == Init /\ [][Next]_vars

(* A thread inside a call is scheduled again.  Nothing makes a thread call *)
(* the list, nor obtain a contended mutex.                                 *)
FairSpec == Spec /\ \A t \in Thread : WF_vars(Run(t))
----------------------------------------------------------------------------
Linked == {chain[i] : i \in 1 .. Len(chain)}

(* The node a call owns: allocated and not yet linked, or unlinked and not *)
(* yet freed.                                                              *)
Owned == {pnode[t] : t \in {u \in Thread : pc[u] \in {"add_link", "del_free"}}}

(* The values of the variables, and the mutex held exactly by the thread   *)
(* between pthread_mutex_lock and pthread_mutex_unlock.                    *)
TypeOK ==
    /\ mutex \in Thread \cup {NoThread}
    /\ next \in [Node \cup {Sentinel} -> Node \cup {NULL}]
    /\ val \in [Node -> Entry \cup {NoEntry}]
    /\ heap \subseteq Node
    /\ pc \in [Thread -> PC]
    /\ arg \in [Thread -> Entry \cup Key \cup {NoArg}]
    /\ \A t \in Thread :
          /\ pc[t] = "add_link" => arg[t] \in Entry
          /\ pc[t] \in {"del_walk", "del_free", "srch_walk", "srch_return"} =>
                arg[t] \in Key
    /\ phead \in [Thread -> Node \cup {Sentinel}]
    /\ pnode \in [Thread -> Node \cup {NULL}]
    /\ chain \in Seq(Node)
    /\ \A t \in Thread : mutex = t <=> pc[t] \in Locked

(* Following next from the sentinel visits the linked nodes from the       *)
(* newest to the oldest, each once, and ends: whatever calls interleave,   *)
(* add_list and del_list neither lose an entry nor close a cycle.          *)
ListWellFormed ==
    /\ \A i, j \in 1 .. Len(chain) : chain[i] = chain[j] => i = j
    /\ next[Sentinel] = IF chain = << >> THEN NULL ELSE chain[Len(chain)]
    /\ \A i \in 1 .. Len(chain) :
          next[chain[i]] = IF i = 1 THEN NULL ELSE chain[i - 1]

(* Every allocated node is linked or owned by one running call, and every  *)
(* linked or owned node is allocated: add_list and del_list leak nothing   *)
(* and free nothing twice.                                                 *)
MemoryAccounted ==
    /\ heap = Linked \cup Owned
    /\ Linked \cap Owned = {}

(* A walk of del_list or search_list never stands on a freed or unlinked   *)
(* node: what it reads and overwrites is the list.                         *)
LockedWalkSafe ==
    \A t \in Thread :
        pc[t] \in Walking => phead[t] \in {Sentinel} \cup Linked

(* The list behaves as one sequence of entries on which each call acts at  *)
(* one instant: a delete takes away the newest match and only it, and a    *)
(* call that reports no match is right at that instant.                    *)
ImplementsOnlineUsers == Abs!Spec

(* Every call that takes the mutex releases it.                            *)
MutexReleased == \A t \in Thread : mutex = t ~> mutex # t

(* What login_action takes for granted of a friend that search_list finds  *)
(* (server_action.c:116-119), and the error path of Read_server and        *)
(* Write_server of the descriptor it looks up (server_action.c:189-191):   *)
(* the node that search_list returns is in the list and matches.           *)
SearchReturnsMatch ==
    [][\A t \in Thread : SearchReturn(t) =>
          /\ pnode'[t] \in heap
          /\ Matches(pnode'[t], arg[t])]_vars
============================================================================
