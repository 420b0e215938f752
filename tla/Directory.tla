------------------------------ MODULE Directory -------------------------------
(***************************************************************************)
(* What the name server promises its callers: a directory of registered    *)
(* nodes on which every operation takes effect at one instant between the  *)
(* moment it is asked for and the moment it is answered.  NameServer, with *)
(* its lock, its nested calls and its multi-step readers, implements it    *)
(* (NameServerDirectory).                                                  *)
(*                                                                         *)
(* A crash forgets the operations under way.  It takes nothing else with   *)
(* it unless a change was being written to the file: then the directory is *)
(* the one last saved, or empty.                                           *)
(***************************************************************************)
EXTENDS RingOrder, FiniteSets

CONSTANTS
    NodeId,      \* the ids nodes can have
    Addr, NoAddr,
    Client,      \* who may have one operation under way each
    AskedId      \* the ids operations are asked for

VARIABLES
    nodes,       \* the address of every registered node
    call,        \* the operation a client has under way, or None
    answer,      \* the result of its last one
    unsaved,     \* the clients whose change is still being written
    saved        \* the directory as last saved

vars == <<nodes, call, answer, unsaved, saved>>

Call == [op : {"add", "update", "remove", "config", "owner", "status"},
         id : AskedId, addr : Addr]
None == [op |-> "none"]

Result(kind, x, y) == [is |-> kind, x |-> x, y |-> y]
NoResult == Result("none", 0, 0)
Pending  == Result("pending", 0, 0)

Members == {i \in NodeId : nodes[i] # NoAddr}

Init ==
    /\ nodes \in [NodeId -> Addr \union {NoAddr}]
    /\ call = [c \in Client |-> None]
    /\ answer = [c \in Client |-> NoResult]
    /\ unsaved = {} /\ saved = nodes

Ask(c) ==
    /\ call[c] = None /\ c \notin unsaved
    /\ \E k \in Call : call' = [call EXCEPT ![c] = k]
    /\ answer' = [answer EXCEPT ![c] = Pending]
    /\ UNCHANGED <<nodes, unsaved, saved>>

(***************************************************************************)
(* The instant at which the operation under way takes effect.              *)
(***************************************************************************)
Takes(c, op, result) ==
    /\ call[c].op = op
    /\ call' = [call EXCEPT ![c] = None]
    /\ answer' = [answer EXCEPT ![c] = result]

Alter(c, op, address) ==
    /\ Takes(c, op, Result("yes", 0, 0))
    /\ nodes' = [nodes EXCEPT ![call[c].id] = address]
    /\ unsaved' = unsaved \union {c}
    /\ UNCHANGED saved

Query(c, op, result) == Takes(c, op, result) /\ UNCHANGED <<nodes, unsaved, saved>>

Add(c)    == call[c].id \notin Members /\ Alter(c, "add", call[c].addr)
Update(c) == call[c].id \in Members /\ Alter(c, "update", call[c].addr)
Remove(c) == call[c].id \in Members /\ Alter(c, "remove", NoAddr)

Reject(c) ==
    \/ call[c].id \in Members /\ Query(c, "add", Result("no", 0, 0))
    \/ /\ call[c].id \notin Members
       /\ \E op \in {"update", "remove", "config"} : Query(c, op, Result("no", 0, 0))

Config(c) ==
    /\ call[c].id \in Members
    /\ Query(c, "config", Result("config", GetNextNode(Members, call[c].id),
                                           GetPrevNode(Members, call[c].id)))

Owner(c)  == Query(c, "owner", Result("owner", GetPrevNode(Members, call[c].id), 0))
Status(c) == Query(c, "status", Result("status", Cardinality(Members), Cardinality(Members)))

Saved(c) ==
    /\ c \in unsaved
    /\ unsaved' = unsaved \ {c}
    /\ saved' = nodes
    /\ UNCHANGED <<nodes, call, answer>>

Crash ==
    /\ IF unsaved = {} THEN nodes' = nodes ELSE nodes' \in {saved, [i \in NodeId |-> NoAddr]}
    /\ saved' = nodes'
    /\ call' = [c \in Client |-> None]
    /\ answer' = [c \in Client |-> NoResult]
    /\ unsaved' = {}

Effect(c) ==
    /\ call[c] # None
    /\ Add(c) \/ Update(c) \/ Remove(c) \/ Reject(c) \/ Config(c) \/ Owner(c) \/ Status(c)

Next == (\E c \in Client : Ask(c) \/ Effect(c) \/ Saved(c)) \/ Crash

Spec == Init /\ [][Next]_vars
===============================================================================
