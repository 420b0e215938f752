--------------------------------- MODULE Ring ---------------------------------
(***************************************************************************)
(* The ring of nodes under change: nodes that start (Node.java             *)
(* discoverNameServer), leave (Node.java shutdown), crash, ping their two  *)
(* neighbours (PingNode.java) and handle each other's packets              *)
(* (N2NListener.java), with the name server that registers them and hands  *)
(* out their neighbours (NameServerController.java).                       *)
(*                                                                         *)
(* Packets are UDP datagrams: a set of messages in flight, delivered in    *)
(* any order, possibly lost.  The name server's operations are atomic here *)
(* (module NameServer shows how far they are).  A node's id stands for its *)
(* ip address too, since both are always set together.  Files are left     *)
(* out: the update threads, the failure agent and the replicas move no     *)
(* pointer.                                                                *)
(***************************************************************************)
EXTENDS RingOrder, FiniteSets

CONSTANTS
    MaxId,          \* the largest value Hashing.hash returns (32767)
    Node,           \* the ids of the nodes
    PingLimit,      \* unanswered pings that are tolerated (3)
    Calm,           \* the kinds of change that only happen in a quiet ring
    Prompt,         \* packets are delivered within the ping period
    Losable,        \* the types of packets that may be lost
    MaxStarts, MaxLeaves, MaxCrashes, MaxLosses   \* bounds on the environment

Change == {"start", "leave", "crash"}
Type == {"Discovery", "Offer", "Denied", "ShutdownNext", "ShutdownPrev",
         "Failure", "Ping", "PingAck", "PingNack"}

ASSUME RingAssumption ==
    /\ MaxId \in Nat /\ Node \subseteq 0 .. MaxId
    /\ PingLimit \in Nat
    /\ Calm \subseteq Change /\ Prompt \in BOOLEAN /\ Losable \subseteq Type
    /\ {MaxStarts, MaxLeaves, MaxCrashes, MaxLosses} \subseteq Nat

VARIABLES
    status,         \* of each node's process
    next, prev,     \* nextNodeId and prevNodeId
    nextUn, prevUn, \* PingNode's counters of unanswered pings
    pinger,         \* the counter PingNode is about to check
    reg,            \* the nodes in the name server's map
    nsTask,         \* the new node whose previous node is still to be told
    msgs,           \* packets in flight
    spent           \* how often the environment has acted, for the bounds

pointers == <<next, prev>>
counters == <<nextUn, prevUn>>
nodeVars == <<status, pointers, counters, pinger>>
vars     == <<nodeVars, reg, nsTask, msgs, spent>>

NS == NoNode        \* the name server's address

(***************************************************************************)
(* "joining" and "leaving" nodes run but have setUpComplete = false.       *)
(***************************************************************************)
Status  == {"off", "joining", "up", "leaving", "gone"}
Running == {i \in Node : status[i] \in {"joining", "up", "leaving"}}
Up      == {i \in Node : status[i] = "up"}

Message == [type : Type, to : Node \union {NS}, from : Node \union {NS},
            x : Node \union {NoNode}, y : Node \union {NoNode}]

Msg(type, to, from, x, y) ==
    [type |-> type, to |-> to, from |-> from, x |-> x, y |-> y]
Signal(type, to, from) == Msg(type, to, from, NoNode, NoNode)

TypeOK ==
    /\ status \in [Node -> Status]
    /\ next \in [Node -> Node] /\ prev \in [Node -> Node]
    /\ nextUn \in [Node -> 0 .. PingLimit + 1]
    /\ prevUn \in [Node -> 0 .. PingLimit + 1]
    /\ pinger \in [Node -> {"sleep", "next", "prev"}]
    /\ reg \subseteq Node
    /\ nsTask \in Node \union {NoNode}
    /\ msgs \subseteq Message
    /\ spent \in [starts : 0 .. MaxStarts, leaves : 0 .. MaxLeaves,
                  crashes : 0 .. MaxCrashes, losses : 0 .. MaxLosses]

Init ==
    /\ status = [i \in Node |-> "off"]
    /\ next = [i \in Node |-> i] /\ prev = [i \in Node |-> i]
    /\ nextUn = [i \in Node |-> 0] /\ prevUn = [i \in Node |-> 0]
    /\ pinger = [i \in Node |-> "sleep"]
    /\ reg = {} /\ nsTask = NoNode /\ msgs = {}
    /\ spent = [starts |-> 0, leaves |-> 0, crashes |-> 0, losses |-> 0]

Quiet ==
    /\ msgs = {} /\ nsTask = NoNode
    /\ \A i \in Node : status[i] \notin {"joining", "leaving"} /\ pinger[i] = "sleep"

May(change) == change \in Calm => Quiet

-------------------------------------------------------------------------------
(***************************************************************************)
(* A process ends: what it knew is forgotten.                              *)
(***************************************************************************)
Stop(i) ==
    /\ status' = [status EXCEPT ![i] = "gone"]
    /\ next' = [next EXCEPT ![i] = i] /\ prev' = [prev EXCEPT ![i] = i]
    /\ nextUn' = [nextUn EXCEPT ![i] = 0] /\ prevUn' = [prevUn EXCEPT ![i] = 0]
    /\ pinger' = [pinger EXCEPT ![i] = "sleep"]

Point(i, n, p) ==
    /\ next' = [next EXCEPT ![i] = n]
    /\ prev' = [prev EXCEPT ![i] = p]

Takes(m, replies) == m \in msgs /\ msgs' = (msgs \ {m}) \union replies

\* Bug in failNode: the neighbours are told, the node stays.
FailNodeKept(n) ==
    /\ reg' = reg
    /\ msgs' = msgs \union {Msg("Failure", i, NS, n, NoNode) : i \in Running}

(***************************************************************************)
(* failNode at the name server: registered nodes are removed and their     *)
(* neighbours told; a report about any other id is broadcast.              *)
(***************************************************************************)
FailNode(n) ==
    LET left == reg \ {n}
        told == IF n \notin reg THEN Running
                ELSE IF left = {} THEN {} ELSE {GetNextNode(left, n), GetPrevNode(left, n)}
    IN  /\ reg' = left
        /\ msgs' = msgs \union {Msg("Failure", i, NS, n, NoNode) : i \in told}

-------------------------------------------------------------------------------
(***************************************************************************)
(* discoverNameServer: the broadcast, repeated when no answer has come.    *)
(***************************************************************************)
Broadcast(i) == {Signal("Discovery", k, i) : k \in (Running \ {i}) \union {NS}}

Start(i) ==
    /\ May("start")
    /\ status[i] \in {"off", "gone"}
    /\ spent.starts < MaxStarts
    /\ spent' = [spent EXCEPT !.starts = @ + 1]
    /\ status' = [status EXCEPT ![i] = "joining"]
    /\ msgs' = msgs \union Broadcast(i)
    /\ UNCHANGED <<pointers, counters, pinger, reg, nsTask>>

Resend(i) ==
    /\ status[i] = "joining"
    /\ Prompt => msgs = {} /\ nsTask = NoNode
    /\ msgs' = msgs \union Broadcast(i)
    /\ UNCHANGED <<nodeVars, reg, nsTask, spent>>

(***************************************************************************)
(* DiscoveryHandler: a node that is registered already is refused.         *)
(***************************************************************************)
Register(m) ==
    LET i == m.from
    IN  /\ m.type = "Discovery" /\ m.to = NS
        /\ nsTask = NoNode
        /\ IF i \in reg
           THEN /\ Takes(m, {Signal("Denied", i, NS)})
                /\ UNCHANGED <<reg, nsTask>>
           ELSE /\ reg' = reg \union {i}
                /\ nsTask' = i
                /\ Takes(m, {Msg("Offer", i, NS, GetNextNode(reg', i), GetPrevNode(reg', i))})
        /\ UNCHANGED <<nodeVars, spent>>

(***************************************************************************)
(* The POST to the new node's previous node.  When nobody answers there,   *)
(* that node is failed.                                                    *)
(***************************************************************************)
TellPrevious ==
    LET p == GetPrevNode(reg, nsTask)
    IN  /\ nsTask # NoNode
        /\ nsTask' = NoNode
        /\ IF p \in Running THEN UNCHANGED <<reg, msgs>> ELSE FailNode(p)
        /\ UNCHANGED <<nodeVars, spent>>

RecvOffer(m) ==
    LET i == m.to
    IN  /\ m.type = "Offer" /\ status[i] = "joining"
        /\ Takes(m, {})
        /\ status' = [status EXCEPT ![i] = "up"]
        /\ Point(i, m.x, m.y)
        /\ UNCHANGED <<counters, pinger, reg, nsTask, spent>>

RecvDenied(m) ==
    /\ m.type = "Denied" /\ status[m.to] = "joining"
    /\ Takes(m, {})
    /\ Stop(m.to)
    /\ UNCHANGED <<reg, nsTask, spent>>

(***************************************************************************)
(* shutdown: deregister, then tell the two neighbours.                     *)
(***************************************************************************)
Leave(i) ==
    /\ May("leave")
    /\ status[i] = "up"
    /\ spent.leaves < MaxLeaves
    /\ spent' = [spent EXCEPT !.leaves = @ + 1]
    /\ status' = [status EXCEPT ![i] = "leaving"]
    /\ reg' = reg \ {i}
    /\ UNCHANGED <<pointers, counters, pinger, nsTask, msgs>>

\* Bug in shutdown: the two packets are swapped.
SendShutdownSwapped(i) ==
    /\ status[i] = "leaving"
    /\ msgs' = msgs \union {Msg("ShutdownNext", next[i], i, next[i], NoNode),
                            Msg("ShutdownPrev", prev[i], i, prev[i], NoNode)}
    /\ Stop(i)
    /\ UNCHANGED <<reg, nsTask, spent>>

SendShutdown(i) ==
    /\ status[i] = "leaving"
    /\ msgs' = msgs \union {Msg("ShutdownNext", prev[i], i, next[i], NoNode),
                            Msg("ShutdownPrev", next[i], i, prev[i], NoNode)}
    /\ Stop(i)
    /\ UNCHANGED <<reg, nsTask, spent>>

Crash(i) ==
    /\ May("crash")
    /\ i \in Running
    /\ spent.crashes < MaxCrashes
    /\ spent' = [spent EXCEPT !.crashes = @ + 1]
    /\ Stop(i)
    /\ UNCHANGED <<reg, nsTask, msgs>>

-------------------------------------------------------------------------------
(***************************************************************************)
(* The listener of a node that is set up.  Every handler that asks the     *)
(* name server for its own configuration keeps its pointers when it is not *)
(* registered (the answer has no neighbours in it).                        *)
(***************************************************************************)
Refresh(i) ==
    IF i \in reg THEN Point(i, GetNextNode(reg, i), GetPrevNode(reg, i))
                 ELSE UNCHANGED pointers

ResetBoth(i) ==
    /\ nextUn' = [nextUn EXCEPT ![i] = 0]
    /\ prevUn' = [prevUn EXCEPT ![i] = 0]

\* Bug in pingAckHandler: "else if", so that a node that is both neighbours
\* resets one counter only.
ResetForOne(i, id) ==
    /\ nextUn' = IF id = next[i] THEN [nextUn EXCEPT ![i] = 0] ELSE nextUn
    /\ prevUn' = IF id # next[i] /\ id = prev[i] THEN [prevUn EXCEPT ![i] = 0] ELSE prevUn

ResetFor(i, id) ==
    /\ nextUn' = IF id = next[i] THEN [nextUn EXCEPT ![i] = 0] ELSE nextUn
    /\ prevUn' = IF id = prev[i] THEN [prevUn EXCEPT ![i] = 0] ELSE prevUn

Hears(m, type) == m.type = type /\ m.to \in Up

RecvDiscovery(m) ==
    LET i == m.to
    IN  /\ Hears(m, "Discovery")
        /\ Takes(m, {})
        /\ Point(i, NextOnDiscovery(i, prev[i], next[i], m.from),
                    PrevOnDiscovery(i, prev[i], next[i], m.from))
        /\ UNCHANGED <<status, counters, pinger, reg, nsTask, spent>>

Alone(i) == next[i] = i /\ prev[i] = i

RecvShutdown(m) ==
    LET i == m.to
    IN  /\ Hears(m, "ShutdownNext") \/ Hears(m, "ShutdownPrev")
        /\ Takes(m, {})
        /\ IF Alone(i) THEN UNCHANGED pointers
           ELSE IF m.type = "ShutdownNext" THEN Point(i, m.x, prev[i])
           ELSE Point(i, next[i], m.x)
        /\ UNCHANGED <<status, counters, pinger, reg, nsTask, spent>>

\* Bug in failureHandler: only the next node is looked at.
RecvFailureOfNext(m) ==
    LET i == m.to
    IN  /\ Hears(m, "Failure")
        /\ Takes(m, {})
        /\ IF m.x = next[i] THEN Refresh(i) ELSE UNCHANGED pointers
        /\ ResetBoth(i)
        /\ UNCHANGED <<status, pinger, reg, nsTask, spent>>

RecvFailure(m) ==
    LET i == m.to
    IN  /\ Hears(m, "Failure")
        /\ Takes(m, {})
        /\ IF m.x \in {next[i], prev[i]} THEN Refresh(i) ELSE UNCHANGED pointers
        /\ ResetBoth(i)
        /\ UNCHANGED <<status, pinger, reg, nsTask, spent>>

\* Bug in pingHandler: a stranger is answered, and nothing else.
RecvPingUnmoved(m) ==
    LET i == m.to
    IN  /\ Hears(m, "Ping")
        /\ Takes(m, {Signal(IF m.from \in {next[i], prev[i]} THEN "PingAck" ELSE "PingNack",
                            m.from, i)})
        /\ UNCHANGED <<status, pointers, counters, pinger, reg, nsTask, spent>>

RecvPing(m) ==
    LET i == m.to
    IN  /\ Hears(m, "Ping")
        /\ IF m.from \in {next[i], prev[i]}
           THEN /\ Takes(m, {Signal("PingAck", m.from, i)})
                /\ UNCHANGED pointers
           ELSE /\ Takes(m, {Signal("PingNack", m.from, i)})
                /\ Refresh(i)
        /\ UNCHANGED <<status, counters, pinger, reg, nsTask, spent>>

RecvPingAck(m) ==
    /\ Hears(m, "PingAck")
    /\ Takes(m, {})
    /\ ResetFor(m.to, m.from)
    /\ UNCHANGED <<status, pointers, pinger, reg, nsTask, spent>>

\* Bug in pingNackHandler: the 404 is not looked at.
RecvPingNackUnread(m) ==
    /\ Hears(m, "PingNack")
    /\ Takes(m, {})
    /\ Refresh(m.to) /\ ResetFor(m.to, m.from)
    /\ UNCHANGED <<status, pinger, reg, nsTask, spent>>

(***************************************************************************)
(* pingNackHandler: a node that is not registered exits.                   *)
(***************************************************************************)
RecvPingNack(m) ==
    LET i == m.to
    IN  /\ Hears(m, "PingNack")
        /\ Takes(m, {})
        /\ IF i \notin reg THEN Stop(i)
           ELSE Refresh(i) /\ ResetFor(i, m.from) /\ UNCHANGED <<status, pinger>>
        /\ UNCHANGED <<reg, nsTask, spent>>

(***************************************************************************)
(* A packet that reaches a node that is not set up, or no process at all.  *)
(***************************************************************************)
Expected(m) == IF m.type \in {"Offer", "Denied"} THEN status[m.to] = "joining"
                                                 ELSE m.to \in Up

Ignore(m) ==
    /\ m.to # NS /\ ~ Expected(m)
    /\ Takes(m, {})
    /\ UNCHANGED <<nodeVars, reg, nsTask, spent>>

Lose(m) ==
    /\ spent.losses < MaxLosses /\ m.type \in Losable
    /\ spent' = [spent EXCEPT !.losses = @ + 1]
    /\ Takes(m, {})
    /\ UNCHANGED <<nodeVars, reg, nsTask>>

-------------------------------------------------------------------------------
(***************************************************************************)
(* PingNode.run, every five seconds: ping both neighbours and count, then  *)
(* report each neighbour whose count is over the limit.  The pings go to   *)
(* the addresses the pointers have when they are sent; a report is         *)
(* failNode at the name server, for the id the pointer has by then.        *)
(* A reset that races with an increment may be lost, which is what losing  *)
(* the packet that caused it comes to.                                     *)
(***************************************************************************)
Bump(n) == IF n > PingLimit THEN n ELSE n + 1

SendPings(i) ==
    /\ i \in Up /\ pinger[i] = "sleep"
    /\ Prompt => Quiet
    /\ nextUn' = [nextUn EXCEPT ![i] = Bump(@)]
    /\ prevUn' = [prevUn EXCEPT ![i] = Bump(@)]
    /\ pinger' = [pinger EXCEPT ![i] =
                    IF nextUn'[i] > PingLimit \/ prevUn'[i] > PingLimit THEN "next" ELSE "sleep"]
    /\ msgs' = msgs \union {Signal("Ping", k, i) : k \in {next[i], prev[i]}}
    /\ UNCHANGED <<status, pointers, reg, nsTask, spent>>

CheckNext(i) ==
    /\ pinger[i] = "next"
    /\ pinger' = [pinger EXCEPT ![i] = "prev"]
    /\ IF nextUn[i] > PingLimit THEN FailNode(next[i]) ELSE UNCHANGED <<reg, msgs>>
    /\ UNCHANGED <<status, pointers, counters, nsTask, spent>>

CheckPrev(i) ==
    /\ pinger[i] = "prev"
    /\ pinger' = [pinger EXCEPT ![i] = "sleep"]
    /\ IF prevUn[i] > PingLimit THEN FailNode(prev[i]) ELSE UNCHANGED <<reg, msgs>>
    /\ UNCHANGED <<status, pointers, counters, nsTask, spent>>

-------------------------------------------------------------------------------
Deliver(m) ==
    \/ Register(m) \/ RecvOffer(m) \/ RecvDenied(m) \/ RecvDiscovery(m)
    \/ RecvShutdown(m) \/ RecvFailure(m) \/ RecvPing(m) \/ RecvPingAck(m)
    \/ RecvPingNack(m) \/ Ignore(m)

Environment == \E i \in Node : Start(i) \/ Leave(i) \/ Crash(i)

Next ==
    \/ Environment
    \/ \E m \in msgs : Deliver(m) \/ Lose(m)
    \/ TellPrevious
    \/ \E i \in Node : Resend(i) \/ SendShutdown(i) \/ SendPings(i)
                       \/ CheckNext(i) \/ CheckPrev(i)

Spec == Init /\ [][Next]_vars

(***************************************************************************)
(* The listeners read their sockets, the name server's discovery thread    *)
(* goes on, a node that began to shut down or to broadcast carries on, and *)
(* every node that is up pings again and again (its timer does not depend  *)
(* on what the others do, hence SF: with Prompt the pings of another node  *)
(* disable it for a while).  Nodes need not start, leave or crash.         *)
(***************************************************************************)
Fairness ==
    /\ WF_vars(\E m \in msgs : Deliver(m))
    /\ WF_vars(TellPrevious)
    /\ \A i \in Node : WF_vars(Resend(i)) /\ WF_vars(SendShutdown(i))
                     /\ SF_vars(SendPings(i)) /\ WF_vars(CheckNext(i) \/ CheckPrev(i))

FairSpec == Spec /\ Fairness

-------------------------------------------------------------------------------
(***************************************************************************)
(* The pointers of a node are right for the ring the name server has.      *)
(***************************************************************************)
InPlace(i) == IsNext(reg, i, next[i]) /\ IsPrev(reg, i, prev[i])

(***************************************************************************)
(* When changes do not overlap and nothing but pings is lost, the ring is  *)
(* right again as soon as the packets of a change have been handled: the   *)
(* broadcasts, the offer and the two Shutdown packets together move every  *)
(* pointer that has to move (discoveryHandler, shutdownHandler), whatever  *)
(* order they arrive in, and the map holds exactly the nodes that are up.  *)
(***************************************************************************)
QuietRingIsClosed == Quiet => reg = Up /\ \A i \in Up : InPlace(i)

(***************************************************************************)
(* A node that is gone (crashed, or restarted too early and refused) does  *)
(* not stay in the map while a node is up that could notice                *)
(* ("This allows distributed detection of node failure", Node.java).       *)
(***************************************************************************)
Ghost(i) == i \in reg /\ status[i] = "gone"

CrashIsDetected == \A i \in Node : Ghost(i) /\ Up # {} ~> ~ Ghost(i) \/ Up = {}

(***************************************************************************)
(* After the last change the ring repairs itself: in the end every         *)
(* registered node that is up is in its place, because a ping from a node  *)
(* that is not a neighbour (pingHandler), its answer (pingNackHandler) and *)
(* a report (failureHandler) make a node fetch its configuration.          *)
(***************************************************************************)
RingHeals == <>[](\A i \in Up \cap reg : InPlace(i))

(***************************************************************************)
(* A node that has been reported although it is up does not go on beside   *)
(* the ring for ever: the next PingNack stops it (pingNackHandler).        *)
(***************************************************************************)
Outcast(i) == i \in Up \ reg /\ Up \cap reg # {}

OutcastsStop == \A i \in Node : Outcast(i) ~> ~ Outcast(i)

(***************************************************************************)
(* Pings get no node reported that is up ("Deletes the node that failed",  *)
(* NameServerController.failNode), as long as at most two answers in a row *)
(* are lost.                                                               *)
(***************************************************************************)
OnlyFailedAreReported ==
    [][\A i \in Node : CheckNext(i) \/ CheckPrev(i) => (reg \ reg') \cap Up = {}]_vars
===============================================================================
