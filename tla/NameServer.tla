------------------------------ MODULE NameServer ------------------------------
(***************************************************************************)
(* The name server: the map of registered nodes (NameServer.java), the     *)
(* REST handlers that read and change it (NameServerController.java) and   *)
(* the DiscoveryHandler thread that registers joining nodes.               *)
(*                                                                         *)
(* Every handler runs in a thread of its own and synchronises with the     *)
(* others through one ReentrantReadWriteLock.  pc[t] is where thread t is: *)
(* a label is a call of lock() or a stretch of code between two points at  *)
(* which another thread can see or disturb something.  The map is saved in *)
(* a file that is truncated and written again; the process may crash at    *)
(* any label and load what the file then holds.                            *)
(***************************************************************************)
EXTENDS RingOrder, Sequences, FiniteSets

CONSTANTS
    MaxId,           \* the largest value Hashing.hash returns (32767)
    NodeId,          \* hashes of the names of the nodes
    Addr,            \* their ip addresses
    NoAddr,          \* no address: the id is not registered
    Worker,          \* the threads of the web server
    Disc,            \* the DiscoveryHandler thread
    Requests,        \* the requests the workers may be sent
    Arrivals,        \* the discovery broadcasts that may arrive
    Dead,            \* nodes whose machine is gone, registered or not
    InitMap,         \* the map found in the file at the start
    MaxCalls,        \* bound: requests and broadcasts handled
    MaxCrashes       \* bound: crashes of the name server

Thread == Worker \union {Disc}

AddOps    == {"post", "discover", "putAdd"}   \* callers of addNode
DeleteOps == {"delete", "fail"}               \* callers of deleteNode
Op == AddOps \union DeleteOps \union {"put", "get", "file", "lookup", "scan", "idle"}

Request == [op : Op, id : Int, addr : Addr]
Map     == [NodeId -> Addr \union {NoAddr}]

Label == {"idle", "outerW", "callW", "body", "save", "ret", "offerR", "jsonR",
          "jsonCheck", "jsonPrev", "offer", "postR", "post",
          "prevR", "prev", "agentR", "agent", "fileR", "file", "scanR",
          "scanSize", "scanMap", "dead"}

Result(kind, x, y) == [is |-> kind, x |-> x, y |-> y]
Pending  == Result("pending", 0, 0)
Yes      == Result("yes", 0, 0)
No       == Result("no", 0, 0)
NoResult == Result("none", 0, 0)
ResultOf == [is : {"none", "pending", "yes", "no", "config", "owner", "status"},
             x : Int, y : Int]

ASSUME NameServerAssumption ==
    /\ MaxId \in Nat /\ NodeId \subseteq 0 .. MaxId
    /\ NoAddr \notin Addr /\ Addr # {}
    /\ Disc \notin Worker
    /\ Requests \subseteq [op : {"post", "put", "delete", "fail", "get", "file", "scan"},
                           id : Nat, addr : Addr]
    /\ Arrivals \subseteq [op : {"discover"}, id : NodeId, addr : Addr]
    /\ \A r \in Requests : r.op \in {"post", "put"} => r.id \in NodeId
    /\ InitMap \in Map
    /\ MaxCalls \in Nat /\ MaxCrashes \in Nat

VARIABLES
    map,             \* ipMapping
    disk, torn,      \* nameServerMap.json as last written; torn: truncated since then
    wholds, rholds,  \* write and read holds of each thread on ipMapLock
    queue,           \* the threads parked in ipMapLock, first come first served
    pc, req,         \* where each thread is and in which request
    out,             \* what its handler has read so far
    res,             \* its result
    remote,          \* the node that DiscoveryHandler asked to move its files
    calls, crashes   \* counted for the bounds

locks == <<wholds, rholds, queue>>
store == <<map, disk, torn>>
bounds == <<calls, crashes>>
vars  == <<store, locks, pc, req, out, res, remote, bounds>>

Registered == {i \in NodeId : map[i] # NoAddr}

TypeOK ==
    /\ map \in Map /\ disk \in Map /\ torn \in BOOLEAN
    /\ wholds \in [Thread -> Nat] /\ rholds \in [Thread -> Nat]
    /\ queue \in Seq(Thread)
    /\ pc \in [Thread -> Label]
    /\ req \in [Thread -> Request]
    /\ out \in [Thread -> Int]
    /\ res \in [Thread -> ResultOf]
    /\ remote \in {"none", "asked", "serving", "served"}
    /\ calls \in 0 .. MaxCalls /\ crashes \in 0 .. MaxCrashes

NoRequest == [op |-> "idle", id |-> 0, addr |-> CHOOSE a \in Addr : TRUE]

Every(v) == [t \in Thread |-> v]

Init ==
    /\ map = InitMap /\ disk = InitMap /\ torn = FALSE
    /\ wholds = Every(0) /\ rholds = Every(0) /\ queue = <<>>
    /\ pc = Every("idle") /\ req = Every(NoRequest)
    /\ out = Every(0) /\ res = Every(NoResult)
    /\ remote = "none"
    /\ calls = 0 /\ crashes = 0

-------------------------------------------------------------------------------
(***************************************************************************)
(* ReentrantReadWriteLock (java.util.concurrent, not fair).  A thread that *)
(* finds the lock free takes it even when others are parked, except that a *)
(* new reader parks behind a parked writer; a parked thread is granted the *)
(* lock when it has come to the head of the queue.                         *)
(***************************************************************************)
WantsWrite(t) == pc[t] \in {"outerW", "callW"}

FreeForWrite(t) ==
    /\ \A u \in Thread \ {t} : wholds[u] = 0 /\ rholds[u] = 0
    /\ wholds[t] > 0 \/ rholds[t] = 0

FreeForRead(t) == \A u \in Thread \ {t} : wholds[u] = 0

Parked(t) == \E k \in 1 .. Len(queue) : queue[k] = t

MustPark(t) ==          \* apparentlyFirstQueuedIsExclusive
    /\ queue # <<>> /\ WantsWrite(Head(queue))
    /\ wholds[t] = 0 /\ rholds[t] = 0

Dequeued(t) == IF Parked(t) THEN Tail(queue) ELSE queue

Goto(t, label) == pc' = [pc EXCEPT ![t] = label]

TakeWrite(t, label) ==
    /\ FreeForWrite(t)
    /\ Parked(t) => Head(queue) = t
    /\ wholds' = [wholds EXCEPT ![t] = @ + 1]
    /\ queue' = Dequeued(t)
    /\ Goto(t, label)
    /\ UNCHANGED rholds

TakeRead(t, label) ==
    /\ FreeForRead(t)
    /\ IF Parked(t) THEN Head(queue) = t ELSE ~ MustPark(t)
    /\ rholds' = [rholds EXCEPT ![t] = @ + 1]
    /\ queue' = Dequeued(t)
    /\ Goto(t, label)
    /\ UNCHANGED wholds

Park(t) ==
    /\ ~ Parked(t)
    /\ queue' = Append(queue, t)
    /\ UNCHANGED <<wholds, rholds, pc>>

LockWrite(t, label) == TakeWrite(t, label) \/ (~ FreeForWrite(t) /\ Park(t))
LockRead(t, label)  == TakeRead(t, label)
                         \/ ((~ FreeForRead(t) \/ MustPark(t)) /\ Park(t))

UnlockWrite(t) == wholds' = [wholds EXCEPT ![t] = @ - 1] /\ UNCHANGED <<rholds, queue>>
UnlockRead(t)  == rholds' = [rholds EXCEPT ![t] = @ - 1] /\ UNCHANGED <<wholds, queue>>

Yields(t, r) == res' = [res EXCEPT ![t] = r]
Reads(t, v)  == out' = [out EXCEPT ![t] = v]

-------------------------------------------------------------------------------
(***************************************************************************)
(* A request reaches an idle worker.  The first label is the first lock()  *)
(* of the handler.                                                         *)
(***************************************************************************)
Entry(op) ==
    CASE op \in {"put", "post", "fail"} -> "outerW"
      [] op \in {"delete", "discover"}  -> "callW"
      [] op = "get"                     -> "jsonR"
      [] op \in {"file", "lookup"}      -> "fileR"
      [] op = "scan"                    -> "scanR"

Begin(t, r) ==
    /\ pc[t] = "idle"
    /\ Goto(t, Entry(r.op))
    /\ req' = [req EXCEPT ![t] = r]
    /\ Yields(t, Pending)
    /\ UNCHANGED <<store, locks, out, crashes>>

Receive(w) ==
    /\ calls < MaxCalls
    /\ \E r \in Requests : Begin(w, r)
    /\ calls' = calls + 1
    /\ UNCHANGED remote

(***************************************************************************)
(* run: a Discovery broadcast.  The thread is single: it receives the next *)
(* broadcast when it is done with this one.                                *)
(***************************************************************************)
ReceiveDiscovery ==
    /\ calls < MaxCalls
    /\ \E r \in Arrivals : Begin(Disc, r)
    /\ calls' = calls + 1
    /\ UNCHANGED remote

(***************************************************************************)
(* putNode, postNode and failNode take the write lock around their calls.  *)
(***************************************************************************)
LockOuter(t) ==
    /\ pc[t] = "outerW"
    /\ LockWrite(t, "callW")
    /\ UNCHANGED <<store, req, out, res, remote, bounds>>

(***************************************************************************)
(* addNode, updateNode, deleteNode: lock, look the id up, change the map,  *)
(* save it and unlock.                                                     *)
(***************************************************************************)
\* Bug: deleteNode takes the read lock instead of the write lock.
LockCallShared(t) ==
    /\ pc[t] = "callW"
    /\ IF req[t].op = "delete"
       THEN /\ \A u \in Thread \ {t} : wholds[u] = 0
            /\ wholds' = [wholds EXCEPT ![t] = @ + 1]
            /\ Goto(t, "body")
            /\ UNCHANGED <<rholds, queue>>
       ELSE LockWrite(t, "body")
    /\ UNCHANGED <<store, req, out, res, remote, bounds>>

LockCall(t) ==
    /\ pc[t] = "callW"
    /\ LockWrite(t, "body")
    /\ UNCHANGED <<store, req, out, res, remote, bounds>>

\* Bug: addNode without its containsKey check.
AcceptsTwice(r) == r.op \in AddOps \/ r.id \in Registered

Accepts(r) == (r.op \in AddOps) = (r.id \notin Registered)

Changed(r) == [map EXCEPT ![r.id] = IF r.op \in DeleteOps THEN NoAddr ELSE r.addr]

Refuse(t) ==
    /\ pc[t] = "body"
    /\ ~ Accepts(req[t])
    /\ UnlockWrite(t)
    /\ Goto(t, "ret")
    /\ Yields(t, No)
    /\ UNCHANGED <<store, req, out, remote, bounds>>

Change(t) ==
    /\ pc[t] = "body"
    /\ Accepts(req[t])
    /\ map' = Changed(req[t])
    /\ Goto(t, "save")
    /\ Yields(t, Yes)
    /\ UNCHANGED <<disk, torn, locks, req, out, remote, bounds>>

\* saveMapping: FileWriter opens the file and has it truncated ...
Truncate(t) ==
    /\ pc[t] = "save" /\ ~ torn
    /\ torn' = TRUE
    /\ UNCHANGED <<map, disk, locks, pc, req, out, res, remote, bounds>>

\* Bug: deleteNode without its saveMapping call.
SaveNotDeletions(t) ==
    /\ pc[t] = "save" /\ torn
    /\ disk' = IF req[t].op \in DeleteOps THEN disk ELSE map
    /\ torn' = FALSE
    /\ UnlockWrite(t)
    /\ Goto(t, "ret")
    /\ UNCHANGED <<map, req, out, res, remote, bounds>>

\* Bug: saveMapping never flushes its writer.
SaveUnflushed(t) ==
    /\ pc[t] = "save" /\ torn
    /\ UnlockWrite(t)
    /\ Goto(t, "ret")
    /\ UNCHANGED <<store, req, out, res, remote, bounds>>

\* ... and the new text is flushed to it.
Save(t) ==
    /\ pc[t] = "save" /\ torn
    /\ disk' = map
    /\ torn' = FALSE
    /\ UnlockWrite(t)
    /\ Goto(t, "ret")
    /\ UNCHANGED <<map, req, out, res, remote, bounds>>

(***************************************************************************)
(* The handlers after their call.  postNode does not unlock when the node  *)
(* was added.                                                              *)
(***************************************************************************)
PostAdded(t) ==
    /\ pc[t] = "ret" /\ req[t].op = "post" /\ res[t] = Yes
    /\ Goto(t, "idle")
    /\ UNCHANGED <<store, locks, req, out, res, remote, bounds>>

PostRefused(t) ==
    /\ pc[t] = "ret" /\ req[t].op = "post" /\ res[t] = No
    /\ UnlockWrite(t)
    /\ Goto(t, "idle")
    /\ UNCHANGED <<store, req, out, res, remote, bounds>>

(***************************************************************************)
(* putNode: when the node is not registered it unlocks, calls addNode and  *)
(* unlocks again, which throws unless the thread still holds the lock.     *)
(***************************************************************************)
PutUpdated(t) ==
    /\ pc[t] = "ret" /\ req[t].op = "put" /\ res[t] = Yes
    /\ UnlockWrite(t)
    /\ Goto(t, "idle")
    /\ UNCHANGED <<store, req, out, res, remote, bounds>>

PutCreates(t) ==
    /\ pc[t] = "ret" /\ req[t].op = "put" /\ res[t] = No
    /\ UnlockWrite(t)
    /\ Goto(t, "callW")
    /\ req' = [req EXCEPT ![t].op = "putAdd"]
    /\ Yields(t, Pending)
    /\ UNCHANGED <<store, out, remote, bounds>>

\* Bug: an unlock() that does not check who holds the lock.
PutAddedUnchecked(t) ==
    /\ pc[t] = "ret" /\ req[t].op = "putAdd"
    /\ UnlockWrite(t)
    /\ Goto(t, "idle")
    /\ UNCHANGED <<store, req, out, res, remote, bounds>>

PutAdded(t) ==
    /\ pc[t] = "ret" /\ req[t].op = "putAdd"
    /\ IF wholds[t] > 0 THEN UnlockWrite(t) ELSE UNCHANGED locks
    /\ Goto(t, "idle")
    /\ UNCHANGED <<store, req, out, res, remote, bounds>>

DeleteAnswered(t) ==
    /\ pc[t] = "ret" /\ req[t].op = "delete"
    /\ Goto(t, "idle")
    /\ UNCHANGED <<store, locks, req, out, res, remote, bounds>>

(***************************************************************************)
(* failNode sends its Failure packets (their receipt is in module Ring),   *)
(* unlocks and launches the failure agent.                                 *)
(***************************************************************************)
\* Bug: failNode returns to its caller without unlock().
NotifyLocked(t) ==
    /\ pc[t] = "ret" /\ req[t].op = "fail"
    /\ Goto(t, "idle")
    /\ UNCHANGED <<store, locks, req, out, res, remote, bounds>>

Notify(t) ==
    /\ pc[t] = "ret" /\ req[t].op = "fail"
    /\ UnlockWrite(t)
    /\ Goto(t, "agentR")
    /\ UNCHANGED <<store, req, out, res, remote, bounds>>

LockAgent(t) ==
    /\ pc[t] = "agentR"
    /\ LockRead(t, "agent")
    /\ UNCHANGED <<store, req, out, res, remote, bounds>>

(***************************************************************************)
(* launchFailureAgent: the POST to the next node is answered or fails.     *)
(***************************************************************************)
LaunchAgent(t) ==
    /\ pc[t] = "agent"
    /\ Reads(t, GetNextNode(Registered, req[t].id))
    /\ UnlockRead(t)
    /\ Goto(t, "idle")
    /\ UNCHANGED <<store, req, res, remote, bounds>>

-------------------------------------------------------------------------------
(***************************************************************************)
(* nodeToJson, called by getNode and, under a read lock of its own, by     *)
(* DiscoveryHandler.  When the node is not registered the exception        *)
(* releases one hold of the read lock; no one catches it in                *)
(* DiscoveryHandler, whose thread ends there.                              *)
(***************************************************************************)
\* Bug: the outer read lock of DiscoveryHandler is forgotten.
LockOfferNot ==
    /\ pc[Disc] = "offerR"
    /\ Goto(Disc, "jsonR")
    /\ UNCHANGED <<store, locks, req, out, res, remote, bounds>>


LockOffer ==
    /\ pc[Disc] = "offerR"
    /\ LockRead(Disc, "jsonR")
    /\ UNCHANGED <<store, req, out, res, remote, bounds>>

LockJson(t) ==
    /\ pc[t] = "jsonR"
    /\ LockRead(t, "jsonCheck")
    /\ UNCHANGED <<store, req, out, res, remote, bounds>>

JsonNotFound(t) ==
    /\ pc[t] = "jsonCheck"
    /\ req[t].id \notin Registered
    /\ UnlockRead(t)
    /\ Goto(t, IF t = Disc THEN "dead" ELSE "idle")
    /\ Yields(t, No)
    /\ UNCHANGED <<store, req, out, remote, bounds>>

JsonNext(t) ==
    /\ pc[t] = "jsonCheck"
    /\ req[t].id \in Registered
    /\ Reads(t, GetNextNode(Registered, req[t].id))
    /\ Goto(t, "jsonPrev")
    /\ UNCHANGED <<store, locks, req, res, remote, bounds>>

JsonPrev(t) ==
    /\ pc[t] = "jsonPrev"
    /\ Yields(t, Result("config", out[t], GetPrevNode(Registered, req[t].id)))
    /\ UnlockRead(t)
    /\ Goto(t, IF t = Disc THEN "offer" ELSE "idle")
    /\ UNCHANGED <<store, req, out, remote, bounds>>

-------------------------------------------------------------------------------
(***************************************************************************)
(* DiscoveryHandler after addNode: deny, or offer the configuration and    *)
(* then ask the previous node to move its files, under the read lock.      *)
(***************************************************************************)
Deny ==
    /\ pc[Disc] = "ret" /\ req[Disc].op = "discover" /\ res[Disc] = No
    /\ Goto(Disc, "idle")
    /\ UNCHANGED <<store, locks, req, out, res, remote, bounds>>

Added ==
    /\ pc[Disc] = "ret" /\ req[Disc].op = "discover" /\ res[Disc] = Yes
    /\ Goto(Disc, "offerR")
    /\ Yields(Disc, Pending)
    /\ UNCHANGED <<store, locks, req, out, remote, bounds>>

SendOffer ==
    /\ pc[Disc] = "offer"
    /\ UnlockRead(Disc)
    /\ Goto(Disc, "postR")
    /\ UNCHANGED <<store, req, out, res, remote, bounds>>

PostFiles ==
    /\ pc[Disc] = "postR"
    /\ LockRead(Disc, "post")
    /\ IF pc'[Disc] = "post"
       THEN /\ Reads(Disc, GetPrevNode(Registered, req[Disc].id))
            /\ remote' = "asked"
       ELSE UNCHANGED <<out, remote>>
    /\ UNCHANGED <<store, req, res, bounds>>

(***************************************************************************)
(* The previous node runs FileManager.update, which asks the name server   *)
(* for the owner of each replica it holds (external to this module).  A    *)
(* node that has no replicas asks nothing.                                 *)
(***************************************************************************)
Unreachable(i) == i \in Dead \/ i = NoNode

RemoteAsks(w) ==
    /\ remote = "asked" /\ ~ Unreachable(out[Disc])
    /\ \E i \in NodeId, a \in Addr : Begin(w, [op |-> "lookup", id |-> i, addr |-> a])
    /\ remote' = "serving"
    /\ UNCHANGED calls

RemoteDone ==
    /\ remote = "asked" /\ ~ Unreachable(out[Disc])
    /\ remote' = "served"
    /\ UNCHANGED <<store, locks, pc, req, out, res, bounds>>

FilesPosted ==
    /\ pc[Disc] = "post" /\ remote = "served"
    /\ UnlockRead(Disc)
    /\ Goto(Disc, "idle")
    /\ remote' = "none"
    /\ UNCHANGED <<store, req, out, res, bounds>>

(***************************************************************************)
(* Unirest gives up: at once when there is nobody to connect to, and after *)
(* its socket timeout when the answer does not come.  The time-out is      *)
(* modelled only where the answer cannot come: the node's lookup is parked *)
(* behind a writer that waits for this thread's read lock.                 *)
(***************************************************************************)
RemoteStuck ==
    remote = "serving" /\ \E w \in Worker : req[w].op = "lookup" /\ Parked(w)

\* Bug: a POST without a socket timeout.
PostFailsNoTimeout ==
    /\ pc[Disc] = "post"
    /\ Unreachable(out[Disc])
    /\ UnlockRead(Disc)
    /\ Goto(Disc, "prevR")
    /\ remote' = "none"
    /\ UNCHANGED <<store, req, out, res, bounds>>

PostFails ==
    /\ pc[Disc] = "post"
    /\ Unreachable(out[Disc]) \/ RemoteStuck
    /\ UnlockRead(Disc)
    /\ Goto(Disc, "prevR")
    /\ remote' = "none"
    /\ UNCHANGED <<store, req, out, res, bounds>>

(***************************************************************************)
(* failNode(getPrevNode(Id)): the previous node is looked up again, then   *)
(* failNode runs in this thread.                                           *)
(***************************************************************************)
LockPrev ==
    /\ pc[Disc] = "prevR"
    /\ LockRead(Disc, "prev")
    /\ UNCHANGED <<store, req, out, res, remote, bounds>>

FailPrev ==
    /\ pc[Disc] = "prev"
    /\ req' = [req EXCEPT ![Disc].op = "fail",
                          ![Disc].id = GetPrevNode(Registered, req[Disc].id)]
    /\ UnlockRead(Disc)
    /\ Goto(Disc, Entry("fail"))
    /\ Yields(Disc, Pending)
    /\ UNCHANGED <<store, out, remote, bounds>>

-------------------------------------------------------------------------------
(***************************************************************************)
(* getFile and getFileId: the owner of a file is the node before its hash. *)
(***************************************************************************)
LockFile(t) ==
    /\ pc[t] = "fileR"
    /\ LockRead(t, "file")
    /\ UNCHANGED <<store, req, out, res, remote, bounds>>

AnswerOwner(t) ==
    /\ pc[t] = "file"
    /\ Yields(t, Result("owner", GetPrevNode(Registered, req[t].id), 0))
    /\ UnlockRead(t)
    /\ Goto(t, "idle")
    /\ remote' = IF req[t].op = "lookup" /\ remote = "serving" THEN "served" ELSE remote
    /\ UNCHANGED <<store, req, out, bounds>>

(***************************************************************************)
(* getNameServerStatus: the number of nodes, then the list of the nodes;   *)
(* the list is abstracted to its length.  getAllNodes and printMapping run *)
(* through the map under the read lock in the same way.                    *)
(***************************************************************************)
\* Bug: the number of nodes is read before the lock is taken.
LockScanLate(t) ==
    /\ pc[t] = "scanR"
    /\ LockRead(t, "scanMap")
    /\ IF Parked(t) THEN UNCHANGED out ELSE Reads(t, Cardinality(Registered))
    /\ UNCHANGED <<store, req, res, remote, bounds>>

LockScan(t) ==
    /\ pc[t] = "scanR"
    /\ LockRead(t, "scanSize")
    /\ UNCHANGED <<store, req, out, res, remote, bounds>>

ScanSize(t) ==
    /\ pc[t] = "scanSize"
    /\ Reads(t, Cardinality(Registered))
    /\ Goto(t, "scanMap")
    /\ UNCHANGED <<store, locks, req, res, remote, bounds>>

ScanMap(t) ==
    /\ pc[t] = "scanMap"
    /\ Yields(t, Result("status", out[t], Cardinality(Registered)))
    /\ UnlockRead(t)
    /\ Goto(t, "idle")
    /\ UNCHANGED <<store, req, out, remote, bounds>>

-------------------------------------------------------------------------------
(***************************************************************************)
(* The process dies and is started again; loadMapping reads the file, or   *)
(* starts with an empty map (and an empty file) when it does not parse.    *)
(***************************************************************************)
Restart ==
    /\ crashes < MaxCrashes
    /\ crashes' = crashes + 1
    /\ map' = IF torn THEN [i \in NodeId |-> NoAddr] ELSE disk
    /\ disk' = map' /\ torn' = FALSE
    /\ wholds' = Every(0) /\ rholds' = Every(0) /\ queue' = <<>>
    /\ pc' = Every("idle") /\ req' = Every(NoRequest)
    /\ out' = Every(0) /\ res' = Every(NoResult)
    /\ remote' = "none"
    /\ UNCHANGED calls

HandlerStep(t) ==
    \/ LockOuter(t) \/ LockCall(t) \/ Refuse(t)
    \/ Change(t) \/ Truncate(t) \/ Save(t)
    \/ PostAdded(t) \/ PostRefused(t) \/ PutUpdated(t) \/ PutCreates(t) \/ PutAdded(t)
    \/ DeleteAnswered(t) \/ Notify(t) \/ LockAgent(t) \/ LaunchAgent(t)
    \/ LockJson(t) \/ JsonNotFound(t) \/ JsonNext(t) \/ JsonPrev(t)
    \/ LockFile(t) \/ AnswerOwner(t) \/ LockScan(t) \/ ScanSize(t) \/ ScanMap(t)

DiscoveryStep ==
    \/ Deny \/ Added \/ LockOffer \/ SendOffer \/ PostFiles
    \/ FilesPosted \/ PostFails \/ LockPrev \/ FailPrev

Next ==
    \/ \E t \in Thread : HandlerStep(t)
    \/ DiscoveryStep
    \/ \E w \in Worker : Receive(w) \/ RemoteAsks(w)
    \/ ReceiveDiscovery \/ RemoteDone
    \/ Restart

Spec == Init /\ [][Next]_vars

(***************************************************************************)
(* The operating system schedules every thread that can run, the previous  *)
(* node gets on with its update, and a request that was sent arrives at a  *)
(* worker.  New requests and crashes need not come.                        *)
(***************************************************************************)
Fairness ==
    /\ \A t \in Thread : WF_vars(HandlerStep(t))
    /\ WF_vars(DiscoveryStep)
    /\ WF_vars(RemoteDone \/ \E w \in Worker : RemoteAsks(w))

FairSpec == Spec /\ Fairness

-------------------------------------------------------------------------------
(***************************************************************************)
(* The map stands still while another thread reads it: the id of the next  *)
(* node and the id of the previous one, or a count and the list it counts, *)
(* come from one map.  It takes a reader in the middle of its handler, a   *)
(* writer in its own, and the nested lock() and unlock() calls of both to  *)
(* be in balance.                                                          *)
(***************************************************************************)
MapIsStable ==
    (\E t \in Thread : rholds[t] > 0 /\ rholds'[t] > 0 /\ wholds[t] = 0) => map' = map

ReadersSeeOneMap == [][MapIsStable]_vars

(***************************************************************************)
(* What is handed to a node as its configuration is its place in the ring  *)
(* of the nodes registered at that moment (addresses follow the ids).      *)
(***************************************************************************)
OfferIsTheRing ==
    /\ pc[Disc] = "offer"
    /\ res[Disc].is = "config"
    => /\ req[Disc].id \in Registered
       /\ IsNext(Registered, req[Disc].id, res[Disc].x)
       /\ IsPrev(Registered, req[Disc].id, res[Disc].y)

StatusAgrees == \A t \in Thread : res[t].is = "status" => res[t].x = res[t].y

(***************************************************************************)
(* Whenever nobody is inside addNode, updateNode or deleteNode the file    *)
(* holds the map, so a crash at that moment loses nothing; and a restart   *)
(* loses the map only if it interrupts a save.                             *)
(***************************************************************************)
DiskFollowsMap == (\A t \in Thread : pc[t] # "save") => ~ torn /\ disk = map

RestartKeepsMap == [][crashes' # crashes /\ map' # map => \E t \in Thread : pc[t] = "save"]_vars

(***************************************************************************)
(* A thread that is done with its request holds no lock, however its       *)
(* handler ended; otherwise every other thread waits for it for ever.      *)
(***************************************************************************)
IdleHoldsNothing ==
    \A t \in Thread : pc[t] \in {"idle", "dead"} => wholds[t] = 0 /\ rholds[t] = 0

(***************************************************************************)
(* Every request is answered, and the discovery thread gets back to its    *)
(* socket: the readers, the writers, the nested calls and the post to the  *)
(* previous node, which itself asks the name server, do not wait for each  *)
(* other for ever.                                                         *)
(***************************************************************************)
EveryRequestIsAnswered ==
    \A t \in Thread : pc[t] # "idle" ~> pc[t] = "idle"

(***************************************************************************)
(* Claims of the sources that the code does not keep.                      *)
(***************************************************************************)

(* NodeNotFoundException: "If a lock is specified, the lock will be
   released."  After the exception in DiscoveryHandler it is not.          *)
NotFoundReleasesLock == pc[Disc] = "dead" => rholds[Disc] = 0

(* putNode is answered 204: the lock it releases after addNode is its own
   (otherwise unlock() throws).                                            *)
PutUnlocksItsOwnLock ==
    \A w \in Worker : pc[w] = "ret" /\ req[w].op = "putAdd" => wholds[w] > 0

(* postNode: once the worker is idle again others can use the map.         *)
PostReleasesLock ==
    \A w \in Worker : pc[w] = "idle" /\ req[w].op = "post" => wholds[w] = 0

(* "report failure of this node": the node failed is the one that was
   contacted.                                                              *)
FailsContactedNode ==
    pc[Disc] = "outerW" => req[Disc].id = out[Disc]

(* "Deletes the node that failed": DiscoveryHandler deletes no node whose
   machine is running.                                                     *)
OnlyDeadAreFailed ==
    [][\A i \in Registered \ Registered' :
          ~ (pc[Disc] = "body" /\ pc'[Disc] = "save" /\ req[Disc].op = "fail" /\ i \notin Dead)]_vars
===============================================================================
