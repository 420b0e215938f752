------------------------------- MODULE SyncAgent -------------------------------
(***************************************************************************)
(* The sync agents of the nodes (SyncAgent.java).  Each keeps the list of  *)
(* all files in the system and a table of the locked ones.  It polls its   *)
(* next node and merges that node's list and table into its own; locks and *)
(* unlocks are multicast to everybody; a deletion travels round the ring.  *)
(*                                                                         *)
(* Four threads work on an agent: the agent itself, the multicast          *)
(* listener, a user of lockFile and unlockFile (synchronized methods: they *)
(* hold the object's monitor and then want the write lock) and the file    *)
(* manager (deleteLocalFile holds the write lock and then wants the        *)
(* monitor).  A section under the write lock is one step; makeLocalList    *)
(* and deleteLocalFile may return without unlock().  HTTP handlers take    *)
(* the read lock or no lock at all.                                        *)
(*                                                                         *)
(* The ring is right (module Ring) and only grows.  Packets of one sender  *)
(* reach a receiver in order, or not at all.                               *)
(***************************************************************************)
EXTENDS RingOrder, Sequences

CONSTANTS
    Node, File,
    Folders,        \* what each node's local folder may hold when it starts
    Additions,      \* files that turn up in a local folder later: <<node, file>>
    Lockable,       \* which node's user locks which file: <<node, file>>
    Deletable,      \* which node's user deletes which local file
    Calm,           \* the calls that only come when the system is settled
    Overlap,        \* the calls whose packets a poll may overlap
    Losable,        \* the multicast packets that may be lost
    MaxCalls, MaxLosses

Calls == {"start", "lock", "unlock", "add", "delete"}

ASSUME SyncAgentAssumption ==
    /\ Node \subseteq Nat /\ NoNode \notin Node
    /\ Folders \in [Node -> SUBSET SUBSET File]
    /\ Additions \union Lockable \union Deletable \subseteq Node \X File
    /\ Calm \subseteq Calls
    /\ Overlap \subseteq {"lock", "unlock", "delete"}
    /\ Losable \subseteq {"lock", "unlock"}
    /\ MaxCalls \in Nat /\ MaxLosses \in Nat

VARIABLES
    up,             \* the nodes in the ring
    files,          \* files, of each agent
    owner,          \* fileLocks and lockOwner: who holds each file's lock
    leak,           \* the thread that returned with the write lock
    call,           \* the user's call, in the monitor but not yet in the lock
    deleting,       \* the file deleteLocalFile is unlocking, in the write lock
    poll,           \* getNeighbourList: what it has of its next node's answer
    chan,           \* multicast packets in flight, per sender and receiver
    deletes,        \* DELETE requests on their way
    held,           \* the files each user was granted and has not unlocked
    synced,         \* the nodes that have merged their next node's list
    removed,        \* the files deleted for good
    calls, losses   \* counted for the bounds

tables == <<files, owner>>
users  == <<call, held>>
wire   == <<chan, deletes>>
bounds == <<calls, losses>>
vars   == <<up, tables, leak, users, deleting, poll, wire, synced, removed, bounds>>

NoFile == ""        \* no file has this name
NoCall == [op |-> "none", file |-> NoFile]
Table  == [File -> Node \union {NoNode}]
Free   == [f \in File |-> NoNode]
NoPoll == [at |-> "idle", from |-> NoNode, files |-> {}, owner |-> Free]

Packet == [action : {"lock", "unlock"}, file : File, name : Node]

TypeOK ==
    /\ up \subseteq Node /\ synced \subseteq up
    /\ files \in [Node -> SUBSET File] /\ owner \in [Node -> Table]
    /\ leak \in [Node -> {"none", "agent", "manager"}]
    /\ call \in [Node -> [op : {"lock", "unlock"}, file : File] \union {NoCall}]
    /\ deleting \in [Node -> File \union {NoFile}]
    /\ poll \in [Node -> [at : {"idle", "files", "answer"}, from : Node \union {NoNode},
                          files : SUBSET File, owner : Table]]
    /\ chan \in [Node \X Node -> Seq(Packet)]
    /\ deletes \subseteq [to : Node, file : File]
    /\ held \in [Node -> SUBSET File]
    /\ removed \subseteq File
    /\ calls \in 0 .. MaxCalls /\ losses \in 0 .. MaxLosses

Init ==
    /\ up = {} /\ synced = {} /\ deletes = {} /\ removed = {}
    /\ files = [n \in Node |-> {}] /\ owner = [n \in Node |-> Free]
    /\ leak = [n \in Node |-> "none"]
    /\ call = [n \in Node |-> NoCall] /\ deleting = [n \in Node |-> NoFile]
    /\ poll = [n \in Node |-> NoPoll]
    /\ chan = [c \in Node \X Node |-> << >>]
    /\ held = [n \in Node |-> {}]
    /\ calls = 0 /\ losses = 0

-------------------------------------------------------------------------------
InFlight(action) == \E c \in Node \X Node : \E k \in DOMAIN chan[c] : chan[c][k].action = action

(***************************************************************************)
(* The write lock of a node that is never given back: a thread has         *)
(* returned with it, or its holder wants the monitor, and a user who is in *)
(* the monitor wants it.                                                   *)
(***************************************************************************)
Jammed(n) == leak[n] # "none" \/ (call[n] # NoCall /\ deleting[n] # NoFile)

\* A deletion that waits for ever is not under way any more.
UnderWay(op) ==
    \/ InFlight(op)
    \/ \E n \in Node : call[n].op = op
    \/ op = "delete" /\ (deletes # {} \/ \E n \in Node : deleting[n] # NoFile /\ ~ Jammed(n))

Quiet ==
    /\ deletes = {} /\ \A c \in Node \X Node : chan[c] = << >>
    /\ \A n \in up : /\ poll[n] = NoPoll /\ deleting[n] = NoFile
                     /\ n \in synced /\ \A m \in up : files[m] = files[n]

Settled == Quiet /\ \A n \in up : call[n] = NoCall

\* The file manager does not wait for users.
May(op) == op \in Calm => IF op = "delete" THEN Quiet ELSE Settled

Call(op) ==
    /\ May(op)
    /\ calls < MaxCalls
    /\ calls' = calls + 1
    /\ UNCHANGED losses

\* Bug in getNeighbourList: the agent takes its write lock before it asks.
WriteFreeUnlessAsking(n, thread) ==
    /\ leak[n] \in {"none", thread}
    /\ deleting[n] # NoFile => thread = "manager"
    /\ poll[n].at # "idle" => thread = "agent"

(***************************************************************************)
(* ReentrantReadWriteLock: whether the thread would get the write lock.    *)
(***************************************************************************)
WriteFree(n, thread) ==
    /\ leak[n] \in {"none", thread}
    /\ deleting[n] # NoFile => thread = "manager"

NextOf(n) == GetNextNode(up, n)

-------------------------------------------------------------------------------
(***************************************************************************)
(* A node joins; its agent has made its list of local files (makeLocalList,*)
(* which keeps the write lock when the folder is empty).                   *)
(***************************************************************************)
Start(n) ==
    /\ n \notin up /\ May("start")
    /\ up' = up \union {n}
    /\ \E local \in Folders[n] :
          /\ files' = [files EXCEPT ![n] = local]
          /\ leak' = [leak EXCEPT ![n] = IF local = {} THEN "agent" ELSE "none"]
    /\ UNCHANGED <<owner, users, deleting, poll, wire, synced, removed, bounds>>

-------------------------------------------------------------------------------
(***************************************************************************)
(* getNeighbourList, first half: the next node's HTTP handler copies its   *)
(* file list without a lock, then its table under the read lock.  A        *)
(* request that gets no answer times out and is repeated.                  *)
(***************************************************************************)
Poll(n) ==
    /\ n \in up
    /\ poll[n] = NoPoll \/ (poll[n].at = "files" /\ ~ WriteFree(poll[n].from, "http"))
    /\ \A op \in {"lock", "unlock", "delete"} \ Overlap : ~ UnderWay(op)
    /\ poll' = [poll EXCEPT ![n] = [NoPoll EXCEPT !.at = "files", !.from = NextOf(n),
                                                  !.files = files[NextOf(n)]]]
    /\ UNCHANGED <<up, tables, leak, users, deleting, wire, synced, removed, bounds>>

Answer(n) ==
    LET k == poll[n].from
    IN  /\ poll[n].at = "files"
        /\ WriteFree(k, "http")
        /\ poll' = [poll EXCEPT ![n].at = "answer", ![n].owner = owner[k]]
        /\ UNCHANGED <<up, tables, leak, users, deleting, wire, synced, removed, bounds>>

\* Bug in getNeighbourList: the lock list is not merged.
MergeFilesOnly(n) ==
    /\ poll[n].at = "answer" /\ WriteFree(n, "agent")
    /\ files' = [files EXCEPT ![n] = @ \union poll[n].files]
    /\ poll' = [poll EXCEPT ![n] = NoPoll]
    /\ synced' = synced \union {n}
    /\ UNCHANGED <<up, owner, leak, users, deleting, wire, removed, bounds>>

\* Bug in getNeighbourList: the file list is not merged.
MergeLocksOnly(n) ==
    /\ poll[n].at = "answer" /\ WriteFree(n, "agent")
    /\ owner' = [owner EXCEPT ![n] =
                    [f \in File |-> IF @[f] = NoNode THEN poll[n].owner[f] ELSE @[f]]]
    /\ poll' = [poll EXCEPT ![n] = NoPoll]
    /\ synced' = synced \union {n}
    /\ UNCHANGED <<up, files, leak, users, deleting, wire, removed, bounds>>

\* Bug in getNeighbourList: it adds without looking at containsKey.
MergeOverwrites(n) ==
    /\ poll[n].at = "answer" /\ WriteFree(n, "agent")
    /\ files' = [files EXCEPT ![n] = @ \union poll[n].files]
    /\ owner' = [owner EXCEPT ![n] =
                    [f \in File |-> IF poll[n].owner[f] # NoNode THEN poll[n].owner[f] ELSE @[f]]]
    /\ poll' = [poll EXCEPT ![n] = NoPoll]
    /\ synced' = synced \union {n}
    /\ UNCHANGED <<up, leak, users, deleting, wire, removed, bounds>>

(***************************************************************************)
(* Second half: files and locks the agent does not know are added; nothing *)
(* is ever taken away.                                                     *)
(***************************************************************************)
Merge(n) ==
    /\ poll[n].at = "answer" /\ WriteFree(n, "agent")
    /\ files' = [files EXCEPT ![n] = @ \union poll[n].files]
    /\ owner' = [owner EXCEPT ![n] =
                    [f \in File |-> IF @[f] = NoNode THEN poll[n].owner[f] ELSE @[f]]]
    /\ poll' = [poll EXCEPT ![n] = NoPoll]
    /\ synced' = synced \union {n}
    /\ UNCHANGED <<up, leak, users, deleting, wire, removed, bounds>>

-------------------------------------------------------------------------------
Multicast(n, action, f) ==
    chan' = [c \in Node \X Node |->
                IF c[1] = n /\ c[2] \in up
                THEN Append(chan[c], [action |-> action, file |-> f, name |-> n])
                ELSE chan[c]]

SetOwner(n, f, o) == owner' = [owner EXCEPT ![n][f] = o]

(***************************************************************************)
(* A user calls lockFile, or unlockFile for a file he was granted: he gets *)
(* the monitor.                                                            *)
(***************************************************************************)
Enter(n, op, f) ==
    /\ n \in up /\ call[n] = NoCall
    /\ Call(op)
    /\ call' = [call EXCEPT ![n] = [op |-> op, file |-> f]]
    /\ UNCHANGED <<up, tables, leak, held, deleting, poll, wire, synced, removed>>

CallLock(n, f)   == <<n, f>> \in Lockable /\ f \notin held[n] /\ Enter(n, "lock", f)
CallUnlock(n, f) == f \in held[n] /\ Enter(n, "unlock", f)

\* Bug in getNeighbourList: it is synchronized, too.
ReturnUnlessAsking(n) ==
    /\ call[n] # NoCall /\ WriteFree(n, "user") /\ poll[n].at # "files"
    /\ call' = [call EXCEPT ![n] = NoCall]
    /\ UNCHANGED <<up, files, leak, deleting, poll, deletes, synced, removed, bounds>>

\* The call gets the write lock, returns and leaves the monitor.
Return(n) ==
    /\ call[n] # NoCall /\ WriteFree(n, "user")
    /\ call' = [call EXCEPT ![n] = NoCall]
    /\ UNCHANGED <<up, files, leak, deleting, poll, deletes, synced, removed, bounds>>

\* Bug in lockFile: the others are not told.
LockFileSilently(n) ==
    LET f == call[n].file
    IN  /\ call[n].op = "lock" /\ Return(n)
        /\ IF owner[n][f] # NoNode THEN UNCHANGED <<owner, chan, held>>
           ELSE SetOwner(n, f, n) /\ held' = [held EXCEPT ![n] = @ \union {f}] /\ UNCHANGED chan

LockFile(n) ==
    LET f == call[n].file
    IN  /\ call[n].op = "lock" /\ Return(n)
        /\ IF owner[n][f] # NoNode
           THEN UNCHANGED <<owner, chan, held>>
           ELSE /\ Multicast(n, "lock", f)
                /\ SetOwner(n, f, n)
                /\ held' = [held EXCEPT ![n] = @ \union {f}]

(***************************************************************************)
(* unlockFile does not look at who holds the lock.                         *)
(***************************************************************************)
Unlocks(n, f) ==
    IF owner[n][f] = NoNode THEN UNCHANGED <<owner, chan>>
    ELSE Multicast(n, "unlock", f) /\ SetOwner(n, f, NoNode)

UnlockFile(n) ==
    LET f == call[n].file
    IN  /\ call[n].op = "unlock" /\ Return(n)
        /\ Unlocks(n, f)
        /\ held' = [held EXCEPT ![n] = @ \ {f}]

\* Bug in MulticastListener: the emptied entry is not removed.
ListenKeepsEntry(m, n) ==
    /\ chan[<<m, n>>] # << >> /\ WriteFree(n, "listener")
    /\ LET p == Head(chan[<<m, n>>])
       IN  SetOwner(n, p.file, IF p.action = "lock" THEN p.name ELSE NoNode - 1)
    /\ chan' = [chan EXCEPT ![<<m, n>>] = Tail(@)]
    /\ UNCHANGED <<up, files, leak, users, deleting, poll, deletes, synced, removed, bounds>>

(***************************************************************************)
(* MulticastListener: the sender hears its own packets too.                *)
(***************************************************************************)
Listen(m, n) ==
    /\ chan[<<m, n>>] # << >> /\ WriteFree(n, "listener")
    /\ LET p == Head(chan[<<m, n>>])
       IN  SetOwner(n, p.file, IF p.action = "lock" THEN p.name ELSE NoNode)
    /\ chan' = [chan EXCEPT ![<<m, n>>] = Tail(@)]
    /\ UNCHANGED <<up, files, leak, users, deleting, poll, deletes, synced, removed, bounds>>

Lose(m, n) ==
    /\ m # n /\ chan[<<m, n>>] # << >> /\ Head(chan[<<m, n>>]).action \in Losable
    /\ losses < MaxLosses
    /\ losses' = losses + 1
    /\ chan' = [chan EXCEPT ![<<m, n>>] = Tail(@)]
    /\ UNCHANGED <<up, tables, leak, users, deleting, poll, deletes, synced, removed, calls>>

-------------------------------------------------------------------------------
(***************************************************************************)
(* addLocalFile, called by the file manager's watcher.                     *)
(***************************************************************************)
AddLocalFile(n, f) ==
    /\ n \in up /\ <<n, f>> \in Additions /\ f \notin files[n] \union removed
    /\ WriteFree(n, "manager") /\ deleting[n] = NoFile
    /\ Call("add")
    /\ files' = [files EXCEPT ![n] = @ \union {f}]
    /\ UNCHANGED <<up, owner, leak, users, deleting, poll, wire, synced, removed>>

(***************************************************************************)
(* deleteLocalFile: takes the write lock; when the file is not listed it   *)
(* returns and keeps it.                                                   *)
(***************************************************************************)
CallDelete(n, f) ==
    /\ n \in up /\ <<n, f>> \in Deletable /\ f \notin removed
    /\ WriteFree(n, "manager") /\ deleting[n] = NoFile
    /\ Call("delete")
    /\ IF f \in files[n]
       THEN deleting' = [deleting EXCEPT ![n] = f] /\ UNCHANGED leak
       ELSE leak' = [leak EXCEPT ![n] = "manager"] /\ UNCHANGED deleting
    /\ UNCHANGED <<up, tables, users, poll, wire, synced, removed>>

\* It then wants the monitor for unlockFile, and tells the next node, which
\* answers at once.
DeleteLocalFile(n) ==
    LET f == deleting[n]
    IN  /\ f # NoFile /\ call[n] = NoCall
        /\ Unlocks(n, f)
        /\ files' = [files EXCEPT ![n] = @ \ {f}]
        /\ deletes' = deletes \union {[to |-> NextOf(n), file |-> f]}
        /\ deleting' = [deleting EXCEPT ![n] = NoFile]
        /\ removed' = removed \union {f}
        /\ UNCHANGED <<up, leak, users, poll, synced, bounds>>

\* Bug in the DELETE handler: the request is not passed on.
HandleDeleteHere(d) ==
    /\ files' = [files EXCEPT ![d.to] = @ \ {d.file}]
    /\ deletes' = deletes \ {d}
    /\ UNCHANGED <<up, owner, leak, users, deleting, poll, chan, synced, removed, bounds>>

(***************************************************************************)
(* The DELETE handler takes no lock.  It passes the request on when it     *)
(* knew the file, so that the request stops after one round.               *)
(***************************************************************************)
HandleDelete(d) ==
    /\ files' = [files EXCEPT ![d.to] = @ \ {d.file}]
    /\ deletes' = (deletes \ {d}) \union
                  {e \in {[d EXCEPT !.to = NextOf(d.to)]} : d.file \in files[d.to]}
    /\ UNCHANGED <<up, owner, leak, users, deleting, poll, chan, synced, removed, bounds>>

-------------------------------------------------------------------------------
Agent(n) == Poll(n) \/ Answer(n) \/ Merge(n)

Environment ==
    \E n \in Node :
        \/ Start(n)
        \/ \E f \in File : \/ CallLock(n, f) \/ CallUnlock(n, f)
                           \/ AddLocalFile(n, f) \/ CallDelete(n, f)

Next ==
    \/ Environment
    \/ \E n \in Node : LockFile(n) \/ UnlockFile(n) \/ Agent(n) \/ DeleteLocalFile(n)
    \/ \E m, n \in Node : Listen(m, n) \/ Lose(m, n)
    \/ \E d \in deletes : HandleDelete(d)

Spec == Init /\ [][Next]_vars

(***************************************************************************)
(* Every agent polls again and again (every ten seconds), whatever else    *)
(* happens at its node; and a node where a user, the file manager, the     *)
(* listener or the HTTP server has something to do and can, does some of   *)
(* it.  Nodes need not start and users need not call.                      *)
(***************************************************************************)
Work(n) ==
    \/ LockFile(n) \/ UnlockFile(n) \/ DeleteLocalFile(n)
    \/ \E m \in Node : Listen(m, n)
    \/ \E d \in deletes : d.to = n /\ HandleDelete(d)

Fairness == \A n \in Node : WF_vars(Agent(n)) /\ WF_vars(Work(n))

FairSpec == Spec /\ Fairness

-------------------------------------------------------------------------------
(***************************************************************************)
(* Two users never hold the lock of the same file (lockFile: "true if the  *)
(* lock was successful, false otherwise").  Deleting a file ends its lock. *)
(***************************************************************************)
LockIsExclusive == \A m, n \in Node : m # n => held[m] \cap held[n] \subseteq removed

(***************************************************************************)
(* When nothing is under way, every agent in the ring knows the holder of  *)
(* each lock: what it merges, fetched before or after the lock was given   *)
(* and with whatever outdated entries in it, neither makes it forget the   *)
(* holder nor names another one (getNeighbourList, MulticastListener).     *)
(* (Of a lock that nobody holds any more, agents may list a holder: a list *)
(* fetched before the unlock brings it back.)                              *)
(***************************************************************************)
HoldersAreKnown ==
    Settled => \A n, m \in up : \A f \in held[m] \ removed : owner[n][f] = m

(***************************************************************************)
(* In the end all agents agree on what is locked, whatever was lost or     *)
(* overtaken: the merges spread what some agent knows (getNeighbourList).  *)
(***************************************************************************)
LocksAgree ==
    <>[](\A m, n \in up : \A f \in File : owner[m][f] = NoNode <=> owner[n][f] = NoNode)

(***************************************************************************)
(* In the end all agents list the same files, unless one of them answers   *)
(* no GET any more.                                                        *)
(***************************************************************************)
ListsAgree == <>[]((\E n \in up : Jammed(n)) \/ \A m, n \in up : files[m] = files[n])

(***************************************************************************)
(* A file that was deleted disappears from every list for good             *)
(* (deleteLocalFile and the DELETE handler: "the SyncAgent will remove the *)
(* file from the system").                                                 *)
(***************************************************************************)
DeletionSticks == <>[](\A n \in up : files[n] \cap removed = {})

(***************************************************************************)
(* lockFile, unlockFile and deleteLocalFile return, unless the node's own  *)
(* write lock is jammed: an agent that waits for another node's answer, be *)
(* it for ever, keeps nobody at its own node waiting.                      *)
(***************************************************************************)
CallsReturn == \A n \in Node :
    []<>((call[n] = NoCall /\ deleting[n] = NoFile) \/ Jammed(n))

(***************************************************************************)
(* A GET is answered with the list (the constructor's Javadoc), unless the *)
(* write lock of the node that is asked is jammed: agents that ask each    *)
(* other round the ring do not wait for each other.                        *)
(***************************************************************************)
GetIsAnswered == \A n \in Node :
    []<>(poll[n].at = "files" => \E k \in up : poll[n].from = k /\ Jammed(k))
================================================================================
