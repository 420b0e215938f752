------------------------------ MODULE Replication ------------------------------
(***************************************************************************)
(* Where the files are (FileManager.java, FileTransfer.java,               *)
(* FailureAgent.java).  Every file has a replica, with a log that names    *)
(* its origin, at the node before the file's hash, or at the node before   *)
(* that one when it is the origin itself.  Replicas move when a node       *)
(* joins (update), leaves (shutDown) or is reported (the failure agent,    *)
(* which goes once round the ring).                                        *)
(*                                                                         *)
(* startup, update and shutDown are synchronized: a node has one such job  *)
(* at a time.  The directory watcher and the failure agent run beside it.  *)
(* A transfer that was sent is in flight until the receiver's thread has   *)
(* written it, each in a thread of its own; nobody waits for it or looks   *)
(* at the result.                                                          *)
(*                                                                         *)
(* Of the sync agent (module SyncAgent) there is its write lock, which     *)
(* addLocalFile and deleteLocalFile take, and which some calls never give  *)
(* back; a DELETE request goes round at once.                              *)
(*                                                                         *)
(* The pointers of the nodes are right for the name server's map (module   *)
(* Ring) and a lookup at the name server is one step (module NameServer).  *)
(***************************************************************************)
EXTENDS RingOrder, FiniteSets, Sequences

CONSTANTS
    MaxId,           \* the largest value Hashing.hash returns (32767)
    Node, File,
    Hash,            \* Hashing.hash of each file's name
    Local,           \* the files each node is launched with
    Changeable,      \* which user creates, changes and deletes which file
    CreateAlone,     \* whether a file may be created at a node that is alone
    Calm,            \* the kinds of change that only happen when all is quiet
    Prompt,          \* registrations are made and transfers have arrived before
                     \* anybody looks at the map and at the folders
    MaxStarts, MaxLeaves, MaxCrashes, MaxRepeats, MaxEdits    \* bounds on the environment

Change == {"start", "leave", "crash", "create", "modify", "delete"}

ASSUME ReplicationAssumption ==
    /\ MaxId \in Nat /\ Node \subseteq 0 .. MaxId
    /\ Hash \in [File -> 0 .. MaxId]
    /\ Local \in [Node -> SUBSET File]
    /\ Changeable \subseteq Node \X File
    /\ \A m, n \in Node : m # n => Local[m] \cap Local[n] = {}
    /\ CreateAlone \in BOOLEAN /\ Prompt \in BOOLEAN /\ Calm \subseteq Change
    /\ {MaxStarts, MaxLeaves, MaxCrashes, MaxRepeats, MaxEdits} \subseteq Nat

VARIABLES
    reg,             \* the nodes in the name server's map
    up,              \* the nodes whose process runs
    local, replica,  \* what is in the two folders of each node
    log,             \* the origin that each log file of a node names
    wire,            \* transfers and deletions that are not carried out yet
    job,             \* what a node does in its file manager's monitor
    wants,           \* the nodes where a call of update waits for it
    leaving,         \* prevNode of a node that is shutting down, or NoNode
    events,          \* what each directory watcher has not handled yet
    agents,          \* the failure agents under way
    listed,          \* files of its own that a node's sync agent surely lists
    writer,          \* the thread that keeps the sync agent's write lock for good
    waiting,         \* the watchers and failure agents that wait for such a lock
    spent            \* how often the environment has acted, for the bounds

folders == <<local, replica, log>>
ring    == <<reg, up, leaving>>
sync    == <<listed, writer, waiting>>
vars    == <<ring, folders, wire, job, wants, events, agents, sync, spent>>

NoLog == NoNode      \* there is no log file
Garbled == -2        \* there is one, but it does not parse

Log   == Node \union {NoLog, Garbled}
\* Of a file in a replica folder: not there, too short, of before a change.
State == {"none", "cut", "stale", "whole"}

Transfer ==
    [what : {"replica"}, file : File, to : Node, from : Node, data : State]
      \union [what : {"log"}, file : File, to : Node, from : Node, data : Log]

NoFile == ""         \* no file has this name
NoJob  == [op |-> "none", at |-> "end", todo |-> {}, file |-> NoFile, ip |-> NoNode]
Job    == [op : {"none", "startup", "update", "shutdown"},
           at : {"end", "count", "alone", "send", "ip", "id", "move", "wait"},
           todo : SUBSET File, file : File \union {NoFile}, ip : Node \union {NoNode}]

Agent == [failed : Node, first : Node, at : Node, map : SUBSET Node, seen : SUBSET Node,
          again : BOOLEAN]

\* "agent": the sync agent's own thread or that of a failure agent.
Thread == {"agent", "watcher", "shutdown"}

TypeOK ==
    /\ reg \subseteq Node /\ up \subseteq Node
    /\ local \in [Node -> SUBSET File]
    /\ replica \in [Node -> [File -> State]] /\ log \in [Node -> [File -> Log]]
    /\ wire \subseteq Transfer
    /\ job \in [Node -> Job] /\ wants \subseteq up
    /\ \A n \in Node \ up : job[n] = NoJob
    /\ leaving \in [Node -> Node \union {NoNode}]
    /\ events \in [Node -> Seq([kind : {"create", "modify", "delete"}, file : File])]
    /\ agents \subseteq Agent
    /\ listed \in [Node -> SUBSET File] /\ writer \in [Node -> Thread \union {"nobody"}]
    /\ waiting \subseteq Node \X {"agent", "watcher"}
    /\ spent \in [start : 0 .. MaxStarts, leave : 0 .. MaxLeaves, crash : 0 .. MaxCrashes,
                  repeat : 0 .. MaxRepeats, edit : 0 .. MaxEdits]

Empty(none) == [f \in File |-> none]

Init ==
    /\ reg = {} /\ up = {} /\ leaving = [n \in Node |-> NoNode]
    /\ local = [n \in Node |-> {}]
    /\ replica = [n \in Node |-> Empty("none")] /\ log = [n \in Node |-> Empty(NoLog)]
    /\ wire = {} /\ wants = {} /\ agents = {} /\ waiting = {}
    /\ job = [n \in Node |-> NoJob]
    /\ events = [n \in Node |-> << >>]
    /\ listed = [n \in Node |-> {}] /\ writer = [n \in Node |-> "nobody"]
    /\ spent = [start |-> 0, leave |-> 0, crash |-> 0, repeat |-> 0, edit |-> 0]

Quiet ==
    /\ reg = up /\ wire = {} /\ wants = {} /\ agents = {} /\ waiting = {}
    /\ \A n \in up : job[n] = NoJob /\ leaving[n] = NoNode /\ events[n] = << >>

Arrived == Prompt => wire = {}

Acts(change, counter, max) ==
    /\ change \in Calm => Quiet
    /\ spent[counter] < max
    /\ spent' = [spent EXCEPT ![counter] = @ + 1]

-------------------------------------------------------------------------------
(***************************************************************************)
(* The name server's answers (NameServerController.getFile and getNode);   *)
(* and where a node's own file goes: the pointer to its previous node is   *)
(* used when the name server names the node itself.                        *)
(***************************************************************************)
Owner(f)   == GetPrevNode(reg, Hash[f])
PrevOf(n)  == IF n \in reg THEN GetPrevNode(reg, n) ELSE NoNode

PrevNode(n)  == IF leaving[n] # NoNode THEN leaving[n] ELSE GetPrevNode(reg, n)
Target(n, f) == IF Owner(f) = n THEN PrevNode(n) ELSE Owner(f)

(***************************************************************************)
(* sendFile and deleteFile: the transfers that are under way when the call *)
(* is done.  There is none when nobody listens at the other end.  With no  *)
(* address (an empty map) the socket is connected to the node itself.      *)
(***************************************************************************)
To(n, ip) == IF ip = NoNode THEN n ELSE ip

Sends(what, n, ip, f, data) ==
    {t \in {[what |-> what, file |-> f, to |-> To(n, ip), from |-> n, data |-> data]} : t.to \in up}

\* A user may have deleted the local file by now.
LocalState(n, f) == IF f \in local[n] THEN "whole" ELSE "none"

SendsReplica(n, ip, f, data) == IF data = "none" THEN {} ELSE Sends("replica", n, ip, f, data)
SendsLog(n, ip, f, origin)   == IF origin = NoLog THEN {} ELSE Sends("log", n, ip, f, origin)

\* Bug in shutDown and ENTRY_DELETE: only the log is deleted.
BugDeletes(n, ip, f) == Sends("log", n, ip, f, NoLog)

Deletes(n, ip, f) == Sends("replica", n, ip, f, "none") \union Sends("log", n, ip, f, NoLog)

(***************************************************************************)
(* A file that is sent and then deleted.  A node that sends it to itself   *)
(* deletes it before or after its receiving thread has opened it.          *)
(***************************************************************************)
ThenGone(n, ip, sent) == IF To(n, ip) = n THEN {{}, sent} ELSE {sent}

\* NodeHandler writes, or deletes, the file.
Receive(t) ==
    /\ t \in wire
    /\ wire' = wire \ {t}
    /\ IF t.what = "replica"
       THEN replica' = [replica EXCEPT ![t.to][t.file] = t.data] /\ UNCHANGED log
       ELSE log' = [log EXCEPT ![t.to][t.file] = t.data] /\ UNCHANGED replica
    /\ UNCHANGED <<ring, local, job, wants, events, agents, sync, spent>>

-------------------------------------------------------------------------------
(***************************************************************************)
(* SyncAgent.deleteLocalFile of some files, by a thread that gets the      *)
(* write lock.  It returns with the lock when a file is not listed or the  *)
(* next node does not answer; else the request goes round, as far as the   *)
(* nodes know the file.                                                    *)
(***************************************************************************)
NextAnswers(n) == reg = {} \/ GetNextNode(reg, n) \in up

DeleteLocalFiles(n, thread, fs) ==
    \E unlisted \in SUBSET (fs \ listed[n]) :
        LET known == fs \ unlisted
            fails == known # {} /\ ~ NextAnswers(n)
        IN  /\ \E far \in SUBSET UNION {known \cap listed[m] : m \in Node \ {n}} :
                  /\ fails => far = {}
                  /\ listed' = [m \in Node |-> listed[m] \ IF m = n THEN fs ELSE far]
            /\ writer' = IF unlisted # {} \/ fails THEN [writer EXCEPT ![n] = thread] ELSE writer

-------------------------------------------------------------------------------
(***************************************************************************)
(* A node is launched (with empty replica and log folders), registers and  *)
(* starts up; its sync agent lists the local files (makeLocalList, which   *)
(* keeps the write lock when there are none).  The name server posts       *)
(* /files to its previous node, which updates; the other nodes update as   *)
(* well, before or after the registration (discoveryHandler): before it    *)
(* nothing moves.                                                          *)
(***************************************************************************)
Start(n) ==
    /\ n \notin up \union reg
    /\ Acts("start", "start", MaxStarts)
    /\ reg' = reg \union {n} /\ up' = up \union {n}
    /\ local' = [local EXCEPT ![n] = Local[n]]
    /\ job' = [job EXCEPT ![n] = [NoJob EXCEPT !.op = "startup", !.at = "count"]]
    /\ \E late \in IF Prompt THEN {up} ELSE SUBSET up :
          wants' = wants \union late \union (up' \cap {GetPrevNode(reg', n)})
    /\ listed' = [listed EXCEPT ![n] = Local[n]]
    /\ writer' = [writer EXCEPT ![n] = IF Local[n] = {} THEN "agent" ELSE "nobody"]
    /\ UNCHANGED <<leaving, replica, log, wire, events, agents, waiting>>

Proceed(n, j) == job' = [job EXCEPT ![n] = IF j.todo = {} THEN NoJob ELSE j]

StartupCount(n) ==
    /\ job[n].at = "count"
    /\ Proceed(n, [job[n] EXCEPT !.at = IF reg = {n} THEN "alone" ELSE "send",
                                 !.todo = local[n]])
    /\ UNCHANGED <<ring, folders, wire, wants, events, agents, sync, spent>>

\* A node that is alone keeps the replica and the log.  A file that is gone
\* ends its startup (Files.copy throws).
CopiesHere(n, f) ==
    /\ replica' = [replica EXCEPT ![n][f] = IF f \in local[n] THEN "whole" ELSE @]
    /\ log' = [log EXCEPT ![n][f] = n]
    /\ UNCHANGED wire

\* The file and its log go to the target; the log here is deleted.
SendsAway(n, f) ==
    LET to == Target(n, f)
    IN  /\ \E sent \in ThenGone(n, to, SendsLog(n, to, f, n)) :
              wire' = wire \union SendsReplica(n, to, f, LocalState(n, f)) \union sent
        /\ log' = [log EXCEPT ![n][f] = NoLog]
        /\ UNCHANGED replica

StartupFile(n) ==
    \E f \in job[n].todo :
        /\ job[n].op = "startup"
        /\ IF job[n].at = "alone" THEN CopiesHere(n, f) ELSE SendsAway(n, f)
        /\ Proceed(n, [job[n] EXCEPT !.todo =
               IF job[n].at = "alone" /\ f \notin local[n] THEN {} ELSE @ \ {f}])
        /\ UNCHANGED <<ring, local, wants, events, agents, sync, spent>>

-------------------------------------------------------------------------------
(***************************************************************************)
(* update: for each replica, ask for the owner's address, ask for its id,  *)
(* and move the replica when it belongs elsewhere.                         *)
(***************************************************************************)
Held(n) == {f \in File : replica[n][f] # "none"}

UpdateBegin(n) ==
    /\ n \in wants /\ job[n] = NoJob /\ Arrived
    /\ wants' = wants \ {n}
    /\ Proceed(n, [NoJob EXCEPT !.op = "update", !.at = "ip", !.todo = Held(n)])
    /\ UNCHANGED <<ring, folders, wire, events, agents, sync, spent>>

UpdateAsk(n) ==
    /\ job[n].at = "ip"
    /\ \E f \in job[n].todo :
          job' = [job EXCEPT ![n].at = "id", ![n].file = f, ![n].ip = Owner(f)]
    /\ UNCHANGED <<ring, folders, wire, wants, events, agents, sync, spent>>

Moves(n, ip, f) ==
    /\ \E sent \in ThenGone(n, ip, SendsReplica(n, ip, f, replica[n][f])),
         slog \in ThenGone(n, ip, SendsLog(n, ip, f, log[n][f])) :
          wire' = wire \union sent \union slog
    /\ replica' = [replica EXCEPT ![n][f] = "none"]
    /\ log' = [log EXCEPT ![n][f] = NoLog]

\* Bug in targetIsOrigin: the origin is never recognised.
BugTargetIsOrigin(n, f, ip) == FALSE

TargetIsOrigin(n, f, ip) == ip # NoNode /\ log[n][f] = ip

UpdateMove(n) ==
    LET f  == job[n].file
        id == IF TargetIsOrigin(n, f, job[n].ip) THEN PrevOf(Owner(f)) ELSE Owner(f)
        ip == IF TargetIsOrigin(n, f, job[n].ip) THEN id ELSE job[n].ip
    IN  /\ job[n].at = "id" /\ Arrived
        /\ IF id = n THEN UNCHANGED <<replica, log, wire>> ELSE Moves(n, ip, f)
        /\ Proceed(n, [job[n] EXCEPT !.at = "ip", !.todo = @ \ {f}, !.file = NoFile,
                                     !.ip = NoNode])
        /\ UNCHANGED <<ring, local, wants, events, agents, sync, spent>>

-------------------------------------------------------------------------------
(***************************************************************************)
(* shutdown deregisters; shutDown then has the replicas of the local files *)
(* deleted and hands the replicas it holds to the previous node, or to the *)
(* one before when that is the origin.                                     *)
(***************************************************************************)
Leave(n) ==
    /\ n \in up \cap reg
    /\ Acts("leave", "leave", MaxLeaves)
    /\ reg' = reg \ {n}
    /\ leaving' = [leaving EXCEPT ![n] = GetPrevNode(reg, n)]
    /\ UNCHANGED <<up, folders, wire, job, wants, events, agents, sync>>

ShutBegin(n) ==
    /\ leaving[n] # NoNode /\ job[n] = NoJob /\ Arrived
    /\ wire' = wire \union UNION {Deletes(n, Target(n, f), f) : f \in local[n]}
    /\ job' = [job EXCEPT ![n] = [NoJob EXCEPT !.op = "shutdown", !.at = "move", !.todo = Held(n)]]
    /\ local[n] # {} => writer[n] = "nobody"
    /\ DeleteLocalFiles(n, "shutdown", local[n])
    /\ UNCHANGED <<ring, folders, waiting, wants, events, agents, spent>>

\* After the replica of the first file it waits for the sync agent, for ever.
ShutHangs(n) ==
    /\ leaving[n] # NoNode /\ job[n] = NoJob /\ Arrived /\ writer[n] # "nobody"
    /\ \E f \in local[n] : wire' = wire \union Deletes(n, Target(n, f), f)
    /\ job' = [job EXCEPT ![n] = [NoJob EXCEPT !.op = "shutdown", !.at = "wait"]]
    /\ UNCHANGED <<ring, folders, wants, events, agents, sync, spent>>

ShutMove(n) ==
    LET p == leaving[n]
    IN  \E f \in job[n].todo :
            /\ job[n].op = "shutdown"
            /\ Moves(n, IF TargetIsOrigin(n, f, p) /\ p \in reg THEN PrevOf(p) ELSE p, f)
            /\ job' = [job EXCEPT ![n].todo = @ \ {f}]
            /\ UNCHANGED <<ring, local, wants, events, agents, sync, spent>>

(***************************************************************************)
(* A process ends.  What was on its way to it is lost, and its folders are *)
(* emptied before it is launched again (launch.sh).                        *)
(***************************************************************************)
\* Bug in shutdown: the file manager's work goes on after it.
BugEnds(n, sent) ==
    /\ up' = up \ {n} /\ wants' = wants \ {n}
    /\ leaving' = [leaving EXCEPT ![n] = NoNode]
    /\ local' = [local EXCEPT ![n] = {}]
    /\ replica' = [replica EXCEPT ![n] = Empty("none")]
    /\ log' = [log EXCEPT ![n] = Empty(NoLog)]
    /\ wire' = {t \in wire : n \notin {t.to, t.from}} \union {t \in sent : t.to # n}
    /\ UNCHANGED job
    /\ events' = [events EXCEPT ![n] = << >>]
    /\ agents' = {a \in agents : a.at # n}
    /\ listed' = [listed EXCEPT ![n] = {}] /\ writer' = [writer EXCEPT ![n] = "nobody"]
    /\ waiting' = {w \in waiting : w[1] # n}

Ends(n, sent) ==
    /\ up' = up \ {n} /\ wants' = wants \ {n}
    /\ leaving' = [leaving EXCEPT ![n] = NoNode]
    /\ local' = [local EXCEPT ![n] = {}]
    /\ replica' = [replica EXCEPT ![n] = Empty("none")]
    /\ log' = [log EXCEPT ![n] = Empty(NoLog)]
    /\ wire' = {t \in wire : n \notin {t.to, t.from}} \union {t \in sent : t.to # n}
    /\ job' = [job EXCEPT ![n] = NoJob]
    /\ events' = [events EXCEPT ![n] = << >>]
    /\ agents' = {a \in agents : a.at # n}
    /\ listed' = [listed EXCEPT ![n] = {}] /\ writer' = [writer EXCEPT ![n] = "nobody"]
    /\ waiting' = {w \in waiting : w[1] # n}

Exit(n) ==
    /\ job[n].op = "shutdown" /\ job[n].at = "move" /\ job[n].todo = {}
    /\ Ends(n, {t \in wire : t.from = n})
    /\ UNCHANGED <<reg, spent>>

(***************************************************************************)
(* A transfer that a crash interrupts has come through, has not, or leaves *)
(* a file that is too short.                                               *)
(***************************************************************************)
Cut(t) == [t EXCEPT !.data = IF t.what = "log" THEN Garbled ELSE "cut"]

HasContent(t) == IF t.what = "log" THEN t.data # NoLog ELSE t.data # "none"

Crash(n) ==
    /\ n \in up
    /\ Acts("crash", "crash", MaxCrashes)
    /\ \E whole \in SUBSET {t \in wire : t.from = n} :
       \E cut \in SUBSET {t \in wire \ whole : t.from = n /\ HasContent(t)} :
          Ends(n, whole \union {Cut(t) : t \in cut})
    /\ UNCHANGED reg

-------------------------------------------------------------------------------
(***************************************************************************)
(* failNode deregisters the node, if it is still registered, and launches  *)
(* a failure agent at its next node, with the map as it is then.           *)
(***************************************************************************)
NewAgent(n, first, map, again) ==
    [failed |-> n, first |-> first, at |-> first, map |-> map, seen |-> {}, again |-> again]

Report(n) ==
    LET first == GetNextNode(reg', n)
    IN  /\ n \in reg \ up /\ up # {}
        /\ reg' = reg \ {n}
        /\ agents' = agents \union
               IF first \in up THEN {NewAgent(n, first, reg', FALSE)} ELSE {}
        /\ UNCHANGED <<up, leaving, folders, wire, job, wants, events, sync, spent>>

\* The other neighbour reports the node as well, while the agent is under way.
ReportAgain(n) ==
    LET first == GetNextNode(reg, n)
    IN  /\ n \notin reg \union up /\ \E a \in agents : a.failed = n
        /\ first \in up
        /\ spent.repeat < MaxRepeats
        /\ spent' = [spent EXCEPT !.repeat = @ + 1]
        /\ agents' = agents \union {NewAgent(n, first, reg, TRUE)}
        /\ UNCHANGED <<ring, folders, wire, job, wants, events, sync>>

\* Bug in FailureAgent.run: the files whose target is this node are left out.
BugLost(a, n) ==
    {f \in local[n] : GetPrevNode(a.map \union {a.failed}, Hash[f]) = a.failed}

\* The replicas of n's files that were at the failed node.
Lost(a, n) ==
    LET dummy == a.map \union {a.failed}
    IN  {f \in local[n] :
            LET target == GetPrevNode(dummy, Hash[f])
            IN  \/ target = a.failed
                \/ target = n /\ GetPrevNode(dummy, n) = a.failed}

\* recreateReplica writes a log, and deletes it once it is sent.
LogThen(a, n, alone) ==
    [f \in File |-> IF f \notin Lost(a, n) THEN log[n][f] ELSE IF alone THEN n ELSE NoLog]

\* Bug in FailureAgent.run: nothing stops the agent.
BugGoesOn(a, next) == next \in up

\* Bug in FailureAgent.run: it looks for the failed node, not for the first.
BugStopsAtFailed(a, next) == next # a.failed /\ next \in up

\* The agent is done when the next node is the one it started at.
GoesOn(a, next) == next # a.first /\ next \in up

(***************************************************************************)
(* FailureAgent.run at one node: replicas are made again, or kept here     *)
(* when the node is alone; replicas of the failed node's files, and those  *)
(* without a readable log, are deleted here and at the sync agent; then    *)
(* the agent goes on.  When the write lock of the sync agent is kept by    *)
(* somebody else it waits there for ever, and so does every later agent    *)
(* (runAgent joins its thread); when the next node does not answer it ends *)
(* at the first file that is listed.                                       *)
(***************************************************************************)
AgentVisit(a) ==
    LET n     == a.at
        next  == GetNextNode(reg, n)
        alone == next = n
        logs  == LogThen(a, n, alone)
        orphans == {f \in Held(n) : logs[f] \in {NoLog, Garbled, a.failed}}
        hangs == orphans # {} /\ writer[n] # "nobody"
        sent(f) == SendsReplica(n, Target(n, f), f, "whole") \union SendsLog(n, Target(n, f), f, n)
    IN  /\ n \in up /\ Arrived /\ <<n, "agent">> \notin waiting
        /\ wire' = IF alone THEN wire ELSE wire \union UNION {sent(f) : f \in Lost(a, n)}
        /\ \E gone \in SUBSET orphans :
              /\ IF hangs THEN gone = {}
                 ELSE IF NextAnswers(n) THEN gone = orphans ELSE gone \cap listed[n] = {}
              /\ replica' = [replica EXCEPT ![n] = [f \in File |->
                                IF f \in gone THEN "none"
                                ELSE IF alone /\ f \in Lost(a, n) THEN "whole" ELSE @[f]]]
              /\ log' = [log EXCEPT ![n] = [f \in File |->
                            IF f \in gone /\ logs[f] = a.failed THEN NoLog ELSE logs[f]]]
        /\ IF hangs
           THEN waiting' = waiting \union {<<n, "agent">>} /\ UNCHANGED <<listed, writer>>
           ELSE DeleteLocalFiles(n, "agent", orphans) /\ UNCHANGED waiting
        /\ agents' = (agents \ {a}) \union
               {[a EXCEPT !.at = m, !.seen = @ \union {n}] :
                   m \in IF GoesOn(a, next) /\ ~ hangs THEN {next} ELSE {}}
        /\ UNCHANGED <<ring, local, job, wants, events, spent>>

-------------------------------------------------------------------------------
(***************************************************************************)
(* A user creates, changes or deletes a file in the local folder.  The     *)
(* watcher sees it if it has been registered, which is after startup.      *)
(***************************************************************************)
Edit(n, kind, f) ==
    /\ n \in up \cap reg /\ <<n, f>> \in Changeable
    /\ Acts(kind, "edit", MaxEdits)
    /\ events' = IF job[n].op = "startup" THEN events
                 ELSE [events EXCEPT ![n] = Append(@, [kind |-> kind, file |-> f])]
    /\ UNCHANGED <<ring, log, job, wants, agents, sync>>

Create(n, f) ==
    /\ f \notin local[n] /\ (reg = {n} => CreateAlone)
    /\ local' = [local EXCEPT ![n] = @ \union {f}]
    /\ Edit(n, "create", f)
    /\ UNCHANGED <<replica, wire>>

\* A change makes every copy of the file out of date.
Aged(data) == IF data = "whole" THEN "stale" ELSE data
IsCopy(t, f) == t.what = "replica" /\ t.file = f

Modify(n, f) ==
    /\ f \in local[n]
    /\ replica' = [m \in Node |-> [replica[m] EXCEPT ![f] = Aged(@)]]
    /\ wire' = {t \in wire : ~ IsCopy(t, f)}
                 \union {[t EXCEPT !.data = Aged(@)] : t \in {u \in wire : IsCopy(u, f)}}
    /\ Edit(n, "modify", f)
    /\ UNCHANGED local

Delete(n, f) ==
    /\ f \in local[n]
    /\ local' = [local EXCEPT ![n] = @ \ {f}]
    /\ Edit(n, "delete", f)
    /\ UNCHANGED <<replica, wire>>

(***************************************************************************)
(* checkDirectory handles one event.  The log that ENTRY_CREATE writes     *)
(* stays here; sent to the node itself, it is opened for writing while it  *)
(* is read.  Then the sync agent is told, before a new file itself is      *)
(* sent, and after the replica of a deleted one is.                        *)
(***************************************************************************)
Created(n, f, waits) ==
    LET to == Target(n, f)
    IN  /\ log' = [log EXCEPT ![n][f] = n]
        /\ \E content \in IF To(n, to) = n THEN {n, Garbled} ELSE {n} :
              wire' = wire \union SendsLog(n, to, f, content) \union
                          IF waits THEN {} ELSE SendsReplica(n, to, f, LocalState(n, f))
        /\ listed' = IF waits THEN listed ELSE [listed EXCEPT ![n] = @ \union {f}]
        /\ UNCHANGED writer

Modified(n, f) ==
    /\ wire' = wire \union SendsReplica(n, Target(n, f), f, LocalState(n, f))
    /\ UNCHANGED <<log, listed, writer>>

Deleted(n, f, waits) ==
    /\ wire' = wire \union Deletes(n, Target(n, f), f)
    /\ IF waits THEN UNCHANGED <<listed, writer>> ELSE DeleteLocalFiles(n, "watcher", {f})
    /\ UNCHANGED log

Watch(n) ==
    LET e     == Head(events[n])
        waits == e.kind # "modify" /\ writer[n] \notin {"nobody", "watcher"}
    IN  /\ events[n] # << >> /\ job[n].op # "startup" /\ <<n, "watcher">> \notin waiting
        /\ CASE e.kind = "create" -> Created(n, e.file, waits)
             [] e.kind = "modify" -> Modified(n, e.file)
             [] e.kind = "delete" -> Deleted(n, e.file, waits)
        /\ IF waits
           THEN waiting' = waiting \union {<<n, "watcher">>} /\ UNCHANGED events
           ELSE events' = [events EXCEPT ![n] = Tail(@)] /\ UNCHANGED waiting
        /\ UNCHANGED <<ring, local, replica, job, wants, agents, spent>>

-------------------------------------------------------------------------------
Work(n) ==
    \/ StartupCount(n) \/ StartupFile(n)
    \/ UpdateBegin(n) \/ UpdateAsk(n) \/ UpdateMove(n)
    \/ ShutBegin(n) \/ ShutHangs(n) \/ ShutMove(n) \/ Exit(n)

Environment ==
    \E n \in Node :
        \/ Start(n) \/ Leave(n) \/ Crash(n)
        \/ \E f \in File : Create(n, f) \/ Modify(n, f) \/ Delete(n, f)

Next ==
    \/ Environment
    \/ \E n \in Node : Work(n) \/ Watch(n) \/ Report(n) \/ ReportAgain(n)
    \/ \E t \in wire : Receive(t)
    \/ \E a \in agents : AgentVisit(a)

Spec == Init /\ [][Next]_vars

(***************************************************************************)
(* The threads of a process that runs get on with their work, transfers    *)
(* arrive, pings find out about crashes (module Ring) and agents run.      *)
(* Users and nodes need not do anything.                                   *)
(***************************************************************************)
Fairness ==
    /\ \A n \in Node : WF_vars(Work(n)) /\ WF_vars(Watch(n)) /\ WF_vars(Report(n))
    /\ WF_vars(\E t \in wire : Receive(t))
    /\ WF_vars(\E a \in agents : AgentVisit(a))

FairSpec == Spec /\ Fairness

-------------------------------------------------------------------------------
(***************************************************************************)
(* When all is quiet, every file of a node that is up has its one replica  *)
(* where the name server says, or at the node before when that is the      *)
(* origin itself, complete, up to date and with a log that names the       *)
(* origin: startup, update, shutDown, the watcher and the failure agent,   *)
(* each of which looks at some of the files at some of the nodes, together *)
(* miss none and move none twice.                                          *)
(***************************************************************************)
ReplicasInPlace ==
    Quiet => \A n, m \in up : \A f \in local[n] :
                /\ replica[m][f] = IF m = Target(n, f) THEN "whole" ELSE "none"
                /\ m = Target(n, f) => log[m][f] = n

(***************************************************************************)
(* When all is quiet, nobody keeps a replica of a file whose origin left,  *)
(* crashed or deleted it.                                                  *)
(***************************************************************************)
NoStrays ==
    Quiet => \A m \in up : Held(m) \subseteq UNION {local[n] : n \in up}

(***************************************************************************)
(* The replica of a file is never gone, not even while it moves: it is at  *)
(* some node or on its way to one, unless its origin has not come to send  *)
(* it yet, or a node has crashed and the agent has not come round.         *)
(***************************************************************************)
Exists(f) ==
    \/ \E m \in up : replica[m][f] \in {"stale", "whole"}
    \/ \E t \in wire : IsCopy(t, f) /\ t.data \in {"stale", "whole"}

NotYetSent(n, f) ==
    \/ job[n].op = "startup" /\ (job[n].at = "count" \/ f \in job[n].todo)
    \/ \E k \in DOMAIN events[n] : events[n][k] = [kind |-> "create", file |-> f]

ReplicaSurvives ==
    \A n \in up \cap reg : \A f \in local[n] :
        Exists(f) \/ NotYetSent(n, f) \/ ~ reg \subseteq up \/ agents # {} \/ waiting # {}

(***************************************************************************)
(* "The agent should never pass by the same node twice" (FailureAgent).    *)
(***************************************************************************)
AgentPassesOnce == \A a \in agents : a.at \notin a.seen

(***************************************************************************)
(* Jobs, transfers and agents come to an end: the file manager's monitor   *)
(* is released and the agent finds back to where it started, unless they   *)
(* wait for a write lock that a sync agent's caller has kept.  (When every *)
(* process is gone there is nobody to find out.)                           *)
(***************************************************************************)
AtRest ==
    /\ reg \subseteq up /\ wire = {}
    /\ \A a \in agents : <<a.at, "agent">> \in waiting
    /\ \A n \in up : events[n] = << >> \/ <<n, "watcher">> \in waiting
    /\ \A n \in up : \/ job[n].at = "wait"
                     \/ n \in reg \ wants /\ job[n] = NoJob /\ leaving[n] = NoNode

SettlesDown == []<>(AtRest \/ up = {})
================================================================================
