--------------------------- MODULE ReplicationProofs ---------------------------
(***************************************************************************)
(* The types of the replication; that a failure agent meets no node twice  *)
(* when nodes start, leave and crash one at a time, whatever the jobs,     *)
(* transfers and users do meanwhile and however often a node fails; and,   *)
(* when every change has been worked off before the next and each crash is *)
(* reported once, that each file ends up with its one replica where it     *)
(* belongs, that nobody keeps strays, and that no replica is lost on the   *)
(* way.  Once a watcher or an agent waits for ever for a sync agent's      *)
(* write lock nothing is quiet any more, and nothing is said.              *)
(***************************************************************************)
EXTENDS Replication, RingOrderProofs

(***************************************************************************)
(* TypeOK in its parts.  Beside the types: only a process that runs can be *)
(* shutting down, and an update that has asked for an address is about one *)
(* of the files it still has to do.                                        *)
(***************************************************************************)
RingOK ==
    /\ reg \subseteq Node /\ up \subseteq Node
    /\ leaving \in [Node -> Node \union {NoNode}]
    /\ \A n \in Node : n \notin up => leaving[n] = NoNode

FoldersOK ==
    /\ local \in [Node -> SUBSET File]
    /\ replica \in [Node -> [File -> State]]
    /\ log \in [Node -> [File -> Log]]

WireOK == wire \subseteq Transfer

Fits(j) ==
    /\ j.at = "id" => j.file \in j.todo
    /\ j.at \in {"ip", "id"} => j.op = "update"

JobsOK ==
    /\ job \in [Node -> Job]
    /\ \A n \in Node : n \notin up => job[n] = NoJob
    /\ \A n \in Node : Fits(job[n])

Event == [kind : {"create", "modify", "delete"}, file : File]

EventsOK == events \in [Node -> Seq(Event)]

SpentOK == spent \in [start : 0 .. MaxStarts, leave : 0 .. MaxLeaves,
                      crash : 0 .. MaxCrashes, repeat : 0 .. MaxRepeats,
                      edit : 0 .. MaxEdits]

\* What is kept of the sync agents; it plays no part in the other types.
SyncOK ==
    /\ listed \in [Node -> SUBSET File]
    /\ writer \in [Node -> Thread \union {"nobody"}]
    /\ waiting \subseteq Node \X {"agent", "watcher"}

TypeInv ==
    /\ RingOK /\ FoldersOK /\ WireOK /\ JobsOK /\ EventsOK /\ SpentOK
    /\ wants \subseteq up /\ agents \subseteq Agent

LEMMA TypeInvTypes == TypeInv /\ SyncOK => TypeOK
BY DEF TypeInv, SyncOK, TypeOK, RingOK, FoldersOK, WireOK, JobsOK, EventsOK, SpentOK, Event

-------------------------------------------------------------------------------
(***************************************************************************)
(* The operators.                                                          *)
(***************************************************************************)
LEMMA NodeFacts ==
    /\ MaxId \in Nat /\ Node \subseteq 0 .. MaxId /\ Node \subseteq Nat
    /\ \A f \in File : Hash[f] \in Nat
    /\ \A n \in Node : Local[n] \subseteq File /\ n # NoNode
BY ReplicationAssumption DEF NoNode

LEMMA Lookups ==
    ASSUME NEW S, S \subseteq Node, NEW i \in Nat
    PROVE  /\ GetPrevNode(S, i) \in Node \union {NoNode}
           /\ GetNextNode(S, i) \in Node \union {NoNode}
           /\ S # {} => GetPrevNode(S, i) \in S /\ GetNextNode(S, i) \in S
<1>1. CASE S = {}
  BY <1>1 DEF GetPrevNode, GetNextNode
<1>2. CASE S # {}
  <2>1. S \subseteq Nat /\ S \subseteq 0 .. MaxId /\ MaxId \in Nat
    BY NodeFacts
  <2>2. IsNext(S, i, GetNextNode(S, i))
    BY <1>2, <2>1, GetNextNodeIsNext
  <2>3. IsPrev(S, i, GetPrevNode(S, i))
    BY <1>2, <2>1, GetPrevNodeIsPrev
  <2> QED BY <2>2, <2>3 DEF IsNext, IsPrev
<1> QED BY <1>1, <1>2

\* The name server's answers to a node.
LEMMA Answers ==
    ASSUME RingOK, NEW n \in Node, NEW f \in File
    PROVE  /\ Owner(f) \in Node \union {NoNode} /\ PrevOf(n) \in Node \union {NoNode}
           /\ GetPrevNode(reg, n) \in Node \union {NoNode}
<1>1. n \in Nat /\ Hash[f] \in Nat /\ reg \subseteq Node
  BY NodeFacts DEF RingOK
<1> QED BY <1>1, Lookups DEF Owner, PrevOf

LEMMA SendsAreTransfers ==
    ASSUME RingOK, NEW n \in Node, NEW ip, NEW f \in File
    PROVE  /\ \A data \in State : SendsReplica(n, ip, f, data) \subseteq Transfer
           /\ \A origin \in Log : SendsLog(n, ip, f, origin) \subseteq Transfer
           /\ Deletes(n, ip, f) \subseteq Transfer
<1>1. ASSUME NEW data \in State PROVE Sends("replica", n, ip, f, data) \subseteq Transfer
  BY DEF Sends, Transfer, RingOK
<1>2. ASSUME NEW origin \in Log PROVE Sends("log", n, ip, f, origin) \subseteq Transfer
  BY DEF Sends, Transfer, RingOK
<1>3. "none" \in State /\ NoLog \in Log
  BY DEF State, Log
<1>4. Deletes(n, ip, f) \subseteq Transfer
  BY <1>1, <1>2, <1>3 DEF Deletes
<1> QED BY <1>1, <1>2, <1>4 DEF SendsReplica, SendsLog

LEMMA ThenGoneSends ==
    ASSUME NEW n, NEW ip, NEW sends, sends \subseteq Transfer, NEW sent \in ThenGone(n, ip, sends)
    PROVE  sent \subseteq Transfer
BY DEF ThenGone

\* One job of one node that runs.
LEMMA JobSet ==
    ASSUME JobsOK, NEW n \in Node, n \in up', up' = up, NEW j \in Job,
           Fits(j), job' = [job EXCEPT ![n] = j]
    PROVE  JobsOK'
BY DEF JobsOK

LEMMA NoJobIsJob == NoJob \in Job /\ NoJob.at = "end" /\ NoJob.op = "none" /\ Fits(NoJob)
BY DEF NoJob, Job, Fits

LEMMA Proceeds ==
    ASSUME JobsOK, NEW n \in Node, n \in up, up' = up, NEW j \in Job,
           Fits(j), Proceed(n, j)
    PROVE  JobsOK'
<1>1. CASE j.todo = {}
  BY <1>1, NoJobIsJob, JobSet DEF Proceed
<1>2. CASE j.todo # {}
  BY <1>2, JobSet DEF Proceed
<1> QED BY <1>1, <1>2

LEMMA Busy ==
    ASSUME JobsOK, NEW n \in Node, job[n] # NoJob
    PROVE  n \in up
BY DEF JobsOK

LEMMA JobFields ==
    ASSUME NEW j \in Job
    PROVE  j.todo \subseteq File /\ j.ip \in Node \union {NoNode}
BY DEF Job

LEMMA JobMoved ==
    ASSUME NEW j \in Job, NEW a \in {"end", "count", "alone", "send", "ip", "id", "move"},
           NEW T \in SUBSET File
    PROVE  LET k == [j EXCEPT !.at = a, !.todo = T] IN k \in Job /\ k.at = a /\ k.op = j.op
BY DEF Job

LEMMA JobTodo ==
    ASSUME NEW j \in Job, NEW T \in SUBSET File
    PROVE  LET k == [j EXCEPT !.todo = T] IN k \in Job /\ k.at = j.at /\ k.op = j.op
BY DEF Job

LEMMA FolderSet ==
    ASSUME FoldersOK, NEW n \in Node, NEW f \in File
    PROVE  /\ \A v \in State : [replica EXCEPT ![n][f] = v] \in [Node -> [File -> State]]
           /\ \A v \in Log : [log EXCEPT ![n][f] = v] \in [Node -> [File -> Log]]
           /\ replica[n][f] \in State /\ log[n][f] \in Log /\ local[n] \subseteq File
BY DEF FoldersOK

LEMMA Constants ==
    /\ {"none", "cut", "stale", "whole"} \subseteq State
    /\ Node \subseteq Log /\ NoLog \in Log /\ Garbled \in Log
    /\ \A n, f : LocalState(n, f) \in State
    /\ \A data \in State : Aged(data) \in State
BY DEF State, Log, LocalState, Aged

-------------------------------------------------------------------------------
LEMMA InitTypes == Init => TypeInv
<1> SUFFICES ASSUME Init PROVE TypeInv
  OBVIOUS
<1> USE DEF Init
<1>1. RingOK
  BY DEF RingOK
<1>2. FoldersOK
  BY DEF FoldersOK, Empty, State, Log
<1>3. JobsOK
  BY NoJobIsJob DEF JobsOK
<1>4. SpentOK
  BY ReplicationAssumption DEF SpentOK
<1>5. EventsOK
  BY DEF EventsOK
<1> QED BY <1>1, <1>2, <1>3, <1>4, <1>5 DEF TypeInv, WireOK

LEMMA ActsTypes ==
    ASSUME SpentOK,
           \E change : \/ Acts(change, "start", MaxStarts) \/ Acts(change, "leave", MaxLeaves)
                       \/ Acts(change, "crash", MaxCrashes) \/ Acts(change, "edit", MaxEdits)
    PROVE  SpentOK'
<1>1. /\ MaxStarts \in Nat /\ MaxLeaves \in Nat /\ MaxCrashes \in Nat
      /\ MaxRepeats \in Nat /\ MaxEdits \in Nat
  BY ReplicationAssumption
<1> QED BY <1>1 DEF SpentOK, Acts

(***************************************************************************)
(* Steps that only change the folders, the wire, jobs and calls of update. *)
(***************************************************************************)
LEMMA WorkFrame ==
    ASSUME TypeInv, UNCHANGED <<ring, local, events, agents, spent>>,
           JobsOK', WireOK', replica' \in [Node -> [File -> State]],
           log' \in [Node -> [File -> Log]], wants' \subseteq wants
    PROVE  TypeInv'
BY DEF TypeInv, RingOK, FoldersOK, EventsOK, SpentOK, ring

LEMMA SameJobs ==
    ASSUME JobsOK, UNCHANGED <<job, up>>
    PROVE  JobsOK'
BY DEF JobsOK

LEMMA ReceiveTypes ==
    ASSUME TypeInv, NEW t \in wire, Receive(t)
    PROVE  TypeInv'
<1>1. t \in Transfer /\ t.to \in Node /\ t.file \in File
  BY DEF TypeInv, WireOK, Transfer
<1>2. /\ t.what = "replica" => t.data \in State
      /\ t.what # "replica" => t.data \in Log
  BY <1>1 DEF Transfer
<1>3. replica' \in [Node -> [File -> State]] /\ log' \in [Node -> [File -> Log]]
  <2>1. FoldersOK
    BY DEF TypeInv
  <2>2. CASE t.what = "replica"
    <3>1. replica' = [replica EXCEPT ![t.to][t.file] = t.data] /\ log' = log
      BY <2>2 DEF Receive
    <3> QED BY <1>1, <1>2, <2>1, <2>2, <3>1, FolderSet DEF FoldersOK
  <2>3. CASE t.what # "replica"
    <3>1. log' = [log EXCEPT ![t.to][t.file] = t.data] /\ replica' = replica
      BY <2>3 DEF Receive
    <3> QED BY <1>1, <1>2, <2>1, <2>3, <3>1, FolderSet DEF FoldersOK
  <2> QED BY <2>2, <2>3
<1>4. WireOK'
  BY DEF Receive, TypeInv, WireOK
<1>5. JobsOK' /\ UNCHANGED <<ring, local, events, agents, spent, wants>>
  BY SameJobs DEF Receive, TypeInv, ring
<1> QED BY <1>3, <1>4, <1>5, WorkFrame

LEMMA StartTypes ==
    ASSUME TypeInv, NEW n \in Node, Start(n)
    PROVE  TypeInv'
<1>1. RingOK'
  BY DEF Start, TypeInv, RingOK
<1>2. FoldersOK'
  BY NodeFacts DEF Start, TypeInv, FoldersOK
<1>3. JobsOK'
  <2>1. job' = [job EXCEPT ![n] = [NoJob EXCEPT !.op = "startup", !.at = "count"]]
    BY DEF Start
  <2>2. /\ [NoJob EXCEPT !.op = "startup", !.at = "count"] \in Job
        /\ Fits([NoJob EXCEPT !.op = "startup", !.at = "count"])
    BY DEF NoJob, Job, Fits
  <2>3. up' = up \union {n}
    BY DEF Start
  <2> HIDE DEF Job
  <2> QED BY <2>1, <2>2, <2>3 DEF TypeInv, JobsOK
<1>4. SpentOK'
  BY ActsTypes DEF Start, TypeInv
<1>5. wants' \subseteq up'
  BY DEF Start, TypeInv
<1> QED BY <1>1, <1>2, <1>3, <1>4, <1>5 DEF Start, TypeInv, WireOK, EventsOK

LEMMA StartupTypes ==
    ASSUME TypeInv, NEW n \in Node, StartupCount(n) \/ StartupFile(n)
    PROVE  TypeInv'
<1> USE DEF TypeInv
<1>0. job[n] \in Job
  BY DEF JobsOK
<1>1. CASE StartupCount(n)
  <2>1. n \in up
    BY <1>1, Busy, NoJobIsJob DEF StartupCount
  <2>2. local[n] \in SUBSET File
    BY DEF FoldersOK
  <2>3. PICK a \in {"alone", "send"} : Proceed(n, [job[n] EXCEPT !.at = a, !.todo = local[n]])
    BY <1>1 DEF StartupCount
  <2>4. up' = up
    BY <1>1 DEF StartupCount, ring
  <2>5. /\ [job[n] EXCEPT !.at = a, !.todo = local[n]] \in Job
        /\ Fits([job[n] EXCEPT !.at = a, !.todo = local[n]])
    BY <1>0, <2>2, JobMoved DEF Fits
  <2>6. JobsOK'
    BY <2>1, <2>3, <2>4, <2>5, Proceeds
  <2> QED BY <1>1, <2>6, WorkFrame DEF StartupCount, folders, FoldersOK, WireOK
<1>2. CASE StartupFile(n)
  <2>1. PICK f \in job[n].todo :
           /\ job[n].op = "startup"
           /\ IF job[n].at = "alone" THEN CopiesHere(n, f) ELSE SendsAway(n, f)
           /\ Proceed(n, [job[n] EXCEPT !.todo =
                  IF job[n].at = "alone" /\ f \notin local[n] THEN {} ELSE @ \ {f}])
           /\ UNCHANGED <<ring, local, wants, events, agents, spent>>
    BY <1>2 DEF StartupFile
  <2>2. n \in up /\ f \in File /\ up' = up
    BY <1>0, <2>1, Busy, JobFields, NoJobIsJob DEF ring
  <2>3. PICK T \in SUBSET File : Proceed(n, [job[n] EXCEPT !.todo = T])
    BY <1>0, <2>1, JobFields
  <2>4. JobsOK'
    <3>1. /\ [job[n] EXCEPT !.todo = T] \in Job
          /\ [job[n] EXCEPT !.todo = T].at = job[n].at
          /\ [job[n] EXCEPT !.todo = T].op = job[n].op
      BY <1>0, JobTodo
    <3>2. Fits([job[n] EXCEPT !.todo = T])
      <4>1. job[n].at \notin {"ip", "id"}
        BY <2>1 DEF Fits, JobsOK
      <4> QED BY <3>1, <4>1 DEF Fits
    <3> QED BY <2>2, <2>3, <3>1, <3>2, Proceeds
  <2>5. CASE CopiesHere(n, f)
    BY <2>1, <2>2, <2>4, <2>5, FolderSet, Constants, WorkFrame DEF CopiesHere, WireOK
  <2>6. CASE SendsAway(n, f)
    <3>1. /\ replica' = replica /\ log' = [log EXCEPT ![n][f] = NoLog]
          /\ \E sent \in ThenGone(n, Target(n, f), SendsLog(n, Target(n, f), f, n)) :
                wire' = wire \union SendsReplica(n, Target(n, f), f, LocalState(n, f)) \union sent
      BY <2>6 DEF SendsAway
    <3>2. WireOK'
      BY <2>2, <3>1, SendsAreTransfers, ThenGoneSends, Constants DEF WireOK
    <3> QED BY <2>1, <2>2, <2>4, <3>1, <3>2, FolderSet, Constants, WorkFrame DEF FoldersOK
  <2> QED BY <2>1, <2>5, <2>6
<1> QED BY <1>1, <1>2

\* A file that is handed on, of those the job has to do.
LEMMA MovesTypes ==
    ASSUME TypeInv, NEW n \in Node, NEW ip, NEW f \in File, Moves(n, ip, f)
    PROVE  /\ WireOK' /\ replica' \in [Node -> [File -> State]]
           /\ log' \in [Node -> [File -> Log]]
<1>1. FoldersOK /\ WireOK /\ RingOK
  BY DEF TypeInv
<1>2. replica[n][f] \in State /\ log[n][f] \in Log
  BY <1>1, FolderSet
<1>3. /\ SendsReplica(n, ip, f, replica[n][f]) \subseteq Transfer
      /\ SendsLog(n, ip, f, log[n][f]) \subseteq Transfer
  BY <1>1, <1>2, SendsAreTransfers
<1>4. PICK sent \in ThenGone(n, ip, SendsReplica(n, ip, f, replica[n][f])),
           slog \in ThenGone(n, ip, SendsLog(n, ip, f, log[n][f])) :
               wire' = wire \union sent \union slog
  BY DEF Moves
<1>5. sent \subseteq Transfer /\ slog \subseteq Transfer
  BY <1>3, ThenGoneSends
<1>6. /\ replica' = [replica EXCEPT ![n][f] = "none"]
      /\ log' = [log EXCEPT ![n][f] = NoLog]
  BY DEF Moves
<1>7. replica' \in [Node -> [File -> State]] /\ log' \in [Node -> [File -> Log]]
  BY <1>1, <1>6, FolderSet, Constants
<1> QED BY <1>1, <1>4, <1>5, <1>7 DEF WireOK

LEMMA UpdateTypes ==
    ASSUME TypeInv, NEW n \in Node, UpdateBegin(n) \/ UpdateAsk(n) \/ UpdateMove(n)
    PROVE  TypeInv'
<1>0. JobsOK /\ RingOK /\ FoldersOK /\ WireOK /\ wants \subseteq up
  BY DEF TypeInv
<1>a. job[n] \in Job /\ Fits(job[n])
  BY <1>0 DEF JobsOK
<1>1. CASE UpdateBegin(n)
  <2>1. n \in up /\ up' = up
    BY <1>0, <1>1 DEF UpdateBegin, ring
  <2>2. Held(n) \in SUBSET File
    BY DEF Held
  <2> DEFINE j == [NoJob EXCEPT !.op = "update", !.at = "ip", !.todo = Held(n)]
  <2>3. j \in Job /\ Fits(j)
    BY <2>2 DEF NoJob, Job, Fits
  <2>4. Proceed(n, j)
    BY <1>1 DEF UpdateBegin
  <2> HIDE DEF j
  <2>5. JobsOK'
    BY <1>0, <2>1, <2>3, <2>4, Proceeds
  <2> QED BY <1>0, <1>1, <2>5, WorkFrame DEF UpdateBegin, folders, FoldersOK, WireOK
<1>2. CASE UpdateAsk(n)
  <2>1. n \in up /\ up' = up
    BY <1>0, <1>2, Busy, NoJobIsJob DEF UpdateAsk, ring
  <2>2. PICK f \in job[n].todo :
           job' = [job EXCEPT ![n].at = "id", ![n].file = f, ![n].ip = Owner(f)]
    BY <1>2 DEF UpdateAsk
  <2>3. f \in File /\ Owner(f) \in Node \union {NoNode}
    BY <1>0, <1>a, JobFields, Answers
  <2> DEFINE j == [job[n] EXCEPT !.at = "id", !.file = f, !.ip = Owner(f)]
  <2>4. job' = [job EXCEPT ![n] = j]
    BY <1>0, <2>2 DEF JobsOK
  <2>5. job[n].op = "update"
    BY <1>2, <1>a DEF UpdateAsk, Fits
  <2>6. j \in Job /\ Fits(j)
    BY <1>a, <2>2, <2>3, <2>5 DEF Job, Fits
  <2> HIDE DEF j
  <2>7. JobsOK'
    BY <1>0, <2>1, <2>4, <2>6, JobSet
  <2> QED BY <1>0, <1>2, <2>7, WorkFrame DEF UpdateAsk, folders, FoldersOK, WireOK
<1>3. CASE UpdateMove(n)
  <2>1. n \in up /\ up' = up /\ job[n].at = "id"
    BY <1>0, <1>3, Busy, NoJobIsJob DEF UpdateMove, ring
  <2> DEFINE f == job[n].file
             j == [job[n] EXCEPT !.at = "ip", !.todo = @ \ {f}, !.file = NoFile, !.ip = NoNode]
  <2>2. f \in File
    BY <1>a, <2>1, JobFields DEF Fits
  <2>3. \/ UNCHANGED <<replica, log, wire>>
        \/ \E ip : Moves(n, ip, f)
    BY <1>3 DEF UpdateMove
  <2>4. Proceed(n, j) /\ UNCHANGED <<ring, local, wants, events, agents, spent>>
    BY <1>3 DEF UpdateMove
  <2>5. j \in Job /\ j.at = "ip" /\ j.op = job[n].op
    BY <1>a DEF Job
  <2>6. Fits(j)
    BY <1>a, <2>1, <2>5 DEF Fits
  <2> HIDE DEF j, f
  <2>7. JobsOK'
    BY <1>0, <2>1, <2>4, <2>5, <2>6, Proceeds
  <2>8. /\ WireOK' /\ replica' \in [Node -> [File -> State]]
        /\ log' \in [Node -> [File -> Log]]
    <3>1. CASE UNCHANGED <<replica, log, wire>>
      BY <1>0, <3>1 DEF FoldersOK, WireOK
    <3>2. CASE \E ip : Moves(n, ip, f)
      BY <2>2, <3>2, MovesTypes
    <3> QED BY <2>3, <3>1, <3>2
  <2> QED BY <2>4, <2>7, <2>8, WorkFrame
<1> QED BY <1>1, <1>2, <1>3

LEMMA LeaveTypes ==
    ASSUME TypeInv, NEW n \in Node, Leave(n)
    PROVE  TypeInv'
<1>1. RingOK'
  <2>1. GetPrevNode(reg, n) \in Node \union {NoNode}
    BY NodeFacts, Lookups DEF TypeInv, RingOK
  <2> QED BY <2>1 DEF Leave, TypeInv, RingOK
<1>2. SpentOK'
  BY ActsTypes DEF Leave, TypeInv
<1>3. JobsOK'
  BY SameJobs DEF Leave, TypeInv
<1> QED BY <1>1, <1>2, <1>3 DEF Leave, TypeInv, FoldersOK, WireOK, EventsOK, folders

LEMMA ShutTypes ==
    ASSUME TypeInv, NEW n \in Node, ShutBegin(n) \/ ShutHangs(n) \/ ShutMove(n)
    PROVE  TypeInv'
<1>0. JobsOK /\ RingOK /\ FoldersOK /\ WireOK
  BY DEF TypeInv
<1>a. job[n] \in Job /\ Fits(job[n])
  BY <1>0 DEF JobsOK
<1>1. CASE ShutBegin(n)
  <2>1. n \in up /\ up' = up
    BY <1>0, <1>1 DEF ShutBegin, RingOK, ring
  <2> DEFINE j == [NoJob EXCEPT !.op = "shutdown", !.at = "move", !.todo = Held(n)]
  <2>2. j \in Job /\ Fits(j)
    BY DEF NoJob, Job, Fits, Held
  <2>3. job' = [job EXCEPT ![n] = j]
    BY <1>1 DEF ShutBegin
  <2> HIDE DEF j
  <2>4. JobsOK'
    BY <1>0, <2>1, <2>2, <2>3, JobSet
  <2>5. WireOK'
    <3>1. \A f \in local[n] : f \in File
      BY <1>0 DEF FoldersOK
    <3>2. \A f \in local[n] : Deletes(n, Target(n, f), f) \subseteq Transfer
      BY <1>0, <3>1, SendsAreTransfers
    <3>3. wire' = wire \union UNION {Deletes(n, Target(n, f), f) : f \in local[n]}
      BY <1>1 DEF ShutBegin
    <3> QED BY <1>0, <3>2, <3>3 DEF WireOK
  <2> QED BY <1>0, <1>1, <2>4, <2>5, WorkFrame DEF ShutBegin, folders, FoldersOK
<1>2. CASE ShutMove(n)
  <2>1. PICK f \in job[n].todo :
           /\ job[n].op = "shutdown"
           /\ \E ip : Moves(n, ip, f)
           /\ job' = [job EXCEPT ![n].todo = @ \ {f}]
           /\ UNCHANGED <<ring, local, wants, events, agents, spent>>
    BY <1>2 DEF ShutMove
  <2>2. n \in up /\ up' = up /\ f \in File
    BY <1>0, <1>a, <2>1, Busy, JobFields, NoJobIsJob DEF ring
  <2>3. PICK T \in SUBSET File : job' = [job EXCEPT ![n] = [job[n] EXCEPT !.todo = T]]
    <3>1. job[n].todo \ {f} \in SUBSET File
      BY <1>a, JobFields
    <3>2. job' = [job EXCEPT ![n] = [job[n] EXCEPT !.todo = job[n].todo \ {f}]]
      BY <1>0, <2>1 DEF JobsOK
    <3> QED BY <3>1, <3>2
  <2>4. /\ [job[n] EXCEPT !.todo = T] \in Job
        /\ [job[n] EXCEPT !.todo = T].at = job[n].at
        /\ [job[n] EXCEPT !.todo = T].op = job[n].op
    BY <1>a, JobTodo
  <2>5. Fits([job[n] EXCEPT !.todo = T])
    <3>1. job[n].at \notin {"ip", "id"}
      BY <1>a, <2>1 DEF Fits
    <3> QED BY <2>4, <3>1 DEF Fits
  <2>6. JobsOK'
    BY <1>0, <2>2, <2>3, <2>4, <2>5, JobSet
  <2>7. /\ WireOK' /\ replica' \in [Node -> [File -> State]]
        /\ log' \in [Node -> [File -> Log]]
    BY <2>1, <2>2, MovesTypes
  <2> QED BY <2>1, <2>6, <2>7, WorkFrame
<1>3. CASE ShutHangs(n)
  <2>1. n \in up /\ up' = up
    BY <1>0, <1>3 DEF ShutHangs, RingOK, ring
  <2> DEFINE j == [NoJob EXCEPT !.op = "shutdown", !.at = "wait"]
  <2>2. j \in Job /\ Fits(j)
    BY DEF NoJob, Job, Fits
  <2>3. job' = [job EXCEPT ![n] = j]
    BY <1>3 DEF ShutHangs
  <2> HIDE DEF j
  <2>4. JobsOK'
    BY <1>0, <2>1, <2>2, <2>3, JobSet
  <2>5. WireOK'
    <3>1. PICK f \in local[n] : wire' = wire \union Deletes(n, Target(n, f), f)
      BY <1>3 DEF ShutHangs
    <3>2. f \in File
      BY <1>0 DEF FoldersOK
    <3> QED BY <1>0, <3>1, <3>2, SendsAreTransfers DEF WireOK
  <2> QED BY <1>0, <1>3, <2>4, <2>5, WorkFrame DEF ShutHangs, folders, FoldersOK
<1> QED BY <1>1, <1>2, <1>3

\* The end of a process, of whose transfers some are still carried out.
LEMMA EndsTypes ==
    ASSUME TypeInv, NEW n \in Node, NEW sent, sent \subseteq Transfer, Ends(n, sent),
           reg' = reg, SpentOK'
    PROVE  TypeInv'
<1>1. RingOK'
  BY DEF Ends, TypeInv, RingOK
<1>2. FoldersOK'
  <2>1. Empty("none") \in [File -> State] /\ Empty(NoLog) \in [File -> Log]
    BY DEF Empty, State, Log
  <2> QED BY <2>1 DEF Ends, TypeInv, FoldersOK
<1>3. WireOK'
  BY DEF Ends, TypeInv, WireOK
<1>4. JobsOK'
  BY NoJobIsJob DEF Ends, TypeInv, JobsOK
<1>5. EventsOK'
  BY DEF Ends, TypeInv, EventsOK
<1>6. wants' \subseteq up' /\ agents' \subseteq Agent
  BY DEF Ends, TypeInv
<1> QED BY <1>1, <1>2, <1>3, <1>4, <1>5, <1>6 DEF TypeInv

LEMMA ExitTypes ==
    ASSUME TypeInv, NEW n \in Node, Exit(n)
    PROVE  TypeInv'
<1>1. {t \in wire : t.from = n} \subseteq Transfer
  BY DEF TypeInv, WireOK
<1>2. SpentOK'
  BY DEF Exit, TypeInv, SpentOK
<1> QED BY <1>1, <1>2, EndsTypes DEF Exit

LEMMA CrashTypes ==
    ASSUME TypeInv, NEW n \in Node, Crash(n)
    PROVE  TypeInv'
<1>1. SpentOK'
  BY ActsTypes DEF Crash, TypeInv
<1>2. ASSUME NEW t \in wire PROVE Cut(t) \in Transfer
  <2>1. t \in Transfer
    BY DEF TypeInv, WireOK
  <2>2. "cut" \in State /\ Garbled \in Log
    BY Constants
  <2>3. CASE t.what = "replica"
    BY <2>1, <2>2, <2>3 DEF Cut, Transfer
  <2>4. CASE t.what = "log"
    BY <2>1, <2>2, <2>4 DEF Cut, Transfer
  <2> QED BY <2>1, <2>3, <2>4 DEF Transfer
<1>3. PICK whole \in SUBSET wire, cut \in SUBSET wire :
          Ends(n, whole \union {Cut(t) : t \in cut})
  BY DEF Crash
<1>4. whole \union {Cut(t) : t \in cut} \subseteq Transfer
  BY <1>2 DEF TypeInv, WireOK
<1>5. reg' = reg
  BY DEF Crash
<1> QED BY <1>1, <1>3, <1>4, <1>5, EndsTypes

LEMMA ReportTypes ==
    ASSUME TypeInv, NEW n \in Node, Report(n)
    PROVE  TypeInv'
<1> DEFINE first == GetNextNode(reg', n)
<1>1. RingOK'
  BY DEF Report, TypeInv, RingOK
<1>2. first \in up => NewAgent(n, first, reg', FALSE) \in Agent
  BY <1>1 DEF NewAgent, Agent, RingOK, Report
<1>3. agents' \subseteq Agent
  BY <1>2 DEF Report, TypeInv
<1>4. JobsOK'
  BY SameJobs DEF Report, TypeInv
<1> QED BY <1>1, <1>3, <1>4 DEF Report, TypeInv, FoldersOK, WireOK, EventsOK, SpentOK, folders

LEMMA ReportAgainTypes ==
    ASSUME TypeInv, NEW n \in Node, ReportAgain(n)
    PROVE  TypeInv'
<1> DEFINE first == GetNextNode(reg, n)
<1>1. UNCHANGED <<reg, up, leaving, local, replica, log, wire, job, wants, events>>
  BY DEF ReportAgain, ring, folders
<1>2. first \in up => NewAgent(n, first, reg, TRUE) \in Agent
  BY DEF NewAgent, Agent, TypeInv, RingOK
<1>3. agents' \subseteq Agent
  BY <1>2 DEF ReportAgain, TypeInv
<1>4. SpentOK'
  <2>1. MaxRepeats \in Nat
    BY ReplicationAssumption
  <2> QED BY <2>1 DEF ReportAgain, TypeInv, SpentOK
<1>5. JobsOK'
  BY <1>1, SameJobs DEF TypeInv
<1> QED BY <1>1, <1>3, <1>4, <1>5 DEF TypeInv, RingOK, FoldersOK, WireOK, EventsOK

LEMMA AgentTypes ==
    ASSUME TypeInv, NEW a \in agents, AgentVisit(a)
    PROVE  TypeInv'
<1> DEFINE n     == a.at
           next  == GetNextNode(reg, n)
           alone == next = n
           logs  == LogThen(a, n, alone)
           orphans == {f \in Held(n) : logs[f] \in {NoLog, Garbled, a.failed}}
           hangs == orphans # {} /\ writer[n] # "nobody"
           sent(f) == SendsReplica(n, Target(n, f), f, "whole") \union SendsLog(n, Target(n, f), f, n)
           kept(f, gone) == IF f \in gone THEN "none"
                            ELSE IF alone /\ f \in Lost(a, n) THEN "whole" ELSE replica[n][f]
           left(f, gone) == IF f \in gone /\ logs[f] = a.failed THEN NoLog ELSE logs[f]
           b == [a EXCEPT !.at = next, !.seen = @ \union {n}]
<1>1. a \in Agent /\ n \in Node
  BY DEF TypeInv, Agent
<1>2. RingOK /\ FoldersOK /\ WireOK /\ JobsOK
  BY DEF TypeInv
<1>3. \A f \in Lost(a, n) : f \in File
  BY <1>1, <1>2 DEF Lost, FoldersOK
<1>4. \A f \in File : logs[f] \in Log /\ replica[n][f] \in State
  BY <1>1, <1>2, FolderSet, Constants DEF LogThen
<1>5. WireOK'
  <2>1. \A f \in Lost(a, n) : sent(f) \subseteq Transfer
    BY <1>1, <1>2, <1>3, SendsAreTransfers, Constants
  <2>2. wire' = IF alone THEN wire ELSE wire \union UNION {sent(f) : f \in Lost(a, n)}
    BY DEF AgentVisit
  <2> HIDE DEF sent, alone
  <2> QED BY <1>2, <2>1, <2>2 DEF WireOK
<1>p. PICK gone \in SUBSET orphans :
          /\ replica' = [replica EXCEPT ![n] = [f \in File |-> kept(f, gone)]]
          /\ log' = [log EXCEPT ![n] = [f \in File |-> left(f, gone)]]
  BY <1>1, <1>2 DEF AgentVisit, FoldersOK
<1>6. replica' \in [Node -> [File -> State]]
  <2>1. \A f \in File : kept(f, gone) \in State
    BY <1>4, Constants
  <2> HIDE DEF kept
  <2> QED BY <1>1, <1>2, <1>p, <2>1 DEF FoldersOK
<1>7. log' \in [Node -> [File -> Log]]
  <2>1. \A f \in File : left(f, gone) \in Log
    BY <1>4, Constants
  <2> HIDE DEF left
  <2> QED BY <1>1, <1>2, <1>p, <2>1 DEF FoldersOK
<1>8. agents' \subseteq Agent
  <2>1. agents' = (agents \ {a}) \union
            {[a EXCEPT !.at = m, !.seen = @ \union {n}] :
                m \in IF GoesOn(a, next) /\ ~ hangs THEN {next} ELSE {}}
    BY DEF AgentVisit
  <2>2. next \in up => b \in Agent
    BY <1>1, <1>2 DEF Agent, RingOK
  <2>3. agents' \subseteq (agents \ {a}) \union (IF next \in up THEN {b} ELSE {})
    BY <2>1 DEF GoesOn
  <2> QED BY <2>2, <2>3 DEF TypeInv
<1>9. UNCHANGED <<ring, local, job, wants, events, spent>>
  BY DEF AgentVisit
<1>10. JobsOK'
  BY <1>2, <1>9, SameJobs DEF ring
<1> QED BY <1>5, <1>6, <1>7, <1>8, <1>9, <1>10
        DEF TypeInv, RingOK, FoldersOK, EventsOK, SpentOK, ring

LEMMA EditTypes ==
    ASSUME TypeInv, NEW n \in Node, NEW f \in File,
           NEW kind \in {"create", "modify", "delete"}, Edit(n, kind, f),
           local' \in [Node -> SUBSET File], replica' \in [Node -> [File -> State]], WireOK'
    PROVE  TypeInv'
<1>1. EventsOK'
  <2>1. [kind |-> kind, file |-> f] \in Event
    BY DEF Event
  <2>2. events' = events \/
        events' = [events EXCEPT ![n] = Append(events[n], [kind |-> kind, file |-> f])]
    BY DEF Edit, TypeInv, EventsOK
  <2> DEFINE e == [kind |-> kind, file |-> f]
  <2> HIDE DEF Event, e
  <2>3. events[n] \in Seq(Event) /\ events \in [Node -> Seq(Event)]
    BY DEF TypeInv, EventsOK
  <2>4. Append(events[n], e) \in Seq(Event)
    BY <2>1, <2>3 DEF e
  <2>5. [events EXCEPT ![n] = Append(events[n], e)] \in [Node -> Seq(Event)]
    BY <2>3, <2>4
  <2> QED BY <2>2, <2>3, <2>5 DEF EventsOK, e
<1>2. SpentOK'
  BY ActsTypes DEF Edit, TypeInv
<1>3. UNCHANGED <<ring, log, job, wants, agents>>
  BY DEF Edit
<1>4. JobsOK'
  BY <1>3, SameJobs DEF TypeInv, ring
<1> QED BY <1>1, <1>2, <1>3, <1>4 DEF TypeInv, RingOK, FoldersOK, ring

LEMMA UserTypes ==
    ASSUME TypeInv, NEW n \in Node, NEW f \in File, Create(n, f) \/ Modify(n, f) \/ Delete(n, f)
    PROVE  TypeInv'
<1>0. FoldersOK /\ WireOK
  BY DEF TypeInv
<1>1. CASE Create(n, f)
  <2>1. local' \in [Node -> SUBSET File]
    BY <1>0, <1>1 DEF Create, FoldersOK
  <2> QED BY <1>0, <1>1, <2>1, EditTypes DEF Create, FoldersOK, WireOK
<1>2. CASE Delete(n, f)
  <2>1. local' \in [Node -> SUBSET File]
    BY <1>0, <1>2 DEF Delete, FoldersOK
  <2> QED BY <1>0, <1>2, <2>1, EditTypes DEF Delete, FoldersOK, WireOK
<1>3. CASE Modify(n, f)
  <2>1. replica' \in [Node -> [File -> State]]
    <3>1. \A m \in Node : [replica[m] EXCEPT ![f] = Aged(@)] \in [File -> State]
      <4> TAKE m \in Node
      <4>1. replica[m] \in [File -> State] /\ Aged(replica[m][f]) \in State
        BY <1>0, Constants DEF FoldersOK
      <4> QED BY <4>1
    <3> QED BY <1>3, <3>1 DEF Modify
  <2>2. ASSUME NEW t \in wire, IsCopy(t, f)
        PROVE  [t EXCEPT !.data = Aged(@)] \in Transfer
    <3>1. t \in Transfer /\ t.what = "replica"
      BY <1>0, <2>2 DEF WireOK, IsCopy
    <3>2. t.data \in State /\ Aged(t.data) \in State
      BY <3>1, Constants DEF Transfer
    <3> QED BY <3>1, <3>2 DEF Transfer
  <2>3. WireOK'
    BY <1>0, <1>3, <2>2 DEF Modify, WireOK
  <2>4. local' \in [Node -> SUBSET File]
    BY <1>0, <1>3 DEF Modify, FoldersOK
  <2> QED BY <1>3, <2>1, <2>3, <2>4, EditTypes DEF Modify
<1> QED BY <1>1, <1>2, <1>3

\* What a watcher's step sends.
LEMMA WatchSends ==
    ASSUME TypeInv, NEW n \in Node, Watch(n)
    PROVE  LET e  == Head(events[n])
               f  == e.file
               to == Target(n, f)
               copy == SendsReplica(n, to, f, LocalState(n, f))
           IN  /\ e \in Event /\ f \in File /\ e.kind \in {"create", "modify", "delete"}
               /\ e.kind = "create" =>
                     /\ log' = [log EXCEPT ![n][f] = n]
                     /\ \E content \in {n, Garbled} :
                           \/ wire' = wire \union SendsLog(n, to, f, content) \union copy
                           \/ wire' = wire \union SendsLog(n, to, f, content)
               /\ e.kind = "modify" => log' = log /\ wire' = wire \union copy
               /\ e.kind = "delete" => log' = log /\ wire' = wire \union Deletes(n, to, f)
<1> DEFINE e  == Head(events[n])
           f  == e.file
           to == Target(n, f)
           copy == SendsReplica(n, to, f, LocalState(n, f))
           waits == e.kind # "modify" /\ writer[n] \notin {"nobody", "watcher"}
<1>1. e \in Event
  <2>1. events[n] \in Seq(Event) /\ events[n] # << >>
    BY DEF TypeInv, EventsOK, Watch
  <2> HIDE DEF Event
  <2> QED BY <2>1
<1>2. f \in File /\ e.kind \in {"create", "modify", "delete"}
  BY <1>1 DEF Event
<1>3. CASE e.kind = "create"
  <2>1. Created(n, f, waits)
    BY <1>3 DEF Watch
  <2> HIDE DEF copy, e, f, waits
  <2>2. PICK content \in {n, Garbled} :
           wire' = wire \union SendsLog(n, to, f, content) \union (IF waits THEN {} ELSE copy)
    BY <2>1 DEF Created, copy
  <2>3. log' = [log EXCEPT ![n][f] = n]
    BY <2>1 DEF Created
  <2> QED BY <1>1, <1>2, <1>3, <2>2, <2>3 DEF e, f, copy
<1>4. CASE e.kind = "modify"
  <2>1. Modified(n, f)
    BY <1>4 DEF Watch
  <2> QED BY <1>1, <1>2, <1>4, <2>1 DEF Modified
<1>5. CASE e.kind = "delete"
  <2>1. Deleted(n, f, waits)
    BY <1>5 DEF Watch
  <2> QED BY <1>1, <1>2, <1>5, <2>1 DEF Deleted
<1> QED BY <1>2, <1>3, <1>4, <1>5

LEMMA WatchTypes ==
    ASSUME TypeInv, NEW n \in Node, Watch(n)
    PROVE  TypeInv'
<1> DEFINE e  == Head(events[n])
           f  == e.file
           to == Target(n, f)
           copy == SendsReplica(n, to, f, LocalState(n, f))
<1>0. RingOK /\ FoldersOK /\ WireOK /\ JobsOK /\ EventsOK
  BY DEF TypeInv
<1>1. f \in File /\ e.kind \in {"create", "modify", "delete"}
  BY WatchSends
<1>2. \/ \E content \in {n, Garbled} : \/ wire' = wire \union SendsLog(n, to, f, content) \union copy
                                       \/ wire' = wire \union SendsLog(n, to, f, content)
      \/ wire' = wire \union copy
      \/ wire' = wire \union Deletes(n, to, f)
  BY <1>1, WatchSends
<1>3. log' = log \/ log' = [log EXCEPT ![n][f] = n]
  BY <1>1, WatchSends
<1>4. EventsOK'
  <2>1. events[n] \in Seq(Event) /\ events[n] # << >>
    BY <1>0 DEF EventsOK, Watch
  <2>2. events' = events \/ events' = [events EXCEPT ![n] = Tail(events[n])]
    BY <1>0 DEF Watch, EventsOK
  <2> HIDE DEF Event
  <2> QED BY <1>0, <2>1, <2>2 DEF EventsOK
<1> HIDE DEF f, e
<1>5. /\ copy \subseteq Transfer /\ Deletes(n, to, f) \subseteq Transfer
      /\ \A content \in {n, Garbled} : SendsLog(n, to, f, content) \subseteq Transfer
  BY <1>0, <1>1, SendsAreTransfers, Constants
<1> HIDE DEF copy, to
<1>6. WireOK'
  BY <1>0, <1>2, <1>5 DEF WireOK
<1>7. log' \in [Node -> [File -> Log]]
  <2>1. n \in Log /\ log \in [Node -> [File -> Log]]
    BY <1>0, Constants DEF FoldersOK
  <2>2. [log EXCEPT ![n][f] = n] \in [Node -> [File -> Log]]
    BY <1>0, <1>1, <2>1, FolderSet
  <2> QED BY <1>3, <2>1, <2>2
<1>8. UNCHANGED <<ring, local, replica, job, wants, agents, spent>>
  BY DEF Watch
<1>9. JobsOK'
  BY <1>0, <1>8, SameJobs DEF ring
<1> QED BY <1>0, <1>4, <1>6, <1>7, <1>8, <1>9
        DEF TypeInv, RingOK, FoldersOK, SpentOK, ring

LEMMA StutterTypes ==
    ASSUME TypeInv, UNCHANGED vars
    PROVE  TypeInv'
BY DEF TypeInv, RingOK, FoldersOK, WireOK, JobsOK, EventsOK, SpentOK, vars, ring, folders

LEMMA NextTypes ==
    ASSUME TypeInv, [Next]_vars
    PROVE  TypeInv'
<1>1. CASE \E n \in Node : Start(n) \/ Leave(n) \/ Crash(n)
  BY <1>1, StartTypes, LeaveTypes, CrashTypes
<1>2. CASE \E n \in Node, f \in File : Create(n, f) \/ Modify(n, f) \/ Delete(n, f)
  BY <1>2, UserTypes
<1>3. CASE \E n \in Node : Work(n)
  BY <1>3, StartupTypes, UpdateTypes, ShutTypes, ExitTypes DEF Work
<1>4. CASE \E n \in Node : Watch(n) \/ Report(n) \/ ReportAgain(n)
  BY <1>4, WatchTypes, ReportTypes, ReportAgainTypes
<1>5. CASE \E t \in wire : Receive(t)
  BY <1>5, ReceiveTypes
<1>6. CASE \E a \in agents : AgentVisit(a)
  BY <1>6, AgentTypes
<1>7. CASE UNCHANGED vars
  BY <1>7, StutterTypes
<1> QED BY <1>1, <1>2, <1>3, <1>4, <1>5, <1>6, <1>7 DEF Next, Environment

LEMMA DeletionTypes ==
    ASSUME SyncOK, NEW n \in Node, NEW thread \in Thread, NEW fs, DeleteLocalFiles(n, thread, fs)
    PROVE  listed' \in [Node -> SUBSET File] /\ writer' \in [Node -> Thread \union {"nobody"}]
<1>1. PICK far : listed' = [m \in Node |-> listed[m] \ (IF m = n THEN fs ELSE far)]
  BY DEF DeleteLocalFiles
<1>2. writer' = writer \/ writer' = [writer EXCEPT ![n] = thread]
  BY DEF DeleteLocalFiles
<1> QED BY <1>1, <1>2 DEF SyncOK

LEMMA SyncTypes ==
    ASSUME TypeInv, SyncOK, [Next]_vars
    PROVE  SyncOK'
<1>1. CASE UNCHANGED sync
  BY <1>1 DEF sync, SyncOK
<1>2. ASSUME NEW n \in Node, Start(n) PROVE SyncOK'
  <2>1. Local[n] \in SUBSET File /\ {"agent", "nobody"} \subseteq Thread \union {"nobody"}
    BY NodeFacts DEF Thread
  <2>2. /\ listed' = [listed EXCEPT ![n] = Local[n]] /\ waiting' = waiting
        /\ \E t \in {"agent", "nobody"} : writer' = [writer EXCEPT ![n] = t]
    BY <1>2 DEF Start
  <2> QED BY <2>1, <2>2 DEF SyncOK
<1>3. ASSUME NEW n \in Node, NEW sent, Ends(n, sent) PROVE SyncOK'
  BY <1>3 DEF Ends, SyncOK
<1>4. ASSUME NEW n \in Node, ShutBegin(n) PROVE SyncOK'
  <2>1. DeleteLocalFiles(n, "shutdown", local[n]) /\ waiting' = waiting /\ "shutdown" \in Thread
    BY <1>4 DEF ShutBegin, Thread
  <2> QED BY <2>1, DeletionTypes DEF SyncOK
<1>5. ASSUME NEW a \in agents, AgentVisit(a) PROVE SyncOK'
  <2> DEFINE n == a.at
  <2>1. n \in Node /\ "agent" \in Thread
    BY <1>5 DEF TypeInv, Agent, Thread
  <2>2. \/ waiting' = waiting \union {<<n, "agent">>} /\ UNCHANGED <<listed, writer>>
        \/ waiting' = waiting /\ \E fs : DeleteLocalFiles(n, "agent", fs)
    BY <1>5 DEF AgentVisit
  <2> QED BY <2>1, <2>2, DeletionTypes DEF SyncOK
<1>6. ASSUME NEW n \in Node, Watch(n) PROVE SyncOK'
  <2> DEFINE e == Head(events[n])
             f == e.file
             waits == e.kind # "modify" /\ writer[n] \notin {"nobody", "watcher"}
  <2>0. e.kind \in {"create", "modify", "delete"} /\ f \in File /\ "watcher" \in Thread
    BY <1>6, WatchSends DEF Thread
  <2>1. waiting' = waiting \/ waiting' = waiting \union {<<n, "watcher">>}
    BY <1>6 DEF Watch
  <2>2. waiting' \subseteq Node \X {"agent", "watcher"}
    BY <2>1 DEF SyncOK
  <2>3. CASE e.kind = "create"
    <3>1. Created(n, f, waits)
      BY <1>6, <2>3 DEF Watch
    <3> HIDE DEF f
    <3>2. writer' = writer /\ (listed' = listed \/ listed' = [listed EXCEPT ![n] = @ \union {f}])
      BY <3>1 DEF Created
    <3> QED BY <2>0, <2>2, <3>2 DEF SyncOK
  <2>4. CASE e.kind = "modify"
    <3>1. Modified(n, f)
      BY <1>6, <2>4 DEF Watch
    <3> QED BY <2>2, <3>1 DEF Modified, SyncOK
  <2>5. CASE e.kind = "delete"
    <3>1. Deleted(n, f, waits)
      BY <1>6, <2>5 DEF Watch
    <3>2. UNCHANGED <<listed, writer>> \/ DeleteLocalFiles(n, "watcher", {f})
      BY <3>1 DEF Deleted
    <3> QED BY <2>0, <2>2, <3>2, DeletionTypes DEF SyncOK
  <2> QED BY <2>0, <2>3, <2>4, <2>5
<1>7. CASE Environment
  <2>1. CASE \E n \in Node, f \in File : Create(n, f) \/ Modify(n, f) \/ Delete(n, f)
    BY <1>1, <2>1 DEF Create, Modify, Delete, Edit
  <2>2. CASE \E n \in Node : Leave(n)
    BY <1>1, <2>2 DEF Leave
  <2>3. CASE \E n \in Node : Crash(n)
    BY <1>3, <2>3 DEF Crash
  <2> QED BY <1>2, <1>7, <2>1, <2>2, <2>3 DEF Environment
<1>8. CASE \E n \in Node : Work(n)
  <2>1. PICK n \in Node : Work(n)
    BY <1>8
  <2>2. CASE StartupCount(n) \/ StartupFile(n) \/ UpdateBegin(n) \/ UpdateAsk(n) \/ UpdateMove(n)
    BY <1>1, <2>2 DEF StartupCount, StartupFile, UpdateBegin, UpdateAsk, UpdateMove
  <2>3. CASE ShutHangs(n) \/ ShutMove(n)
    BY <1>1, <2>3 DEF ShutHangs, ShutMove
  <2>4. CASE Exit(n)
    BY <1>3, <2>4 DEF Exit
  <2> QED BY <1>4, <2>1, <2>2, <2>3, <2>4 DEF Work
<1>9. CASE \E n \in Node : Report(n) \/ ReportAgain(n)
  BY <1>1, <1>9 DEF Report, ReportAgain
<1>10. CASE \E t \in wire : Receive(t)
  BY <1>1, <1>10 DEF Receive
<1>11. CASE UNCHANGED vars
  BY <1>1, <1>11 DEF vars
<1> QED BY <1>5, <1>6, <1>7, <1>8, <1>9, <1>10, <1>11 DEF Next

(***************************************************************************)
(* Every reachable state is well typed: what is under way is a transfer of *)
(* a file or of a log that names a node or is garbled, and a process that  *)
(* has ended has no job and no call of update waiting (FileManager.java).  *)
(***************************************************************************)
THEOREM TypeCorrect == Spec => []TypeOK
<1>1. Init => TypeInv /\ SyncOK
  BY InitTypes DEF Init, SyncOK
<1>2. TypeInv /\ SyncOK /\ [Next]_vars => (TypeInv /\ SyncOK)'
  BY NextTypes, SyncTypes
<1>3. TypeInv /\ SyncOK => TypeOK
  BY TypeInvTypes
<1> QED BY <1>1, <1>2, <1>3, PTL DEF Spec

-------------------------------------------------------------------------------
(***************************************************************************)
(* The way of the failure agent.  While one is under way the ring does not *)
(* change: a node leaves the map for one of two reasons, and each of them  *)
(* keeps all the nodes from changing until it is over.                     *)
(***************************************************************************)
OneAtATime == {"start", "leave", "crash"} \subseteq Calm

Leaves(n) == leaving[n] # NoNode \/ job[n].op = "shutdown"

\* Nobody leaves, and one node at most has crashed; or somebody leaves.
RingStill ==
    \/ /\ \A n \in Node : ~ Leaves(n)
       /\ reg = up \/ (agents = {} /\ \E x \in Node : reg = up \union {x})
    \/ /\ agents = {} /\ reg \subseteq up
       /\ \A n \in Node : Leaves(n) => n \notin reg

(***************************************************************************)
(* An agent came to every node, but to the first, from one that it had     *)
(* been to.                                                                *)
(***************************************************************************)
OnTheWay(a) ==
    /\ a.at \in reg /\ a.seen \subseteq reg /\ a.at \notin a.seen
    /\ \A s \in a.seen \union {a.at} :
          s = a.first \/ \E p \in a.seen : s = GetNextNode(reg, p)

AgentInv == RingStill /\ \A a \in agents : OnTheWay(a)

LEMMA NextInjective ==
    ASSUME NEW S, S \subseteq Node, NEW m \in S, NEW n \in S,
           GetNextNode(S, m) = GetNextNode(S, n)
    PROVE  m = n
<1>1. S \subseteq Nat /\ S # {} /\ m \in Nat /\ n \in Nat
  BY NodeFacts
<1> DEFINE s == GetNextNode(S, m)
<1>2. IsNext(S, m, s) /\ IsNext(S, n, s)
  BY <1>1, GetNextNodeIsNext
<1>3. s \in S
  BY <1>2 DEF IsNext
<1> HIDE DEF s
<1>4. IsPrev(S, s, m) /\ IsPrev(S, s, n)
  BY <1>1, <1>2, <1>3, NextPrevConverse
<1> QED BY <1>1, <1>3, <1>4, PrevUnique

LEMMA QuietIsStill ==
    ASSUME TypeInv, Quiet
    PROVE  agents = {} /\ reg = up /\ \A n \in Node : ~ Leaves(n)
BY NoJobIsJob DEF Quiet, TypeInv, RingOK, JobsOK, Leaves

\* What neither begins nor ends anybody's shutdown.
LEMMA StillFrame ==
    ASSUME AgentInv, UNCHANGED <<reg, up, agents>>,
           \A n \in Node : Leaves(n)' => Leaves(n)
    PROVE  AgentInv'
BY DEF AgentInv, RingStill, OnTheWay

LEMMA NoAgents ==
    ASSUME RingStill', agents' = {}
    PROVE  AgentInv'
BY DEF AgentInv

LEMMA StartStill ==
    ASSUME OneAtATime, TypeInv, AgentInv, NEW n \in Node, Start(n)
    PROVE  AgentInv'
<1>1. agents = {} /\ reg = up /\ \A m \in Node : ~ Leaves(m)
  BY QuietIsStill DEF Start, Acts, OneAtATime
<1>2. agents' = {} /\ reg' = up' /\ leaving' = leaving
  BY <1>1 DEF Start
<1>3. \A m \in Node : job'[m].op # "shutdown"
  <2>1. job' = [job EXCEPT ![n] = [NoJob EXCEPT !.op = "startup", !.at = "count"]]
    BY DEF Start
  <2>2. [NoJob EXCEPT !.op = "startup", !.at = "count"].op = "startup"
    BY DEF NoJob
  <2> QED BY <1>1, <2>1, <2>2 DEF TypeInv, JobsOK, Leaves
<1>4. RingStill'
  BY <1>1, <1>2, <1>3 DEF RingStill, Leaves
<1> QED BY <1>2, <1>4, NoAgents

LEMMA LeaveStill ==
    ASSUME OneAtATime, TypeInv, AgentInv, NEW n \in Node, Leave(n)
    PROVE  AgentInv'
<1>1. agents = {} /\ reg = up /\ \A m \in Node : ~ Leaves(m)
  BY QuietIsStill DEF Leave, Acts, OneAtATime
<1>2. /\ agents' = {} /\ up' = up /\ reg' = reg \ {n} /\ job' = job
      /\ leaving' = [leaving EXCEPT ![n] = GetPrevNode(reg, n)]
  BY <1>1 DEF Leave
<1>3. \A m \in Node : Leaves(m)' => m = n
  BY <1>1, <1>2 DEF Leaves, TypeInv, RingOK
<1>4. RingStill'
  BY <1>1, <1>2, <1>3 DEF RingStill
<1> QED BY <1>2, <1>4, NoAgents

LEMMA EndsLeaves ==
    ASSUME TypeInv, NEW n \in Node, NEW sent, Ends(n, sent)
    PROVE  /\ up' = up \ {n} /\ agents' \subseteq agents
           /\ \A m \in Node : Leaves(m)' => Leaves(m)
<1>1. /\ leaving' = [leaving EXCEPT ![n] = NoNode] /\ job' = [job EXCEPT ![n] = NoJob]
      /\ up' = up \ {n} /\ agents' \subseteq agents
  BY DEF Ends
<1> QED BY <1>1, NoJobIsJob DEF TypeInv, RingOK, JobsOK, Leaves

LEMMA CrashStill ==
    ASSUME OneAtATime, TypeInv, AgentInv, NEW n \in Node, Crash(n)
    PROVE  AgentInv'
<1>1. agents = {} /\ reg = up /\ \A m \in Node : ~ Leaves(m)
  BY QuietIsStill DEF Crash, Acts, OneAtATime
<1>2. n \in up /\ reg' = reg /\ \E sent : Ends(n, sent)
  BY DEF Crash
<1>3. up' = up \ {n} /\ agents' = {} /\ \A m \in Node : ~ Leaves(m)'
  BY <1>1, <1>2, EndsLeaves
<1>4. reg' = up' \union {n}
  BY <1>1, <1>2, <1>3
<1>5. RingStill'
  BY <1>3, <1>4 DEF RingStill
<1> QED BY <1>3, <1>5, NoAgents

LEMMA ExitStill ==
    ASSUME TypeInv, AgentInv, NEW n \in Node, Exit(n)
    PROVE  AgentInv'
<1>1. Leaves(n) /\ reg' = reg /\ \E sent : Ends(n, sent)
  BY DEF Exit, Leaves
<1>2. agents = {} /\ reg \subseteq up /\ \A m \in Node : Leaves(m) => m \notin reg
  BY <1>1 DEF AgentInv, RingStill
<1>3. up' = up \ {n} /\ agents' = {} /\ \A m \in Node : Leaves(m)' => Leaves(m)
  BY <1>1, <1>2, EndsLeaves
<1>4. RingStill'
  BY <1>1, <1>2, <1>3 DEF RingStill
<1> QED BY <1>3, <1>4, NoAgents

LEMMA ReportStill ==
    ASSUME TypeInv, AgentInv, NEW n \in Node, Report(n)
    PROVE  AgentInv'
<1>1. /\ n \in reg \ up /\ reg' = reg \ {n} /\ UNCHANGED <<up, leaving, job>>
  BY DEF Report
<1>2. /\ \A m \in Node : ~ Leaves(m)
      /\ agents = {} /\ reg = up \union {n}
  BY <1>1 DEF AgentInv, RingStill
<1>3. reg' = up'
  BY <1>1, <1>2
<1>4. RingStill'
  BY <1>1, <1>2, <1>3 DEF RingStill, Leaves
<1>5. ASSUME NEW a \in agents' PROVE OnTheWay(a)'
  <2>1. a.at \in up /\ a.first = a.at /\ a.seen = {}
    BY <1>2 DEF Report, NewAgent
  <2> QED BY <1>1, <1>3, <2>1 DEF OnTheWay
<1> QED BY <1>4, <1>5 DEF AgentInv

LEMMA ReportAgainStill ==
    ASSUME TypeInv, AgentInv, NEW n \in Node, ReportAgain(n)
    PROVE  AgentInv'
<1>1. agents # {} /\ UNCHANGED <<reg, up, leaving, job>>
  BY DEF ReportAgain, ring
<1>2. reg = up /\ \A m \in Node : ~ Leaves(m)
  BY <1>1 DEF AgentInv, RingStill
<1>3. RingStill'
  BY <1>1, <1>2 DEF RingStill, Leaves
<1>4. ASSUME NEW a \in agents' PROVE OnTheWay(a)'
  <2>1. CASE a \in agents
    BY <1>1, <2>1 DEF AgentInv, OnTheWay
  <2>2. CASE a \notin agents
    <3>1. a.at \in up /\ a.first = a.at /\ a.seen = {}
      BY <2>2 DEF ReportAgain, NewAgent
    <3> QED BY <1>1, <1>2, <3>1 DEF OnTheWay
  <2> QED BY <2>1, <2>2
<1> QED BY <1>3, <1>4 DEF AgentInv

LEMMA VisitOnTheWay ==
    ASSUME TypeInv, AgentInv, NEW a \in agents, AgentVisit(a)
    PROVE  AgentInv'
<1> DEFINE n == a.at
           next == GetNextNode(reg, n)
           b == [a EXCEPT !.at = next, !.seen = a.seen \union {n}]
<1>1. UNCHANGED <<reg, up, leaving, job>>
  BY DEF AgentVisit, ring
<1>2. reg = up /\ \A m \in Node : ~ Leaves(m)
  BY DEF AgentInv, RingStill
<1>3. RingStill'
  BY <1>1, <1>2 DEF RingStill, Leaves
<1>4. agents' \subseteq (agents \ {a}) \union (IF GoesOn(a, next) THEN {b} ELSE {})
  BY DEF AgentVisit
<1>5. OnTheWay(a) /\ a \in Agent
  BY DEF AgentInv, TypeInv
<1>6. b.at = next /\ b.seen = a.seen \union {n} /\ b.first = a.first
  BY <1>5 DEF Agent
<1> HIDE DEF b
<1>7. ASSUME GoesOn(a, next) PROVE OnTheWay(b)
  <2>1. next # a.first /\ next \in reg /\ n \in reg
    BY <1>2, <1>5, <1>7 DEF GoesOn, OnTheWay
  <2>2. ASSUME next \in a.seen \union {n} PROVE FALSE
    <3>1. PICK p \in a.seen : next = GetNextNode(reg, p)
      BY <1>5, <2>1, <2>2 DEF OnTheWay
    <3>2. p = n
      BY <1>5, <2>1, <3>1, NextInjective DEF OnTheWay, TypeInv, RingOK
    <3> QED BY <1>5, <3>1, <3>2 DEF OnTheWay
  <2>3. \A s \in b.seen \union {b.at} :
           s = b.first \/ \E p \in b.seen : s = GetNextNode(reg, p)
    BY <1>5, <1>6 DEF OnTheWay
  <2> QED BY <1>5, <1>6, <2>1, <2>2, <2>3 DEF OnTheWay
<1>8. \A c \in agents' : OnTheWay(c)
  BY <1>4, <1>7 DEF AgentInv
<1>9. \A c \in agents' : OnTheWay(c)'
  BY <1>1, <1>8 DEF OnTheWay
<1> QED BY <1>3, <1>9 DEF AgentInv

\* Jobs: none but ShutBegin and ShutHangs makes a shutdown.
LEMMA JobsLeave ==
    ASSUME TypeInv, NEW n \in Node,
           StartupCount(n) \/ StartupFile(n) \/ UpdateBegin(n) \/ UpdateAsk(n) \/ UpdateMove(n)
              \/ ShutBegin(n) \/ ShutHangs(n) \/ ShutMove(n)
    PROVE  UNCHANGED <<reg, up, leaving, agents>> /\ \A m \in Node : Leaves(m)' => Leaves(m)
<1>1. UNCHANGED <<reg, up, leaving, agents>>
  BY DEF StartupCount, StartupFile, UpdateBegin, UpdateAsk, UpdateMove, ShutBegin, ShutHangs,
         ShutMove, ring
<1>2. job \in [Node -> Job] /\ job[n] \in Job
  BY DEF TypeInv, JobsOK
<1>3. ASSUME NEW j, Proceed(n, j), j.op # "shutdown" \/ j.op = job[n].op
      PROVE  \A m \in Node : Leaves(m)' => Leaves(m)
  BY <1>1, <1>2, <1>3, NoJobIsJob DEF Proceed, Leaves
<1>4. CASE StartupCount(n)
  <2>1. PICK a, T : Proceed(n, [job[n] EXCEPT !.at = a, !.todo = T])
    BY <1>4 DEF StartupCount
  <2>2. [job[n] EXCEPT !.at = a, !.todo = T].op = job[n].op
    BY <1>2 DEF Job
  <2> QED BY <1>1, <1>3, <2>1, <2>2
<1>5. CASE StartupFile(n)
  <2>1. PICK T : Proceed(n, [job[n] EXCEPT !.todo = T])
    BY <1>5 DEF StartupFile
  <2>2. [job[n] EXCEPT !.todo = T].op = job[n].op
    BY <1>2 DEF Job
  <2> QED BY <1>1, <1>3, <2>1, <2>2
<1>6. CASE UpdateBegin(n)
  <2> DEFINE j == [NoJob EXCEPT !.op = "update", !.at = "ip", !.todo = Held(n)]
  <2>1. Proceed(n, j)
    BY <1>6 DEF UpdateBegin
  <2>2. j.op = "update"
    BY DEF NoJob
  <2> HIDE DEF j
  <2> QED BY <1>1, <1>3, <2>1, <2>2
<1>7. CASE UpdateAsk(n)
  <2>1. PICK f : job' = [job EXCEPT ![n].at = "id", ![n].file = f, ![n].ip = Owner(f)]
    BY <1>7 DEF UpdateAsk
  <2>2. \A m \in Node : job'[m].op = job[m].op
    BY <1>2, <2>1 DEF Job
  <2> QED BY <1>1, <2>2 DEF Leaves
<1>8. CASE UpdateMove(n)
  <2>1. PICK T : Proceed(n, [job[n] EXCEPT !.at = "ip", !.todo = T, !.file = NoFile, !.ip = NoNode])
    BY <1>8 DEF UpdateMove
  <2>2. [job[n] EXCEPT !.at = "ip", !.todo = T, !.file = NoFile, !.ip = NoNode].op = job[n].op
    BY <1>2 DEF Job
  <2> QED BY <1>1, <1>3, <2>1, <2>2
<1>9. CASE ShutBegin(n) \/ ShutHangs(n)
  <2>1. Leaves(n)
    BY <1>9 DEF ShutBegin, ShutHangs, Leaves
  <2>2. \A m \in Node : m # n => job'[m] = job[m]
    BY <1>2, <1>9 DEF ShutBegin, ShutHangs
  <2> QED BY <1>1, <2>1, <2>2 DEF Leaves
<1>10. CASE ShutMove(n)
  <2>1. job[n].op = "shutdown" /\ \E f : job' = [job EXCEPT ![n].todo = @ \ {f}]
    BY <1>10 DEF ShutMove
  <2>2. \A m \in Node : job'[m].op = job[m].op
    BY <1>2, <2>1 DEF Job
  <2> QED BY <1>1, <2>2 DEF Leaves
<1> QED BY <1>4, <1>5, <1>6, <1>7, <1>8, <1>9, <1>10

LEMMA JobsStill ==
    ASSUME TypeInv, AgentInv, NEW n \in Node, Work(n)
    PROVE  AgentInv'
BY JobsLeave, StillFrame, ExitStill DEF Work

LEMMA OthersStill ==
    ASSUME AgentInv,
           \/ \E n \in Node : Watch(n)
           \/ \E n \in Node, f \in File : Create(n, f) \/ Modify(n, f) \/ Delete(n, f)
           \/ \E t \in wire : Receive(t)
           \/ UNCHANGED vars
    PROVE  AgentInv'
<1>1. UNCHANGED <<reg, up, leaving, agents, job>>
  BY DEF Watch, Create, Modify, Delete, Edit, Receive, vars, ring
<1> QED BY <1>1, StillFrame DEF Leaves

LEMMA NextStill ==
    ASSUME OneAtATime, TypeInv, AgentInv, [Next]_vars
    PROVE  AgentInv'
<1>1. CASE \E n \in Node : Start(n) \/ Leave(n) \/ Crash(n)
  BY <1>1, StartStill, LeaveStill, CrashStill
<1>2. CASE \E n \in Node : Work(n)
  BY <1>2, JobsStill
<1>3. CASE \E n \in Node : Report(n) \/ ReportAgain(n)
  BY <1>3, ReportStill, ReportAgainStill
<1>4. CASE \E a \in agents : AgentVisit(a)
  BY <1>4, VisitOnTheWay
<1>5. CASE \/ \E n \in Node : Watch(n)
           \/ \E n \in Node, f \in File : Create(n, f) \/ Modify(n, f) \/ Delete(n, f)
           \/ \E t \in wire : Receive(t)
           \/ UNCHANGED vars
  BY <1>5, OthersStill
<1> QED BY <1>1, <1>2, <1>3, <1>4, <1>5 DEF Next, Environment

LEMMA InitStill == Init => AgentInv
BY NoJobIsJob DEF Init, AgentInv, RingStill, Leaves

(***************************************************************************)
(* "The agent should never pass by the same node twice": when nodes start, *)
(* leave and crash one at a time, the agent that goes from next node to    *)
(* next node (FailureAgent.java, NodeAPI.java) is never at a node where it *)
(* has been.                                                               *)
(***************************************************************************)
THEOREM AgentGoesRoundOnce == OneAtATime => (Spec => []AgentPassesOnce)
<1>1. AgentInv => AgentPassesOnce
  BY DEF AgentInv, OnTheWay, AgentPassesOnce
<1>2. Init => TypeInv /\ AgentInv
  BY InitTypes, InitStill
<1>3. OneAtATime /\ TypeInv /\ AgentInv /\ [Next]_vars => (TypeInv /\ AgentInv)'
  BY NextTypes, NextStill
<1> SUFFICES ASSUME OneAtATime PROVE Spec => []AgentPassesOnce
  OBVIOUS
<1>4. TypeInv /\ AgentInv /\ [Next]_vars => (TypeInv /\ AgentInv)'
  BY <1>3
<1> QED BY <1>1, <1>2, <1>4, PTL DEF Spec

-------------------------------------------------------------------------------
(***************************************************************************)
(* One change at a time, of files that belong to one node each; a crash is *)
(* reported once.                                                          *)
(***************************************************************************)
Files(n) == Local[n] \union {f \in File : <<n, f>> \in Changeable}

OneOrigin == \A m, n \in Node : m # n => Files(m) \cap Files(n) = {}

Sequential ==
    Calm = Change /\ Prompt = TRUE /\ CreateAlone = FALSE /\ MaxRepeats = 0 /\ OneOrigin

(***************************************************************************)
(* Where the copies of a file are.                                         *)
(***************************************************************************)
About(f)  == {t \in wire : t.file = f}
Orphan(f) == \A n \in Node : f \notin local[n]

Nowhere(f) == About(f) = {} /\ \A m \in up : replica[m][f] = "none"

\* When the transfers have arrived p has this copy and this log, and nobody else has one.
Bound(f, p, data, origin) ==
    /\ \A m \in up : m # p => replica[m][f] = "none"
    /\ \A t \in About(f) : t.to = p /\ t.data = IF t.what = "replica" THEN data ELSE origin
    /\ replica[p][f] = data \/ \E t \in About(f) : t.what = "replica"
    /\ data = "none" \/ log[p][f] = origin \/ \E t \in About(f) : t.what = "log"

Placed(n, f, p)  == p \in up /\ Bound(f, p, "whole", n)
Resting(n, f, p) == Placed(n, f, p) /\ About(f) = {}
InPlace(n, f)    == Placed(n, f, Target(n, f))
Fading(f)        == Nowhere(f) \/ \E p \in up : Bound(f, p, "none", NoLog)

\* A process that has ended has no files, and no transfer is under way to it.
Homes ==
    /\ \A n \in Node : local[n] \subseteq Files(n)
    /\ \A n \in Node \ up : local[n] = {} /\ replica[n] = Empty("none")
    /\ \A t \in wire : t.to \in up

NobodyLeaves == \A n \in Node : leaving[n] = NoNode
NoEvents     == \A n \in Node : events[n] = << >>
NoJobs       == \A n \in Node : job[n] = NoJob

\* Settling
Due(p, f)    == p \in wants \/ (job[p].op = "update" /\ f \in job[p].todo)
Unsent(n, f) == job[n].op = "startup" /\ (job[n].at = "count" \/ f \in job[n].todo)

Settled(n, f) ==
    IF Unsent(n, f) THEN Nowhere(f)
    ELSE InPlace(n, f) \/ \E p \in up : Due(p, f) /\ Resting(n, f, p)

JobRight(n) ==
    \/ job[n] = NoJob
    \/ /\ job[n].op = "startup" /\ job[n].todo \subseteq local[n]
       /\ job[n].at \in {"count", IF reg = {n} THEN "alone" ELSE "send"}
       /\ job[n].at = "count" => job[n].todo = {}
    \/ /\ job[n].op = "update" /\ job[n].at \in {"ip", "id"}
       /\ \A f \in job[n].todo : f \in Held(n) /\ ~ Orphan(f)
       /\ job[n].at = "id" => job[n].ip = Owner(job[n].file)

Settling ==
    /\ reg = up /\ agents = {} /\ NobodyLeaves /\ NoEvents
    /\ \A n \in up : JobRight(n)
    /\ \A n \in up : \A f \in local[n] : Settled(n, f)
    /\ \A f \in File : Orphan(f) => Fading(f)

\* Editing
Edited(n, kind, f) ==
    \/ kind = "create" /\ f \in local[n] /\ Nowhere(f) /\ reg # {n}
    \/ /\ kind = "modify" /\ f \in local[n]
       /\ \A m \in up : m # Target(n, f) => replica[m][f] = "none"
       /\ log[Target(n, f)][f] = n
       /\ replica[Target(n, f)][f] \in {"stale", "whole"}
    \/ kind = "delete" /\ Orphan(f) /\ InPlace(n, f)

Editing ==
    /\ reg = up /\ wire = {} /\ wants = {} /\ agents = {} /\ NobodyLeaves /\ NoJobs
    /\ \E n \in up, f \in File, kind \in {"create", "modify", "delete"} :
          /\ events = [m \in Node |-> IF m = n THEN << [kind |-> kind, file |-> f] >> ELSE << >>]
          /\ Edited(n, kind, f)
          /\ \A m \in up : \A g \in local[m] : g # f => InPlace(m, g)
          /\ \A g \in File : g # f /\ Orphan(g) => Nowhere(g)

\* Leaving
Shutting(x) == job[x].op = "shutdown"

Handing(x) ==
    /\ leaving[x] \in reg
    /\ Shutting(x) => job[x].todo \subseteq Held(x)
    /\ \A f \in local[x] :
          /\ Target(x, f) \in reg
          /\ IF Shutting(x) THEN Bound(f, Target(x, f), "none", NoLog) ELSE InPlace(x, f)
    /\ \A n \in reg : \A f \in local[n] :
          \/ InPlace(n, f) /\ Target(n, f) # x
          \/ /\ Resting(n, f, x) /\ (Shutting(x) => f \in job[x].todo)
             /\ Target(n, f) = IF n = leaving[x] THEN PrevOf(n) ELSE leaving[x]
    /\ \A f \in File : Orphan(f) => Nowhere(f)

Leaving ==
    /\ agents = {} /\ wants = {} /\ NoEvents
    /\ \E x \in up :
          /\ reg = up \ {x} /\ leaving[x] # NoNode
          /\ \A n \in Node \ {x} : leaving[n] = NoNode /\ job[n] = NoJob
          /\ (job[x] = NoJob /\ wire = {}) \/ (Shutting(x) /\ job[x].at = "move")
          /\ \A t \in wire : t.from = x /\ (t.to = x <=> reg = {})
          /\ reg # {} => Handing(x)

\* Crashed
Crashed ==
    /\ wire = {} /\ wants = {} /\ agents = {} /\ NobodyLeaves /\ NoEvents /\ NoJobs
    /\ \E x \in reg :
          /\ up = reg \ {x}
          /\ \A n \in up : \A f \in local[n] :
                IF Target(n, f) = x THEN Nowhere(f) ELSE InPlace(n, f)
          /\ \A f \in File : Orphan(f) => Nowhere(f) \/ \E p \in up : Placed(x, f, p)

\* Touring
Tour(a) ==
    /\ a.failed \notin up /\ a.map = reg /\ a.at \in reg /\ a.seen \subseteq reg
    /\ a.first \in a.seen \union {a.at}
    /\ \A s \in a.seen : GetNextNode(reg, s) \in a.seen \union {a.at}
    /\ \A n \in up : \A f \in local[n] :
          InPlace(n, f) \/ (Nowhere(f) /\ n \notin a.seen /\ f \in Lost(a, n))
    /\ \A f \in File : Orphan(f) =>
          Nowhere(f) \/ \E p \in up \ a.seen : Resting(a.failed, f, p)

Touring ==
    /\ reg = up /\ wants = {} /\ NobodyLeaves /\ NoEvents /\ NoJobs
    /\ \E a \in Agent : agents = {a} /\ Tour(a)

\* A shutdown that waits for the write lock: what others have stays where it is.
Hanging ==
    /\ agents = {} /\ wants = {} /\ NoEvents
    /\ \E x \in up :
          /\ reg = up \ {x}
          /\ Shutting(x) /\ job[x].at = "wait" /\ job[x].todo = {}
          /\ \A n \in Node \ {x} : leaving[n] = NoNode /\ job[n] = NoJob
          /\ \A n \in reg : \A f \in local[n] : \E p \in up : Resting(n, f, p)

Phase == Settling \/ Editing \/ Leaving \/ Hanging \/ Crashed \/ Touring

\* A watcher or an agent waits for the write lock: there is no change any more.
Stuck == waiting # {} /\ \A n \in Node : ~ Leaves(n)

PlaceInv == Homes /\ (Stuck \/ (waiting = {} /\ Phase))
-------------------------------------------------------------------------------
(***************************************************************************)
(* Rings with a node more or less.                                         *)
(***************************************************************************)
LEMMA RingPrev ==
    ASSUME NEW S, S \subseteq Node, S # {}, NEW i \in Nat
    PROVE  IsPrev(S, i, GetPrevNode(S, i)) /\ GetPrevNode(S, i) \in S
<1>1. S \subseteq 0 .. MaxId /\ MaxId \in Nat
  BY NodeFacts
<1>2. IsPrev(S, i, GetPrevNode(S, i))
  BY <1>1, GetPrevNodeIsPrev
<1> QED BY <1>2 DEF IsPrev

\* PrevUnique, for an id that need not be a member.
LEMMA PrevUniqueAt ==
    ASSUME NEW S, S \subseteq Nat, NEW i \in Nat, NEW p, NEW q, IsPrev(S, i, p), IsPrev(S, i, q)
    PROVE  p = q
BY DEF IsPrev, StrictlyBetween

LEMMA PrevOfOther ==
    ASSUME NEW S, S \subseteq Node, NEW n \in S
    PROVE  /\ S # {n} => GetPrevNode(S, n) # n
           /\ S = {n} => GetPrevNode(S, n) = n
<1>1. n \in Nat /\ S \subseteq Nat /\ S # {}
  BY NodeFacts
<1>2. IsPrev(S, n, GetPrevNode(S, n)) /\ GetPrevNode(S, n) \in S
  BY <1>1, RingPrev
<1>3. ASSUME GetPrevNode(S, n) = n, NEW k \in S, k # n PROVE FALSE
  BY <1>1, <1>2, <1>3 DEF IsPrev, StrictlyBetween
<1> QED BY <1>2, <1>3

(***************************************************************************)
(* When a node goes, its previous node takes what was its own.             *)
(***************************************************************************)
LEMMA PrevWithout ==
    ASSUME NEW S, S \subseteq Node, NEW x \in S, NEW i \in Nat, S \ {x} # {}
    PROVE  GetPrevNode(S \ {x}, i) =
               IF GetPrevNode(S, i) = x THEN GetPrevNode(S, x) ELSE GetPrevNode(S, i)
<1> DEFINE R == S \ {x}
           p == GetPrevNode(S, i)
           q == GetPrevNode(S, x)
<1>1. R \subseteq Node /\ R # {} /\ S \subseteq Nat /\ x \in Nat /\ R \subseteq Nat
  BY NodeFacts
<1>2. IsPrev(S, i, p) /\ IsPrev(S, x, q)
  BY <1>1, RingPrev
<1>3. IsPrev(R, i, GetPrevNode(R, i))
  BY <1>1, RingPrev
<1>4. q # x
  BY <1>1, PrevOfOther
<1> HIDE DEF p, q
<1>5. CASE p # x
  <2>1. IsPrev(R, i, p)
    BY <1>2, <1>5 DEF IsPrev
  <2> HIDE DEF R
  <2>2. GetPrevNode(R, i) = p
    BY <1>1, <1>3, <2>1, PrevUniqueAt
  <2> QED BY <1>5, <2>2 DEF p, R
<1>6. CASE p = x
  <2>1. p \in S /\ q \in R /\ q \in Nat /\ p \in Nat
    BY <1>1, <1>2, <1>4 DEF IsPrev
  <2>2. \A k \in R : k # i => ~ StrictlyBetween(q, k, i)
    <3> TAKE k \in R
    <3>1. k # i => ~ StrictlyBetween(x, k, i)
      BY <1>2, <1>6 DEF IsPrev
    <3>2. ~ StrictlyBetween(q, k, x)
      BY <1>2 DEF IsPrev
    <3>3. k \in Nat /\ q \in Nat /\ x \in Nat
      BY <1>1, <2>1
    <3>4. q # i => ~ StrictlyBetween(x, q, i)
      BY <1>2, <1>6, <2>1 DEF IsPrev
    <3>5. k # x
      OBVIOUS
    <3> HIDE DEF R
    <3> QED BY <1>4, <3>1, <3>2, <3>3, <3>4, <3>5 DEF StrictlyBetween
  <2>3. IsPrev(R, i, q)
    BY <2>1, <2>2 DEF IsPrev
  <2> HIDE DEF R
  <2>4. GetPrevNode(R, i) = q
    BY <1>1, <1>3, <2>3, PrevUniqueAt
  <2> QED BY <1>6, <2>4 DEF p, q, R
<1> QED BY <1>5, <1>6

\* Where the replica of a file with this hash of node n belongs in a ring.
TargetIn(S, n, h) ==
    IF GetPrevNode(S, h) = n THEN GetPrevNode(S, n) ELSE GetPrevNode(S, h)

LEMMA TargetInside ==
    ASSUME NEW S, S \subseteq Node, NEW n \in S, NEW h \in Nat
    PROVE  /\ TargetIn(S, n, h) \in S
           /\ S # {n} => TargetIn(S, n, h) # n
<1>1. n \in Nat
  BY NodeFacts
<1>2. GetPrevNode(S, h) \in S /\ GetPrevNode(S, n) \in S
  BY <1>1, RingPrev
<1> QED BY <1>2, PrevOfOther DEF TargetIn

(***************************************************************************)
(* When a node goes, the files of the others stay where they are but for   *)
(* those that were there: they go to the previous node, or to the one      *)
(* before when that is the origin.                                         *)
(***************************************************************************)
LEMMA TargetWithout ==
    ASSUME NEW S, S \subseteq Node, NEW x \in S, NEW n \in S, n # x, NEW h \in Nat
    PROVE  LET R == S \ {x}
               p == GetPrevNode(S, x)
           IN  /\ TargetIn(S, n, h) # x => TargetIn(R, n, h) = TargetIn(S, n, h)
               /\ TargetIn(S, n, h) = x =>
                      TargetIn(R, n, h) = IF n = p THEN GetPrevNode(R, n) ELSE p
<1>1. S \ {x} # {} /\ n \in Nat /\ x \in Nat
  BY NodeFacts
<1>2. /\ GetPrevNode(S \ {x}, h) =
             IF GetPrevNode(S, h) = x THEN GetPrevNode(S, x) ELSE GetPrevNode(S, h)
      /\ GetPrevNode(S \ {x}, n) =
             IF GetPrevNode(S, n) = x THEN GetPrevNode(S, x) ELSE GetPrevNode(S, n)
  BY <1>1, PrevWithout
<1>3. GetPrevNode(S, x) # x
  BY <1>1, PrevOfOther
<1> QED BY <1>1, <1>2, <1>3 DEF TargetIn

(***************************************************************************)
(* Nodes among which everybody's next node is are all there are.           *)
(***************************************************************************)
LEMMA RoundIsAll ==
    ASSUME NEW S, S \subseteq Node, NEW T, T \subseteq S, T # {},
           \A s \in T : GetNextNode(S, s) \in T
    PROVE  T = S
<1> SUFFICES ASSUME NEW x \in S, x \notin T PROVE FALSE
  OBVIOUS
<1>1. S \subseteq Nat /\ T \subseteq Nat /\ x \in Nat /\ MaxId \in Nat /\ T \subseteq 0 .. MaxId /\ S # {}
  BY NodeFacts
<1>2. \A s \in T : /\ GetNextNode(S, s) \in T
                   /\ ~ StrictlyBetween(s, x, GetNextNode(S, s))
  <2> TAKE s \in T
  <2>1. IsNext(S, s, GetNextNode(S, s))
    BY <1>1, GetNextNodeIsNext
  <2> QED BY <2>1 DEF IsNext
<1>3. CASE Below(T, x) # {}
  <2>1. Below(T, x) \subseteq 0 .. MaxId
    BY <1>1 DEF Below
  <2>2. PICK g \in Below(T, x) : \A k \in Below(T, x) : k <= g
    BY <1>1, <1>3, <2>1, GreatestExists
  <2>3. PICK k \in T : ~ StrictlyBetween(g, x, k)
    BY <1>2, <2>2 DEF Below
  <2>4. g \in T /\ g < x /\ g \in Nat /\ k \in Nat /\ k # x
    BY <1>1, <2>2 DEF Below
  <2>5. g < k /\ k < x
    BY <1>1, <2>3, <2>4 DEF StrictlyBetween
  <2>6. k \in Below(T, x)
    BY <2>5 DEF Below
  <2> QED BY <2>2, <2>4, <2>5, <2>6
<1>4. CASE Below(T, x) = {}
  <2>1. PICK g \in T : \A k \in T : k <= g
    BY <1>1, GreatestExists
  <2>2. PICK k \in T : ~ StrictlyBetween(g, x, k)
    BY <1>2
  <2>3. g \in Nat /\ k \in Nat /\ k <= g /\ x < k
    BY <1>1, <1>4, <2>1 DEF Below
  <2> QED BY <1>1, <2>2, <2>3 DEF StrictlyBetween
<1> QED BY <1>3, <1>4
-------------------------------------------------------------------------------
(***************************************************************************)
(* What a step does to the copies of one file.                             *)
(***************************************************************************)
\* Nothing, at the nodes that are up afterwards.
Untouched(f) ==
    /\ About(f)' = About(f)
    /\ \A m \in up' : /\ replica'[m][f] = replica[m][f] /\ log'[m][f] = log[m][f]
                      /\ m \in up \/ replica[m][f] = "none"

LEMMA UntouchedKeeps ==
    ASSUME NEW f, Untouched(f)
    PROVE  /\ Nowhere(f) => Nowhere(f)'
           /\ \A p \in up' : \A data, origin : Bound(f, p, data, origin) => Bound(f, p, data, origin)'
           /\ \A p \in up' : \A n : /\ Placed(n, f, p) => Placed(n, f, p)'
                                    /\ Resting(n, f, p) => Resting(n, f, p)'
<1>1. About(f)' = About(f)
  BY DEF Untouched
<1>2. \A m \in up' : replica'[m][f] = replica[m][f] /\ log'[m][f] = log[m][f]
  BY DEF Untouched
<1>3. \A m \in up' : m \in up \/ replica'[m][f] = "none"
  BY DEF Untouched
<1>4. Nowhere(f) => Nowhere(f)'
  BY <1>1, <1>2, <1>3 DEF Nowhere
<1>5. ASSUME NEW p \in up', NEW data, NEW origin, Bound(f, p, data, origin)
      PROVE  Bound(f, p, data, origin)'
  <2>1. \A m \in up' : m # p => replica'[m][f] = "none"
    BY <1>2, <1>3, <1>5 DEF Bound
  <2>2. replica'[p][f] = replica[p][f] /\ log'[p][f] = log[p][f]
    BY <1>2
  <2> QED BY <1>1, <1>5, <2>1, <2>2 DEF Bound
<1>6. ASSUME NEW p \in up', NEW n, Placed(n, f, p) PROVE Placed(n, f, p)'
  BY <1>5, <1>6 DEF Placed
<1>7. ASSUME NEW p \in up', NEW n, Resting(n, f, p) PROVE Resting(n, f, p)'
  BY <1>1, <1>6, <1>7 DEF Resting
<1> QED BY <1>4, <1>5, <1>6, <1>7

LEMMA InPlaceKept ==
    ASSUME NEW n, NEW f, InPlace(n, f), Untouched(f),
           Target(n, f)' = Target(n, f), Target(n, f) \in up'
    PROVE  InPlace(n, f)'
<1>1. PICK p \in up' : p = Target(n, f) /\ Placed(n, f, p)
  BY DEF InPlace
<1>2. Placed(n, f, p)'
  BY <1>1, UntouchedKeeps
<1> QED BY <1>1, <1>2 DEF InPlace

\* The transfers that are sent when the receiver listens.
ReplicaTo(n, p, f, data) == [what |-> "replica", file |-> f, to |-> p, from |-> n, data |-> data]
LogTo(n, p, f, origin)   == [what |-> "log", file |-> f, to |-> p, from |-> n, data |-> origin]

LEMMA TransferFields ==
    ASSUME NEW n, NEW p, NEW f, NEW data
    PROVE  /\ LET t == ReplicaTo(n, p, f, data)
              IN t.what = "replica" /\ t.file = f /\ t.to = p /\ t.from = n /\ t.data = data
           /\ LET t == LogTo(n, p, f, data)
              IN t.what = "log" /\ t.file = f /\ t.to = p /\ t.from = n /\ t.data = data
BY DEF ReplicaTo, LogTo

LEMMA SendsTo ==
    ASSUME NEW n, NEW p \in up, p # NoNode, NEW f
    PROVE  /\ \A data : data # "none" => SendsReplica(n, p, f, data) = {ReplicaTo(n, p, f, data)}
           /\ \A origin : origin # NoLog => SendsLog(n, p, f, origin) = {LogTo(n, p, f, origin)}
           /\ Deletes(n, p, f) = {ReplicaTo(n, p, f, "none"), LogTo(n, p, f, NoLog)}
           /\ \A sent : p # n => ThenGone(n, p, sent) = {sent}
<1>1. \A data : Sends("replica", n, p, f, data) = {ReplicaTo(n, p, f, data)}
  <2> TAKE data
  <2>1. To(n, p) = p
    BY DEF To
  <2>2. ReplicaTo(n, p, f, data).to = p
    BY TransferFields
  <2> QED BY <2>1, <2>2 DEF Sends, ReplicaTo
<1>2. \A data : Sends("log", n, p, f, data) = {LogTo(n, p, f, data)}
  <2> TAKE data
  <2>1. To(n, p) = p
    BY DEF To
  <2>2. LogTo(n, p, f, data).to = p
    BY TransferFields
  <2> QED BY <2>1, <2>2 DEF Sends, LogTo
<1>3. \A sent : p # n => ThenGone(n, p, sent) = {sent}
  BY DEF ThenGone, To
<1>4. Deletes(n, p, f) = {ReplicaTo(n, p, f, "none"), LogTo(n, p, f, NoLog)}
  BY <1>1, <1>2 DEF Deletes
<1> QED BY <1>1, <1>2, <1>3, <1>4 DEF SendsReplica, SendsLog

\* A copy and a log on their way to p, where whatever is under way already goes.
LEMMA SentBound ==
    ASSUME NEW n, NEW f, NEW p, NEW data, NEW origin,
           About(f)' = About(f) \union {ReplicaTo(n, p, f, data), LogTo(n, p, f, origin)},
           \A t \in About(f) : t.to = p /\ t.data = IF t.what = "replica" THEN data ELSE origin,
           \A m \in up' : m # p => replica'[m][f] = "none"
    PROVE  Bound(f, p, data, origin)'
<1> DEFINE r == ReplicaTo(n, p, f, data)
           l == LogTo(n, p, f, origin)
<1>1. /\ r.what = "replica" /\ r.to = p /\ r.data = data
      /\ l.what = "log" /\ l.to = p /\ l.data = origin
  BY TransferFields
<1>2. About(f)' = About(f) \union {r, l}
  OBVIOUS
<1> HIDE DEF r, l
<1>3. \A t \in About(f)' : t.to = p /\ t.data = IF t.what = "replica" THEN data ELSE origin
  BY <1>1, <1>2
<1>4. \E t \in About(f)' : t.what = "replica"
  BY <1>1, <1>2
<1>5. \E t \in About(f)' : t.what = "log"
  BY <1>1, <1>2
<1> QED BY <1>3, <1>4, <1>5 DEF Bound

\* What a step adds to the wire, of one file and of the others.
LEMMA WireGrows ==
    ASSUME NEW n, NEW f, NEW p, NEW data, NEW origin,
           wire' = wire \union {ReplicaTo(n, p, f, data), LogTo(n, p, f, origin)}
    PROVE  /\ About(f)' = About(f) \union {ReplicaTo(n, p, f, data), LogTo(n, p, f, origin)}
           /\ \A g : g # f => About(g)' = About(g)
<1>1. ReplicaTo(n, p, f, data).file = f /\ LogTo(n, p, f, origin).file = f
  BY TransferFields
<1> QED BY <1>1 DEF About

(***************************************************************************)
(* A transfer that arrives.                                                *)
(***************************************************************************)
LEMMA ReceiveOthers ==
    ASSUME TypeInv, NEW t \in wire, Receive(t), NEW f \in File, f # t.file
    PROVE  Untouched(f)
<1>1. wire' = wire \ {t} /\ up' = up
  BY DEF Receive, ring
<1>2. About(f)' = About(f)
  BY <1>1 DEF About
<1>3. \A m \in up : replica'[m][f] = replica[m][f] /\ log'[m][f] = log[m][f]
  <2> TAKE m \in up
  <2>1. m \in Node /\ replica \in [Node -> [File -> State]] /\ log \in [Node -> [File -> Log]]
    BY DEF TypeInv, RingOK, FoldersOK
  <2>4. t.to \in Node /\ t.file \in File
    BY DEF TypeInv, WireOK, Transfer
  <2>2. CASE t.what = "replica"
    BY <2>1, <2>2 DEF Receive
  <2>3. CASE t.what # "replica"
    BY <2>1, <2>3 DEF Receive
  <2> QED BY <2>2, <2>3
<1> QED BY <1>1, <1>2, <1>3 DEF Untouched

LEMMA ReceiveBound ==
    ASSUME TypeInv, NEW t \in wire, Receive(t), NEW p, NEW data, NEW origin,
           Bound(t.file, p, data, origin)
    PROVE  Bound(t.file, p, data, origin)'
<1> DEFINE f == t.file
<1>1. t \in Transfer /\ t.to \in Node /\ f \in File
  BY DEF TypeInv, WireOK, Transfer
<1>2. t \in About(f) /\ t.what \in {"replica", "log"}
  BY <1>1 DEF About, Transfer
<1>3. t.to = p /\ t.data = IF t.what = "replica" THEN data ELSE origin
  BY <1>2 DEF Bound
<1>4. wire' = wire \ {t} /\ up' = up
  BY DEF Receive, ring
<1>5. About(f)' = About(f) \ {t}
  BY <1>4 DEF About
<1>6. replica \in [Node -> [File -> State]] /\ log \in [Node -> [File -> Log]] /\ up \subseteq Node
  BY DEF TypeInv, RingOK, FoldersOK
<1>7. \A u \in About(f)' : u.to = p /\ u.data = IF u.what = "replica" THEN data ELSE origin
  BY <1>5 DEF Bound
<1>8. CASE t.what = "replica"
  <2>1. replica' = [replica EXCEPT ![p][f] = data] /\ log' = log
    BY <1>3, <1>8 DEF Receive
  <2>2. \A m \in up' : m # p => replica'[m][f] = "none"
    BY <1>4, <1>6, <2>1 DEF Bound
  <2>3. replica'[p][f] = data
    BY <1>1, <1>3, <1>6, <2>1
  <2>4. data = "none" \/ log'[p][f] = origin \/ \E u \in About(f)' : u.what = "log"
    BY <1>5, <1>8, <2>1 DEF Bound
  <2> QED BY <1>7, <2>2, <2>3, <2>4 DEF Bound
<1>9. CASE t.what = "log"
  <2>1. log' = [log EXCEPT ![p][f] = origin] /\ replica' = replica
    BY <1>3, <1>9 DEF Receive
  <2>2. \A m \in up' : m # p => replica'[m][f] = "none"
    BY <1>4, <2>1 DEF Bound
  <2>3. log'[p][f] = origin
    BY <1>1, <1>3, <1>6, <2>1
  <2>4. replica'[p][f] = data \/ \E u \in About(f)' : u.what = "replica"
    BY <1>5, <1>9, <2>1 DEF Bound
  <2> QED BY <1>7, <2>2, <2>3, <2>4 DEF Bound
<1> QED BY <1>2, <1>8, <1>9

\* Whatever is true of a file stays true when a transfer arrives.
LEMMA ReceiveKeeps ==
    ASSUME TypeInv, NEW t \in wire, Receive(t), NEW f \in File
    PROVE  /\ Nowhere(f) => Nowhere(f)'
           /\ \A p \in up : \A data, origin : Bound(f, p, data, origin) => Bound(f, p, data, origin)'
           /\ \A p, n : Placed(n, f, p) => Placed(n, f, p)'
           /\ \A p, n : Resting(n, f, p) => Resting(n, f, p)'
<1>1. up' = up
  BY DEF Receive, ring
<1>2. CASE f # t.file
  BY <1>1, <1>2, ReceiveOthers, UntouchedKeeps DEF Placed, Resting
<1>3. CASE f = t.file
  <2>1. t \in About(f)
    BY <1>3 DEF About
  <2>2. ~ Nowhere(f) /\ \A p, n : ~ Resting(n, f, p)
    BY <2>1 DEF Nowhere, Resting
  <2> QED BY <1>1, <1>3, <2>2, ReceiveBound DEF Placed
<1> QED BY <1>2, <1>3
-------------------------------------------------------------------------------
(***************************************************************************)
(* Files stay with their origin, and nothing is sent to a process that has *)
(* ended.                                                                  *)
(***************************************************************************)
GoUp(S) == \A t \in S : t.to \in up

LEMMA SendsGoUp ==
    ASSUME NEW n, NEW p, NEW f
    PROVE  /\ \A data : GoUp(SendsReplica(n, p, f, data)) /\ GoUp(SendsLog(n, p, f, data))
           /\ GoUp(Deletes(n, p, f))
           /\ \A sends : GoUp(sends) => \A sent \in ThenGone(n, p, sends) : GoUp(sent)
<1>1. \A what, data : GoUp(Sends(what, n, p, f, data))
  BY DEF GoUp, Sends
<1>2. GoUp({})
  BY DEF GoUp
<1>3. GoUp(Deletes(n, p, f))
  BY <1>1 DEF Deletes, GoUp
<1> QED BY <1>1, <1>2, <1>3 DEF SendsReplica, SendsLog, ThenGone

LEMMA HomesFrame ==
    ASSUME Homes, UNCHANGED <<up, local>>,
           \A m \in Node \ up : replica'[m] = replica[m],
           \A t \in wire' : t \in wire \/ t.to \in up
    PROVE  Homes'
<1>1. \A m \in Node \ up' : local'[m] = {} /\ replica'[m] = Empty("none")
  BY DEF Homes
<1>2. \A m \in Node : local'[m] \subseteq Files(m)
  BY DEF Homes
<1>3. \A t \in wire' : t.to \in up'
  BY DEF Homes
<1> QED BY <1>1, <1>2, <1>3 DEF Homes

\* One folder of a node that is up.
LEMMA HomesFolder ==
    ASSUME TypeInv, Homes, UNCHANGED <<up, local>>, NEW n \in up, NEW f, NEW v,
           replica' = [replica EXCEPT ![n][f] = v],
           \A t \in wire' : t \in wire \/ t.to \in up
    PROVE  Homes'
<1>1. \A m \in Node \ up : replica'[m] = replica[m]
  BY DEF TypeInv, FoldersOK
<1> QED BY <1>1, HomesFrame

LEMMA MovesHomes ==
    ASSUME TypeInv, Homes, UNCHANGED <<up, local>>, NEW n \in up, NEW ip, NEW f, Moves(n, ip, f)
    PROVE  Homes'
<1>1. PICK sent \in ThenGone(n, ip, SendsReplica(n, ip, f, replica[n][f])),
           slog \in ThenGone(n, ip, SendsLog(n, ip, f, log[n][f])) :
               wire' = wire \union sent \union slog
  BY DEF Moves
<1>2. GoUp(sent) /\ GoUp(slog)
  BY SendsGoUp
<1>3. \A t \in wire' : t \in wire \/ t.to \in up
  BY <1>1, <1>2 DEF GoUp
<1>4. replica' = [replica EXCEPT ![n][f] = "none"]
  BY DEF Moves
<1> QED BY <1>3, <1>4, HomesFolder

LEMMA EndsHomes ==
    ASSUME TypeInv, Homes, NEW n \in Node, NEW sent, GoUp(sent), Ends(n, sent)
    PROVE  Homes'
<1>1. /\ up' = up \ {n} /\ local' = [local EXCEPT ![n] = {}]
      /\ replica' = [replica EXCEPT ![n] = Empty("none")]
      /\ wire' = {t \in wire : n \notin {t.to, t.from}} \union {t \in sent : t.to # n}
  BY DEF Ends
<1>2. \A t \in wire' : t.to \in up'
  BY <1>1 DEF Homes, GoUp
<1>3. \A m \in Node \ up' : local'[m] = {} /\ replica'[m] = Empty("none")
  BY <1>1 DEF Homes, TypeInv, FoldersOK
<1>4. \A m \in Node : local'[m] \subseteq Files(m)
  BY <1>1 DEF Homes, TypeInv, FoldersOK
<1> QED BY <1>2, <1>3, <1>4 DEF Homes

LEMMA EnvironmentHomes ==
    ASSUME TypeInv, Homes, Environment
    PROVE  Homes'
<1>1. ASSUME NEW n \in Node, Start(n) PROVE Homes'
  <2>1. /\ up' = up \union {n} /\ local' = [local EXCEPT ![n] = Local[n]]
        /\ UNCHANGED <<replica, wire>>
    BY <1>1 DEF Start
  <2>2. \A m \in Node : local'[m] \subseteq Files(m)
    BY <2>1 DEF Homes, Files, TypeInv, FoldersOK
  <2>3. \A m \in Node \ up' : local'[m] = {} /\ replica'[m] = Empty("none")
    BY <2>1 DEF Homes, TypeInv, FoldersOK
  <2> QED BY <2>1, <2>2, <2>3 DEF Homes
<1>2. ASSUME NEW n \in Node, Leave(n) PROVE Homes'
  BY <1>2, HomesFrame DEF Leave, folders
<1>3. ASSUME NEW n \in Node, Crash(n) PROVE Homes'
  <2>1. PICK whole \in SUBSET wire, cut \in SUBSET wire :
            Ends(n, whole \union {Cut(t) : t \in cut})
    BY <1>3 DEF Crash
  <2>2. \A t \in wire : Cut(t).to = t.to
    <3>1. \A t \in wire : t \in Transfer
      BY DEF TypeInv, WireOK
    <3> QED BY <3>1 DEF Cut, Transfer
  <2>3. GoUp(whole \union {Cut(t) : t \in cut})
    BY <2>2 DEF GoUp, Homes
  <2> QED BY <2>1, <2>3, EndsHomes
<1>4. ASSUME NEW n \in Node, NEW f \in File, Create(n, f) \/ Delete(n, f) PROVE Homes'
  <2>1. <<n, f>> \in Changeable /\ n \in up /\ UNCHANGED <<up, replica, wire>>
    BY <1>4 DEF Create, Delete, Edit, ring
  <2>2. local' = [local EXCEPT ![n] = local[n] \union {f}]
           \/ local' = [local EXCEPT ![n] = local[n] \ {f}]
    BY <1>4 DEF Create, Delete
  <2>3. f \in Files(n)
    BY <2>1 DEF Files
  <2>4. \A m \in Node : local'[m] \subseteq Files(m)
    BY <2>2, <2>3 DEF Homes, TypeInv, FoldersOK
  <2>5. \A m \in Node \ up' : local'[m] = {} /\ replica'[m] = Empty("none")
    BY <2>1, <2>2 DEF Homes, TypeInv, FoldersOK
  <2> QED BY <2>1, <2>4, <2>5 DEF Homes
<1>5. ASSUME NEW n \in Node, NEW f \in File, Modify(n, f) PROVE Homes'
  <2>1. /\ UNCHANGED <<up, local>>
        /\ replica' = [m \in Node |-> [replica[m] EXCEPT ![f] = Aged(@)]]
        /\ wire' = {t \in wire : ~ IsCopy(t, f)}
              \union {[t EXCEPT !.data = Aged(@)] : t \in {u \in wire : IsCopy(u, f)}}
    BY <1>5 DEF Modify, Edit, ring
  <2>2. \A m \in Node \ up : replica'[m] = replica[m]
    <3> TAKE m \in Node \ up
    <3>1. replica[m] = Empty("none")
      BY DEF Homes
    <3>2. [Empty("none") EXCEPT ![f] = Aged(@)] = Empty("none")
      BY DEF Empty, Aged
    <3> QED BY <2>1, <3>1, <3>2
  <2>3. \A t \in wire : [t EXCEPT !.data = Aged(@)].to = t.to
    <3>1. \A t \in wire : t \in Transfer
      BY DEF TypeInv, WireOK
    <3> QED BY <3>1 DEF Transfer
  <2>4. \A t \in wire' : t \in wire \/ t.to \in up
    BY <2>1, <2>3 DEF Homes
  <2> QED BY <2>1, <2>2, <2>4, HomesFrame
<1> QED BY <1>1, <1>2, <1>3, <1>4, <1>5 DEF Environment

LEMMA WorkHomes ==
    ASSUME TypeInv, Homes, NEW n \in Node, Work(n)
    PROVE  Homes'
<1>1. CASE StartupCount(n) \/ UpdateBegin(n) \/ UpdateAsk(n)
  BY <1>1, HomesFrame DEF StartupCount, UpdateBegin, UpdateAsk, ring, folders
<1>2. CASE StartupFile(n)
  <2>1. n \in up /\ UNCHANGED <<up, local>>
    BY <1>2, Busy, NoJobIsJob DEF TypeInv, StartupFile, ring
  <2>2. PICK f : CopiesHere(n, f) \/ SendsAway(n, f)
    BY <1>2 DEF StartupFile
  <2>3. CASE CopiesHere(n, f)
    <3>1. /\ replica' = [replica EXCEPT ![n][f] = IF f \in local[n] THEN "whole" ELSE @]
          /\ wire' = wire
      BY <2>3 DEF CopiesHere
    <3>2. \A m \in Node \ up : replica'[m] = replica[m]
      BY <2>1, <3>1 DEF TypeInv, FoldersOK
    <3> QED BY <2>1, <3>1, <3>2, HomesFrame
  <2>4. CASE SendsAway(n, f)
    <3> DEFINE to == Target(n, f)
    <3>1. PICK sent \in ThenGone(n, to, SendsLog(n, to, f, n)) :
             wire' = wire \union SendsReplica(n, to, f, LocalState(n, f)) \union sent
      BY <2>4 DEF SendsAway
    <3>2. GoUp(SendsReplica(n, to, f, LocalState(n, f))) /\ GoUp(sent)
      BY SendsGoUp
    <3>3. \A t \in wire' : t \in wire \/ t.to \in up
      BY <3>1, <3>2 DEF GoUp
    <3> QED BY <2>1, <2>4, <3>3, HomesFrame DEF SendsAway
  <2> QED BY <2>2, <2>3, <2>4
<1>3. CASE UpdateMove(n)
  <2>1. n \in up /\ UNCHANGED <<up, local>>
    BY <1>3, Busy, NoJobIsJob DEF TypeInv, UpdateMove, ring
  <2>2. UNCHANGED <<replica, log, wire>> \/ \E ip, f : Moves(n, ip, f)
    BY <1>3 DEF UpdateMove
  <2> QED BY <2>1, <2>2, MovesHomes, HomesFrame
<1>4. CASE ShutBegin(n)
  <2>1. wire' = wire \union UNION {Deletes(n, Target(n, f), f) : f \in local[n]}
    BY <1>4 DEF ShutBegin
  <2>2. \A f : GoUp(Deletes(n, Target(n, f), f))
    BY SendsGoUp
  <2>3. \A t \in wire' : t \in wire \/ t.to \in up
    BY <2>1, <2>2 DEF GoUp
  <2> QED BY <1>4, <2>3, HomesFrame DEF ShutBegin, ring, folders
<1>h. CASE ShutHangs(n)
  <2>1. \A f : GoUp(Deletes(n, Target(n, f), f))
    BY SendsGoUp
  <2>2. \A t \in wire' : t \in wire \/ t.to \in up
    BY <1>h, <2>1 DEF ShutHangs, GoUp
  <2> QED BY <1>h, <2>2, HomesFrame DEF ShutHangs, ring, folders
<1>5. CASE ShutMove(n)
  <2>1. n \in up /\ UNCHANGED <<up, local>>
    BY <1>5, Busy, NoJobIsJob DEF TypeInv, ShutMove, ring
  <2>2. \E ip, f : Moves(n, ip, f)
    BY <1>5 DEF ShutMove
  <2> QED BY <2>1, <2>2, MovesHomes
<1>6. CASE Exit(n)
  <2>1. GoUp({t \in wire : t.from = n})
    BY DEF GoUp, Homes
  <2> QED BY <1>6, <2>1, EndsHomes DEF Exit
<1> QED BY <1>1, <1>2, <1>3, <1>4, <1>h, <1>5, <1>6 DEF Work

LEMMA NextHomes ==
    ASSUME TypeInv, Homes, [Next]_vars
    PROVE  Homes'
<1>1. ASSUME NEW n \in Node, Watch(n) PROVE Homes'
  <2> DEFINE to(f) == Target(n, f)
             copy(f) == SendsReplica(n, to(f), f, LocalState(n, f))
  <2>1. \A f : /\ GoUp(copy(f)) /\ GoUp(Deletes(n, to(f), f))
               /\ \A content : GoUp(SendsLog(n, to(f), f, content))
    BY SendsGoUp
  <2>2. \E f : \/ \E content : \/ wire' = wire \union SendsLog(n, to(f), f, content) \union copy(f)
                               \/ wire' = wire \union SendsLog(n, to(f), f, content)
               \/ wire' = wire \union copy(f)
               \/ wire' = wire \union Deletes(n, to(f), f)
    BY <1>1, WatchSends
  <2>3. \A t \in wire' : t \in wire \/ t.to \in up
    <3> HIDE DEF copy, to
    <3> QED BY <2>1, <2>2 DEF GoUp
  <2> QED BY <1>1, <2>3, HomesFrame DEF Watch, ring
<1>2. ASSUME NEW n \in Node, Report(n) \/ ReportAgain(n) PROVE Homes'
  BY <1>2, HomesFrame DEF Report, ReportAgain, ring, folders
<1>3. ASSUME NEW t \in wire, Receive(t) PROVE Homes'
  <2>1. t.to \in up /\ UNCHANGED <<up, local>> /\ wire' = wire \ {t}
    BY <1>3 DEF Homes, Receive, ring
  <2>2. replica' = replica \/ replica' = [replica EXCEPT ![t.to][t.file] = t.data]
    BY <1>3 DEF Receive
  <2> QED BY <2>1, <2>2, HomesFrame, HomesFolder
<1>4. ASSUME NEW a \in agents, AgentVisit(a) PROVE Homes'
  <2> DEFINE n == a.at
             sent(f) == SendsReplica(n, Target(n, f), f, "whole") \union SendsLog(n, Target(n, f), f, n)
  <2>1. n \in up /\ n \in Node /\ UNCHANGED <<up, local>>
    BY <1>4 DEF AgentVisit, ring, TypeInv, RingOK
  <2>2. \A f : GoUp(sent(f))
    BY SendsGoUp DEF GoUp
  <2>3. \A t \in wire' : t \in wire \/ t.to \in up
    <3>1. wire' = wire \/ wire' = wire \union UNION {sent(f) : f \in Lost(a, n)}
      BY <1>4 DEF AgentVisit
    <3> HIDE DEF sent
    <3> QED BY <2>2, <3>1 DEF GoUp
  <2>4. \A m \in Node \ up : replica'[m] = replica[m]
    <3>1. \E r : replica' = [replica EXCEPT ![n] = r]
      BY <1>4 DEF AgentVisit
    <3> QED BY <2>1, <3>1 DEF TypeInv, FoldersOK
  <2> QED BY <2>1, <2>3, <2>4, HomesFrame
<1>5. CASE UNCHANGED vars
  BY <1>5, HomesFrame DEF vars, ring, folders
<1> QED BY <1>1, <1>2, <1>3, <1>4, <1>5, EnvironmentHomes, WorkHomes DEF Next

LEMMA InitHomes == Init => Homes
BY DEF Init, Homes

\* A file is local to one node.
LEMMA OneHome ==
    ASSUME OneOrigin, Homes, NEW m \in Node, NEW n \in Node, m # n, NEW f \in Files(m)
    PROVE  f \notin local[n]
BY DEF OneOrigin, Homes
-------------------------------------------------------------------------------
(***************************************************************************)
(* When all is quiet everything is in its place; every change begins then. *)
(***************************************************************************)
NothingLeft ==
    /\ reg = up /\ wire = {} /\ wants = {} /\ agents = {}
    /\ NobodyLeaves /\ NoEvents /\ NoJobs
    /\ \A n \in up : \A f \in local[n] : InPlace(n, f)
    /\ \A f \in File : Orphan(f) => Nowhere(f)

LEMMA QuietRests ==
    ASSUME TypeInv, PlaceInv, Quiet
    PROVE  NothingLeft
<1>1. Settling
  <2>1. up \subseteq Node
    BY DEF TypeInv, RingOK
  <2>2. ~ Editing
    <3> SUFFICES ASSUME Editing PROVE FALSE
      OBVIOUS
    <3>1. PICK n \in up, f \in File, kind \in {"create", "modify", "delete"} :
             events = [m \in Node |-> IF m = n THEN << [kind |-> kind, file |-> f] >> ELSE << >>]
      BY DEF Editing
    <3>2. events[n] = << [kind |-> kind, file |-> f] >>
      BY <2>1, <3>1
    <3>3. << [kind |-> kind, file |-> f] >> # << >>
      OBVIOUS
    <3> QED BY <3>2, <3>3 DEF Quiet
  <2>3. ~ Leaving
    BY DEF Leaving, Quiet
  <2>4. ~ Crashed
    BY DEF Crashed, Quiet
  <2>5. ~ Touring
    BY DEF Touring, Quiet
  <2>6. ~ Hanging /\ ~ Stuck
    BY DEF Hanging, Stuck, Quiet
  <2> QED BY <2>2, <2>3, <2>4, <2>5, <2>6 DEF PlaceInv, Phase
<1>2. reg = up /\ wire = {} /\ wants = {} /\ agents = {} /\ NobodyLeaves /\ NoEvents
  BY <1>1 DEF Settling, Quiet
<1>3. NoJobs
  BY DEF NoJobs, Quiet, TypeInv, JobsOK
<1>4. ASSUME NEW n \in up, NEW f \in local[n] PROVE InPlace(n, f)
  <2>1. n \in Node
    BY DEF TypeInv, RingOK
  <2>2. ~ Unsent(n, f)
    BY <1>3, <2>1, NoJobIsJob DEF NoJobs, Unsent
  <2>3. \A p \in up : ~ Due(p, f)
    BY <1>2, <1>3, NoJobIsJob DEF NoJobs, Due, TypeInv, RingOK
  <2> QED BY <1>1, <2>2, <2>3 DEF Settling, Settled
<1>5. ASSUME NEW f \in File, Orphan(f) PROVE Nowhere(f)
  <2>1. Fading(f) /\ About(f) = {}
    BY <1>1, <1>2, <1>5 DEF Settling, About
  <2>2. ASSUME NEW p \in up, Bound(f, p, "none", NoLog) PROVE Nowhere(f)
    BY <2>1, <2>2 DEF Bound, Nowhere
  <2> QED BY <2>1, <2>2 DEF Fading
<1> QED BY <1>2, <1>3, <1>4, <1>5 DEF NothingLeft

LEMMA ChangeWhenQuiet ==
    ASSUME Sequential, Environment
    PROVE  Quiet
BY DEF Sequential, Change, Environment, Start, Leave, Crash, Create, Modify, Delete, Edit, Acts

LEMMA TargetIs ==
    ASSUME NEW n, leaving[n] = NoNode, NEW f
    PROVE  Target(n, f) = TargetIn(reg, n, Hash[f])
BY DEF Target, PrevNode, Owner, TargetIn

\* Where a file belongs when nobody leaves.
LEMMA TargetUp ==
    ASSUME TypeInv, NEW n \in reg, leaving[n] = NoNode, NEW f \in File
    PROVE  Target(n, f) \in reg /\ (reg # {n} => Target(n, f) # n)
<1>1. reg \subseteq Node /\ Hash[f] \in Nat
  BY NodeFacts DEF TypeInv, RingOK
<1>2. TargetIn(reg, n, Hash[f]) \in reg /\ (reg # {n} => TargetIn(reg, n, Hash[f]) # n)
  BY <1>1, TargetInside
<1> QED BY <1>2, TargetIs

LEMMA LocalFiles ==
    ASSUME TypeInv
    PROVE  up \subseteq Node /\ reg \subseteq Node /\ \A n \in Node : \A f \in local[n] : f \in File
BY DEF TypeInv, RingOK, FoldersOK

-------------------------------------------------------------------------------
(***************************************************************************)
(* A node starts: the others have to update, and it has to send its files. *)
(***************************************************************************)
LEMMA StartSettles ==
    ASSUME Sequential, TypeInv, Homes, NothingLeft, NEW n \in Node, Start(n)
    PROVE  Settling'
<1>1. /\ n \notin up /\ reg' = reg \union {n} /\ up' = up \union {n}
      /\ local' = [local EXCEPT ![n] = Local[n]]
      /\ job' = [job EXCEPT ![n] = [NoJob EXCEPT !.op = "startup", !.at = "count"]]
      /\ UNCHANGED <<leaving, replica, log, wire, events, agents>>
  BY DEF Start
<1>2. up \subseteq wants'
  BY DEF Start, Sequential
<1>3. reg' = up' /\ agents' = {} /\ NobodyLeaves' /\ NoEvents' /\ up \subseteq Node /\ up' \subseteq Node
  BY <1>1, LocalFiles DEF NothingLeft, NobodyLeaves, NoEvents
<1>4. \A f \in File : Untouched(f)
  BY <1>1, <1>3 DEF Untouched, About, Homes, Empty
<1>5. /\ \A m \in Node : m # n => local'[m] = local[m] /\ job'[m] = NoJob
      /\ local'[n] = Local[n] /\ job'[n].op = "startup" /\ job'[n].at = "count" /\ job'[n].todo = {}
  <2>1. /\ [NoJob EXCEPT !.op = "startup", !.at = "count"].op = "startup"
        /\ [NoJob EXCEPT !.op = "startup", !.at = "count"].at = "count"
        /\ [NoJob EXCEPT !.op = "startup", !.at = "count"].todo = {}
    BY DEF NoJob
  <2> QED BY <1>1, <2>1 DEF TypeInv, FoldersOK, JobsOK, NothingLeft, NoJobs
<1>6. \A m \in up' : JobRight(m)'
  BY <1>3, <1>5 DEF JobRight
<1>7. ASSUME NEW m \in up', NEW f \in local'[m] PROVE Settled(m, f)'
  <2>1. CASE m = n
    <3>1. f \in Local[n] /\ f \in File /\ f \in Files(n)
      BY <1>5, <2>1, NodeFacts DEF Files
    <3>2. \A k \in Node : k # n => f \notin local[k]
      BY <3>1, OneHome DEF Sequential
    <3>3. f \notin local[n]
      BY <1>1 DEF Homes
    <3>4. Nowhere(f)
      BY <3>1, <3>2, <3>3 DEF NothingLeft, Orphan
    <3> QED BY <1>4, <1>5, <2>1, <3>1, <3>4, UntouchedKeeps DEF Unsent, Settled
  <2>2. CASE m # n
    <3>1. m \in up /\ f \in local[m]
      BY <1>1, <1>3, <1>5, <2>2
    <3>2. InPlace(m, f)
      BY <3>1 DEF NothingLeft
    <3>3. PICK p \in up : Resting(m, f, p)
      BY <3>2 DEF InPlace, Placed, Resting, NothingLeft, About
    <3>4. p \in up' /\ Due(p, f)' /\ f \in File
      BY <1>1, <1>2, <3>1, LocalFiles DEF Due
    <3>5. ~ Unsent(m, f)'
      BY <1>3, <1>5, <2>2, NoJobIsJob DEF Unsent
    <3> QED BY <1>4, <3>3, <3>4, <3>5, UntouchedKeeps DEF Settled
  <2> QED BY <2>1, <2>2
<1>8. ASSUME NEW f \in File, Orphan(f)' PROVE Fading(f)'
  <2>1. Orphan(f)
    BY <1>1, <1>5, <1>8 DEF Orphan, Homes
  <2> QED BY <1>4, <2>1, UntouchedKeeps DEF NothingLeft, Fading
<1> QED BY <1>3, <1>6, <1>7, <1>8 DEF Settling

(***************************************************************************)
(* A node leaves the map: the files whose replicas it holds belong to its  *)
(* previous node now, or to the one before.                                *)
(***************************************************************************)
LEMMA LeaveLeaves ==
    ASSUME TypeInv, Homes, NothingLeft, NEW x \in Node, Leave(x)
    PROVE  Leaving'
<1> DEFINE p == GetPrevNode(reg, x)
<1>1. /\ x \in up /\ x \in reg /\ reg' = reg \ {x} /\ reg \subseteq Node
      /\ leaving' = [leaving EXCEPT ![x] = p]
      /\ UNCHANGED <<up, local, replica, log, wire, job, wants, events, agents>>
  BY LocalFiles DEF Leave, folders
<1>2. p \in reg /\ p # NoNode /\ x \in Nat
  BY <1>1, RingPrev, NodeFacts
<1>3. \A m \in Node \ {x} : leaving'[m] = NoNode /\ job'[m] = NoJob
  BY <1>1 DEF TypeInv, RingOK, NothingLeft, NobodyLeaves, NoJobs
<1>4. leaving'[x] = p /\ job'[x] = NoJob /\ wire' = {} /\ ~ Shutting(x)'
  BY <1>1, NoJobIsJob DEF TypeInv, RingOK, NothingLeft, NoJobs, Shutting
<1>5. \A f : Untouched(f)
  BY <1>1 DEF Untouched, About
<1>6. ASSUME reg' # {} PROVE Handing(x)'
  <2>1. p \in reg' /\ p # x
    BY <1>1, <1>2, <1>6, PrevOfOther
  <2>2. ASSUME NEW f \in local[x] PROVE Target(x, f)' \in reg' /\ InPlace(x, f)'
    <3>1. f \in File /\ Hash[f] \in Nat
      BY LocalFiles, NodeFacts
    <3>2. GetPrevNode(reg', Hash[f]) =
              IF GetPrevNode(reg, Hash[f]) = x THEN p ELSE GetPrevNode(reg, Hash[f])
      BY <1>1, <1>6, <3>1, PrevWithout
    <3>3. GetPrevNode(reg', Hash[f]) \in reg'
      BY <1>1, <1>6, <3>1, RingPrev
    <3>4. Target(x, f)' = GetPrevNode(reg', Hash[f])
      BY <1>1, <3>3 DEF Target, Owner
    <3>5. Target(x, f) = GetPrevNode(reg', Hash[f])
      <4>1. leaving[x] = NoNode
        BY DEF NothingLeft, NobodyLeaves
      <4> QED BY <3>2, <4>1 DEF Target, Owner, PrevNode
    <3>6. InPlace(x, f) /\ Target(x, f) \in up'
      BY <1>1, <3>3, <3>5 DEF NothingLeft
    <3> QED BY <1>5, <3>3, <3>4, <3>5, <3>6, UntouchedKeeps DEF InPlace
  <2>3. ASSUME NEW n \in reg', NEW f \in local[n]
        PROVE  \/ InPlace(n, f)' /\ Target(n, f)' # x
               \/ /\ Resting(n, f, x)'
                  /\ Target(n, f)' = IF n = p THEN PrevOf(n)' ELSE p
    <3>1. n \in Node /\ n \in reg /\ n # x /\ f \in File /\ Hash[f] \in Nat
      BY <1>1, LocalFiles, NodeFacts
    <3>2. leaving[n] = NoNode /\ leaving'[n] = NoNode
      BY <1>3, <3>1 DEF NothingLeft, NobodyLeaves
    <3>3. Target(n, f) = TargetIn(reg, n, Hash[f]) /\ Target(n, f)' = TargetIn(reg', n, Hash[f])
      BY <3>2, TargetIs DEF Target, PrevNode, Owner, TargetIn
    <3>4. /\ TargetIn(reg, n, Hash[f]) # x => TargetIn(reg', n, Hash[f]) = TargetIn(reg, n, Hash[f])
          /\ TargetIn(reg, n, Hash[f]) = x =>
                 TargetIn(reg', n, Hash[f]) = IF n = p THEN GetPrevNode(reg', n) ELSE p
      BY <1>1, <3>1, TargetWithout
    <3>5. InPlace(n, f) /\ About(f) = {}
      BY <1>1, <3>1 DEF NothingLeft, About
    <3>6. CASE Target(n, f) # x
      <4>1. Target(n, f)' = Target(n, f) /\ Target(n, f) \in up'
        BY <1>1, <3>3, <3>4, <3>5, <3>6 DEF InPlace, Placed
      <4> QED BY <1>5, <3>5, <3>6, <4>1, UntouchedKeeps DEF InPlace
    <3>7. CASE Target(n, f) = x
      <4>1. Resting(n, f, x)
        BY <3>5, <3>7 DEF InPlace, Resting
      <4>2. Resting(n, f, x)'
        BY <1>1, <1>5, <4>1, UntouchedKeeps
      <4>3. PrevOf(n)' = GetPrevNode(reg', n)
        BY DEF PrevOf
      <4> QED BY <3>3, <3>4, <3>7, <4>2, <4>3
    <3> QED BY <3>6, <3>7
  <2>4. ASSUME NEW f \in File, Orphan(f)' PROVE Nowhere(f)'
    <3>1. Orphan(f)
      BY <1>1, <2>4 DEF Orphan
    <3> QED BY <1>5, <3>1, UntouchedKeeps DEF NothingLeft
  <2> HIDE DEF p
  <2>5. local' = local
    BY <1>1
  <2> QED BY <1>4, <2>1, <2>2, <2>3, <2>4, <2>5 DEF Handing
<1>7. agents' = {} /\ wants' = {} /\ NoEvents'
  BY <1>1 DEF NothingLeft, NoEvents
<1>8. reg' = up' \ {x}
  BY <1>1 DEF NothingLeft
<1> QED BY <1>1, <1>2, <1>3, <1>4, <1>6, <1>7, <1>8 DEF Leaving
(***************************************************************************)
(* A node crashes: the replicas it had are lost, and those of its files    *)
(* are nobody's.                                                           *)
(***************************************************************************)
LEMMA CrashCrashes ==
    ASSUME TypeInv, Homes, NothingLeft, NEW x \in Node, Crash(x)
    PROVE  Crashed'
<1>1. x \in up /\ reg' = reg /\ Ends(x, {})
  <2>1. PICK whole \in SUBSET {t \in wire : t.from = x} :
        \E cut \in SUBSET {t \in wire \ whole : t.from = x /\ HasContent(t)} :
            Ends(x, whole \union {Cut(t) : t \in cut})
    BY DEF Crash
  <2>2. wire = {}
    BY DEF NothingLeft
  <2>3. PICK cut \in SUBSET {} : Ends(x, {} \union {Cut(t) : t \in cut})
    BY <2>1, <2>2
  <2>4. {} \union {Cut(t) : t \in cut} = {}
    OBVIOUS
  <2> QED BY <2>3, <2>4 DEF Crash
<1>2. /\ up' = up \ {x} /\ up \subseteq Node /\ wire' = {} /\ wants' = {} /\ agents' = {}
      /\ local' = [local EXCEPT ![x] = {}] /\ job' = [job EXCEPT ![x] = NoJob]
      /\ leaving' = [leaving EXCEPT ![x] = NoNode] /\ events' = [events EXCEPT ![x] = << >>]
      /\ replica' = [replica EXCEPT ![x] = Empty("none")]
      /\ log' = [log EXCEPT ![x] = Empty(NoLog)]
  BY <1>1, LocalFiles DEF Ends, NothingLeft
<1>3. NobodyLeaves' /\ NoEvents' /\ NoJobs' /\ leaving' = leaving
  BY <1>2 DEF NothingLeft, NobodyLeaves, NoEvents, NoJobs, TypeInv, RingOK, EventsOK, JobsOK
<1>4. \A f : Untouched(f)
  BY <1>2 DEF Untouched, About, NothingLeft, TypeInv, FoldersOK
<1>5. /\ \A m \in Node : m # x => local'[m] = local[m]
      /\ local'[x] = {}
  BY <1>2 DEF TypeInv, FoldersOK
\* A copy at x is gone, any other is where it was.
<1>6. ASSUME NEW n \in up, NEW f \in local[n]
      PROVE  IF Target(n, f) = x THEN Nowhere(f)' ELSE Placed(n, f, Target(n, f))'
  <2>1. InPlace(n, f)
    BY DEF NothingLeft
  <2>2. CASE Target(n, f) = x
    <3>1. \A m \in up' : replica'[m][f] = "none"
      BY <1>2, <1>4, <2>1, <2>2 DEF InPlace, Placed, Bound, Untouched
    <3> QED BY <1>2, <2>2, <3>1 DEF Nowhere, About
  <2>3. CASE Target(n, f) # x
    <3>1. Target(n, f) \in up'
      BY <1>2, <2>1, <2>3 DEF InPlace, Placed
    <3>2. Target(n, f)' = Target(n, f)
      BY <1>1, <1>3 DEF Target, PrevNode, Owner
    <3> QED BY <1>4, <2>1, <2>3, <3>1, <3>2, InPlaceKept DEF InPlace
  <2> QED BY <2>2, <2>3
<1>7. ASSUME NEW n \in up', NEW f \in local'[n]
      PROVE  IF Target(n, f)' = x THEN Nowhere(f)' ELSE InPlace(n, f)'
  <2>1. n \in up /\ f \in local[n]
    BY <1>2, <1>5
  <2>2. Target(n, f)' = Target(n, f)
    BY <1>1, <1>3 DEF Target, PrevNode, Owner
  <2> QED BY <1>6, <2>1, <2>2 DEF InPlace
<1>8. ASSUME NEW f \in File, Orphan(f)' PROVE Nowhere(f)' \/ \E p \in up' : Placed(x, f, p)'
  <2>1. CASE f \in local[x]
    <3>1. IF Target(x, f) = x THEN Nowhere(f)' ELSE Placed(x, f, Target(x, f))'
      BY <1>1, <1>6, <2>1
    <3> QED BY <3>1 DEF Placed
  <2>2. CASE f \notin local[x]
    <3>1. Orphan(f)
      BY <1>5, <1>8, <2>2 DEF Orphan
    <3> QED BY <1>4, <3>1, UntouchedKeeps DEF NothingLeft
  <2> QED BY <2>1, <2>2
<1>9. x \in reg' /\ up' = reg' \ {x}
  BY <1>1, <1>2 DEF NothingLeft
<1> QED BY <1>2, <1>3, <1>7, <1>8, <1>9 DEF Crashed

(***************************************************************************)
(* A user changes a file: the watcher has it to handle.                    *)
(***************************************************************************)
LEMMA EditEdits ==
    ASSUME TypeInv, NothingLeft, NEW n \in Node, NEW f \in File,
           NEW kind \in {"create", "modify", "delete"}, Edit(n, kind, f),
           wire' = {}, Edited(n, kind, f)',
           \A g \in File : g # f => Untouched(g),
           \A m \in Node : \A g \in File : g # f => (g \in local'[m] <=> g \in local[m]),
           \A m \in Node : local'[m] \subseteq File
    PROVE  Editing'
<1>1. /\ n \in up /\ UNCHANGED <<reg, up, leaving, log, job, wants, agents>>
      /\ up \subseteq Node
  BY LocalFiles DEF Edit, ring
<1>2. events' = [m \in Node |-> IF m = n THEN << [kind |-> kind, file |-> f] >> ELSE << >>]
  <2>1. job[n].op # "startup"
    BY NoJobIsJob DEF NothingLeft, NoJobs
  <2>2. events' = [events EXCEPT ![n] = Append(events[n], [kind |-> kind, file |-> f])]
    BY <2>1 DEF Edit, TypeInv, EventsOK
  <2>3. Append(<< >>, [kind |-> kind, file |-> f]) = << [kind |-> kind, file |-> f] >>
    OBVIOUS
  <2> QED BY <2>2, <2>3 DEF NothingLeft, NoEvents, TypeInv, EventsOK
<1>3. ASSUME NEW m \in up', NEW g \in local'[m], g # f PROVE InPlace(m, g)'
  <2>1. m \in up /\ g \in File /\ g \in local[m]
    BY <1>1, <1>3
  <2>2. InPlace(m, g) /\ Untouched(g)
    BY <1>3, <2>1 DEF NothingLeft
  <2>3. Target(m, g)' = Target(m, g) /\ Target(m, g) \in up'
    BY <1>1, <2>2 DEF Target, PrevNode, Owner, InPlace, Placed
  <2> QED BY <2>2, <2>3, InPlaceKept
<1>4. ASSUME NEW g \in File, g # f, Orphan(g)' PROVE Nowhere(g)'
  <2>1. Orphan(g) /\ Untouched(g)
    BY <1>4 DEF Orphan
  <2> QED BY <2>1, UntouchedKeeps DEF NothingLeft
<1>5. /\ reg' = up' /\ wants' = {} /\ agents' = {} /\ NobodyLeaves' /\ NoJobs'
  BY <1>1 DEF NothingLeft, NobodyLeaves, NoJobs
<1> QED BY <1>1, <1>2, <1>3, <1>4, <1>5 DEF Editing

LEMMA UserEdits ==
    ASSUME Sequential, TypeInv, Homes, NothingLeft, NEW n \in Node, NEW f \in File,
           Create(n, f) \/ Modify(n, f) \/ Delete(n, f)
    PROVE  Editing'
<1>0. /\ UNCHANGED <<reg, up, leaving, log>> /\ up \subseteq Node /\ n \in up
      /\ local \in [Node -> SUBSET File] /\ replica \in [Node -> [File -> State]]
      /\ \A g : Target(n, g)' = Target(n, g)
  BY LocalFiles DEF Create, Modify, Delete, Edit, ring, TypeInv, FoldersOK, Target, PrevNode, Owner
<1>h. <<n, f>> \in Changeable /\ f \in Files(n)
  BY DEF Create, Modify, Delete, Edit, Files
<1>o. \A m \in Node : m # n => f \notin local[m]
  BY <1>h, OneHome DEF Sequential
<1>1. CASE Create(n, f)
  <2>1. /\ f \notin local[n] /\ reg # {n} /\ Edit(n, "create", f)
        /\ local' = [local EXCEPT ![n] = local[n] \union {f}] /\ UNCHANGED <<replica, wire>>
    BY <1>1 DEF Create, Sequential
  <2>2. \A g : Untouched(g)
    BY <1>0, <2>1 DEF Untouched, About
  <2>3. Nowhere(f)
    BY <1>o, <2>1 DEF NothingLeft, Orphan
  <2>4. Edited(n, "create", f)'
    BY <1>0, <2>1, <2>2, <2>3, UntouchedKeeps DEF Edited
  <2>5. wire' = {}
    BY <2>1 DEF NothingLeft
  <2> QED BY <1>0, <2>1, <2>2, <2>4, <2>5, EditEdits
<1>2. CASE Modify(n, f)
  <2>1. /\ f \in local[n] /\ local' = local /\ Edit(n, "modify", f)
        /\ replica' = [m \in Node |-> [replica[m] EXCEPT ![f] = Aged(@)]]
        /\ wire' = {t \in wire : ~ IsCopy(t, f)}
              \union {[t EXCEPT !.data = Aged(@)] : t \in {u \in wire : IsCopy(u, f)}}
    BY <1>2 DEF Modify
  <2>2. wire = {} /\ wire' = {}
    BY <2>1 DEF NothingLeft
  <2>3. \A g \in File : g # f => Untouched(g)
    BY <1>0, <2>1, <2>2 DEF Untouched, About
  <2>4. \A m \in up : replica'[m][f] = Aged(replica[m][f])
    BY <1>0, <2>1
  <2>5. Edited(n, "modify", f)'
    <3>1. InPlace(n, f)
      BY <1>0, <2>1 DEF NothingLeft
    <3> DEFINE p == Target(n, f)
    <3>2. /\ p \in up /\ replica[p][f] = "whole" /\ log[p][f] = n
          /\ \A m \in up : m # p => replica[m][f] = "none"
      BY <2>2, <3>1 DEF InPlace, Placed, Bound, About
    <3> HIDE DEF p
    <3>3. Aged("whole") = "stale" /\ Aged("none") = "none"
      BY DEF Aged
    <3>4. replica'[p][f] = "stale" /\ log'[p][f] = n
      BY <1>0, <2>4, <3>2, <3>3
    <3>5. \A m \in up' : m # p => replica'[m][f] = "none"
      BY <1>0, <2>4, <3>2, <3>3
    <3>6. Target(n, f)' = p
      BY <1>0 DEF p
    <3> QED BY <2>1, <3>4, <3>5, <3>6 DEF Edited
  <2> QED BY <1>0, <2>1, <2>2, <2>3, <2>5, EditEdits
<1>3. CASE Delete(n, f)
  <2>1. /\ f \in local[n] /\ Edit(n, "delete", f)
        /\ local' = [local EXCEPT ![n] = local[n] \ {f}] /\ UNCHANGED <<replica, wire>>
    BY <1>3 DEF Delete
  <2>2. \A g : Untouched(g)
    BY <1>0, <2>1 DEF Untouched, About
  <2>3. InPlace(n, f)'
    <3>1. InPlace(n, f) /\ Target(n, f) \in up'
      BY <1>0, <2>1 DEF NothingLeft, InPlace, Placed
    <3> QED BY <1>0, <2>2, <3>1, InPlaceKept
  <2>4. Orphan(f)'
    BY <1>0, <1>o, <2>1 DEF Orphan
  <2>5. wire' = {}
    BY <2>1 DEF NothingLeft
  <2>6. Edited(n, "delete", f)'
    BY <2>3, <2>4 DEF Edited
  <2> QED BY <1>0, <2>1, <2>2, <2>5, <2>6, EditEdits
<1> QED BY <1>1, <1>2, <1>3
-------------------------------------------------------------------------------
(***************************************************************************)
(* Settling: startup, update and what is still on its way.                 *)
(***************************************************************************)
LEMMA SettlingKept ==
    ASSUME TypeInv, Settling, UNCHANGED <<reg, up, leaving, local, events, agents>>,
           \A n \in up : JobRight(n)',
           \A n \in up : \A f \in local[n] : Settled(n, f)',
           \A f \in File : Orphan(f) => Fading(f)'
    PROVE  Settling'
BY DEF Settling, NobodyLeaves, NoEvents, Orphan

\* A file that is held is a settled file of somebody, and complete.
LEMMA HeldIsResting ==
    ASSUME TypeInv, Homes, Settling, NEW n \in up, NEW f \in Held(n), ~ Orphan(f)
    PROVE  \E m \in up : /\ f \in local[m] /\ ~ Unsent(m, f) /\ Placed(m, f, n)
                         /\ InPlace(m, f) \/ Resting(m, f, n)
<1>1. PICK m \in Node : f \in local[m]
  BY DEF Orphan
<1>2. m \in up
  BY <1>1 DEF Homes
<1>3. Settled(m, f) /\ replica[n][f] # "none"
  BY <1>1, <1>2 DEF Settling, Held
<1>4. ~ Unsent(m, f)
  BY <1>3 DEF Settled, Nowhere
<1>5. \A p : Placed(m, f, p) => p = n
  BY <1>3 DEF Placed, Bound
<1> QED BY <1>1, <1>2, <1>3, <1>4, <1>5 DEF Settled, InPlace, Resting

LEMMA SameTargets ==
    ASSUME UNCHANGED <<reg, leaving>>
    PROVE  \A n, f : Target(n, f)' = Target(n, f)
BY DEF Target, PrevNode, Owner

LEMMA InPlaceReceives ==
    ASSUME TypeInv, NEW t \in wire, Receive(t), NEW f \in File, NEW n, InPlace(n, f)
    PROVE  InPlace(n, f)'
<1>1. PICK p : p = Target(n, f) /\ Placed(n, f, p)
  BY DEF InPlace
<1>2. Placed(n, f, p)'
  BY <1>1, ReceiveKeeps
<1>3. Target(n, f)' = p
  BY <1>1, SameTargets DEF Receive, ring
<1> QED BY <1>2, <1>3 DEF InPlace

LEMMA ReceiveSettles ==
    ASSUME TypeInv, Homes, Settling, NEW t \in wire, Receive(t)
    PROVE  Settling'
<1>1. UNCHANGED <<reg, up, leaving, local, job, wants, events, agents>> /\ wire' = wire \ {t}
  BY DEF Receive, ring
<1>2. ASSUME NEW n \in up, NEW f \in local[n] PROVE Settled(n, f)'
  <2>1. f \in File /\ Settled(n, f)
    BY LocalFiles DEF Settling
  <2>2. Unsent(n, f)' <=> Unsent(n, f)
    BY <1>1 DEF Unsent
  <2>3. InPlace(n, f) => InPlace(n, f)'
    BY <2>1, InPlaceReceives
  <2>4. \A p \in up : Due(p, f) /\ Resting(n, f, p) => Due(p, f)' /\ Resting(n, f, p)'
    BY <1>1, <2>1, ReceiveKeeps DEF Due
  <2>5. Nowhere(f) => Nowhere(f)'
    BY <2>1, ReceiveKeeps
  <2> QED BY <1>1, <2>1, <2>2, <2>3, <2>4, <2>5 DEF Settled
<1>3. ASSUME NEW n \in up, NEW f \in Held(n), ~ Orphan(f) PROVE f \in Held(n)'
  <2>1. PICK m \in up : Placed(m, f, n)
    BY <1>3, HeldIsResting
  <2>2. f \in File /\ replica[n][f] # "none" /\ n \in Node
    BY LocalFiles DEF Held
  <2>3. CASE f # t.file
    <3>1. replica'[n][f] = replica[n][f]
      BY <1>1, <2>2, <2>3, ReceiveOthers DEF Untouched
    <3> QED BY <2>2, <3>1 DEF Held
  <2>4. CASE f = t.file
    <3>1. t.what = "replica" => t.data = "whole"
      BY <2>1, <2>4 DEF Placed, Bound, About
    <3>2. replica'[n][f] \in {replica[n][f], "whole"}
      BY <2>2, <3>1 DEF Receive, TypeInv, FoldersOK
    <3> QED BY <2>2, <3>2 DEF Held
  <2> QED BY <2>3, <2>4
<1>4. ASSUME NEW n \in up PROVE JobRight(n)'
  <2>1. JobRight(n)
    BY DEF Settling
  <2>2. \A f \in job[n].todo : f \in Held(n) /\ ~ Orphan(f) => f \in Held(n)' /\ ~ Orphan(f)'
    BY <1>1, <1>3 DEF Orphan
  <2>3. \A f : Owner(f)' = Owner(f)
    BY <1>1 DEF Owner
  <2> QED BY <1>1, <2>1, <2>2, <2>3 DEF JobRight
<1>5. ASSUME NEW f \in File, Orphan(f) PROVE Fading(f)'
  <2>1. Fading(f)
    BY <1>5 DEF Settling
  <2> QED BY <1>1, <2>1, ReceiveKeeps DEF Fading
<1> QED BY <1>1, <1>2, <1>4, <1>5, SettlingKept

LEMMA ProceedJob ==
    ASSUME TypeInv, NEW n \in Node, NEW j, Proceed(n, j)
    PROVE  /\ job'[n] = IF j.todo = {} THEN NoJob ELSE j
           /\ \A m \in Node : m # n => job'[m] = job[m]
BY DEF Proceed, TypeInv, JobsOK

\* What a job without effect on the folders leaves alone.
LEMMA SettledKept ==
    ASSUME NEW m, NEW g, Settled(m, g), Untouched(g), UNCHANGED <<reg, up, leaving>>,
           Unsent(m, g)' <=> Unsent(m, g),
           \A p \in up : Due(p, g) /\ Resting(m, g, p) => Due(p, g)'
    PROVE  Settled(m, g)'
<1>1. Nowhere(g) => Nowhere(g)'
  BY UntouchedKeeps
<1>2. \A p \in up : Due(p, g) /\ Resting(m, g, p) => Due(p, g)' /\ Resting(m, g, p)'
  BY UntouchedKeeps
<1>3. InPlace(m, g) => InPlace(m, g)'
  BY SameTargets, InPlaceKept DEF InPlace, Placed
<1> QED BY <1>1, <1>2, <1>3 DEF Settled

LEMMA JobKept ==
    ASSUME NEW m \in up, JobRight(m), job'[m] = job[m], UNCHANGED <<reg, up, leaving, local>>,
           \A g \in job[m].todo : g \in Held(m) /\ ~ Orphan(g) => Untouched(g)
    PROVE  JobRight(m)'
<1>1. \A g \in job[m].todo :
         g \in Held(m) /\ ~ Orphan(g) => g \in Held(m)' /\ ~ Orphan(g)'
  BY DEF Held, Untouched, Orphan
<1>2. \A f : Owner(f)' = Owner(f)
  BY DEF Owner
<1> QED BY <1>1, <1>2 DEF JobRight

LEMMA CountSettles ==
    ASSUME TypeInv, Homes, Settling, NEW n \in Node, StartupCount(n)
    PROVE  Settling'
<1>1. /\ UNCHANGED <<reg, up, leaving, local, replica, log, wire, wants, events, agents>>
      /\ job[n].at = "count" /\ n \in up
  BY Busy, NoJobIsJob DEF StartupCount, ring, folders, TypeInv
<1>2. \A f : Untouched(f)
  BY <1>1 DEF Untouched, About
<1> DEFINE a == IF reg = {n} THEN "alone" ELSE "send"
           j == [job[n] EXCEPT !.at = a, !.todo = local[n]]
<1>3. /\ job'[n] = IF j.todo = {} THEN NoJob ELSE j
      /\ \A m \in Node : m # n => job'[m] = job[m]
  BY ProceedJob DEF StartupCount
<1>4. job[n].op = "startup"
  BY <1>1, NoJobIsJob DEF Settling, JobRight
<1>5. j.op = "startup" /\ j.at = a /\ j.todo = local[n]
  BY <1>4 DEF TypeInv, JobsOK, Job
<1> HIDE DEF j
<1>6. ASSUME NEW m \in up, NEW f \in local[m] PROVE Settled(m, f)'
  <2>1. Settled(m, f) /\ m \in Node
    BY LocalFiles DEF Settling
  <2>2. Unsent(m, f)' <=> Unsent(m, f)
    BY <1>1, <1>3, <1>4, <1>5, <2>1 DEF Unsent
  <2>3. \A p \in up : Due(p, f) => Due(p, f)'
    BY <1>1, <1>3, <1>4, LocalFiles DEF Due
  <2> QED BY <1>1, <1>2, <2>1, <2>2, <2>3, SettledKept
<1>7. ASSUME NEW m \in up PROVE JobRight(m)'
  <2>1. CASE m = n
    <3>1. CASE j.todo = {}
      BY <1>3, <2>1, <3>1 DEF JobRight
    <3>2. CASE j.todo # {}
      BY <1>1, <1>3, <1>5, <2>1, <3>2 DEF JobRight
    <3> QED BY <3>1, <3>2
  <2>2. CASE m # n
    BY <1>1, <1>2, <1>3, <2>2, JobKept, LocalFiles DEF Settling
  <2> QED BY <2>1, <2>2
<1>8. \A f \in File : Orphan(f) => Fading(f)'
  BY <1>1, <1>2, UntouchedKeeps DEF Settling, Fading
<1> QED BY <1>1, <1>6, <1>7, <1>8, SettlingKept

LEMMA FileSettles ==
    ASSUME Sequential, TypeInv, Homes, Settling, NEW n \in Node, StartupFile(n)
    PROVE  Settling'
<1>1. PICK f \in job[n].todo :
         /\ job[n].op = "startup"
         /\ IF job[n].at = "alone" THEN CopiesHere(n, f) ELSE SendsAway(n, f)
         /\ Proceed(n, [job[n] EXCEPT !.todo =
                IF job[n].at = "alone" /\ f \notin local[n] THEN {} ELSE @ \ {f}])
         /\ UNCHANGED <<ring, local, wants, events, agents, spent>>
  BY DEF StartupFile
<1>2. UNCHANGED <<reg, up, leaving, local, wants, events, agents>> /\ n \in up
  BY <1>1, Busy, NoJobIsJob DEF ring, TypeInv
<1>3. /\ job[n].todo \subseteq local[n] /\ job[n].at = IF reg = {n} THEN "alone" ELSE "send"
      /\ reg = up /\ leaving[n] = NoNode
  BY <1>1, <1>2, NoJobIsJob DEF Settling, JobRight, NobodyLeaves
<1>4. f \in local[n] /\ f \in File /\ Nowhere(f)
  <2>1. f \in local[n] /\ Unsent(n, f)
    BY <1>1, <1>3 DEF Unsent
  <2> QED BY <1>2, <2>1, LocalFiles DEF Settling, Settled
<1> DEFINE j == [job[n] EXCEPT !.todo = job[n].todo \ {f}]
<1>5. /\ job'[n] = IF j.todo = {} THEN NoJob ELSE j
      /\ \A m \in Node : m # n => job'[m] = job[m]
  <2>1. Proceed(n, j)
    BY <1>1, <1>4
  <2> QED BY <2>1, ProceedJob
<1>6. j.op = "startup" /\ j.at = job[n].at /\ j.todo = job[n].todo \ {f}
  BY <1>1 DEF TypeInv, JobsOK, Job
<1> HIDE DEF j
<1>7. InPlace(n, f)' /\ \A g \in File : g # f => Untouched(g)
  <2>1. CASE reg = {n}
    <3>1. /\ replica' = [replica EXCEPT ![n][f] = "whole"] /\ log' = [log EXCEPT ![n][f] = n]
          /\ wire' = wire
      BY <1>1, <1>3, <1>4, <2>1 DEF CopiesHere
    <3>2. \A g \in File : g # f => Untouched(g)
      BY <1>2, <1>4, <3>1 DEF Untouched, About, TypeInv, FoldersOK
    <3>3. replica'[n][f] = "whole" /\ log'[n][f] = n /\ About(f)' = {}
      BY <1>4, <3>1 DEF Nowhere, About, TypeInv, FoldersOK
    <3>4. Target(n, f)' = n
      <4>1. Target(n, f) = n
        BY <1>3, <1>4, <2>1, TargetUp
      <4> QED BY <1>2, <4>1, SameTargets
    <3>5. \A m \in up' : m = n
      BY <1>2, <1>3, <2>1
    <3> QED BY <1>2, <3>2, <3>3, <3>4, <3>5 DEF InPlace, Placed, Bound
  <2>2. CASE reg # {n}
    <3>1. PICK p \in up : p = Target(n, f) /\ p # n /\ p # NoNode
      BY <1>2, <1>3, <1>4, <2>2, TargetUp, LocalFiles, NodeFacts
    <3>2. /\ \E sent \in ThenGone(n, p, SendsLog(n, p, f, n)) :
                wire' = wire \union SendsReplica(n, p, f, "whole") \union sent
          /\ log' = [log EXCEPT ![n][f] = NoLog] /\ replica' = replica
      BY <1>1, <1>3, <1>4, <2>2, <3>1 DEF SendsAway, LocalState
    <3>3. wire' = wire \union {ReplicaTo(n, p, f, "whole"), LogTo(n, p, f, n)}
      <4>1. n # NoLog
        BY NodeFacts DEF NoLog
      <4>2. /\ SendsReplica(n, p, f, "whole") = {ReplicaTo(n, p, f, "whole")}
            /\ SendsLog(n, p, f, n) = {LogTo(n, p, f, n)}
            /\ \A sent : ThenGone(n, p, sent) = {sent}
        BY <3>1, <4>1, SendsTo
      <4> QED BY <3>2, <4>2
    <3>4. /\ About(f)' = About(f) \union {ReplicaTo(n, p, f, "whole"), LogTo(n, p, f, n)}
          /\ \A g : g # f => About(g)' = About(g)
      BY <3>3, WireGrows
    <3>5. \A g \in File : g # f => Untouched(g)
      BY <1>2, <1>4, <3>2, <3>4 DEF Untouched, TypeInv, FoldersOK
    <3>6. Bound(f, p, "whole", n)'
      <4>1. /\ \A t \in About(f) : t.to = p /\ t.data = IF t.what = "replica" THEN "whole" ELSE n
            /\ \A m \in up' : m # p => replica'[m][f] = "none"
        BY <1>2, <1>4, <3>2 DEF Nowhere
      <4> QED BY <3>4, <4>1, SentBound
    <3>7. Target(n, f)' = p
      BY <1>2, <3>1, SameTargets
    <3> QED BY <1>2, <3>5, <3>6, <3>7 DEF InPlace, Placed
  <2> QED BY <2>1, <2>2
<1>8. ASSUME NEW m \in up, NEW g \in local[m] PROVE Settled(m, g)'
  <2>1. Settled(m, g) /\ m \in Node /\ g \in File
    BY LocalFiles DEF Settling
  <2>2. CASE g = f
    <3>1. m = n
      BY <1>4, <2>1, <2>2, OneHome DEF Sequential, Homes
    <3>2. ~ Unsent(m, g)'
      BY <1>3, <1>5, <1>6, <2>2, <3>1, NoJobIsJob DEF Unsent
    <3> QED BY <1>7, <2>2, <3>1, <3>2 DEF Settled
  <2>3. CASE g # f
    <3>1. Unsent(m, g)' <=> Unsent(m, g)
      BY <1>1, <1>3, <1>5, <1>6, <2>1, <2>3, NoJobIsJob DEF Unsent
    <3>2. \A p \in up : Due(p, g) => Due(p, g)'
      BY <1>1, <1>2, <1>5, LocalFiles DEF Due
    <3> QED BY <1>2, <1>7, <2>1, <2>3, <3>1, <3>2, SettledKept
  <2> QED BY <2>2, <2>3
<1>9. ASSUME NEW m \in up PROVE JobRight(m)'
  <2>1. CASE m = n
    <3>1. CASE j.todo = {}
      BY <1>5, <2>1, <3>1 DEF JobRight
    <3>2. CASE j.todo # {}
      BY <1>2, <1>3, <1>5, <1>6, <2>1, <3>2 DEF JobRight
    <3> QED BY <3>1, <3>2
  <2>2. CASE m # n
    <3>1. \A g \in Held(m) : g \in File /\ g # f
      BY <1>4 DEF Held, Nowhere
    <3>2. JobRight(m) /\ job'[m] = job[m]
      BY <1>5, <2>2, LocalFiles DEF Settling
    <3> QED BY <1>2, <1>7, <3>1, <3>2, JobKept
  <2> QED BY <2>1, <2>2
<1>10. ASSUME NEW g \in File, Orphan(g) PROVE Fading(g)'
  <2>1. g # f /\ Fading(g)
    BY <1>4, <1>10 DEF Settling, Orphan
  <2> QED BY <1>2, <1>7, <2>1, UntouchedKeeps DEF Fading
<1> QED BY <1>2, <1>8, <1>9, <1>10, SettlingKept

\* Nobody handles an update before what is under way has arrived.
LEMMA BeginSettles ==
    ASSUME Sequential, TypeInv, Homes, Settling, NEW n \in Node, UpdateBegin(n)
    PROVE  Settling'
<1>1. /\ UNCHANGED <<reg, up, leaving, local, replica, log, wire, events, agents>>
      /\ n \in wants /\ job[n] = NoJob /\ wire = {} /\ wants' = wants \ {n} /\ n \in up
  BY DEF UpdateBegin, ring, folders, Arrived, Sequential, TypeInv
<1>2. \A f : Untouched(f)
  BY <1>1 DEF Untouched, About
<1> DEFINE j == [NoJob EXCEPT !.op = "update", !.at = "ip", !.todo = Held(n)]
<1>3. /\ job'[n] = IF j.todo = {} THEN NoJob ELSE j
      /\ \A m \in Node : m # n => job'[m] = job[m]
  BY ProceedJob DEF UpdateBegin
<1>4. j.op = "update" /\ j.at = "ip" /\ j.todo = Held(n)
  BY DEF NoJob
<1> HIDE DEF j
<1>5. ASSUME NEW m \in up, NEW f \in local[m] PROVE Settled(m, f)'
  <2>1. Settled(m, f) /\ m \in Node /\ f \in File
    BY LocalFiles DEF Settling
  <2>2. Unsent(m, f)' <=> Unsent(m, f)
    BY <1>1, <1>3, <1>4, <2>1, NoJobIsJob DEF Unsent
  <2>3. ASSUME NEW p \in up, Due(p, f), Resting(m, f, p) PROVE Due(p, f)'
    <3>1. CASE p = n
      <4>1. replica[n][f] = "whole"
        BY <2>3, <3>1 DEF Resting, Placed, Bound
      <4>2. f \in Held(n)
        BY <2>1, <4>1 DEF Held
      <4> QED BY <1>3, <1>4, <3>1, <4>2 DEF Due
    <3>2. CASE p # n
      BY <1>1, <1>3, <2>3, <3>2, LocalFiles DEF Due
    <3> QED BY <3>1, <3>2
  <2> QED BY <1>1, <1>2, <2>1, <2>2, <2>3, SettledKept
<1>6. \A f \in Held(n) : ~ Orphan(f)
  <2> SUFFICES ASSUME NEW f \in Held(n), Orphan(f) PROVE FALSE
    OBVIOUS
  <2>1. Fading(f) /\ replica[n][f] # "none" /\ About(f) = {}
    BY <1>1 DEF Settling, Held, About
  <2>2. \A p \in up : ~ Bound(f, p, "none", NoLog)
    BY <1>1, <2>1 DEF Bound
  <2> QED BY <1>1, <2>1, <2>2 DEF Fading, Nowhere
<1>7. ASSUME NEW m \in up PROVE JobRight(m)'
  <2>1. CASE m = n
    <3>1. CASE j.todo = {}
      BY <1>3, <2>1, <3>1 DEF JobRight
    <3>2. CASE j.todo # {}
      <4>1. \A f \in Held(n) : f \in Held(n)' /\ ~ Orphan(f)'
        BY <1>1, <1>6 DEF Held, Orphan
      <4> QED BY <1>3, <1>4, <2>1, <3>2, <4>1 DEF JobRight
    <3> QED BY <3>1, <3>2
  <2>2. CASE m # n
    BY <1>1, <1>2, <1>3, <2>2, JobKept, LocalFiles DEF Settling
  <2> QED BY <2>1, <2>2
<1>8. \A f \in File : Orphan(f) => Fading(f)'
  BY <1>1, <1>2, UntouchedKeeps DEF Settling, Fading
<1> QED BY <1>1, <1>5, <1>7, <1>8, SettlingKept

LEMMA AskSettles ==
    ASSUME TypeInv, Homes, Settling, NEW n \in Node, UpdateAsk(n)
    PROVE  Settling'
<1>1. /\ UNCHANGED <<reg, up, leaving, local, replica, log, wire, wants, events, agents>>
      /\ job[n].at = "ip" /\ n \in up
  BY Busy, NoJobIsJob DEF UpdateAsk, ring, folders, TypeInv
<1>2. \A f : Untouched(f)
  BY <1>1 DEF Untouched, About
<1>3. PICK f \in job[n].todo :
         job' = [job EXCEPT ![n].at = "id", ![n].file = f, ![n].ip = Owner(f)]
  BY DEF UpdateAsk
<1>4. job[n] \in Job /\ job \in [Node -> Job] /\ job[n].op = "update"
  BY <1>1 DEF TypeInv, JobsOK, Fits
<1>5. /\ job'[n].op = "update" /\ job'[n].at = "id" /\ job'[n].todo = job[n].todo
      /\ job'[n].file = f /\ job'[n].ip = Owner(f)
      /\ \A m \in Node : m # n => job'[m] = job[m]
  BY <1>3, <1>4 DEF Job
<1>6. ASSUME NEW m \in up, NEW g \in local[m] PROVE Settled(m, g)'
  <2>1. Settled(m, g) /\ m \in Node
    BY LocalFiles DEF Settling
  <2>2. Unsent(m, g)' <=> Unsent(m, g)
    BY <1>4, <1>5, <2>1 DEF Unsent
  <2>3. \A p \in up : Due(p, g) => Due(p, g)'
    BY <1>1, <1>4, <1>5, LocalFiles DEF Due
  <2> QED BY <1>1, <1>2, <2>1, <2>2, <2>3, SettledKept
<1>7. ASSUME NEW m \in up PROVE JobRight(m)'
  <2>1. CASE m = n
    <3>1. \A g \in job[n].todo : g \in Held(n) /\ ~ Orphan(g)
      BY <1>1, <1>4, NoJobIsJob DEF Settling, JobRight
    <3>2. \A g \in job[n].todo : g \in Held(n)' /\ ~ Orphan(g)'
      BY <1>1, <3>1 DEF Held, Orphan
    <3>3. Owner(f)' = Owner(f)
      BY <1>1 DEF Owner
    <3> QED BY <1>5, <2>1, <3>2, <3>3 DEF JobRight
  <2>2. CASE m # n
    BY <1>1, <1>2, <1>5, <2>2, JobKept, LocalFiles DEF Settling
  <2> QED BY <2>1, <2>2
<1>8. \A g \in File : Orphan(g) => Fading(g)'
  BY <1>1, <1>2, UntouchedKeeps DEF Settling, Fading
<1> QED BY <1>1, <1>6, <1>7, <1>8, SettlingKept

(***************************************************************************)
(* A replica and its log that are handed on.                               *)
(***************************************************************************)
LEMMA MoveArrives ==
    ASSUME TypeInv, up' = up, NEW n \in up, NEW q \in up, q # n, NEW f \in File,
           NEW m \in Node, Resting(m, f, n), Moves(n, q, f)
    PROVE  /\ Placed(m, f, q)' /\ \A g \in File : g # f => Untouched(g)
           /\ wire' = wire \union {ReplicaTo(n, q, f, "whole"), LogTo(n, q, f, m)}
<1>1. replica[n][f] = "whole" /\ log[n][f] = m /\ About(f) = {}
  BY DEF Resting, Placed, Bound
<1>2. m # NoLog /\ q # NoNode /\ n \in Node
  BY NodeFacts, LocalFiles DEF NoLog
<1>3. /\ SendsReplica(n, q, f, "whole") = {ReplicaTo(n, q, f, "whole")}
      /\ SendsLog(n, q, f, m) = {LogTo(n, q, f, m)}
      /\ \A sent : ThenGone(n, q, sent) = {sent}
  BY <1>2, SendsTo
<1>4. /\ wire' = wire \union {ReplicaTo(n, q, f, "whole"), LogTo(n, q, f, m)}
      /\ replica' = [replica EXCEPT ![n][f] = "none"] /\ log' = [log EXCEPT ![n][f] = NoLog]
  BY <1>1, <1>3 DEF Moves
<1>5. /\ About(f)' = About(f) \union {ReplicaTo(n, q, f, "whole"), LogTo(n, q, f, m)}
      /\ \A g : g # f => About(g)' = About(g)
  BY <1>4, WireGrows
<1>6. \A g \in File : g # f => Untouched(g)
  BY <1>2, <1>4, <1>5 DEF Untouched, TypeInv, FoldersOK
<1>7. \A k \in up' : k # q => replica'[k][f] = "none"
  <2> SUFFICES ASSUME NEW k \in up, k # q PROVE replica'[k][f] = "none"
    OBVIOUS
  <2>1. CASE k = n
    BY <1>2, <1>4, <2>1 DEF TypeInv, FoldersOK
  <2>2. CASE k # n
    <3>1. replica[k][f] = "none" /\ k \in Node
      BY <2>2, LocalFiles DEF Resting, Placed, Bound
    <3> QED BY <1>2, <1>4, <2>2, <3>1 DEF TypeInv, FoldersOK
  <2> QED BY <2>1, <2>2
<1>8. \A t \in About(f) : t.to = q /\ t.data = IF t.what = "replica" THEN "whole" ELSE m
  BY <1>1
<1>9. Bound(f, q, "whole", m)'
  BY <1>5, <1>7, <1>8, SentBound
<1> QED BY <1>4, <1>6, <1>9 DEF Placed

LEMMA MoveSettles ==
    ASSUME Sequential, TypeInv, Homes, Settling, NEW n \in Node, UpdateMove(n)
    PROVE  Settling'
<1> DEFINE j == [job[n] EXCEPT !.at = "ip", !.todo = job[n].todo \ {job[n].file},
                               !.file = NoFile, !.ip = NoNode]
<1>1. /\ UNCHANGED <<reg, up, leaving, local, wants, events, agents>>
      /\ job[n].at = "id" /\ wire = {} /\ n \in up /\ reg = up
  BY Busy, NoJobIsJob DEF UpdateMove, ring, Arrived, Sequential, TypeInv, Settling
<1>2. job[n] \in Job /\ job[n].op = "update" /\ job[n].file \in job[n].todo
  BY <1>1 DEF TypeInv, JobsOK, Fits
<1>3. /\ job'[n] = IF j.todo = {} THEN NoJob ELSE j
      /\ \A m \in Node : m # n => job'[m] = job[m]
  <2>1. Proceed(n, j)
    BY DEF UpdateMove
  <2> QED BY <2>1, ProceedJob
<1>4. PICK f \in job[n].todo : f = job[n].file
  BY <1>2
<1>5. j.op = "update" /\ j.at = "ip" /\ j.todo = job[n].todo \ {f}
  BY <1>2, <1>4 DEF Job
<1> HIDE DEF j
<1>6. /\ f \in File /\ job[n].ip = Owner(f)
      /\ \A g \in job[n].todo : g \in Held(n) /\ ~ Orphan(g)
  <2>1. JobRight(n)
    BY <1>1 DEF Settling
  <2> QED BY <1>1, <1>2, <1>4, <2>1, NoJobIsJob, JobFields DEF JobRight
<1>7. PICK m \in up : f \in local[m] /\ ~ Unsent(m, f) /\ Resting(m, f, n)
  <2>1. About(f) = {}
    BY <1>1 DEF About
  <2> QED BY <1>1, <1>6, <2>1, HeldIsResting DEF Resting
<1>8. m \in Node /\ m \in reg /\ log[n][f] = m /\ PrevOf(m) = GetPrevNode(reg, m) /\ leaving[m] = NoNode
  BY <1>1, <1>7, LocalFiles DEF Resting, Placed, Bound, PrevOf, Settling, NobodyLeaves
<1>9. PICK q \in up : q = Target(m, f) /\ q # NoNode
  BY <1>1, <1>6, <1>8, TargetUp, LocalFiles, NodeFacts DEF TypeInv
<1>10. IF q = n THEN UNCHANGED <<replica, log, wire>> ELSE Moves(n, q, f)
  <2>1. Owner(f) # NoNode
    <3>1. Owner(f) \in reg
      BY <1>1, <1>6, Lookups, LocalFiles, NodeFacts DEF Owner
    <3> QED BY <3>1, LocalFiles, NodeFacts
  <2>2. TargetIsOrigin(n, f, Owner(f)) <=> Owner(f) = m
    BY <1>8, <2>1 DEF TargetIsOrigin
  <2>3. q = IF Owner(f) = m THEN PrevOf(m) ELSE Owner(f)
    BY <1>8, <1>9 DEF Target, PrevNode
  <2>4. LET id == IF TargetIsOrigin(n, f, Owner(f)) THEN PrevOf(Owner(f)) ELSE Owner(f)
            ip == IF TargetIsOrigin(n, f, Owner(f)) THEN id ELSE Owner(f)
        IN  IF id = n THEN UNCHANGED <<replica, log, wire>> ELSE Moves(n, ip, f)
    BY <1>4, <1>6 DEF UpdateMove
  <2> QED BY <2>2, <2>3, <2>4
<1>11. InPlace(m, f)' /\ \A g \in File : g # f => Untouched(g)
  <2>1. Target(m, f)' = q
    BY <1>1, <1>9, SameTargets
  <2>2. CASE q = n
    <3>1. \A g : Untouched(g)
      BY <1>1, <1>10, <2>2 DEF Untouched, About
    <3>2. Placed(m, f, n)'
      BY <1>1, <1>7, <3>1, UntouchedKeeps DEF Resting
    <3> QED BY <2>1, <2>2, <3>1, <3>2 DEF InPlace
  <2>3. CASE q # n
    <3>1. Placed(m, f, q)' /\ \A g \in File : g # f => Untouched(g)
      BY <1>1, <1>6, <1>7, <1>8, <1>10, <2>3, MoveArrives
    <3> QED BY <2>1, <3>1 DEF InPlace
  <2> QED BY <2>2, <2>3
<1>12. ASSUME NEW k \in up, NEW g \in local[k] PROVE Settled(k, g)'
  <2>1. Settled(k, g) /\ k \in Node /\ g \in File
    BY LocalFiles DEF Settling
  <2>2. Unsent(k, g)' <=> Unsent(k, g)
    BY <1>2, <1>3, <1>5, <2>1, NoJobIsJob DEF Unsent
  <2>3. CASE g = f
    <3>1. k = m
      BY <1>7, <1>8, <2>1, <2>3, OneHome DEF Sequential, Homes
    <3> QED BY <1>7, <1>11, <2>2, <2>3, <3>1 DEF Settled
  <2>4. CASE g # f
    <3>1. \A p \in up : Due(p, g) => Due(p, g)'
      BY <1>1, <1>3, <1>5, <2>4, LocalFiles DEF Due
    <3> QED BY <1>1, <1>11, <2>1, <2>2, <2>4, <3>1, SettledKept
  <2> QED BY <2>3, <2>4
<1>13. ASSUME NEW k \in up PROVE JobRight(k)'
  <2>1. CASE k = n
    <3>1. CASE j.todo = {}
      BY <1>3, <2>1, <3>1 DEF JobRight
    <3>2. CASE j.todo # {}
      <4>1. \A g \in j.todo : g \in Held(n) /\ g # f /\ ~ Orphan(g)
        BY <1>5, <1>6
      <4>2. \A g \in j.todo : g \in Held(n)' /\ ~ Orphan(g)'
        BY <1>1, <1>11, <4>1 DEF Held, Untouched, Orphan
      <4> QED BY <1>3, <1>5, <2>1, <3>2, <4>2 DEF JobRight
    <3> QED BY <3>1, <3>2
  <2>2. CASE k # n
    <3>1. \A g \in Held(k) : g \in File /\ g # f
      BY <1>7, <2>2 DEF Held, Resting, Placed, Bound
    <3>2. JobRight(k) /\ job'[k] = job[k]
      BY <1>3, <2>2, LocalFiles DEF Settling
    <3> QED BY <1>1, <1>11, <3>1, <3>2, JobKept
  <2> QED BY <2>1, <2>2
<1>14. ASSUME NEW g \in File, Orphan(g) PROVE Fading(g)'
  <2>1. g # f /\ Fading(g)
    BY <1>7, <1>8, <1>14 DEF Settling, Orphan
  <2> QED BY <1>1, <1>11, <2>1, UntouchedKeeps DEF Fading
<1> QED BY <1>1, <1>12, <1>13, <1>14, SettlingKept
-------------------------------------------------------------------------------
(***************************************************************************)
(* Settling, when nobody has anything to do in the file manager.           *)
(***************************************************************************)
LEMMA NothingToDo ==
    ASSUME (up \subseteq Node)', reg' = up', agents' = {}, NobodyLeaves', NoEvents', NoJobs',
           \A n \in up' : \A f \in local'[n] : InPlace(n, f)',
           \A f \in File : Orphan(f)' => Fading(f)'
    PROVE  Settling'
<1>1. \A n \in up' : JobRight(n)' /\ \A f : ~ Unsent(n, f)'
  BY NoJobIsJob DEF NoJobs, JobRight, Unsent
<1> QED BY <1>1 DEF Settling, Settled

(***************************************************************************)
(* The watcher handles the one event there is.                             *)
(***************************************************************************)
LEMMA WatchSettles ==
    ASSUME Sequential, TypeInv, Homes, Editing, NEW n \in Node, Watch(n), waiting' = waiting
    PROVE  Settling'
<1>1. PICK k \in up, f \in File, kind \in {"create", "modify", "delete"} :
         /\ events = [m \in Node |-> IF m = k THEN << [kind |-> kind, file |-> f] >> ELSE << >>]
         /\ Edited(k, kind, f)
         /\ \A m \in up : \A g \in local[m] : g # f => InPlace(m, g)
         /\ \A g \in File : g # f /\ Orphan(g) => Nowhere(g)
  BY DEF Editing
<1>2. /\ UNCHANGED <<reg, up, leaving, local, replica, job, wants, agents>>
      /\ reg = up /\ wire = {} /\ up \subseteq Node /\ events[n] # << >>
      /\ wants = {} /\ agents = {} /\ NobodyLeaves /\ NoJobs
  BY LocalFiles DEF Watch, Editing, ring
<1>3. n = k /\ events[n] = << [kind |-> kind, file |-> f] >>
  BY <1>1, <1>2
<1>4. Head(events[n]).kind = kind /\ Head(events[n]).file = f /\ Tail(events[n]) = << >>
  BY <1>3
<1>w. Head(events[n]).kind = "modify" \/ writer[n] \in {"nobody", "watcher"}
  BY DEF Watch
<1>5. NoEvents'
  <2>1. events' = [events EXCEPT ![n] = Tail(events[n])]
    BY <1>w DEF Watch, TypeInv, EventsOK
  <2> QED BY <1>1, <1>3, <1>4, <2>1 DEF NoEvents, TypeInv, EventsOK
<1>6. PICK p \in up : p = Target(n, f) /\ (reg # {n} => p # n) /\ p # NoNode
  BY <1>1, <1>2, <1>3, TargetUp, NodeFacts DEF NobodyLeaves
<1>7. Target(n, f)' = p
  BY <1>2, <1>6, SameTargets
<1>8. /\ SendsReplica(n, p, f, "whole") = {ReplicaTo(n, p, f, "whole")}
      /\ SendsLog(n, p, f, n) = {LogTo(n, p, f, n)}
      /\ Deletes(n, p, f) = {ReplicaTo(n, p, f, "none"), LogTo(n, p, f, NoLog)}
  <2>1. n # NoLog
    BY NodeFacts DEF NoLog
  <2> QED BY <1>6, <2>1, SendsTo
<1>9. /\ ReplicaTo(n, p, f, "whole").file = f /\ LogTo(n, p, f, n).file = f
      /\ ReplicaTo(n, p, f, "none").file = f /\ LogTo(n, p, f, NoLog).file = f
      /\ ReplicaTo(n, p, f, "whole").what = "replica" /\ ReplicaTo(n, p, f, "whole").to = p
      /\ ReplicaTo(n, p, f, "whole").data = "whole"
  BY TransferFields
\* Whatever becomes of the file, the others are as they were.
<1>10. ASSUME \A g \in File : g # f => Untouched(g),
              f \in local[n] => InPlace(n, f)', Orphan(f) => Fading(f)'
       PROVE  Settling'
  <2>1. ASSUME NEW m \in up', NEW g \in local'[m] PROVE InPlace(m, g)'
    <3>1. m \in up /\ g \in local[m] /\ g \in File /\ m \in Node
      BY <1>2, LocalFiles
    <3>2. CASE g = f
      <4>1. f \in local[n]
        BY <1>1, <1>3, <3>1, <3>2 DEF Edited, Orphan
      <4>2. m = n
        BY <3>1, <3>2, <4>1, OneHome DEF Sequential, Homes
      <4> QED BY <1>10, <3>2, <4>1, <4>2
    <3>3. CASE g # f
      <4>1. InPlace(m, g) /\ Untouched(g) /\ Target(m, g)' = Target(m, g)
        BY <1>1, <1>2, <1>10, <3>1, <3>3, SameTargets
      <4> QED BY <1>2, <4>1, InPlaceKept DEF InPlace, Placed
    <3> QED BY <3>2, <3>3
  <2>2. ASSUME NEW g \in File, Orphan(g)' PROVE Fading(g)'
    <3>1. Orphan(g)
      BY <1>2, <2>2 DEF Orphan
    <3>2. g # f => Nowhere(g) /\ Untouched(g)
      BY <1>1, <1>10, <3>1
    <3> QED BY <1>10, <3>1, <3>2, UntouchedKeeps DEF Fading
  <2>3. reg' = up' /\ agents' = {} /\ NobodyLeaves' /\ NoJobs' /\ (up \subseteq Node)'
    BY <1>2 DEF NobodyLeaves, NoJobs
  <2> QED BY <1>5, <2>1, <2>2, <2>3, NothingToDo
<1>11. CASE kind = "create"
  <2>1. f \in local[n] /\ Nowhere(f) /\ p # n
    BY <1>1, <1>3, <1>6, <1>11 DEF Edited
  <2>2. /\ wire' = wire \union {ReplicaTo(n, p, f, "whole"), LogTo(n, p, f, n)}
        /\ log' = [log EXCEPT ![n][f] = n]
    <3>1. To(n, p) = p
      BY <1>6 DEF To
    <3>2. /\ log' = [log EXCEPT ![n][f] = n]
          /\ \E content \in {n} :
                wire' = wire \union SendsLog(n, p, f, content) \union SendsReplica(n, p, f, "whole")
      <4>1. Created(n, f, FALSE)
        BY <1>4, <1>11, <1>w DEF Watch
      <4> QED BY <1>6, <2>1, <3>1, <4>1 DEF Created, LocalState
    <3> QED BY <1>8, <3>2
  <2>3. /\ About(f)' = About(f) \union {ReplicaTo(n, p, f, "whole"), LogTo(n, p, f, n)}
        /\ \A g : g # f => About(g)' = About(g)
    BY <2>2, WireGrows
  <2>4. \A g \in File : g # f => Untouched(g)
    BY <1>2, <2>2, <2>3 DEF Untouched, TypeInv, FoldersOK
  <2>5. Bound(f, p, "whole", n)'
    <3>1. /\ \A t \in About(f) : t.to = p /\ t.data = IF t.what = "replica" THEN "whole" ELSE n
          /\ \A m \in up' : m # p => replica'[m][f] = "none"
      BY <1>2, <2>1 DEF Nowhere
    <3> QED BY <2>3, <3>1, SentBound
  <2>6. InPlace(n, f)'
    BY <1>2, <1>7, <2>5 DEF InPlace, Placed
  <2>7. ~ Orphan(f)
    BY <2>1 DEF Orphan
  <2> QED BY <1>10, <2>4, <2>6, <2>7
<1>12. CASE kind = "modify"
  <2>1. /\ f \in local[n] /\ log[p][f] = n
        /\ \A m \in up : m # p => replica[m][f] = "none"
    BY <1>1, <1>3, <1>6, <1>12 DEF Edited
  <2> DEFINE r == ReplicaTo(n, p, f, "whole")
  <2>2. wire' = {r} /\ log' = log
    <3>1. Modified(n, f)
      BY <1>4, <1>12 DEF Watch
    <3> QED BY <1>2, <1>6, <1>8, <2>1, <3>1 DEF Modified, LocalState
  <2>3. r.file = f /\ r.what = "replica" /\ r.to = p /\ r.data = "whole"
    BY <1>9
  <2> HIDE DEF r
  <2>4. About(f)' = {r} /\ \A g : g # f => About(g)' = About(g)
    BY <1>2, <2>2, <2>3 DEF About
  <2>5. \A g \in File : g # f => Untouched(g)
    BY <1>2, <2>2, <2>4 DEF Untouched
  <2>6. Bound(f, p, "whole", n)'
    <3>1. \A t \in About(f)' : t.to = p /\ t.data = IF t.what = "replica" THEN "whole" ELSE n
      BY <2>3, <2>4
    <3>2. \E t \in About(f)' : t.what = "replica"
      BY <2>3, <2>4
    <3> QED BY <1>2, <2>1, <2>2, <3>1, <3>2 DEF Bound
  <2>7. InPlace(n, f)' /\ ~ Orphan(f)
    BY <1>2, <1>7, <2>1, <2>6 DEF InPlace, Placed, Orphan
  <2> QED BY <1>10, <2>5, <2>7
<1>13. CASE kind = "delete"
  <2>1. Orphan(f) /\ Placed(n, f, p)
    BY <1>1, <1>3, <1>6, <1>13 DEF Edited, InPlace
  <2>2. /\ wire' = wire \union {ReplicaTo(n, p, f, "none"), LogTo(n, p, f, NoLog)}
        /\ log' = log
    <3>1. Deleted(n, f, FALSE)
      BY <1>4, <1>13, <1>w DEF Watch
    <3> QED BY <1>6, <1>8, <3>1 DEF Deleted
  <2>3. /\ About(f)' = About(f) \union {ReplicaTo(n, p, f, "none"), LogTo(n, p, f, NoLog)}
        /\ \A g : g # f => About(g)' = About(g)
    BY <2>2, WireGrows
  <2>4. \A g \in File : g # f => Untouched(g)
    BY <1>2, <2>2, <2>3 DEF Untouched
  <2>5. Bound(f, p, "none", NoLog)'
    <3>1. /\ \A t \in About(f) : t.to = p /\ t.data = IF t.what = "replica" THEN "none" ELSE NoLog
          /\ \A m \in up' : m # p => replica'[m][f] = "none"
      BY <1>2, <2>1 DEF Placed, Bound, About
    <3> QED BY <2>3, <3>1, SentBound
  <2>6. Fading(f)' /\ f \notin local[n]
    BY <1>2, <2>1, <2>5 DEF Fading, Orphan
  <2> QED BY <1>10, <2>4, <2>6
<1> QED BY <1>1, <1>11, <1>12, <1>13
-------------------------------------------------------------------------------
(***************************************************************************)
(* A node leaves: it has the replicas of its files deleted and hands on    *)
(* those that it has.                                                      *)
(***************************************************************************)
LEMMA SentFrom ==
    ASSUME NEW n, NEW ip, NEW f, NEW data
    PROVE  /\ \A t \in SendsReplica(n, ip, f, data) : t.from = n /\ t.file = f
           /\ \A t \in SendsLog(n, ip, f, data) : t.from = n /\ t.file = f
<1>1. \A what : \A t \in Sends(what, n, ip, f, data) : t.from = n /\ t.file = f
  BY DEF Sends
<1> QED BY <1>1 DEF SendsReplica, SendsLog

LEMMA DeletesFrom ==
    ASSUME NEW n, NEW ip, NEW f
    PROVE  \A t \in Deletes(n, ip, f) : t.from = n /\ t.file = f
<1>1. \A what, data : \A t \in Sends(what, n, ip, f, data) : t.from = n /\ t.file = f
  BY DEF Sends
<1> QED BY <1>1 DEF Deletes

\* The node that leaves, and what is true of it until its process ends.
Goes(x) ==
    /\ reg = up \ {x} /\ leaving[x] # NoNode
    /\ \A n \in Node \ {x} : leaving[n] = NoNode /\ job[n] = NoJob
    /\ (job[x] = NoJob /\ wire = {}) \/ (Shutting(x) /\ job[x].at = "move")
    /\ \A t \in wire : t.from = x /\ (t.to = x <=> reg = {})
    /\ reg # {} => Handing(x)

LEMMA LeavingIs == Leaving <=> agents = {} /\ wants = {} /\ NoEvents /\ \E x \in up : Goes(x)
BY DEF Leaving, Goes

LEMMA LeavingKept ==
    ASSUME Leaving, UNCHANGED <<up, agents, wants, events>>, NEW x \in up, Goes(x)'
    PROVE  Leaving'
BY LeavingIs DEF Leaving, NoEvents, Goes

LEMMA ReceiveLeaves ==
    ASSUME TypeInv, Homes, Leaving, NEW t \in wire, Receive(t)
    PROVE  Leaving'
<1>1. /\ UNCHANGED <<reg, up, leaving, local, job, wants, events, agents>>
      /\ wire' = wire \ {t} /\ t \in Transfer
  BY DEF Receive, ring, TypeInv, WireOK
<1>2. PICK x \in up : Goes(x)
  BY LeavingIs
<1>3. x \in Node /\ up \subseteq Node /\ reg \subseteq up
  BY <1>2, LocalFiles DEF Goes
<1>4. ASSUME reg # {} PROVE Handing(x)'
  <2>1. Handing(x) /\ t.to # x
    BY <1>2, <1>4 DEF Goes
  <2>2. replica'[x] = replica[x]
    BY <1>1, <1>3, <2>1 DEF Receive, TypeInv, FoldersOK, Transfer
  <2>3. \A n, f : Target(n, f)' = Target(n, f)
    BY <1>1, SameTargets
  <2>4. ASSUME NEW f \in local[x]
        PROVE  IF Shutting(x) THEN Bound(f, Target(x, f), "none", NoLog)' ELSE InPlace(x, f)'
    <3>1. f \in File /\ Target(x, f) \in up
      BY <1>3, <2>1, LocalFiles DEF Handing
    <3>2. CASE Shutting(x)
      <4>1. PICK q \in up : q = Target(x, f) /\ Bound(f, q, "none", NoLog)
        BY <2>1, <3>1, <3>2 DEF Handing
      <4>2. Bound(f, q, "none", NoLog)'
        BY <3>1, <4>1, ReceiveKeeps
      <4>3. Target(x, f)' = q
        BY <2>3, <4>1
      <4> QED BY <3>2, <4>2, <4>3
    <3>3. CASE ~ Shutting(x)
      BY <2>1, <3>1, <3>3, InPlaceReceives DEF Handing
    <3> QED BY <3>2, <3>3
  <2>5. ASSUME NEW n \in reg, NEW f \in local[n]
        PROVE  /\ f \in File
               /\ InPlace(n, f) => InPlace(n, f)'
               /\ Resting(n, f, x) => Resting(n, f, x)'
    <3>1. f \in File
      BY <1>3, LocalFiles
    <3> QED BY <3>1, ReceiveKeeps, InPlaceReceives
  <2>6. \A f \in File : Orphan(f)' => Nowhere(f)'
    BY <1>1, <2>1, ReceiveKeeps DEF Handing, Orphan
  <2>7. \A n : PrevOf(n)' = PrevOf(n) /\ (Shutting(n)' <=> Shutting(n))
    BY <1>1 DEF PrevOf, Shutting
  <2>8. Held(x)' = Held(x)
    BY <2>2 DEF Held
  <2> QED BY <1>1, <2>1, <2>3, <2>4, <2>5, <2>6, <2>7, <2>8 DEF Handing
<1>5. Goes(x)'
  BY <1>1, <1>2, <1>4 DEF Goes, Shutting
<1> QED BY <1>1, <1>5, LeavingKept

\* Everything has arrived, and now the replicas of its files are to be deleted.
LEMMA BeginLeaves ==
    ASSUME Sequential, TypeInv, Homes, Homes', Leaving, NEW n \in Node, ShutBegin(n)
    PROVE  Leaving'
<1>1. /\ UNCHANGED <<reg, up, leaving, local, replica, log, wants, events, agents>>
      /\ leaving[n] # NoNode /\ job[n] = NoJob
      /\ wire' = wire \union UNION {Deletes(n, Target(n, f), f) : f \in local[n]}
      /\ job' = [job EXCEPT ![n] = [NoJob EXCEPT !.op = "shutdown", !.at = "move", !.todo = Held(n)]]
  BY DEF ShutBegin, ring, folders
<1>2. PICK x \in up : Goes(x)
  BY LeavingIs
<1>3. x = n /\ wire = {} /\ ~ Shutting(n) /\ reg = up \ {n} /\ n \in up
  BY <1>1, <1>2, NoJobIsJob DEF Goes, Shutting
<1>4. /\ \A m \in Node : m # n => job'[m] = job[m]
      /\ job'[n].op = "shutdown" /\ job'[n].at = "move" /\ job'[n].todo = Held(n)
  <2>1. LET j == [NoJob EXCEPT !.op = "shutdown", !.at = "move", !.todo = Held(n)]
        IN  j.op = "shutdown" /\ j.at = "move" /\ j.todo = Held(n)
    BY DEF NoJob
  <2> QED BY <1>1, <2>1 DEF TypeInv, JobsOK
<1>5. \A m, f : Target(m, f)' = Target(m, f)
  BY <1>1, SameTargets
<1>6. \A t \in wire' : t.from = n /\ \E f \in local[n] : t \in Deletes(n, Target(n, f), f)
  BY <1>1, <1>3, DeletesFrom
<1>7. ASSUME reg # {} PROVE /\ Handing(n)'
                            /\ \A t \in wire' : t.to # n
  <2>1. Handing(n)
    BY <1>2, <1>3, <1>7 DEF Goes
  <2>2. ASSUME NEW f \in local[n]
        PROVE  /\ Bound(f, Target(n, f), "none", NoLog)'
               /\ \A t \in Deletes(n, Target(n, f), f) : t.to # n
    <3>1. PICK q \in reg : q = Target(n, f)
      BY <2>1 DEF Handing
    <3>2. Placed(n, f, q) /\ q \in up /\ q # n /\ q # NoNode
      BY <1>3, <2>1, <3>1, LocalFiles, NodeFacts DEF Handing, InPlace
    <3>3. Deletes(n, q, f) = {ReplicaTo(n, q, f, "none"), LogTo(n, q, f, NoLog)}
      BY <3>2, SendsTo
    <3>4. \A t \in Deletes(n, q, f) : t.to # n
      BY <3>2, <3>3, TransferFields
    <3>5. About(f)' = Deletes(n, q, f)
      <4>1. About(f)' \subseteq Deletes(n, q, f)
        BY <1>1, <1>3, <3>1, DeletesFrom DEF About
      <4>2. Deletes(n, q, f) \subseteq wire'
        BY <1>1, <3>1
      <4>3. \A t \in Deletes(n, q, f) : t.file = f
        BY DeletesFrom
      <4> QED BY <4>1, <4>2, <4>3 DEF About
    <3>6. About(f) = {}
      BY <1>3 DEF About
    <3>7. \A m \in up' : m # q => replica'[m][f] = "none"
      BY <1>1, <3>2 DEF Placed, Bound
    <3>8. Bound(f, q, "none", NoLog)'
      BY <3>3, <3>5, <3>6, <3>7, SentBound
    <3>9. Target(n, f)' = q
      BY <1>5, <3>1
    <3> QED BY <3>1, <3>4, <3>8, <3>9
  <2>3. ASSUME NEW f, f \notin local[n] PROVE Untouched(f)
    <3>1. About(f)' = {} /\ About(f) = {}
      BY <1>1, <1>3, <2>3, DeletesFrom DEF About
    <3> QED BY <1>1, <3>1 DEF Untouched
  <2>4. Held(n)' = Held(n)
    BY <1>1 DEF Held
  <2>5. ASSUME NEW m \in reg, NEW f \in local[m]
        PROVE  \/ InPlace(m, f)' /\ Target(m, f) # n
               \/ /\ Resting(m, f, n)' /\ f \in Held(n)
                  /\ Target(m, f) = IF m = leaving[n] THEN PrevOf(m) ELSE leaving[n]
    <3>1. m \in Node /\ m # n /\ f \in File /\ m \in up
      BY <1>3, LocalFiles
    <3>2. Untouched(f)
      BY <2>3, <3>1, OneHome DEF Sequential, Homes
    <3>3. ASSUME InPlace(m, f) PROVE InPlace(m, f)'
      BY <1>1, <1>5, <3>2, <3>3, InPlaceKept DEF InPlace, Placed
    <3>4. ASSUME Resting(m, f, n) PROVE Resting(m, f, n)' /\ f \in Held(n)
      <4>1. Resting(m, f, n)'
        BY <1>1, <1>3, <3>2, <3>4, UntouchedKeeps
      <4>2. replica[n][f] = "whole"
        BY <3>4 DEF Resting, Placed, Bound
      <4> QED BY <3>1, <4>1, <4>2 DEF Held
    <3> QED BY <2>1, <3>3, <3>4 DEF Handing
  <2>6. \A f \in File : Orphan(f)' => Nowhere(f)'
    <3> SUFFICES ASSUME NEW f \in File, Orphan(f)' PROVE Nowhere(f)'
      OBVIOUS
    <3>1. Orphan(f)
      BY <1>1 DEF Orphan
    <3>2. f \notin local[n] /\ Nowhere(f)
      BY <2>1, <3>1 DEF Orphan, Handing
    <3> QED BY <2>3, <3>2, UntouchedKeeps
  <2>7. \A m : PrevOf(m)' = PrevOf(m)
    BY <1>1 DEF PrevOf
  <2>8. leaving[n] \in reg /\ \A f \in local[n] : Target(n, f) \in reg
    BY <2>1 DEF Handing
  <2>9. Handing(n)'
    BY <1>1, <1>4, <1>5, <2>2, <2>4, <2>5, <2>6, <2>7, <2>8 DEF Handing, Shutting
  <2> QED BY <1>6, <2>2, <2>9
<1>8. ASSUME reg = {} PROVE \A t \in wire' : t.to = n
  BY <1>1, <1>3, <1>8 DEF Homes
<1>9. /\ \A m \in Node \ {n} : leaving'[m] = NoNode /\ job'[m] = NoJob
  BY <1>1, <1>2, <1>3, <1>4 DEF Goes
<1>10. Goes(n)'
  BY <1>1, <1>3, <1>4, <1>6, <1>7, <1>8, <1>9 DEF Goes, Shutting
<1> QED BY <1>1, <1>3, <1>10, LeavingKept

LEMMA MoveLeaves ==
    ASSUME Sequential, TypeInv, Homes, Homes', Leaving, NEW n \in Node, ShutMove(n)
    PROVE  Leaving'
<1> DEFINE p == leaving[n]
<1>1. PICK f \in job[n].todo :
         /\ job[n].op = "shutdown"
         /\ Moves(n, IF TargetIsOrigin(n, f, p) /\ p \in reg THEN PrevOf(p) ELSE p, f)
         /\ job' = [job EXCEPT ![n].todo = @ \ {f}]
         /\ UNCHANGED <<ring, local, wants, events, agents, spent>>
  BY DEF ShutMove
<1>2. UNCHANGED <<reg, up, leaving, local, wants, events, agents>>
  BY <1>1 DEF ring
<1>3. PICK x \in up : Goes(x)
  BY LeavingIs
<1>4. /\ x = n /\ Shutting(n) /\ job[n].at = "move" /\ reg = up \ {n} /\ n \in up
      /\ \A t \in wire : t.from = n /\ (t.to = n <=> reg = {})
      /\ \A m \in Node \ {n} : leaving[m] = NoNode /\ job[m] = NoJob
  BY <1>1, <1>3, NoJobIsJob DEF Goes, Shutting
<1>5. /\ \A m \in Node : m # n => job'[m] = job[m]
      /\ job'[n].op = "shutdown" /\ job'[n].at = "move" /\ job'[n].todo = job[n].todo \ {f}
  <2>1. job \in [Node -> Job]
    BY DEF TypeInv, JobsOK
  <2> QED BY <1>1, <1>4, <2>1 DEF Job
<1>6. \A m, g : Target(m, g)' = Target(m, g)
  BY <1>2, SameTargets
<1>7. f \in File
  BY <1>1, JobFields DEF TypeInv, JobsOK
<1>8. \A t \in wire' : t.from = n
  <2> DEFINE ip == IF TargetIsOrigin(n, f, p) /\ p \in reg THEN PrevOf(p) ELSE p
  <2>1. PICK sent \in ThenGone(n, ip, SendsReplica(n, ip, f, replica[n][f])),
             slog \in ThenGone(n, ip, SendsLog(n, ip, f, log[n][f])) :
                 wire' = wire \union sent \union slog
    BY <1>1 DEF Moves
  <2> HIDE DEF ip
  <2>2. /\ \A t \in SendsReplica(n, ip, f, replica[n][f]) : t.from = n
        /\ \A t \in SendsLog(n, ip, f, log[n][f]) : t.from = n
    BY SentFrom
  <2>3. \A t \in sent \union slog : t.from = n
    BY <2>2 DEF ThenGone
  <2> QED BY <1>4, <2>1, <2>3
<1>9. ASSUME reg # {} PROVE /\ Handing(n)'
                            /\ \A t \in wire' : t.to # n
  <2>1. /\ Handing(n) /\ p \in reg /\ p # NoNode /\ p # n
        /\ reg \subseteq Node /\ replica[n][f] # "none"
    BY <1>1, <1>3, <1>4, <1>9, LocalFiles, NodeFacts DEF Goes, Handing, Shutting, Held
  <2>2. PICK m \in up : f \in local[m]
    <3>1. ~ Orphan(f)
      BY <1>4, <1>7, <2>1 DEF Handing, Nowhere
    <3> QED BY <3>1 DEF Orphan, Homes
  <2>3. m # n
    BY <1>4, <2>1, <2>2 DEF Handing, Bound
  <2>4. m \in reg /\ m \in Node
    BY <1>4, <2>2, <2>3, LocalFiles
  <2>5. /\ Resting(m, f, n)
        /\ Target(m, f) = IF m = p THEN PrevOf(m) ELSE p
    <3>1. ~ (InPlace(m, f) /\ Target(m, f) # n)
      BY <1>4, <2>1 DEF InPlace, Placed, Bound
    <3> QED BY <2>1, <2>2, <2>4, <3>1 DEF Handing
  <2>6. leaving[m] = NoNode
    BY <1>4, <2>3, <2>4
  <2>7. PICK q \in reg : q = Target(m, f)
    BY <1>7, <2>4, <2>6, TargetUp
  <2>8. q \in up /\ q # n /\ q \in Node
    BY <1>4, <2>1, <2>7
  <2>9. Moves(n, q, f)
    <3>1. log[n][f] = m
      BY <2>5 DEF Resting, Placed, Bound
    <3>2. TargetIsOrigin(n, f, p) <=> m = p
      BY <2>1, <3>1 DEF TargetIsOrigin
    <3> QED BY <1>1, <2>1, <2>5, <2>7, <3>2
  <2>10. /\ Placed(m, f, q)' /\ \A g \in File : g # f => Untouched(g)
         /\ wire' = wire \union {ReplicaTo(n, q, f, "whole"), LogTo(n, q, f, m)}
    BY <1>2, <1>4, <1>7, <2>4, <2>5, <2>8, <2>9, MoveArrives
  <2>11. InPlace(m, f)' /\ Target(m, f)' # n
    BY <1>6, <2>7, <2>8, <2>10 DEF InPlace
  <2>12. \A t \in wire' : t.to # n
    BY <1>4, <1>9, <2>8, <2>10, TransferFields
  <2>13. ASSUME NEW g \in local[n] PROVE Bound(g, Target(n, g), "none", NoLog)'
    <3>1. g \in File /\ g # f
      BY <2>2, <2>3, <2>4, OneHome, LocalFiles DEF Sequential, Homes
    <3>2. PICK r \in up' : r = Target(n, g) /\ Bound(g, r, "none", NoLog)
      BY <1>2, <1>4, <2>1 DEF Handing
    <3>3. Bound(g, r, "none", NoLog)'
      BY <2>10, <3>1, <3>2, UntouchedKeeps
    <3> QED BY <1>6, <3>2, <3>3
  <2>14. ASSUME NEW k \in reg, NEW g \in local[k]
         PROVE  \/ InPlace(k, g)' /\ Target(k, g) # n
                \/ /\ Resting(k, g, n)' /\ g \in job'[n].todo
                   /\ Target(k, g) = IF k = p THEN PrevOf(k) ELSE p
    <3>1. k \in Node /\ g \in File
      BY <2>1, LocalFiles
    <3>2. CASE g = f
      <4>1. k = m
        BY <2>2, <2>4, <3>1, <3>2, OneHome DEF Sequential, Homes
      <4> QED BY <1>6, <2>11, <3>2, <4>1
    <3>3. CASE g # f
      <4>1. Untouched(g)
        BY <2>10, <3>1, <3>3
      <4>2. InPlace(k, g) => InPlace(k, g)'
        BY <1>2, <1>6, <4>1, InPlaceKept DEF InPlace, Placed
      <4>3. Resting(k, g, n) => Resting(k, g, n)'
        BY <1>2, <1>4, <4>1, UntouchedKeeps
      <4> QED BY <1>4, <1>5, <2>1, <3>3, <4>2, <4>3 DEF Handing
    <3> QED BY <3>2, <3>3
  <2>15. job'[n].todo \subseteq Held(n)'
    <3>1. job[n].todo \subseteq Held(n)
      BY <1>4, <2>1 DEF Handing
    <3>2. \A g \in Held(n) : g # f => g \in Held(n)'
      BY <1>2, <1>4, <2>10 DEF Held, Untouched
    <3> QED BY <1>5, <3>1, <3>2
  <2>16. \A g \in File : Orphan(g)' => Nowhere(g)'
    <3> SUFFICES ASSUME NEW g \in File, Orphan(g)' PROVE Nowhere(g)'
      OBVIOUS
    <3>1. Orphan(g)
      BY <1>2 DEF Orphan
    <3>2. g # f /\ Nowhere(g)
      BY <2>1, <2>2, <2>4, <3>1 DEF Orphan, Handing
    <3> QED BY <2>10, <3>2, UntouchedKeeps
  <2>17. \A k : PrevOf(k)' = PrevOf(k)
    BY <1>2 DEF PrevOf
  <2>18. \A g \in local[n] : Target(n, g) \in reg
    BY <2>1 DEF Handing
  <2>19. Handing(n)'
    BY <1>2, <1>5, <1>6, <2>1, <2>13, <2>14, <2>15, <2>16, <2>17, <2>18 DEF Handing, Shutting
  <2> QED BY <2>12, <2>19
<1>10. ASSUME reg = {} PROVE \A t \in wire' : t.to = n
  BY <1>2, <1>4, <1>10 DEF Homes
<1>11. \A k \in Node \ {n} : leaving'[k] = NoNode /\ job'[k] = NoJob
  BY <1>2, <1>4, <1>5
<1>12. Goes(n)'
  BY <1>2, <1>3, <1>4, <1>5, <1>8, <1>9, <1>10, <1>11 DEF Goes, Shutting
<1> QED BY <1>2, <1>4, <1>12, LeavingKept

\* Its process ends: all its replicas have been sent.
LEMMA ExitSettles ==
    ASSUME Sequential, TypeInv, Homes, Homes', Leaving, NEW n \in Node, Exit(n)
    PROVE  Settling'
<1>1. /\ job[n].op = "shutdown" /\ job[n].todo = {} /\ reg' = reg
      /\ up' = up \ {n} /\ leaving' = [leaving EXCEPT ![n] = NoNode]
      /\ local' = [local EXCEPT ![n] = {}] /\ replica' = [replica EXCEPT ![n] = Empty("none")]
      /\ log' = [log EXCEPT ![n] = Empty(NoLog)] /\ job' = [job EXCEPT ![n] = NoJob]
      /\ events' = [events EXCEPT ![n] = << >>] /\ agents' \subseteq agents
      /\ wire' = {t \in wire : n \notin {t.to, t.from}}
                    \union {t \in {u \in wire : u.from = n} : t.to # n}
  BY DEF Exit, Ends
<1>2. PICK x \in up : Goes(x)
  BY LeavingIs
<1>3. /\ x = n /\ reg = up \ {n} /\ n \in up /\ Shutting(n)
      /\ \A t \in wire : t.from = n /\ (t.to = n <=> reg = {})
      /\ \A m \in Node \ {n} : leaving[m] = NoNode /\ job[m] = NoJob
      /\ reg # {} => Handing(n)
  BY <1>1, <1>2, NoJobIsJob DEF Goes, Shutting
<1>4. reg' = up' /\ agents' = {} /\ NobodyLeaves' /\ NoEvents' /\ NoJobs' /\ (up \subseteq Node)'
  BY <1>1, <1>3, LocalFiles
     DEF Leaving, NobodyLeaves, NoEvents, NoJobs, TypeInv, RingOK, EventsOK, JobsOK
<1>5. wire' = IF reg = {} THEN {} ELSE wire
  BY <1>1, <1>3
<1>6. /\ \A m \in up' : m # n /\ m \in Node /\ local'[m] = local[m]
      /\ \A m \in Node : m # n => local'[m] = local[m]
      /\ local'[n] = {}
  BY <1>1, LocalFiles DEF TypeInv, FoldersOK
<1>7. ASSUME reg # {}, NEW f PROVE Untouched(f)
  BY <1>1, <1>5, <1>7, LocalFiles DEF Untouched, About, TypeInv, FoldersOK
<1>8. ASSUME NEW m \in up', NEW f \in local'[m] PROVE InPlace(m, f)'
  <2>1. reg # {} /\ m \in reg /\ m # n /\ f \in local[m] /\ m \in Node
    BY <1>1, <1>3, <1>6
  <2>2. InPlace(m, f) /\ Target(m, f) # n
    BY <1>1, <1>3, <2>1 DEF Handing
  <2>3. Target(m, f) \in up'
    BY <1>1, <2>2 DEF InPlace, Placed
  <2>4. Target(m, f)' = Target(m, f)
    <3>1. leaving'[m] = leaving[m]
      BY <1>1, <2>1 DEF TypeInv, RingOK
    <3> QED BY <1>1, <3>1 DEF Target, PrevNode, Owner
  <2> QED BY <1>7, <2>1, <2>2, <2>3, <2>4, InPlaceKept
<1>9. ASSUME NEW f \in File, Orphan(f)' PROVE Fading(f)'
  <2>1. CASE reg = {}
    BY <1>1, <1>3, <1>5, <2>1 DEF Fading, Nowhere, About
  <2>2. CASE reg # {}
    <3>1. CASE f \in local[n]
      <4>1. PICK q \in up' : Bound(f, q, "none", NoLog)
        BY <1>1, <1>3, <2>2, <3>1 DEF Handing
      <4> QED BY <1>7, <2>2, <4>1, UntouchedKeeps DEF Fading
    <3>2. CASE f \notin local[n]
      <4>1. Orphan(f)
        BY <1>6, <1>9, <3>2 DEF Orphan
      <4> QED BY <1>3, <1>7, <2>2, <4>1, UntouchedKeeps DEF Fading, Handing
    <3> QED BY <3>1, <3>2
  <2> QED BY <2>1, <2>2
<1> QED BY <1>4, <1>8, <1>9, NothingToDo
-------------------------------------------------------------------------------
(***************************************************************************)
(* The crash is reported: the agent has to make again what was lost.       *)
(***************************************************************************)
LEMMA LostIs ==
    ASSUME NEW a, NEW n, NEW S, S = a.map \union {a.failed}, a.failed # n, NEW f \in local[n]
    PROVE  f \in Lost(a, n) <=> TargetIn(S, n, Hash[f]) = a.failed
BY DEF Lost, TargetIn

LEMMA ReportTours ==
    ASSUME TypeInv, Homes, Crashed, NEW n \in Node, Report(n)
    PROVE  Touring'
<1>1. PICK x \in reg :
         /\ up = reg \ {x}
         /\ \A m \in up : \A f \in local[m] :
               IF Target(m, f) = x THEN Nowhere(f) ELSE InPlace(m, f)
         /\ \A f \in File : Orphan(f) => Nowhere(f) \/ \E p \in up : Placed(x, f, p)
  BY DEF Crashed
<1> DEFINE first == GetNextNode(up, n)
<1>2. /\ n \in reg \ up /\ up # {} /\ reg' = reg \ {n}
      /\ UNCHANGED <<up, leaving, local, replica, log, wire, job, wants, events>>
  BY DEF Report, folders
<1>3. x = n /\ reg' = up /\ up = reg \ {n} /\ up \subseteq Node /\ reg \subseteq Node
  BY <1>1, <1>2, LocalFiles
<1>4. first \in up
  BY <1>2, <1>3, Lookups, NodeFacts
<1>5. PICK a \in Agent :
         a = NewAgent(n, first, up, FALSE)
  BY <1>2, <1>3, <1>4 DEF NewAgent, Agent
<1>6. a.failed = n /\ a.first = first /\ a.at = first /\ a.map = up /\ a.seen = {}
  BY <1>5 DEF NewAgent
<1>a. agents' = {a}
  <2>1. agents' = agents \union {a} /\ agents = {}
    BY <1>3, <1>4, <1>5 DEF Report, Crashed
  <2> QED BY <2>1
<1> HIDE DEF first
<1>7. \A f : Untouched(f)
  BY <1>2 DEF Untouched, About
<1>8. ASSUME NEW m \in up, NEW f \in local[m]
      PROVE  InPlace(m, f)' \/ (Nowhere(f)' /\ f \in Lost(a, m))
  <2>1. m \in Node /\ m # n /\ m \in reg /\ f \in File /\ Hash[f] \in Nat
    BY <1>3, LocalFiles, NodeFacts
  <2>2. leaving[m] = NoNode /\ leaving'[m] = NoNode
    BY <1>2, <2>1 DEF Crashed, NobodyLeaves
  <2>3. Target(m, f) = TargetIn(reg, m, Hash[f]) /\ Target(m, f)' = TargetIn(up, m, Hash[f])
    BY <1>3, <2>2, TargetIs DEF Target, PrevNode, Owner, TargetIn
  <2>4. TargetIn(reg, m, Hash[f]) # n => TargetIn(up, m, Hash[f]) = TargetIn(reg, m, Hash[f])
    BY <1>2, <1>3, <2>1, TargetWithout
  <2>5. CASE Target(m, f) = n
    <3>1. Nowhere(f)'
      BY <1>1, <1>3, <1>7, <2>5, UntouchedKeeps
    <3>2. reg = a.map \union {a.failed}
      BY <1>2, <1>3, <1>6
    <3>3. f \in Lost(a, m)
      BY <1>6, <2>1, <2>3, <2>5, <3>2, LostIs
    <3> QED BY <3>1, <3>3
  <2>6. CASE Target(m, f) # n
    <3>1. InPlace(m, f) /\ Target(m, f)' = Target(m, f)
      BY <1>1, <1>3, <2>3, <2>4, <2>6
    <3> QED BY <1>2, <1>7, <3>1, InPlaceKept DEF InPlace, Placed
  <2> QED BY <2>5, <2>6
<1>9. ASSUME NEW f \in File, Orphan(f)' PROVE Nowhere(f)' \/ \E p \in up : Resting(n, f, p)'
  <2>1. Orphan(f)
    BY <1>2, <1>9 DEF Orphan
  <2>2. Nowhere(f) \/ \E p \in up : Resting(n, f, p)
    BY <1>1, <1>3, <2>1 DEF Resting, Crashed, About
  <2> QED BY <1>2, <1>7, <2>2, UntouchedKeeps
<1>10. Tour(a)'
  <2>1. \A m : Lost(a, m)' = Lost(a, m)
    BY <1>2 DEF Lost
  <2> QED BY <1>2, <1>3, <1>4, <1>6, <1>8, <1>9, <2>1 DEF Tour
<1>11. reg' = up' /\ wants' = {} /\ NobodyLeaves' /\ NoEvents' /\ NoJobs'
  BY <1>2, <1>3 DEF Crashed, NobodyLeaves, NoEvents, NoJobs
<1> QED BY <1>10, <1>11, <1>a DEF Touring

-------------------------------------------------------------------------------
(***************************************************************************)
(* The agent goes round.                                                   *)
(***************************************************************************)
LEMMA NextOfOther ==
    ASSUME NEW S, S \subseteq Node, NEW n \in S
    PROVE  GetNextNode(S, n) \in S /\ (GetNextNode(S, n) = n <=> S = {n})
<1>1. n \in Nat /\ S \subseteq Nat /\ S # {} /\ S \subseteq 0 .. MaxId /\ MaxId \in Nat
  BY NodeFacts
<1>2. IsNext(S, n, GetNextNode(S, n)) /\ GetNextNode(S, n) \in S
  BY <1>1, GetNextNodeIsNext DEF IsNext
<1>3. ASSUME GetNextNode(S, n) = n, NEW k \in S, k # n PROVE FALSE
  BY <1>1, <1>2, <1>3 DEF IsNext, StrictlyBetween
<1> QED BY <1>2, <1>3

LEMMA ReceiveTours ==
    ASSUME TypeInv, Homes, Touring, NEW t \in wire, Receive(t)
    PROVE  Touring'
<1>1. UNCHANGED <<reg, up, leaving, local, job, wants, events, agents>>
  BY DEF Receive, ring
<1>2. PICK a \in Agent : agents = {a} /\ Tour(a)
  BY DEF Touring
<1>3. ASSUME NEW n \in up, NEW f \in local[n]
      PROVE  InPlace(n, f)' \/ (Nowhere(f)' /\ n \notin a.seen /\ f \in Lost(a, n))
  <2>1. f \in File
    BY LocalFiles
  <2> QED BY <1>2, <2>1, ReceiveKeeps, InPlaceReceives DEF Tour
<1>4. ASSUME NEW f \in File, Orphan(f)'
      PROVE  Nowhere(f)' \/ \E p \in up \ a.seen : Resting(a.failed, f, p)'
  <2>1. Orphan(f)
    BY <1>1, <1>4 DEF Orphan
  <2> QED BY <1>2, <2>1, ReceiveKeeps DEF Tour
<1>5. \A m : Lost(a, m)' = Lost(a, m)
  BY <1>1 DEF Lost
<1>6. Tour(a)'
  BY <1>1, <1>2, <1>3, <1>4, <1>5 DEF Tour
<1> QED BY <1>1, <1>2, <1>6 DEF Touring, NobodyLeaves, NoEvents, NoJobs

\* What a visit does to the files of the node, to those of others and to nobody's.
\* A visit that comes to its end.
LEMMA VisitDoes ==
    ASSUME TypeInv, NEW a \in agents, AgentVisit(a), NextAnswers(a.at), waiting' = waiting
    PROVE  LET n == a.at
               alone == GetNextNode(reg, n) = n
               logs == LogThen(a, n, alone)
               orphans == {f \in Held(n) : logs[f] \in {NoLog, Garbled, a.failed}}
               sent(f) == SendsReplica(n, Target(n, f), f, "whole")
                            \union SendsLog(n, Target(n, f), f, n)
           IN  /\ wire' = IF alone THEN wire ELSE wire \union UNION {sent(f) : f \in Lost(a, n)}
               /\ replica' = [replica EXCEPT ![n] = [f \in File |->
                                 IF f \in orphans THEN "none"
                                 ELSE IF alone /\ f \in Lost(a, n) THEN "whole" ELSE replica[n][f]]]
               /\ log' = [log EXCEPT ![n] = [f \in File |->
                             IF f \in orphans /\ logs[f] = a.failed THEN NoLog ELSE logs[f]]]
<1> DEFINE n == a.at
           alone == GetNextNode(reg, n) = n
           logs == LogThen(a, n, alone)
           orphans == {f \in Held(n) : logs[f] \in {NoLog, Garbled, a.failed}}
           hangs == orphans # {} /\ writer[n] # "nobody"
           kept(f, gone) == IF f \in gone THEN "none"
                            ELSE IF alone /\ f \in Lost(a, n) THEN "whole" ELSE replica[n][f]
           left(f, gone) == IF f \in gone /\ logs[f] = a.failed THEN NoLog ELSE logs[f]
<1>1. a \in Agent /\ n \in Node /\ replica \in [Node -> [File -> State]]
  BY DEF TypeInv, FoldersOK, Agent
<1>2. ~ hangs
  BY DEF AgentVisit
<1>3. PICK gone \in SUBSET orphans :
         /\ IF hangs THEN gone = {}
            ELSE IF NextAnswers(n) THEN gone = orphans ELSE gone \cap listed[n] = {}
         /\ replica' = [replica EXCEPT ![n] = [f \in File |-> kept(f, gone)]]
         /\ log' = [log EXCEPT ![n] = [f \in File |-> left(f, gone)]]
  BY <1>1 DEF AgentVisit
<1>4. gone = orphans
  <2> HIDE DEF orphans, hangs
  <2> QED BY <1>2, <1>3
<1>5. wire' = IF alone THEN wire ELSE wire \union
                 UNION {SendsReplica(n, Target(n, f), f, "whole")
                           \union SendsLog(n, Target(n, f), f, n) : f \in Lost(a, n)}
  BY DEF AgentVisit
<1> QED BY <1>3, <1>4, <1>5

LEMMA VisitFiles ==
    ASSUME Sequential, TypeInv, Homes, Touring, NEW a \in agents, AgentVisit(a), Tour(a),
           waiting' = waiting
    PROVE  /\ \A f \in local[a.at] : InPlace(a.at, f)'
           /\ \A m \in up : \A f \in local[m] : m # a.at => Untouched(f)
           /\ \A f \in File : Orphan(f) =>
                 \/ Nowhere(f)'
                 \/ \E p \in up : p \notin a.seen \union {a.at} /\ Resting(a.failed, f, p)'
<1>n. PICK n : n = a.at
  OBVIOUS
<1> DEFINE alone == GetNextNode(reg, n) = n
           logs == LogThen(a, n, alone)
           orphans == {f \in Held(n) : logs[f] \in {NoLog, Garbled, a.failed}}
           sent(f) == SendsReplica(n, Target(n, f), f, "whole") \union SendsLog(n, Target(n, f), f, n)
<1>1. /\ n \in up /\ reg = up /\ n \in Node /\ up \subseteq Node /\ wire = {} /\ a.failed \notin up
      /\ \A m \in Node : leaving[m] = NoNode
  BY <1>n, LocalFiles DEF AgentVisit, Arrived, Sequential, Touring, Tour, NobodyLeaves
<1>2. UNCHANGED <<reg, up, leaving, local>>
  BY DEF AgentVisit, ring
<1>3. alone <=> up = {n}
  BY <1>1, NextOfOther
<1>4. /\ wire' = IF alone THEN {} ELSE UNION {sent(f) : f \in Lost(a, n)}
      /\ replica' = [replica EXCEPT ![n] = [f \in File |->
                        IF f \in orphans THEN "none"
                        ELSE IF alone /\ f \in Lost(a, n) THEN "whole" ELSE replica[n][f]]]
      /\ log' = [log EXCEPT ![n] = [f \in File |->
                    IF f \in orphans /\ logs[f] = a.failed THEN NoLog ELSE logs[f]]]
  <2>1. NextAnswers(n)
    BY <1>1, NextOfOther DEF NextAnswers
  <2> QED BY <1>1, <1>n, <2>1, VisitDoes
<1>5. \A f \in File : logs[f] = IF f \notin Lost(a, n) THEN log[n][f] ELSE IF alone THEN n ELSE NoLog
  BY DEF LogThen
<1>6. /\ \A m \in up : m # n => replica'[m] = replica[m] /\ log'[m] = log[m]
      /\ \A f \in File : /\ replica'[n][f] = IF f \in orphans THEN "none"
                               ELSE IF alone /\ f \in Lost(a, n) THEN "whole" ELSE replica[n][f]
                         /\ log'[n][f] = IF f \in orphans /\ logs[f] = a.failed THEN NoLog ELSE logs[f]
  BY <1>1, <1>4 DEF TypeInv, FoldersOK
<1>7. \A f \in File : f \in orphans <=>
         replica[n][f] # "none" /\ logs[f] \in {NoLog, Garbled, a.failed}
  BY DEF Held
<1>8. n \notin {NoLog, Garbled, a.failed} /\ \A m \in up : m \notin {NoLog, Garbled, a.failed}
  <2>1. \A m \in Node : m # NoLog /\ m # Garbled
    BY NodeFacts DEF NoLog, Garbled
  <2> QED BY <1>1, <2>1
<1>s. \A f : \A t \in sent(f) : t.file = f
  BY SentFrom
<1> HIDE DEF alone, logs, orphans
<1>9. \A f : About(f) = {}
  BY <1>1 DEF About
<1>10. ASSUME NEW f, f \notin Lost(a, n) PROVE About(f)' = {}
  <2> HIDE DEF sent
  <2>1. \A t \in wire' : t.file # f
    BY <1>4, <1>10, <1>s
  <2> QED BY <2>1 DEF About
<1> HIDE DEF sent
<1>11. Lost(a, n) \subseteq local[n]
  BY DEF Lost
\* What has not been lost, with a log that names a node that is up.
<1>12. ASSUME NEW f \in File, f \notin Lost(a, n), replica[n][f] = "none" \/ log[n][f] \in up
       PROVE  Untouched(f)
  <2>1. f \notin orphans
    BY <1>5, <1>7, <1>8, <1>12
  <2>2. replica'[n][f] = replica[n][f] /\ log'[n][f] = log[n][f]
    BY <1>5, <1>6, <1>12, <2>1
  <2> QED BY <1>2, <1>6, <1>9, <1>10, <1>12, <2>2 DEF Untouched
<1>13. ASSUME NEW m \in up, NEW f \in local[m], InPlace(m, f)
       PROVE  replica[n][f] = "none" \/ log[n][f] \in up
  BY <1>1, <1>9, <1>13 DEF InPlace, Placed, Bound
<1>14. ASSUME NEW f \in local[n] PROVE InPlace(n, f)'
  <2>1. f \in File /\ (InPlace(n, f) \/ (Nowhere(f) /\ f \in Lost(a, n)))
    BY <1>1, LocalFiles DEF Tour
  <2>2. PICK q \in up : q = Target(n, f) /\ (up # {n} => q # n) /\ q # NoNode
    BY <1>1, <2>1, TargetUp, NodeFacts
  <2>3. Target(n, f)' = q
    BY <1>2, <2>2, SameTargets
  <2>4. CASE f \notin Lost(a, n)
    <3>1. InPlace(n, f)
      BY <2>1, <2>4
    <3>2. Untouched(f)
      BY <1>1, <1>12, <1>13, <2>1, <2>4, <3>1
    <3> QED BY <1>2, <2>2, <2>3, <3>1, <3>2, InPlaceKept
  <2>5. CASE f \in Lost(a, n) /\ alone
    <3>1. logs[f] = n /\ f \notin orphans
      BY <1>5, <1>7, <1>8, <2>1, <2>5
    <3>2. replica'[n][f] = "whole" /\ log'[n][f] = n
      BY <1>6, <2>1, <2>5, <3>1
    <3>3. About(f)' = {} /\ q = n /\ up' = {n}
      BY <1>2, <1>3, <1>4, <2>2, <2>5 DEF About
    <3> QED BY <2>3, <3>2, <3>3 DEF InPlace, Placed, Bound
  <2>6. CASE f \in Lost(a, n) /\ ~ alone
    <3>1. q # n
      BY <1>3, <2>2, <2>6
    <3>2. sent(f) = {ReplicaTo(n, q, f, "whole"), LogTo(n, q, f, n)}
      <4>1. /\ SendsReplica(n, q, f, "whole") = {ReplicaTo(n, q, f, "whole")}
            /\ SendsLog(n, q, f, n) = {LogTo(n, q, f, n)}
        BY <1>8, <2>2, SendsTo
      <4> QED BY <2>2, <4>1 DEF sent
    <3>3. About(f)' = About(f) \union {ReplicaTo(n, q, f, "whole"), LogTo(n, q, f, n)}
      <4>1. About(f)' = sent(f)
        BY <1>4, <1>s, <2>6 DEF About
      <4> QED BY <1>9, <3>2, <4>1
    <3>4. \A m \in up' : m # q => replica'[m][f] = "none"
      <4>1. \A m \in up : m # q => replica[m][f] = "none"
        BY <2>1, <2>2 DEF InPlace, Placed, Bound, Nowhere
      <4>2. replica'[n][f] = "none"
        BY <1>1, <1>6, <2>1, <2>6, <3>1, <4>1
      <4> QED BY <1>2, <1>6, <4>1, <4>2
    <3>5. Bound(f, q, "whole", n)'
      BY <1>9, <3>3, <3>4, SentBound
    <3> QED BY <1>2, <2>3, <3>5 DEF InPlace, Placed
  <2> QED BY <2>4, <2>5, <2>6
<1>15. ASSUME NEW m \in up, NEW f \in local[m], m # n PROVE Untouched(f)
  <2>1. f \in File /\ (InPlace(m, f) \/ Nowhere(f)) /\ m \in Node
    BY <1>1, LocalFiles DEF Tour
  <2>2. f \notin Lost(a, n)
    BY <1>1, <1>11, <1>15, <2>1, OneHome DEF Sequential, Homes
  <2>3. replica[n][f] = "none" \/ log[n][f] \in up
    BY <1>1, <1>13, <2>1 DEF Nowhere
  <2> QED BY <1>12, <2>1, <2>2, <2>3
<1>16. ASSUME NEW f \in File, Orphan(f)
       PROVE  \/ Nowhere(f)'
              \/ \E p \in up : p \notin a.seen \union {n} /\ Resting(a.failed, f, p)'
  <2>1. f \notin Lost(a, n)
    BY <1>1, <1>11, <1>16 DEF Orphan
  <2>2. CASE Nowhere(f)
    <3>1. Untouched(f)
      BY <1>1, <1>12, <2>1, <2>2 DEF Nowhere
    <3> QED BY <2>2, <3>1, UntouchedKeeps
  <2>3. CASE ~ Nowhere(f)
    <3>1. PICK p \in up \ a.seen : Resting(a.failed, f, p)
      BY <1>16, <2>3 DEF Tour
    <3>2. /\ replica[p][f] = "whole" /\ log[p][f] = a.failed
          /\ \A m \in up : m # p => replica[m][f] = "none"
      BY <3>1 DEF Resting, Placed, Bound
    <3>3. CASE p = n
      <4>1. f \in orphans
        BY <1>5, <1>7, <2>1, <3>2, <3>3
      <4>2. \A m \in up' : replica'[m][f] = "none"
        BY <1>2, <1>6, <3>2, <3>3, <4>1
      <4> QED BY <1>10, <2>1, <4>2 DEF Nowhere
    <3>4. CASE p # n
      <4>1. Untouched(f)
        BY <1>1, <1>12, <2>1, <3>2, <3>4
      <4>2. Resting(a.failed, f, p)'
        BY <1>2, <3>1, <4>1, UntouchedKeeps
      <4> QED BY <3>1, <3>4, <4>2
    <3> QED BY <3>3, <3>4
  <2> QED BY <2>2, <2>3
<1> QED BY <1>n, <1>14, <1>15, <1>16

LEMMA VisitTours ==
    ASSUME Sequential, TypeInv, Homes, Touring, NEW a \in agents, AgentVisit(a), waiting' = waiting
    PROVE  Touring' \/ Settling'
<1> DEFINE n == a.at
           next == GetNextNode(reg, n)
           seen == a.seen \union {n}
<1>1. agents = {a} /\ a \in Agent /\ Tour(a) /\ reg = up /\ reg \subseteq Node
  BY LocalFiles DEF Touring
<1>2. UNCHANGED <<reg, up, leaving, local, job, wants, events>>
  BY DEF AgentVisit, ring
<1>3. n \in reg /\ seen \subseteq reg /\ next \in reg /\ a.first \in seen
  BY <1>1, NextOfOther DEF Tour
<1>b. PICK b \in Agent : b = [a EXCEPT !.at = next, !.seen = seen]
  BY <1>1, <1>3 DEF Agent
<1>4. agents' = IF GoesOn(a, next) THEN {b} ELSE {}
  <2>1. agents' = (agents \ {a}) \union
           {[a EXCEPT !.at = m, !.seen = seen] : m \in IF GoesOn(a, next) THEN {next} ELSE {}}
    <3> DEFINE orphans == {f \in Held(n) :
                  LogThen(a, n, next = n)[f] \in {NoLog, Garbled, a.failed}}
               hangs == orphans # {} /\ writer[n] # "nobody"
    <3>1. ~ hangs
      BY DEF AgentVisit
    <3>2. agents' = (agents \ {a}) \union
             {[a EXCEPT !.at = m, !.seen = seen] :
                 m \in IF GoesOn(a, next) /\ ~ hangs THEN {next} ELSE {}}
      BY DEF AgentVisit
    <3> HIDE DEF hangs
    <3> QED BY <3>1, <3>2
  <2> QED BY <1>1, <1>b, <2>1
<1>5. /\ b.failed = a.failed /\ b.first = a.first /\ b.at = next /\ b.map = a.map
      /\ b.seen = seen
  BY <1>1, <1>b DEF Agent
<1>6. /\ \A f \in local[n] : InPlace(n, f)'
      /\ \A m \in up : \A f \in local[m] : m # n => Untouched(f)
      /\ \A f \in File : Orphan(f) =>
            Nowhere(f)' \/ \E p \in up : p \notin seen /\ Resting(a.failed, f, p)'
  BY <1>1, VisitFiles
<1>7. ASSUME NEW m \in up, NEW f \in local[m]
      PROVE  InPlace(m, f)' \/ (Nowhere(f)' /\ m \notin seen /\ f \in Lost(a, m))
  <2>1. CASE m = n
    BY <1>6, <2>1
  <2>2. CASE m # n
    <3>1. Untouched(f)
      BY <1>6, <2>2
    <3>2. InPlace(m, f) => InPlace(m, f)'
      BY <1>2, <3>1, SameTargets, InPlaceKept DEF InPlace, Placed
    <3>3. Nowhere(f) => Nowhere(f)'
      BY <3>1, UntouchedKeeps
    <3> QED BY <1>1, <2>2, <3>2, <3>3 DEF Tour
  <2> QED BY <2>1, <2>2
<1>8. \A s \in seen : GetNextNode(reg, s) \in seen \union {next}
  BY <1>1 DEF Tour
<1>9. \A f : Orphan(f)' <=> Orphan(f)
  BY <1>2 DEF Orphan
<1>10. reg' = up' /\ wants' = {} /\ NobodyLeaves' /\ NoEvents' /\ NoJobs'
  BY <1>2 DEF Touring, NobodyLeaves, NoEvents, NoJobs
<1>11. CASE GoesOn(a, next)
  <2>1. \A m : Lost(b, m)' = Lost(a, m)
    BY <1>2, <1>5 DEF Lost
  <2>2. b.failed \notin up' /\ b.map = reg'
    BY <1>1, <1>2, <1>5 DEF Tour
  <2> HIDE DEF seen, next
  <2>3. Tour(b)'
    BY <1>2, <1>3, <1>5, <1>6, <1>7, <1>8, <1>9, <2>1, <2>2 DEF Tour
  <2> QED BY <1>4, <1>5, <1>10, <1>11, <2>3 DEF Touring
\* Back at the first node it has been everywhere.
<1>12. CASE ~ GoesOn(a, next)
  <2>1. next \in seen
    BY <1>1, <1>3, <1>12 DEF GoesOn
  <2> HIDE DEF next
  <2>2. \A s \in seen : GetNextNode(reg, s) \in seen
    BY <1>8, <2>1
  <2> HIDE DEF seen
  <2>3. seen = up
    BY <1>1, <1>3, <2>1, <2>2, RoundIsAll
  <2>4. \A m \in up' : \A f \in local'[m] : InPlace(m, f)'
    BY <1>2, <1>7, <2>3
  <2>5. \A f \in File : Orphan(f)' => Fading(f)'
    BY <1>6, <1>9, <2>3 DEF Fading
  <2>6. agents' = {} /\ (up \subseteq Node)'
    BY <1>1, <1>2, <1>4, <1>12
  <2> QED BY <1>10, <2>4, <2>5, <2>6, NothingToDo
<1> QED BY <1>11, <1>12
-------------------------------------------------------------------------------
(***************************************************************************)
(* Somebody waits for the write lock for ever.                             *)
(***************************************************************************)
LEMMA HangsLeaving ==
    ASSUME Sequential, TypeInv, Homes, Leaving, NEW n \in Node, ShutHangs(n)
    PROVE  Hanging'
<1>1. /\ UNCHANGED <<reg, up, leaving, local, replica, log, wants, events, agents>>
      /\ leaving[n] # NoNode /\ job[n] = NoJob
      /\ job' = [job EXCEPT ![n] = [NoJob EXCEPT !.op = "shutdown", !.at = "wait"]]
  BY DEF ShutHangs, ring, folders
<1>2. PICK f \in local[n] : wire' = wire \union Deletes(n, Target(n, f), f)
  BY DEF ShutHangs
<1>3. PICK x \in up : Goes(x)
  BY LeavingIs
<1>4. /\ x = n /\ wire = {} /\ reg = up \ {n} /\ n \in up /\ up \subseteq Node
      /\ \A m \in Node \ {n} : leaving[m] = NoNode /\ job[m] = NoJob
  BY <1>1, <1>3, NoJobIsJob, LocalFiles DEF Goes, Shutting
<1>5. /\ \A m \in Node : m # n => job'[m] = job[m]
      /\ job'[n].op = "shutdown" /\ job'[n].at = "wait" /\ job'[n].todo = {}
  BY <1>1 DEF TypeInv, JobsOK, NoJob
<1>6. ASSUME NEW m \in reg', NEW g \in local'[m] PROVE \E p \in up' : Resting(m, g, p)'
  <2>1. m \in reg /\ m # n /\ m \in Node /\ g \in local[m]
    BY <1>1, <1>4
  <2>2. PICK p \in up : Resting(m, g, p)
    <3>1. InPlace(m, g) \/ Resting(m, g, n)
      BY <1>3, <1>4, <2>1 DEF Goes, Handing
    <3>2. InPlace(m, g) => Resting(m, g, Target(m, g))
      BY <1>4 DEF InPlace, Resting, About
    <3> QED BY <3>1, <3>2 DEF Resting, Placed
  <2>3. f # g
    BY <1>4, <2>1, OneHome DEF Sequential, Homes
  <2>4. About(g)' = About(g)
    <3>1. \A t \in Deletes(n, Target(n, f), f) : t.file = f
      BY DeletesFrom
    <3> QED BY <1>2, <2>3, <3>1 DEF About
  <2>5. Untouched(g)
    BY <1>1, <2>4 DEF Untouched
  <2> QED BY <1>1, <2>2, <2>5, UntouchedKeeps
<1>7. (NoEvents /\ agents = {} /\ wants = {})'
  BY <1>1, LeavingIs DEF NoEvents
<1> QED BY <1>1, <1>4, <1>5, <1>6, <1>7 DEF Hanging, Shutting

LEMMA ReceiveHangs ==
    ASSUME TypeInv, Homes, Hanging, NEW t \in wire, Receive(t)
    PROVE  Hanging'
<1>1. UNCHANGED <<reg, up, leaving, local, job, wants, events, agents>>
  BY DEF Receive, ring
<1>2. PICK x \in up :
          /\ reg = up \ {x}
          /\ Shutting(x) /\ job[x].at = "wait" /\ job[x].todo = {}
          /\ \A n \in Node \ {x} : leaving[n] = NoNode /\ job[n] = NoJob
          /\ \A n \in reg : \A f \in local[n] : \E p \in up : Resting(n, f, p)
  BY DEF Hanging
<1>3. ASSUME NEW n \in reg, NEW f \in local[n] PROVE \E p \in up : Resting(n, f, p)'
  <2>1. PICK p \in up : Resting(n, f, p)
    BY <1>2
  <2>2. t.file # f
    BY <2>1 DEF Resting, About
  <2>3. f \in File
    BY LocalFiles
  <2>4. Untouched(f)
    BY <2>2, <2>3, ReceiveOthers
  <2> QED BY <1>1, <2>1, <2>4, UntouchedKeeps
<1> QED BY <1>1, <1>2, <1>3 DEF Hanging, Shutting, NoEvents

LEMMA GetsStuck ==
    ASSUME TypeInv, NobodyLeaves, NoJobs, UNCHANGED <<leaving, job>>, waiting' # {}
    PROVE  Stuck'
BY NoJobIsJob DEF Stuck, NobodyLeaves, NoJobs, Leaves

LEMMA StuckStays ==
    ASSUME Sequential, TypeInv, Stuck, [Next]_vars
    PROVE  Stuck'
<1>1. waiting # {} /\ ~ Quiet /\ \A n \in Node : leaving[n] = NoNode /\ job[n].op # "shutdown"
  BY DEF Stuck, Quiet, Leaves
<1>2. ~ Environment
  BY <1>1, ChangeWhenQuiet
<1>3. ASSUME NEW n \in Node, Work(n) PROVE Stuck'
  <2>1. \/ StartupCount(n) \/ StartupFile(n) \/ UpdateBegin(n) \/ UpdateAsk(n) \/ UpdateMove(n)
        \/ ShutMove(n)
    BY <1>1, <1>3 DEF Work, ShutBegin, ShutHangs, Exit
  <2>2. waiting' = waiting
    BY <2>1 DEF StartupCount, StartupFile, UpdateBegin, UpdateAsk, UpdateMove, ShutMove, sync
  <2> QED BY <1>1, <2>1, <2>2, JobsLeave DEF Stuck
<1>4. ASSUME waiting \subseteq waiting', UNCHANGED <<leaving, job>> PROVE Stuck'
  BY <1>1, <1>4 DEF Stuck, Leaves
<1>5. CASE \E n \in Node : Watch(n)
  BY <1>4, <1>5 DEF Watch, ring
<1>6. CASE \E a \in agents : AgentVisit(a)
  <2>1. PICK a \in agents : AgentVisit(a)
    BY <1>6
  <2>2. waiting \subseteq waiting'
    BY <2>1 DEF AgentVisit
  <2>3. UNCHANGED <<leaving, job>>
    BY <2>1 DEF AgentVisit, ring
  <2> QED BY <1>4, <2>2, <2>3
<1>7. CASE \/ \E n \in Node : Report(n) \/ ReportAgain(n)
           \/ \E t \in wire : Receive(t)
           \/ UNCHANGED vars
  BY <1>4, <1>7 DEF Report, ReportAgain, Receive, vars, sync, ring
<1> QED BY <1>2, <1>3, <1>5, <1>6, <1>7 DEF Next

-------------------------------------------------------------------------------
(***************************************************************************)
(* What is under way tells which phase it is.                              *)
(***************************************************************************)
LEMMA NoJobFields == NoJob.op = "none" /\ NoJob.at = "end" /\ NoJob.todo = {}
BY DEF NoJob

LEMMA PhaseOf ==
    ASSUME TypeInv, Phase
    PROVE  /\ \A n \in Node : job[n] # NoJob =>
                 \/ Settling
                 \/ Leaving /\ Shutting(n) /\ job[n].at = "move"
                 \/ Shutting(n) /\ job[n].at = "wait" /\ job[n].todo = {}
           /\ \A n \in Node : Settling => ~ Shutting(n)
           /\ \A n \in Node : leaving[n] # NoNode /\ job[n] = NoJob => Leaving
           /\ \A n \in Node : events[n] # << >> => Editing
           /\ \A n \in Node : n \in reg \ up => Crashed
           /\ wants # {} => Settling
           /\ agents # {} => Touring
           /\ wire # {} => Settling \/ Leaving \/ Hanging \/ Touring
<1>1. CASE Settling
  <2>1. \A n \in Node : ~ Shutting(n)
    <3> SUFFICES ASSUME NEW n \in Node, Shutting(n) PROVE FALSE
      OBVIOUS
    <3>1. n \in up
      BY NoJobFields DEF TypeInv, JobsOK, Shutting
    <3> QED BY <1>1, <3>1, NoJobFields DEF Settling, JobRight, Shutting
  <2> QED BY <1>1, <2>1 DEF Settling, NobodyLeaves, NoEvents
<1>2. CASE Editing /\ ~ Settling
  <2>1. reg = up /\ wire = {} /\ wants = {} /\ agents = {} /\ NobodyLeaves /\ NoJobs
    BY <1>2 DEF Editing
  <2> QED BY <1>2, <2>1 DEF NobodyLeaves, NoJobs
<1>3. CASE Leaving /\ ~ Settling
  <2>1. PICK x \in up : Goes(x)
    BY <1>3, LeavingIs
  <2>2. \A n \in Node : job[n] # NoJob => Shutting(n) /\ job[n].at = "move"
    BY <2>1 DEF Goes
  <2>3. reg \subseteq up
    BY <2>1 DEF Goes
  <2> QED BY <1>3, <2>2, <2>3 DEF Leaving, NoEvents
<1>4. CASE Crashed /\ ~ Settling
  <2>1. wire = {} /\ wants = {} /\ agents = {} /\ NobodyLeaves /\ NoEvents /\ NoJobs
    BY <1>4 DEF Crashed
  <2> QED BY <1>4, <2>1 DEF NobodyLeaves, NoEvents, NoJobs
<1>5. CASE Touring /\ ~ Settling
  <2>1. reg = up /\ wants = {} /\ NobodyLeaves /\ NoEvents /\ NoJobs
    BY <1>5 DEF Touring
  <2> QED BY <1>5, <2>1 DEF NobodyLeaves, NoEvents, NoJobs
<1>6. CASE Hanging /\ ~ Settling
  <2>1. PICK x \in up :
          /\ reg = up \ {x}
          /\ Shutting(x) /\ job[x].at = "wait" /\ job[x].todo = {}
          /\ \A n \in Node \ {x} : leaving[n] = NoNode /\ job[n] = NoJob
    BY <1>6 DEF Hanging
  <2>2. job[x] # NoJob
    BY <2>1, NoJobFields DEF Shutting
  <2> QED BY <1>6, <2>1, <2>2 DEF Hanging, NoEvents
<1> QED BY <1>1, <1>2, <1>3, <1>4, <1>5, <1>6 DEF Phase

LEMMA EnvironmentPlace ==
    ASSUME Sequential, TypeInv, PlaceInv, Environment
    PROVE  Phase' /\ waiting' = {}
<1>1. NothingLeft /\ Homes /\ waiting = {}
  BY ChangeWhenQuiet, QuietRests DEF PlaceInv, Quiet
<1>2. Settling' \/ Leaving' \/ Crashed' \/ Editing'
  BY <1>1, StartSettles, LeaveLeaves, CrashCrashes, UserEdits DEF Environment
<1>3. waiting' = {}
  BY <1>1 DEF Environment, Start, Leave, Crash, Ends, Create, Modify, Delete, Edit, sync
<1> QED BY <1>2, <1>3 DEF Phase

LEMMA WorkPlace ==
    ASSUME Sequential, TypeInv, Homes, Homes', Phase, waiting = {}, NEW n \in Node, Work(n)
    PROVE  Phase' /\ waiting' = {}
<1>1. waiting' = {}
  BY DEF Work, StartupCount, StartupFile, UpdateBegin, UpdateAsk, UpdateMove,
         ShutBegin, ShutHangs, ShutMove, Exit, Ends, sync
<1>2. CASE StartupCount(n) \/ StartupFile(n) \/ UpdateAsk(n) \/ UpdateMove(n)
  <2>1. job[n] # NoJob /\ (job[n].at \in {"count", "ip", "id"} \/ job[n].op = "startup")
    BY <1>2, NoJobFields DEF StartupCount, StartupFile, UpdateAsk, UpdateMove
  <2>2. Settling
    BY <2>1, PhaseOf, NoJobFields DEF Shutting
  <2> QED BY <1>1, <1>2, <2>2, CountSettles, FileSettles, AskSettles, MoveSettles DEF Phase
<1>3. CASE UpdateBegin(n)
  <2>1. Settling
    BY <1>3, PhaseOf DEF UpdateBegin
  <2> QED BY <1>1, <1>3, <2>1, BeginSettles DEF Phase
<1>4. CASE ShutBegin(n) \/ ShutHangs(n)
  <2>1. Leaving
    BY <1>4, PhaseOf DEF ShutBegin, ShutHangs
  <2> QED BY <1>1, <1>4, <2>1, BeginLeaves, HangsLeaving DEF Phase
<1>5. CASE ShutMove(n) \/ Exit(n)
  <2>1. Shutting(n) /\ job[n] # NoJob /\ (job[n].todo # {} \/ job[n].at = "move")
    BY <1>5, NoJobFields DEF ShutMove, Exit, Shutting
  <2>2. Leaving
    BY <2>1, PhaseOf
  <2> QED BY <1>1, <1>5, <2>2, MoveLeaves, ExitSettles DEF Phase
<1> QED BY <1>2, <1>3, <1>4, <1>5 DEF Work

LEMMA StutterPlace ==
    ASSUME Phase, UNCHANGED vars
    PROVE  Phase'
<1>1. UNCHANGED <<reg, up, leaving, local, replica, log, wire, job, wants, events, agents>>
  BY DEF vars, ring, folders
<1>2. \A f : Nowhere(f)' <=> Nowhere(f)
  BY <1>1 DEF Nowhere, About
<1>3. \A f, p, data, origin : Bound(f, p, data, origin)' <=> Bound(f, p, data, origin)
  BY <1>1 DEF Bound, About
<1>4. \A n, f : Target(n, f)' = Target(n, f)
  BY <1>1, SameTargets
<1>5. \A n, f, p : /\ Placed(n, f, p)' <=> Placed(n, f, p)
                   /\ Resting(n, f, p)' <=> Resting(n, f, p)
  BY <1>1, <1>3 DEF Placed, Resting, About
<1>6. \A n, f : InPlace(n, f)' <=> InPlace(n, f)
  BY <1>4, <1>5 DEF InPlace
<1>7. /\ \A f : (Orphan(f)' <=> Orphan(f)) /\ (Fading(f)' <=> Fading(f))
      /\ \A n : Held(n)' = Held(n) /\ PrevOf(n)' = PrevOf(n)
      /\ \A f : Owner(f)' = Owner(f)
      /\ \A a, n : Lost(a, n)' = Lost(a, n)
  BY <1>1, <1>2, <1>3 DEF Orphan, Fading, Held, PrevOf, Owner, Lost
<1>8. Settling => Settling'
  BY <1>1, <1>2, <1>5, <1>6, <1>7
     DEF Settling, Settled, Unsent, Due, JobRight, NobodyLeaves, NoEvents
<1>9. Editing => Editing'
  BY <1>1, <1>2, <1>4, <1>6, <1>7 DEF Editing, Edited, NobodyLeaves, NoJobs
<1>10. Leaving => Leaving'
  BY <1>1, <1>2, <1>3, <1>4, <1>5, <1>6, <1>7 DEF Leaving, Handing, Shutting, NoEvents
<1>11. Crashed => Crashed'
  BY <1>1, <1>2, <1>4, <1>5, <1>6, <1>7 DEF Crashed, NobodyLeaves, NoEvents, NoJobs
<1>12. Touring => Touring'
  BY <1>1, <1>2, <1>5, <1>6, <1>7 DEF Touring, Tour, NobodyLeaves, NoEvents, NoJobs
<1>13. Hanging => Hanging'
  BY <1>1, <1>5 DEF Hanging, Shutting, NoEvents
<1> QED BY <1>8, <1>9, <1>10, <1>11, <1>12, <1>13 DEF Phase

LEMMA NextPhase ==
    ASSUME Sequential, TypeInv, Homes, Homes', Phase, waiting = {}, [Next]_vars
    PROVE  Stuck' \/ (waiting' = {} /\ Phase')
<1>0. PlaceInv
  BY DEF PlaceInv
<1>1. CASE Environment
  BY <1>0, <1>1, EnvironmentPlace
<1>2. ASSUME NEW n \in Node, Work(n) PROVE waiting' = {} /\ Phase'
  BY <1>2, WorkPlace
<1>3. ASSUME NEW n \in Node, Watch(n) PROVE Stuck' \/ (waiting' = {} /\ Phase')
  <2>1. Editing
    BY <1>3, PhaseOf DEF Watch
  <2>2. CASE waiting' = waiting
    BY <1>3, <2>1, <2>2, WatchSettles DEF Phase
  <2>3. CASE waiting' # waiting
    BY <1>3, <2>1, <2>3, GetsStuck DEF Watch, Editing, ring
  <2> QED BY <2>2, <2>3
<1>4. ASSUME NEW n \in Node, Report(n) PROVE waiting' = {} /\ Phase'
  <2>1. Crashed /\ waiting' = {}
    BY <1>4, PhaseOf DEF Report, sync
  <2> QED BY <1>4, <2>1, ReportTours DEF Phase
<1>5. ASSUME NEW n \in Node, ReportAgain(n) PROVE FALSE
  BY <1>5 DEF ReportAgain, Sequential, TypeInv, SpentOK
<1>6. ASSUME NEW t \in wire, Receive(t) PROVE waiting' = {} /\ Phase'
  <2>1. (Settling \/ Leaving \/ Hanging \/ Touring) /\ waiting' = {}
    BY <1>6, PhaseOf DEF Receive, sync
  <2> QED BY <1>6, <2>1, ReceiveSettles, ReceiveLeaves, ReceiveHangs, ReceiveTours DEF Phase
<1>7. ASSUME NEW a \in agents, AgentVisit(a) PROVE Stuck' \/ (waiting' = {} /\ Phase')
  <2>1. Touring
    BY PhaseOf
  <2>2. CASE waiting' = waiting
    BY <1>7, <2>1, <2>2, VisitTours DEF Phase
  <2>3. CASE waiting' # waiting
    <3>1. UNCHANGED <<leaving, job>>
      BY <1>7 DEF AgentVisit, ring
    <3>2. waiting' # {}
      BY <1>7, <2>3 DEF AgentVisit
    <3> QED BY <2>1, <3>1, <3>2, GetsStuck DEF Touring
  <2> QED BY <2>2, <2>3
<1>8. CASE UNCHANGED vars
  BY <1>8, StutterPlace DEF vars, sync
<1> QED BY <1>1, <1>2, <1>3, <1>4, <1>5, <1>6, <1>7, <1>8 DEF Next

LEMMA NextPlace ==
    ASSUME Sequential, TypeInv, PlaceInv, [Next]_vars
    PROVE  PlaceInv'
BY NextHomes, StuckStays, NextPhase DEF PlaceInv

LEMMA InitPlace == Init => PlaceInv
<1> SUFFICES ASSUME Init PROVE PlaceInv
  OBVIOUS
<1>1. \A f : Nowhere(f)
  BY DEF Init, Nowhere, About
<1>2. Settling
  BY <1>1 DEF Init, Settling, NobodyLeaves, NoEvents, Fading
<1> QED BY <1>2, InitHomes DEF PlaceInv, Phase, Init

\* A copy that is somewhere or on its way exists.
LEMMA PlacedExists ==
    ASSUME NEW n, NEW f, NEW p, Placed(n, f, p)
    PROVE  Exists(f)
<1>1. p \in up /\ (replica[p][f] = "whole" \/ \E t \in About(f) : t.what = "replica")
  BY DEF Placed, Bound
<1>2. \A t \in About(f) : t.what = "replica" => t.data = "whole"
  BY DEF Placed, Bound
<1> QED BY <1>1, <1>2 DEF Exists, IsCopy, About

LEMMA PlaceSurvives ==
    ASSUME Sequential, TypeInv, PlaceInv
    PROVE  ReplicaSurvives
<1> SUFFICES ASSUME NEW n \in up \cap reg, NEW f \in local[n], reg \subseteq up, agents = {},
                    waiting = {}
             PROVE  Exists(f) \/ NotYetSent(n, f)
  BY DEF ReplicaSurvives
<1>0. n \in Node /\ f \in File /\ Homes /\ Phase
  BY LocalFiles DEF PlaceInv, Stuck
<1>1. CASE Settling
  <2>1. Unsent(n, f) => NotYetSent(n, f)
    BY DEF Unsent, NotYetSent
  <2> QED BY <1>1, <2>1, PlacedExists DEF Settling, Settled, InPlace, Resting
<1>2. CASE Editing
  <2>1. PICK k \in up, g \in File, kind \in {"create", "modify", "delete"} :
          /\ events = [m \in Node |-> IF m = k THEN << [kind |-> kind, file |-> g] >> ELSE << >>]
          /\ Edited(k, kind, g)
          /\ \A m \in up : \A h \in local[m] : h # g => InPlace(m, h)
    BY <1>2 DEF Editing
  <2>2. CASE f # g
    BY <2>1, <2>2, PlacedExists DEF InPlace
  <2>3. CASE f = g
    <3>1. f \in local[k] /\ k \in Node
      BY <1>0, <2>1, <2>3, LocalFiles DEF Edited, Orphan
    <3>2. k = n
      BY <1>0, <3>1, OneHome DEF Sequential, Homes
    <3>3. CASE kind = "create"
      <4>1. events[n] = << [kind |-> "create", file |-> f] >>
        BY <1>0, <2>1, <2>3, <3>2, <3>3
      <4>2. 1 \in DOMAIN events[n] /\ events[n][1] = [kind |-> "create", file |-> f]
        BY <4>1
      <4> QED BY <4>2 DEF NotYetSent
    <3>4. CASE kind = "modify"
      <4>1. replica[Target(n, f)][f] \in {"stale", "whole"}
        BY <2>1, <2>3, <3>2, <3>4 DEF Edited
      <4>2. Target(n, f) \in up
        BY <1>0, <1>2, TargetUp DEF Editing, NobodyLeaves
      <4> QED BY <4>1, <4>2 DEF Exists
    <3>5. CASE kind = "delete"
      BY <1>0, <2>1, <2>3, <3>2, <3>5 DEF Edited, Orphan
    <3> QED BY <2>1, <3>3, <3>4, <3>5
  <2> QED BY <2>2, <2>3
<1>3. CASE Leaving
  <2>1. PICK x \in up : Handing(x)
    BY <1>3 DEF Leaving
  <2> QED BY <2>1, PlacedExists DEF Handing, InPlace, Resting
<1>4. CASE Crashed
  BY <1>4 DEF Crashed
<1>5. CASE Touring
  BY <1>5 DEF Touring
<1>6. CASE Hanging
  BY <1>6, PlacedExists DEF Hanging, Resting
<1> QED BY <1>0, <1>1, <1>2, <1>3, <1>4, <1>5, <1>6 DEF Phase

(***************************************************************************)
(* When every change has been worked off before the next, each crash is    *)
(* reported once, and all is quiet again (no thread waits for a write lock *)
(* either), each file has its one replica where it belongs, complete, up to*)
(* date and with a log that names its origin: startup, update, shutDown,   *)
(* the watcher and the failure agent together miss none and move none      *)
(* twice, for every ring, every hash of every file and every edit of the   *)
(* users (FileManager.java, FailureAgent.java).                            *)
(***************************************************************************)
THEOREM ReplicasGetInPlace == Sequential => (Spec => []ReplicasInPlace)
<1>1. TypeInv /\ PlaceInv => ReplicasInPlace
  <2> SUFFICES ASSUME TypeInv, PlaceInv, Quiet, NEW n \in up, NEW m \in up, NEW f \in local[n]
               PROVE  /\ replica[m][f] = IF m = Target(n, f) THEN "whole" ELSE "none"
                      /\ m = Target(n, f) => log[m][f] = n
    BY DEF ReplicasInPlace
  <2>1. InPlace(n, f) /\ wire = {}
    BY QuietRests DEF NothingLeft
  <2> QED BY <2>1 DEF InPlace, Placed, Bound, About
<1>2. Init => TypeInv /\ PlaceInv
  BY InitTypes, InitPlace
<1> SUFFICES ASSUME Sequential PROVE Spec => []ReplicasInPlace
  OBVIOUS
<1>3. TypeInv /\ PlaceInv /\ [Next]_vars => (TypeInv /\ PlaceInv)'
  BY NextTypes, NextPlace
<1> QED BY <1>1, <1>2, <1>3, PTL DEF Spec

(***************************************************************************)
(* Then nobody keeps a replica of a file whose origin left, crashed or     *)
(* deleted it: what shutDown, ENTRY_DELETE and the failure agent delete,   *)
(* each in its own way, is all there is to delete.                         *)
(***************************************************************************)
THEOREM NobodyKeepsStrays == Sequential => (Spec => []NoStrays)
<1>1. TypeInv /\ PlaceInv => NoStrays
  <2> SUFFICES ASSUME TypeInv, PlaceInv, Quiet, NEW m \in up, NEW f \in Held(m)
               PROVE  \E n \in up : f \in local[n]
    BY DEF NoStrays
  <2>1. f \in File /\ ~ Nowhere(f)
    BY DEF Held, Nowhere
  <2>2. ~ Orphan(f)
    BY <2>1, QuietRests DEF NothingLeft
  <2> QED BY <2>2 DEF Orphan, PlaceInv, Homes
<1>2. Init => TypeInv /\ PlaceInv
  BY InitTypes, InitPlace
<1> SUFFICES ASSUME Sequential PROVE Spec => []NoStrays
  OBVIOUS
<1>3. TypeInv /\ PlaceInv /\ [Next]_vars => (TypeInv /\ PlaceInv)'
  BY NextTypes, NextPlace
<1> QED BY <1>1, <1>2, <1>3, PTL DEF Spec

(***************************************************************************)
(* In between, in every state of every startup, update, shutdown and edit, *)
(* a copy of each file exists or its origin has yet to send it; only after *)
(* a crash there may be none, until the agent has been round, or while a   *)
(* watcher or an agent waits for ever for a sync agent's write lock.       *)
(***************************************************************************)
THEOREM ReplicasSurvive == Sequential => (Spec => []ReplicaSurvives)
<1>1. Init => TypeInv /\ PlaceInv
  BY InitTypes, InitPlace
<1> SUFFICES ASSUME Sequential PROVE Spec => []ReplicaSurvives
  OBVIOUS
<1>2. TypeInv /\ PlaceInv => ReplicaSurvives
  BY PlaceSurvives
<1>3. TypeInv /\ PlaceInv /\ [Next]_vars => (TypeInv /\ PlaceInv)'
  BY NextTypes, NextPlace
<1> QED BY <1>1, <1>2, <1>3, PTL DEF Spec
===============================================================================
