-------------------------------- MODULE Monitor --------------------------------
(***************************************************************************)
(* The network monitor: four pages in a browser tab that poll the name     *)
(* server and the nodes (GetData.js) and draw what they have got           *)
(* (RefreshDashboard.js, RefreshNodeTable.js, RefreshFileManager.js,       *)
(* DrawNetwork.js).  One page is open at a time; what it knows is handed   *)
(* to the next one through the tab's sessionStorage.                       *)
(*                                                                         *)
(* JavaScript runs one callback at a time, together with the promise       *)
(* callbacks (.then) it makes ready, so each of these is one action:       *)
(* a timer, a click, the arrival of an answer.  The requests, and          *)
(* everything in module Cluster, run beside them.                          *)
(*                                                                         *)
(* Time is counted in polling intervals.  An answer is recent for Limit of *)
(* them: nodeOnline compares with max(2 * rate, 10 s), which are two       *)
(* intervals at the slowest rate of the slider.                            *)
(***************************************************************************)
EXTENDS Cluster, FileTable

CONSTANTS
    undefined,      \* no such key, no mapping; null is no answer yet
    Holds,          \* of each node: the folders and locks it reports
    Limit,          \* intervals for which an answer is recent
    Calls           \* the rounds of requests that can be under way: 1 .. MaxRounds

Page == {"Dashboard", "Nodes", "FileManager", "NetworkMap"}

ASSUME MonitorAssumption ==
    /\ \A S \in SUBSET Node : S # undefined /\ S # null
    /\ \A i \in Node \union 0 .. Limit : i # undefined
    /\ null # undefined
    /\ Limit \in Nat \ {0}
    /\ Calls \subseteq Nat /\ IsFiniteSet(Calls)
    /\ \A n \in Node : Holds[n].local \in Seq(File) /\ Holds[n].replica \in Seq(File)

VARIABLES
    page,               \* the page that is open
    loaded,             \* its script GetData.js has run to its end
    nameServerData,     \* the ids in the last Mapping, or undefined
    nodeData,           \* of each node: undefined, null, or its neighbours
    nodeLastPing,       \* of each node: undefined or the age of its last answer
    newDataAvailable,
    sessionStorage,     \* the copy that saveData makes of these four
    nameserverRequests, \* the counter
    nsCall,             \* and the request it counts
    nodeRequest,        \* the counter
    rounds,             \* and the rounds of requests it counts
    selectedID, details,    \* the node selected on the dashboard, and what is shown of it
    angles,             \* the nodes that have been given a place on the map
    sorting,              \* the column and direction the file table is sorted by
    shown               \* what is on the screen

data     == <<nameServerData, nodeData, nodeLastPing>>
requests == <<nameserverRequests, nsCall, nodeRequest, rounds>>
screen   == <<selectedID, details, angles, sorting, shown>>
tab      == <<page, loaded>>
monitor  == <<tab, data, newDataAvailable, sessionStorage, requests, screen>>
vars     == <<cluster, monitor>>

EventHere == Event /\ UNCHANGED <<registered, up, nsUp>>   \* one in the browser

Known(d, n) == d[n] # undefined /\ d[n] # null
Keys(d)     == {n \in Node : d[n] # undefined}
Ids(m)      == IF m = undefined THEN {} ELSE m
Nothing     == [n \in Node |-> undefined]

-------------------------------------------------------------------------------
(***************************************************************************)
(* Drawing.  A screen has a row (a table row, a card, a circle) per node   *)
(* or file, the status of each node, and whether drawing it ended in an    *)
(* exception.                                                              *)
(***************************************************************************)
Online(ping, n) == IF ping[n] = undefined THEN FALSE ELSE ping[n] < Limit

\* updateNodeTable: the nodes of the map, by name once they have answered.
DashboardScreen(m, d, ping) ==
    [rows   |-> [n \in Ids(m) |-> [named |-> Known(d, n)]],
     online |-> [n \in Ids(m) |-> Online(ping, n)],
     threw  |-> FALSE]

\* updateCards: createCard fails for a node that has not answered, which has no card.
NodesScreen(m, d, ping) ==
    LET cards == {n \in Ids(m) : Known(d, n)}
    IN  [rows   |-> [n \in cards |-> [named |-> TRUE]],
         online |-> [n \in cards |-> Online(ping, n)],
         threw  |-> FALSE]

(***************************************************************************)
(* updateFileTable, of the nodes' reports: rows up to an exception, or all *)
(* of them sorted.  (What a node reports does not change, so that all the  *)
(* screens there can be are a constant, a set that TLC computes once.)     *)
(***************************************************************************)
Reports(silent, known) == [n \in silent \union known |-> IF n \in known THEN Holds[n] ELSE null]

TableScreen(reports, by) ==
    [rows   |-> IF TableThrows(reports) THEN Table(reports) ELSE SortTable(Table(reports), by),
     online |-> <<>>,
     threw  |-> TableThrows(reports)]

FileScreens ==
    {[silent |-> silent, known |-> known, by |-> by,
      screen |-> TableScreen(Reports(silent, known), by)] :
        silent \in SUBSET Node, known \in SUBSET Node, by \in Order}

FileScreen(d, by) ==
    LET silent == {n \in Node : d[n] = null}
        known  == {n \in Node : Known(d, n)}
    IN  (CHOOSE s \in FileScreens : s.silent = silent /\ s.known = known /\ s.by = by).screen

(***************************************************************************)
(* draw: a circle for each node of nodeData, then the arcs to its          *)
(* neighbours, node by node.  A neighbour that never had a place ends it.  *)
(***************************************************************************)
MapScreen(d, ping, places) ==
    LET wild == {n \in Keys(d) : Known(d, n) /\ ~ d[n] \subseteq places}
    IN  [rows   |-> [n \in Keys(d) |-> [arcs |-> Known(d, n) /\ \A k \in wild : n < k]],
         online |-> [n \in Keys(d) |-> Known(d, n) /\ Online(ping, n)],
         threw  |-> wild # {}]

Screen(p, m, d, ping, places, by) ==
    CASE p = "Dashboard"   -> DashboardScreen(m, d, ping)
      [] p = "Nodes"       -> NodesScreen(m, d, ping)
      [] p = "FileManager" -> FileScreen(d, by)
      [] p = "NetworkMap"  -> MapScreen(d, ping, places)

\* updateDetailsTable: dashes, here {}, unless the selected node has answered.
Details(d, id) == IF id = undefined \/ ~ Known(d, id) THEN {} ELSE d[id]

(***************************************************************************)
(* The part of screenRefresh after its test.  The file manager takes the   *)
(* flag down after drawing, which an exception prevents; the others take   *)
(* it down first.                                                          *)
(***************************************************************************)
FlagAfter(p, flag, d) == p = "FileManager" /\ flag /\ FileScreen(d, FirstOrder).threw

Draw(p, m, d, ping, places, by, id) ==
    LET located == IF p = "NetworkMap" THEN places \union Keys(d) ELSE places
    IN  /\ angles' = located
        /\ shown' = Screen(p, m, d, ping, located, by)
        /\ details' = Details(d, id)

-------------------------------------------------------------------------------
(***************************************************************************)
(* Storing what arrives.                                                   *)
(***************************************************************************)
Saved(m, d, ping, flag) == [mapping |-> m, nodes |-> d, pings |-> ping, flag |-> flag]

Store(m, d, ping, flagSaved, flag) ==
    /\ nameServerData' = m /\ nodeData' = d /\ nodeLastPing' = ping
    /\ sessionStorage' = Saved(m, d, ping, flagSaved)
    /\ newDataAvailable' = flag

\* updateNS without data: everything is forgotten.
StoreNothing == Store(undefined, Nothing, Nothing, TRUE, TRUE)

(***************************************************************************)
(* updateNS with a mapping m: nodes that are not in it are forgotten, new  *)
(* ones get null and count as heard of now.                                *)
(***************************************************************************)
StoreMapping(m) ==
    Store(m,
          [n \in Node |-> IF n \notin m THEN undefined
                          ELSE IF nodeData[n] = undefined THEN null ELSE nodeData[n]],
          [n \in Node |-> IF n \notin m THEN undefined
                          ELSE IF nodeData[n] = undefined THEN 0 ELSE nodeLastPing[n]],
          TRUE, TRUE)

\* Bug in updateNodes: answers are stored without asking whether the node is known.
StoreAnswersBlindly(got) ==
    Store(nameServerData,
          [n \in Node |-> IF got[n] # undefined THEN got[n] ELSE nodeData[n]],
          [n \in Node |-> IF got[n] # undefined THEN 0 ELSE nodeLastPing[n]],
          newDataAvailable, TRUE)

\* Bug in updateNodes: what has arrived is not announced.
StoreAnswersQuietly(got) ==
    Store(nameServerData,
          [n \in Node |-> IF got[n] # undefined /\ nodeData[n] # undefined
                          THEN got[n] ELSE nodeData[n]],
          [n \in Node |-> IF got[n] # undefined /\ nodeData[n] # undefined
                          THEN 0 ELSE nodeLastPing[n]],
          newDataAvailable, newDataAvailable)

(***************************************************************************)
(* updateNodes when all requests of a round have ended: answers count for  *)
(* nodes that are still known.  The flag is raised after saving.           *)
(***************************************************************************)
StoreAnswers(got) ==
    Store(nameServerData,
          [n \in Node |-> IF got[n] # undefined /\ nodeData[n] # undefined
                          THEN got[n] ELSE nodeData[n]],
          [n \in Node |-> IF got[n] # undefined /\ nodeData[n] # undefined
                          THEN 0 ELSE nodeLastPing[n]],
          newDataAvailable, TRUE)

-------------------------------------------------------------------------------
(***************************************************************************)
(* Asking.  A round of requests: the nodes that have not answered yet, and *)
(* the answers; got[n] is undefined without one.                           *)
(***************************************************************************)
Idle     == [asked |-> {}, got |-> Nothing]
NoCall   == [state |-> "none", map |-> {}]
Free(k)  == rounds[k] = Idle

\* Bug in getNodeData: three requests to each node may be pending before the next ones.
MayAskLoose(ips) == ips # {} /\ nodeRequest <= 3 * Cardinality(ips)

\* getNodeData asks all nodes of the mapping unless too many requests are pending.
MayAsk(ips) == ips # {} /\ nodeRequest <= 2 * Cardinality(ips)

\* Bug in getNodeData: the counter is raised once for all the requests of a round.
AskNodesOnce(ips) ==
    \E k \in Calls :
        /\ Free(k) /\ \A j \in Calls : Free(j) => k <= j
        /\ rounds' = [rounds EXCEPT ![k] = [asked |-> ips, got |-> Nothing]]
        /\ nodeRequest' = nodeRequest + 1

AskNodes(ips) ==
    \E k \in Calls :
        /\ Free(k) /\ \A j \in Calls : Free(j) => k <= j
        /\ rounds' = [rounds EXCEPT ![k] = [asked |-> ips, got |-> Nothing]]
        /\ nodeRequest' = nodeRequest + Cardinality(ips)

(***************************************************************************)
(* updateData: updateNS, which takes a request that is still pending for a *)
(* name server without data, and updateNodes, which uses the mapping of    *)
(* before.  When it is called, intervals more have passed; flag is         *)
(* newDataAvailable when the promise callbacks run.  On a page whose       *)
(* script was aborted, getNameserverData and getNodeData are never         *)
(* defined: nothing is asked and nothing is stored.                        *)
(***************************************************************************)
Older(ping, intervals) ==
    [n \in Node |-> IF ping[n] = undefined \/ intervals = 0 THEN ping[n]
                    ELSE IF ping[n] < Limit THEN ping[n] + 1 ELSE Limit]

TimePasses(intervals, flag) ==
    /\ nodeLastPing' = Older(nodeLastPing, intervals)
    /\ newDataAvailable' = flag
    /\ sessionStorage' = [sessionStorage EXCEPT !.pings = Older(@, intervals)]
    /\ UNCHANGED <<nameServerData, nodeData>>

UpdateNS(intervals, flag, refused) ==
    \/ /\ nameserverRequests > 0
       /\ StoreNothing
       /\ UNCHANGED <<nameserverRequests, nsCall>>
    \/ /\ nameserverRequests = 0
       /\ nameserverRequests' = 1
       /\ nsCall' = [state |-> "asked", map |-> {}]
       /\ \/ /\ refused     \* getNodeData gave null: saved and flagged all the same
             /\ Store(nameServerData, nodeData, Older(nodeLastPing, intervals), flag, TRUE)
          \/ /\ ~ refused
             /\ TimePasses(intervals, flag)

UpdateNodes ==
    \/ /\ nameServerData # undefined /\ MayAsk(Ids(nameServerData))
       /\ AskNodes(Ids(nameServerData))
    \/ /\ nameServerData = undefined \/ ~ MayAsk(Ids(nameServerData))
       /\ UNCHANGED <<nodeRequest, rounds>>

UpdateData(intervals, flag) ==
    \/ /\ loaded
       /\ UpdateNS(intervals, flag, nameServerData # undefined /\ ~ MayAsk(Ids(nameServerData)))
       /\ UpdateNodes
    \/ /\ ~ loaded
       /\ TimePasses(intervals, flag)
       /\ UNCHANGED requests

(***************************************************************************)
(* The timers.  A polling interval may be over before every request of the *)
(* intervals before it has ended.                                          *)
(***************************************************************************)
InTime == nsCall = NoCall /\ \A k \in Calls : Free(k)

Interval ==
    /\ \/ InTime /\ UNCHANGED cluster
       \/ ~ InTime /\ EventHere
    /\ UpdateData(1, newDataAvailable)
    /\ UNCHANGED <<tab, screen>>

DrawCurrent ==
    Draw(page, nameServerData, nodeData, nodeLastPing, angles, sorting, selectedID)

ScreenRefresh ==
    /\ newDataAvailable
    /\ newDataAvailable' = FlagAfter(page, TRUE, nodeData)
    /\ DrawCurrent
    /\ UNCHANGED <<cluster, data, sessionStorage, requests, selectedID, sorting, tab>>

-------------------------------------------------------------------------------
(***************************************************************************)
(* The requests end.  A fetch fails when nobody listens.                   *)
(***************************************************************************)
NameServerAnswers ==
    /\ nsCall.state = "asked" /\ nsUp
    /\ nsCall' = [state |-> "answered", map |-> registered]
    /\ UNCHANGED <<cluster, data, newDataAvailable, sessionStorage,
                   nameserverRequests, nodeRequest, rounds, screen, tab>>

CallEnds ==
    /\ nameserverRequests' = nameserverRequests - 1
    /\ nsCall' = NoCall
    /\ UNCHANGED <<cluster, nodeRequest, rounds, screen, tab>>

MappingArrives == nsCall.state = "answered" /\ StoreMapping(nsCall.map) /\ CallEnds
NoMappingArrives == nsCall.state = "asked" /\ ~ nsUp /\ StoreNothing /\ CallEnds

\* Bug in getNodeData: a failed request is not taken off the counter.
EndRequestCounted(k, n, answer) ==
    LET r == [asked |-> rounds[k].asked \ {n}, got |-> [rounds[k].got EXCEPT ![n] = answer]]
    IN  /\ nodeRequest' = IF answer = undefined THEN nodeRequest ELSE nodeRequest - 1
        /\ \/ /\ r.asked # {}
              /\ rounds' = [rounds EXCEPT ![k] = r]
              /\ UNCHANGED <<data, newDataAvailable, sessionStorage>>
           \/ /\ r.asked = {}
              /\ rounds' = [rounds EXCEPT ![k] = Idle]
              /\ StoreAnswers(r.got)

(***************************************************************************)
(* Promise.all: nothing is stored before the last request of the round.    *)
(***************************************************************************)
EndRequest(k, n, answer) ==
    LET r == [asked |-> rounds[k].asked \ {n}, got |-> [rounds[k].got EXCEPT ![n] = answer]]
    IN  /\ nodeRequest' = nodeRequest - 1
        /\ \/ /\ r.asked # {}
              /\ rounds' = [rounds EXCEPT ![k] = r]
              /\ UNCHANGED <<data, newDataAvailable, sessionStorage>>
           \/ /\ r.asked = {}
              /\ rounds' = [rounds EXCEPT ![k] = Idle]
              /\ StoreAnswers(r.got)

NodeAnswers(k, n) ==
    /\ n \in rounds[k].asked
    /\ \/ n \in up /\ EndRequest(k, n, Neighbours(n))
       \/ n \notin up /\ EndRequest(k, n, undefined)
    /\ UNCHANGED <<cluster, nameserverRequests, nsCall, screen, tab>>

-------------------------------------------------------------------------------
(***************************************************************************)
(* The user.  The refresh button polls and draws; on the Nodes page it     *)
(* draws in any case.  The drawing comes first: what updateData stores     *)
(* without asking is a promise callback.                                   *)
(***************************************************************************)
ClickRefresh ==
    /\ EventHere
    /\ \/ /\ newDataAvailable \/ page = "Nodes"
          /\ DrawCurrent
          /\ UpdateData(0, FlagAfter(page, newDataAvailable, nodeData))
       \/ /\ ~ newDataAvailable /\ page # "Nodes"
          /\ UpdateData(0, newDataAvailable)
          /\ UNCHANGED <<details, angles, shown>>
    /\ UNCHANGED <<selectedID, sorting, tab>>

\* A click on a row of the dashboard's table.
SelectNode(n) ==
    /\ page = "Dashboard" /\ n \in DOMAIN shown.rows /\ EventHere
    /\ selectedID' = n /\ details' = Details(nodeData, n)
    /\ UNCHANGED <<data, newDataAvailable, sessionStorage, requests,
                   angles, sorting, shown, tab>>

\* A click on a column of the file table, which sorts the rows where they are.
SortBy(col) ==
    /\ page = "FileManager" /\ EventHere
    /\ sorting' = ClickHeader(sorting, col)
    /\ shown' = [shown EXCEPT !.rows = SortTable(@, sorting')]
    /\ UNCHANGED <<data, newDataAvailable, sessionStorage, requests,
                   selectedID, details, angles, tab>>

(***************************************************************************)
(* terminateNode and shutdownNode, the buttons of a card: a DELETE to the  *)
(* node, unless it has been forgotten in the meantime (a TypeError).  The  *)
(* node exits, in the second case after it has deregistered.               *)
(***************************************************************************)
TerminateNode(n) ==
    /\ page = "Nodes" /\ n \in DOMAIN shown.rows /\ Known(nodeData, n)
    /\ Crash(n)
    /\ UNCHANGED monitor

ShutdownNode(n) ==
    /\ page = "Nodes" /\ n \in DOMAIN shown.rows /\ Known(nodeData, n)
    /\ nsUp /\ n \in up /\ Change
    /\ up' = up \ {n} /\ registered' = registered \ {n}
    /\ UNCHANGED monitor

(***************************************************************************)
(* Another page, or the same one again: the requests of the old page are   *)
(* aborted, load() takes what saveData stored, and the page is drawn in    *)
(* any case.  The timers run by then.  An exception of this first drawing  *)
(* aborts the script of the page.                                          *)
(***************************************************************************)
OpenPage(p) ==
    LET s == sessionStorage
    IN  /\ EventHere
        /\ page' = p
        /\ nameServerData' = s.mapping /\ nodeData' = s.nodes /\ nodeLastPing' = s.pings
        /\ newDataAvailable' = FlagAfter(p, s.flag, s.nodes)
        /\ Draw(p, s.mapping, s.nodes, s.pings, {}, FirstOrder, undefined)
        /\ loaded' = ~ shown'.threw
        /\ selectedID' = undefined /\ sorting' = FirstOrder
        /\ nameserverRequests' = 0 /\ nsCall' = NoCall
        /\ nodeRequest' = 0 /\ rounds' = [k \in Calls |-> Idle]
        /\ UNCHANGED sessionStorage

-------------------------------------------------------------------------------
(***************************************************************************)
(* A tab in which the monitor has not been used before: index.html goes to *)
(* the dashboard.                                                          *)
(***************************************************************************)
Init ==
    /\ ClusterInit
    /\ page = "Dashboard" /\ loaded = TRUE
    /\ nameServerData = undefined /\ nodeData = Nothing /\ nodeLastPing = Nothing
    /\ newDataAvailable = FALSE
    /\ sessionStorage = Saved(undefined, Nothing, Nothing, TRUE)
    /\ nameserverRequests = 0 /\ nsCall = NoCall
    /\ nodeRequest = 0 /\ rounds = [k \in Calls |-> Idle]
    /\ selectedID = undefined /\ details = {} /\ angles = {} /\ sorting = FirstOrder
    /\ shown = Screen(page, undefined, Nothing, Nothing, {}, FirstOrder)

NameServerCall == NameServerAnswers \/ MappingArrives \/ NoMappingArrives

User ==
    \/ ClickRefresh
    \/ \E n \in Node : SelectNode(n) \/ TerminateNode(n) \/ ShutdownNode(n)
    \/ \E col \in 0 .. 4 : SortBy(col)
    \/ \E p \in Page : OpenPage(p)

Next ==
    \/ ClusterNext /\ UNCHANGED monitor
    \/ Interval
    \/ ScreenRefresh
    \/ NameServerCall
    \/ \E k \in Calls, n \in Node : NodeAnswers(k, n)
    \/ User

Spec == Init /\ [][Next]_vars

(***************************************************************************)
(* The browser runs its timers and ends every request, with an answer or   *)
(* without; nothing forces the user, the nodes or the name server.         *)
(***************************************************************************)
Fairness ==
    /\ WF_vars(Interval) /\ WF_vars(ScreenRefresh)
    /\ WF_vars(NameServerCall)
    /\ \A n \in Node : WF_vars(\E k \in Calls : NodeAnswers(k, n))

FairSpec == Spec /\ Fairness

-------------------------------------------------------------------------------
(***************************************************************************)
(* The type invariant.                                                     *)
(***************************************************************************)
Mappings == {undefined} \union SUBSET Node
Answers  == [Node -> {undefined} \union SUBSET Node]
NodeData == [Node -> {undefined, null} \union SUBSET Node]
Pings    == [Node -> {undefined} \union 0 .. Limit]

DataTypeOK ==
    /\ nameServerData \in Mappings /\ nodeData \in NodeData /\ nodeLastPing \in Pings
    /\ newDataAvailable \in BOOLEAN
    /\ sessionStorage \in [mapping : Mappings, nodes : NodeData, pings : Pings, flag : BOOLEAN]

RequestsTypeOK ==
    /\ nameserverRequests \in Nat /\ nodeRequest \in Nat
    /\ nsCall \in [state : {"none", "asked", "answered"}, map : SUBSET Node]
    /\ rounds \in [Calls -> [asked : SUBSET Node, got : Answers]]

ScreenTypeOK ==
    /\ page \in Page /\ loaded \in BOOLEAN
    /\ selectedID \in {undefined} \union Node /\ details \subseteq Node
    /\ angles \subseteq Node /\ sorting \in Order

TypeOK == ClusterTypeOK /\ DataTypeOK /\ RequestsTypeOK /\ ScreenTypeOK

(***************************************************************************)
(* The page keeps data of exactly the nodes that are in the mapping it     *)
(* got last, in whichever order the answers of older rounds come in: no    *)
(* late answer brings back a node that has left.  And what another page    *)
(* of the tab would load is what this page has.                            *)
(***************************************************************************)
KnowsTheMapping ==
    /\ Keys(nodeData) = Ids(nameServerData)
    /\ Keys(nodeLastPing) = Ids(nameServerData)
    /\ sessionStorage.mapping = nameServerData
    /\ sessionStorage.nodes = nodeData
    /\ sessionStorage.pings = nodeLastPing

\* The requests to nodes that have not ended.
Pending == {kn \in Calls \X Node : kn[2] \in rounds[kn[1]].asked}

(***************************************************************************)
(* "limit pending requests" (GetData.js:2): the counters count what is     *)
(* pending, which is at most one request to the name server and, to the    *)
(* nodes, at most three times as many as there are nodes, however often    *)
(* the user clicks and however late the answers come.                      *)
(***************************************************************************)
RequestsBounded ==
    /\ nameserverRequests = IF nsCall = NoCall THEN 0 ELSE 1
    /\ nodeRequest = Cardinality(Pending)
    /\ nodeRequest <= 3 * Cardinality(Node)

(***************************************************************************)
(* Unless newDataAvailable announces a redraw, the screen shows what the   *)
(* page knows, the selected node's details included, and the file table is *)
(* in the order the user asked for.  (The status of a node is as of the    *)
(* last redraw: it is a matter of time.)                                   *)
(***************************************************************************)
ScreenIsCurrent ==
    ~ newDataAvailable =>
        LET now == Screen(page, nameServerData, nodeData, nodeLastPing, angles, sorting)
        IN  /\ shown.threw = now.threw
            /\ details = Details(nodeData, selectedID)
            /\ IF page = "FileManager"
               THEN /\ ToSet(shown.rows) = ToSet(now.rows)
                    /\ shown.threw \/ Disorders(shown.rows, sorting) = {}
               ELSE shown.rows = now.rows

(***************************************************************************)
(* When nothing more happens to the cluster and answers are in time, every *)
(* page whose first drawing succeeded comes to show the name server's      *)
(* nodes and whether they answer; and when all of them are set up, all     *)
(* arcs of the ring and all files.  With the name server gone for good,    *)
(* the pages come to be empty.  No later exception keeps a page from it.   *)
(* (One whose first drawing failed asks nobody again, whatever happens:    *)
(* GetData.js calls screenRefresh before it defines what asks.)            *)
(***************************************************************************)
StatusShown == \A n \in DOMAIN shown.rows : shown.online[n] <=> n \in up

RingShown ==
    CASE page = "Dashboard" ->
             DOMAIN shown.rows = registered /\ StatusShown /\ \A n \in up : shown.rows[n].named
      [] page = "Nodes" ->
             up \subseteq DOMAIN shown.rows /\ DOMAIN shown.rows \subseteq registered /\ StatusShown
      [] page = "NetworkMap" ->
             /\ DOMAIN shown.rows = registered /\ StatusShown
             /\ registered = up => \A n \in up : shown.rows[n].arcs
      [] page = "FileManager" ->
             registered = up =>
                 /\ ~ shown.threw
                 /\ \E s \in FileScreens :
                        /\ s.silent = {} /\ s.known = registered
                        /\ ToSet(shown.rows) = ToSet(s.screen.rows)

ShowsTheRing == <>[](loaded => IF nsUp THEN RingShown ELSE DOMAIN shown.rows = {})
===============================================================================
