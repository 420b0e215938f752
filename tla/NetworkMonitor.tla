----------------------------- MODULE NetworkMonitor -----------------------------
(***************************************************************************)
(* The first version of the monitor, a single page (NetworkMonitor.html,   *)
(* NetworkMonitor.js): a status table, a table of nodes, and a table of    *)
(* details of the node that was clicked last.  It keeps the ids of the     *)
(* nodes in the table itself: the timer of the name server rewrites the    *)
(* rows, the timer of the nodes reads from them whom to ask and, when the  *)
(* answers are there, writes into them.                                    *)
(*                                                                         *)
(* As in module Monitor, an action is a callback of the browser, and time  *)
(* is counted in intervals of the nodes' timer.                            *)
(***************************************************************************)
EXTENDS Cluster, SequencesExt

CONSTANTS
    undefined,      \* no answer, no such key
    Unknown,        \* the id in the row that stands for "no nodes"
    Limit,          \* intervals after which a node gets a warning
    Calls           \* the requests, or rounds, that can be under way: 1 .. MaxRounds

ASSUME NetworkMonitorAssumption ==
    /\ undefined # Unknown
    /\ \A n \in Node : n # undefined /\ n # Unknown
    /\ \A S \in SUBSET Node : S # undefined
    /\ \A i \in 0 .. Limit : i # undefined
    /\ Limit \in Nat \ {0} /\ Calls \subseteq Nat

VARIABLES
    statusTable,        \* "ONLINE" or "OFFLINE"
    nodesTable,         \* its rows: id, whether named, status, the handler's index
    nodeData,           \* of each node: undefined or its neighbours
    nodeLastPing,       \* of each node: undefined or the age of its last answer
    selectedNode,
    detailsTable,       \* N/A, here undefined, or what it says of the node
    fetches,            \* requests to the name server that have not ended
    rounds              \* rounds of requests to the nodes that have not ended

tables == <<statusTable, nodesTable, nodeData, nodeLastPing, selectedNode, detailsTable>>
vars == <<cluster, tables, fetches, rounds>>

Nothing   == [n \in Node |-> undefined]
NoFetch   == [state |-> "none", map |-> <<>>]
NoRound   == [ids |-> <<>>, asked |-> {}, got |-> Nothing]
EventHere == Event /\ UNCHANGED <<registered, up, nsUp>>

-------------------------------------------------------------------------------
(***************************************************************************)
(* The table of nodes.                                                     *)
(***************************************************************************)
Placeholder(i) == [id |-> Unknown, named |-> FALSE, status |-> "Offline", click |-> i]

Old(ping, n) == IF ping[n] = undefined THEN FALSE ELSE ping[n] >= Limit

NewRow(n, i) == [id |-> n, named |-> FALSE, status |-> "OK", click |-> i]

OverwrittenRow(n, click) ==
    [id |-> n, named |-> nodeData[n] # undefined,
     status |-> IF Old(nodeLastPing, n) THEN "WARNING" ELSE "OK", click |-> click]

\* Bug in nodesTableUpdate: a row that is added gets no handler of its own.
UpdatedTableNoHandlers(map) ==
    LET rows == nodesTable
        over == [i \in DOMAIN rows \intersect DOMAIN map |-> OverwrittenRow(map[i], rows[i].click)]
    IN  IF map = <<>> THEN <<Placeholder(1)>>
        ELSE [i \in DOMAIN map |->
                 IF i \in DOMAIN rows THEN over[i] ELSE NewRow(map[i], Len(rows))]

(***************************************************************************)
(* nodesTableUpdate with the mapping, in the order of the ids: rows are    *)
(* overwritten, deleted at the end, or added.  The last row stays, as a    *)
(* placeholder, when there are no nodes.  addRowHandlers runs whenever     *)
(* the number of rows changes.                                             *)
(***************************************************************************)
UpdatedTable(map) ==
    LET rows  == nodesTable
        click(i) == IF Len(rows) = Len(map) THEN rows[i].click ELSE i
    IN  IF map = <<>> THEN <<Placeholder(IF Len(rows) = 1 THEN rows[1].click ELSE 1)>>
        ELSE [i \in DOMAIN map |->
                 IF i \in DOMAIN rows THEN OverwrittenRow(map[i], click(i))
                                      ELSE NewRow(map[i], i)]

\* nodesTableTimeout: the rows after the first are deleted.
EmptiedTable == <<Placeholder(IF Len(nodesTable) = 1 THEN nodesTable[1].click ELSE 1)>>

(***************************************************************************)
(* updateDetails, for the first row with the selected id.                  *)
(***************************************************************************)
RowsOf(rows, id) == {i \in DOMAIN rows : rows[i].id = id}

DetailsOf(rows, i, d) ==
    [node |-> rows[i].id, status |-> rows[i].status, neighbours |-> d[rows[i].id]]

Details(rows, d) ==
    IF selectedNode \notin Node \/ RowsOf(rows, selectedNode) = {} THEN undefined
    ELSE IF d[selectedNode] = undefined THEN undefined
    ELSE DetailsOf(rows, Least(RowsOf(rows, selectedNode)), d)

-------------------------------------------------------------------------------
(***************************************************************************)
(* updateNodeData after its await.  Data of nodes that were not in the     *)
(* table when the round was begun are forgotten.  A node that has not      *)
(* answered for long gets its warning in the row where it was then.        *)
(***************************************************************************)
\* Bug in updateNodeData: one request that fails makes the whole round fail.
FinishWhole(ping, ids, got) ==
    LET whole == \A n \in ToSet(ids) \ {Unknown} : got[n] # undefined
    IN  /\ nodeData' = IF whole THEN got ELSE nodeData
        /\ nodeLastPing' = IF whole
                           THEN [n \in Node |-> IF n \in ToSet(ids) THEN 0 ELSE undefined]
                           ELSE ping
        /\ nodesTable' = nodesTable
        /\ detailsTable' = Details(nodesTable, nodeData')

Finish(ping, ids, got) ==
    LET newData == [n \in Node |-> IF n \notin ToSet(ids) THEN undefined
                                   ELSE IF got[n] # undefined THEN got[n] ELSE nodeData[n]]
        newPing == [n \in Node |-> IF n \notin ToSet(ids) THEN undefined
                                   ELSE IF got[n] # undefined \/ ping[n] = undefined THEN 0
                                   ELSE ping[n]]
        late(i) == i \in DOMAIN ids /\ ids[i] # Unknown /\ Old(newPing, ids[i])
        rows == [i \in DOMAIN nodesTable |->
                    IF late(i) THEN [nodesTable[i] EXCEPT !.status = "WARNING"]
                    ELSE nodesTable[i]]
    IN  /\ nodeData' = newData /\ nodeLastPing' = newPing
        /\ nodesTable' = rows
        /\ detailsTable' = Details(rows, newData)

(***************************************************************************)
(* The timer of the nodes, and the end of a request of a round.  The rows  *)
(* are read before the requests are made; the placeholder is not asked, so *)
(* that its round ends at once.                                            *)
(***************************************************************************)
Older(ping) ==
    [n \in Node |-> IF ping[n] = undefined THEN undefined
                    ELSE IF ping[n] < Limit THEN ping[n] + 1 ELSE Limit]

UpdateNodeData ==
    LET ids  == [i \in DOMAIN nodesTable |-> nodesTable[i].id]
        free == {k \in Calls : rounds[k] = NoRound}
    IN  /\ \/ free = Calls /\ UNCHANGED cluster
           \/ free # Calls /\ EventHere
        /\ \/ /\ ids = <<Unknown>>
              /\ Finish(Older(nodeLastPing), ids, Nothing)
              /\ UNCHANGED rounds
           \/ /\ ids # <<Unknown>> /\ free # {}
              /\ rounds' = [rounds EXCEPT ![Least(free)] =
                                [ids |-> ids, asked |-> ToSet(ids), got |-> Nothing]]
              /\ nodeLastPing' = Older(nodeLastPing)
              /\ UNCHANGED <<nodesTable, nodeData, detailsTable>>
        /\ UNCHANGED <<statusTable, selectedNode, fetches>>

NodeAnswers(k, n) ==
    LET answer == IF n \in up THEN Neighbours(n) ELSE undefined
        r == [rounds[k] EXCEPT !.asked = @ \ {n}, !.got[n] = answer]
    IN  /\ n \in rounds[k].asked
        /\ \/ /\ r.asked # {}
              /\ rounds' = [rounds EXCEPT ![k] = r]
              /\ UNCHANGED <<nodesTable, nodeData, nodeLastPing, detailsTable>>
           \/ /\ r.asked = {}
              /\ rounds' = [rounds EXCEPT ![k] = NoRound]
              /\ Finish(nodeLastPing, r.ids, r.got)
        /\ UNCHANGED <<cluster, statusTable, selectedNode, fetches>>

(***************************************************************************)
(* The timer of the name server.  There is no limit on pending requests,   *)
(* and their answers come in any order.                                    *)
(***************************************************************************)
UpdateNameServerData ==
    LET free == {k \in Calls : fetches[k] = NoFetch}
    IN  /\ \/ free = Calls /\ UNCHANGED cluster
           \/ free # Calls /\ free # {} /\ EventHere
        /\ fetches' = [fetches EXCEPT ![Least(free)] = [state |-> "asked", map |-> <<>>]]
        /\ UNCHANGED <<tables, rounds>>

\* The keys of a TreeMap, in order: there is one such sequence.
Listings(S) ==
    {s \in [1 .. Cardinality(S) -> S] : \A i, j \in DOMAIN s : i < j => s[i] < s[j]}

NameServerAnswers(k) ==
    /\ fetches[k].state = "asked" /\ nsUp
    /\ \E keys \in Listings(registered) :
           fetches' = [fetches EXCEPT ![k] = [state |-> "answered", map |-> keys]]
    /\ UNCHANGED <<cluster, tables, rounds>>

FetchEnds(k, status, rows) ==
    /\ fetches' = [fetches EXCEPT ![k] = NoFetch]
    /\ statusTable' = status /\ nodesTable' = rows
    /\ UNCHANGED <<cluster, nodeData, nodeLastPing, selectedNode, detailsTable, rounds>>

MappingArrives(k) ==
    fetches[k].state = "answered" /\ FetchEnds(k, "ONLINE", UpdatedTable(fetches[k].map))

NoMappingArrives(k) ==
    fetches[k].state = "asked" /\ ~ nsUp /\ FetchEnds(k, "OFFLINE", EmptiedTable)

(***************************************************************************)
(* A click on row i, which runs the handler that addRowHandlers gave it:   *)
(* updateDetailsEvent for this row, with the status of the row that had    *)
(* its index.                                                              *)
(***************************************************************************)
UpdateDetailsEvent(i) ==
    LET row == nodesTable[i]
        at  == nodesTable[row.click]
        known == IF row.id = Unknown THEN FALSE ELSE nodeData[row.id] # undefined
    IN  /\ EventHere
        /\ selectedNode' = row.id
        /\ detailsTable' =
               IF known THEN [node |-> row.id, status |-> at.status,
                              neighbours |-> nodeData[row.id]]
               ELSE undefined
        /\ UNCHANGED <<statusTable, nodesTable, nodeData, nodeLastPing, fetches, rounds>>

-------------------------------------------------------------------------------
PageInit ==
    /\ statusTable = "OFFLINE" /\ nodesTable = <<Placeholder(1)>>
    /\ nodeData = Nothing /\ nodeLastPing = Nothing
    /\ selectedNode = undefined /\ detailsTable = undefined
    /\ fetches = [k \in Calls |-> NoFetch] /\ rounds = [k \in Calls |-> NoRound]

Init == ClusterInit /\ PageInit

NameServerCall(k) == NameServerAnswers(k) \/ MappingArrives(k) \/ NoMappingArrives(k)

Next ==
    \/ ClusterNext /\ UNCHANGED <<tables, fetches, rounds>>
    \/ UpdateNameServerData
    \/ UpdateNodeData
    \/ \E k \in Calls : NameServerCall(k)
    \/ \E k \in Calls, n \in Node : NodeAnswers(k, n)
    \/ \E i \in DOMAIN nodesTable : UpdateDetailsEvent(i)

Spec == Init /\ [][Next]_vars

(***************************************************************************)
(* The browser runs its timers and ends every request.                     *)
(***************************************************************************)
Fairness ==
    /\ WF_vars(UpdateNameServerData) /\ WF_vars(UpdateNodeData)
    /\ WF_vars(\E k \in Calls : NameServerCall(k))
    /\ \A n \in Node : WF_vars(\E k \in Calls : NodeAnswers(k, n))

FairSpec == Spec /\ Fairness

-------------------------------------------------------------------------------
(***************************************************************************)
(* However the rows are overwritten, deleted and added, the table has the  *)
(* placeholder alone or the nodes of a mapping in order; a click on a row  *)
(* runs the handler of that row; and the details are those of the node     *)
(* that was selected.                                                      *)
(***************************************************************************)
TableIsWhole ==
    /\ \/ nodesTable[1].id = Unknown /\ Len(nodesTable) = 1
       \/ \A i \in DOMAIN nodesTable :
              /\ nodesTable[i].id # Unknown
              /\ \A j \in 1 .. i - 1 : nodesTable[j].id < nodesTable[i].id
    /\ \A i \in DOMAIN nodesTable : nodesTable[i].click = i
    /\ IF detailsTable = undefined THEN TRUE ELSE detailsTable.node = selectedNode

(***************************************************************************)
(* When nothing more happens to the cluster and answers are in time, the   *)
(* table comes to show the name server's nodes, with a warning for those   *)
(* that do not answer, and the details those of the selected node, if it   *)
(* is there.  With the name server gone for good, the table comes to be    *)
(* empty and the status offline.                                           *)
(***************************************************************************)
TableShown ==
    /\ statusTable = "ONLINE"
    /\ {nodesTable[i].id : i \in DOMAIN nodesTable} =
           IF registered = {} THEN {Unknown} ELSE registered
    /\ \A i \in DOMAIN nodesTable :
           LET row == nodesTable[i] IN
               row.id \in registered =>
                   IF row.id \in up THEN row.named /\ row.status = "OK"
                                    ELSE row.status = "WARNING"
    /\ IF selectedNode \in up
       THEN detailsTable = [node |-> selectedNode, status |-> "OK",
                            neighbours |-> Neighbours(selectedNode)]
       ELSE selectedNode \in registered \/ detailsTable = undefined

TableShowsTheRing ==
    <>[](IF nsUp THEN TableShown
         ELSE statusTable = "OFFLINE" /\ {nodesTable[i].id : i \in DOMAIN nodesTable} = {Unknown})
===============================================================================
