-------------------------- MODULE NetworkMonitorProofs ---------------------------
(***************************************************************************)
(* The rows of the first monitor page, for any number of nodes, requests   *)
(* and rounds: whatever the order in which the two timers' answers come,   *)
(* the table is that of one mapping.                                       *)
(***************************************************************************)
EXTENDS NetworkMonitor, RingOrderProofs, FiniteSetTheorems

Row == [id : Node \union {Unknown}, named : BOOLEAN,
        status : {"OK", "WARNING", "Offline"}, click : Nat]

Sorted(keys) == \A i, j \in DOMAIN keys : i < j => keys[i] < keys[j]

\* The mappings on their way are in order.
MapsInv ==
    /\ registered \subseteq Node
    /\ \A k \in Calls : fetches[k].map \in Seq(Node) /\ Sorted(fetches[k].map)
    /\ DOMAIN fetches = Calls

RowsInv == nodesTable \in Seq(Row) /\ nodesTable # << >>

Inv == MapsInv /\ RowsInv /\ TableIsWhole

\* The three parts of TableIsWhole.
IdsInOrder(rows) ==
    \/ rows[1].id = Unknown /\ Len(rows) = 1
    \/ \A i \in DOMAIN rows :
           rows[i].id # Unknown /\ \A j \in 1 .. i - 1 : rows[j].id < rows[i].id

OwnHandlers(rows) == \A i \in DOMAIN rows : rows[i].click = i

DetailsOfSelected ==
    IF detailsTable = undefined THEN TRUE ELSE detailsTable.node = selectedNode

LEMMA Whole == TableIsWhole <=> IdsInOrder(nodesTable) /\ OwnHandlers(nodesTable) /\ DetailsOfSelected
BY DEF TableIsWhole, IdsInOrder, OwnHandlers, DetailsOfSelected

-------------------------------------------------------------------------------
(***************************************************************************)
(* The operators on rows.                                                  *)
(***************************************************************************)
LEMMA Ids ==
    /\ Node \subseteq Nat /\ MaxId \in Nat /\ Node \subseteq 0 .. MaxId
    /\ Unknown \notin Node
<1>1. MaxId \in Nat /\ Node \subseteq 0 .. MaxId
  BY ClusterAssumption
<1>2. Node \subseteq Nat
  BY <1>1
<1>3. \A n \in Node : n # Unknown
  BY NetworkMonitorAssumption
<1> QED BY <1>1, <1>2, <1>3

LEMMA RowsMade ==
    ASSUME NEW n \in Node, NEW i \in Nat
    PROVE  /\ OverwrittenRow(n, i) \in Row /\ NewRow(n, i) \in Row
           /\ OverwrittenRow(n, i).id = n /\ OverwrittenRow(n, i).click = i
           /\ NewRow(n, i).id = n /\ NewRow(n, i).click = i
<1>1. OverwrittenRow(n, i).id = n /\ OverwrittenRow(n, i).click = i
  BY DEF OverwrittenRow
<1>2. NewRow(n, i).id = n /\ NewRow(n, i).click = i
  BY DEF NewRow
<1> DEFINE named == nodeData[n] # undefined
           status == IF Old(nodeLastPing, n) THEN "WARNING" ELSE "OK"
<1>3. OverwrittenRow(n, i) = [id |-> n, named |-> named, status |-> status, click |-> i]
  BY DEF OverwrittenRow
<1>4. named \in BOOLEAN
  OBVIOUS
<1>5. status \in {"OK", "WARNING", "Offline"}
  OBVIOUS
<1> HIDE DEF named, status
<1>6. OverwrittenRow(n, i) \in Row
  BY <1>3, <1>4, <1>5 DEF Row
<1>7. NewRow(n, i) \in Row
  BY DEF NewRow, Row
<1> QED BY <1>1, <1>2, <1>6, <1>7

LEMMA SequenceOf ==
    ASSUME NEW S, NEW n \in Nat, NEW s \in [1 .. n -> S]
    PROVE  s \in Seq(S) /\ Len(s) = n /\ DOMAIN s = 1 .. n
OBVIOUS

LEMMA SequenceFacts ==
    ASSUME NEW S, NEW s \in Seq(S)
    PROVE  /\ Len(s) \in Nat /\ DOMAIN s = 1 .. Len(s) /\ \A i \in DOMAIN s : s[i] \in S
           /\ s # << >> <=> Len(s) >= 1
OBVIOUS

LEMMA PlaceholderAlone ==
    ASSUME RowsInv, OwnHandlers(nodesTable), NEW c,
           c = IF Len(nodesTable) = 1 THEN nodesTable[1].click ELSE 1
    PROVE  /\ <<Placeholder(c)>> \in Seq(Row) /\ <<Placeholder(c)>> # << >>
           /\ IdsInOrder(<<Placeholder(c)>>) /\ OwnHandlers(<<Placeholder(c)>>)
<1>1. c = 1
  <2>1. DOMAIN nodesTable = 1 .. Len(nodesTable)
    BY DEF RowsInv
  <2> QED BY <2>1 DEF OwnHandlers
<1> DEFINE r == Placeholder(1)
<1>2. r \in Row /\ r.id = Unknown /\ r.click = 1
  BY DEF Placeholder, Row
<1> HIDE DEF r
<1>3. /\ <<r>> \in Seq(Row) /\ <<r>> # << >> /\ Len(<<r>>) = 1 /\ DOMAIN <<r>> = {1} /\ <<r>>[1] = r
  BY <1>2
<1>4. IdsInOrder(<<r>>) /\ OwnHandlers(<<r>>)
  BY <1>2, <1>3 DEF IdsInOrder, OwnHandlers
<1> QED BY <1>1, <1>3, <1>4 DEF r

LEMMA UpdatedIsWhole ==
    ASSUME RowsInv, OwnHandlers(nodesTable), NEW map \in Seq(Node), Sorted(map)
    PROVE  /\ UpdatedTable(map) \in Seq(Row) /\ UpdatedTable(map) # << >>
           /\ IdsInOrder(UpdatedTable(map)) /\ OwnHandlers(UpdatedTable(map))
<1>1. CASE map = << >>
  BY <1>1, PlaceholderAlone DEF UpdatedTable
<1>2. CASE map # << >>
  <2> DEFINE n == Len(map)
             click(i) == IF Len(nodesTable) = Len(map) THEN nodesTable[i].click ELSE i
             row(i) == IF i \in DOMAIN nodesTable THEN OverwrittenRow(map[i], click(i))
                                                  ELSE NewRow(map[i], i)
             rows == [i \in 1 .. n |-> row(i)]
  <2>1. n \in Nat /\ n >= 1 /\ DOMAIN map = 1 .. n /\ \A i \in 1 .. n : map[i] \in Node
    BY <1>2, SequenceFacts
  <2>2. UpdatedTable(map) = rows
    BY <1>2, <2>1 DEF UpdatedTable
  <2>3. ASSUME NEW i \in 1 .. n
        PROVE  row(i) \in Row /\ row(i).id = map[i] /\ row(i).click = i
    <3>1. i \in Nat /\ map[i] \in Node
      BY <2>1
    <3>2. i \in DOMAIN nodesTable => click(i) = i
      BY DEF OwnHandlers
    <3>3. CASE i \in DOMAIN nodesTable
      <4>1. row(i) = OverwrittenRow(map[i], i)
        BY <3>2, <3>3
      <4> HIDE DEF row
      <4> QED BY <3>1, <4>1, RowsMade
    <3>4. CASE i \notin DOMAIN nodesTable
      <4>1. row(i) = NewRow(map[i], i)
        BY <3>4
      <4> HIDE DEF row
      <4> QED BY <3>1, <4>1, RowsMade
    <3> QED BY <3>3, <3>4
  <2> HIDE DEF row, n
  <2>4. rows \in [1 .. n -> Row] /\ \A i \in 1 .. n : rows[i].id = map[i] /\ rows[i].click = i
    BY <2>3
  <2> HIDE DEF rows
  <2>5. rows \in Seq(Row) /\ Len(rows) = n /\ DOMAIN rows = 1 .. n /\ rows # << >>
    BY <2>1, <2>4, SequenceOf, SequenceFacts
  <2>6. OwnHandlers(rows)
    BY <2>4, <2>5 DEF OwnHandlers
  <2>7. ASSUME NEW i \in 1 .. n, NEW j \in 1 .. i - 1
        PROVE  rows[j].id < rows[i].id
    <3>1. j \in 1 .. n /\ j < i
      BY <2>1, <2>7
    <3> QED BY <2>1, <2>4, <3>1 DEF Sorted
  <2>8. IdsInOrder(rows)
    BY <2>1, <2>4, <2>5, <2>7, Ids DEF IdsInOrder
  <2> QED BY <2>2, <2>5, <2>6, <2>8
<1> QED BY <1>1, <1>2

\* A warning changes neither ids nor handlers.
LEMMA StatusOnly ==
    ASSUME RowsInv, NEW rows \in [DOMAIN nodesTable -> Row],
           \A i \in DOMAIN nodesTable :
               rows[i].id = nodesTable[i].id /\ rows[i].click = nodesTable[i].click
    PROVE  /\ rows \in Seq(Row) /\ rows # << >>
           /\ IdsInOrder(nodesTable) => IdsInOrder(rows)
           /\ OwnHandlers(nodesTable) => OwnHandlers(rows)
<1> DEFINE n == Len(nodesTable)
<1>1. n \in Nat /\ n >= 1 /\ DOMAIN nodesTable = 1 .. n
  BY SequenceFacts DEF RowsInv
<1> HIDE DEF n
<1>2. rows \in Seq(Row) /\ Len(rows) = n /\ DOMAIN rows = 1 .. n /\ rows # << >>
  BY <1>1, SequenceOf, SequenceFacts
<1>3. OwnHandlers(nodesTable) => OwnHandlers(rows)
  BY <1>1, <1>2 DEF OwnHandlers
<1>4. IdsInOrder(nodesTable) => IdsInOrder(rows)
  <2>1. CASE nodesTable[1].id = Unknown /\ Len(nodesTable) = 1
    BY <1>1, <1>2, <2>1 DEF IdsInOrder, n
  <2>2. CASE \A i \in DOMAIN nodesTable :
                 /\ nodesTable[i].id # Unknown
                 /\ \A j \in 1 .. i - 1 : nodesTable[j].id < nodesTable[i].id
    <3>1. ASSUME NEW i \in 1 .. n, NEW j \in 1 .. i - 1
          PROVE  rows[j].id < rows[i].id
      <4>1. j \in 1 .. n
        BY <1>1
      <4> QED BY <1>1, <2>2, <4>1
    <3> QED BY <1>1, <1>2, <2>2, <3>1 DEF IdsInOrder
  <2> QED BY <2>1, <2>2 DEF IdsInOrder
<1> QED BY <1>2, <1>3, <1>4

\* updateDetails shows the selected node, if it is in the table.
LEMMA DetailsSelected ==
    ASSUME NEW rows \in Seq(Row), NEW d
    PROVE  Details(rows, d) = undefined \/ Details(rows, d).node = selectedNode
<1>1. CASE selectedNode \notin Node \/ RowsOf(rows, selectedNode) = {}
  BY <1>1 DEF Details
<1>2. CASE selectedNode \in Node /\ RowsOf(rows, selectedNode) # {}
  <2>1. RowsOf(rows, selectedNode) \subseteq Nat
    BY SequenceFacts DEF RowsOf
  <2>2. Least(RowsOf(rows, selectedNode)) \in RowsOf(rows, selectedNode)
    BY <1>2, <2>1, LeastExists
  <2>3. rows[Least(RowsOf(rows, selectedNode))].id = selectedNode
    BY <2>2 DEF RowsOf
  <2> QED BY <1>2, <2>3 DEF Details, DetailsOf
<1> QED BY <1>1, <1>2

-------------------------------------------------------------------------------
(***************************************************************************)
(* The steps.                                                              *)
(***************************************************************************)
LEMMA FinishKeepsTable ==
    ASSUME RowsInv, TableIsWhole, NEW ping, NEW ids, NEW got, Finish(ping, ids, got),
           selectedNode' = selectedNode
    PROVE  RowsInv' /\ TableIsWhole'
<1>1. /\ DOMAIN nodesTable' = DOMAIN nodesTable
      /\ nodesTable' = [i \in DOMAIN nodesTable |-> nodesTable'[i]]
      /\ \A i \in DOMAIN nodesTable : \/ nodesTable'[i] = nodesTable[i]
                                      \/ nodesTable'[i] = [nodesTable[i] EXCEPT !.status = "WARNING"]
  BY DEF Finish
<1>2. detailsTable' = Details(nodesTable', nodeData')
  BY DEF Finish
<1>3. \A i \in DOMAIN nodesTable : nodesTable[i] \in Row
  BY SequenceFacts DEF RowsInv
<1>4. \A i \in DOMAIN nodesTable :
          /\ nodesTable'[i] \in Row
          /\ nodesTable'[i].id = nodesTable[i].id /\ nodesTable'[i].click = nodesTable[i].click
  BY <1>1, <1>3 DEF Row
<1>5. nodesTable' \in [DOMAIN nodesTable -> Row]
  BY <1>1, <1>4
<1>6. IdsInOrder(nodesTable) /\ OwnHandlers(nodesTable)
  BY Whole
<1>7. /\ nodesTable' \in Seq(Row) /\ nodesTable' # << >>
      /\ IdsInOrder(nodesTable') /\ OwnHandlers(nodesTable')
  BY <1>4, <1>5, <1>6, StatusOnly
<1>8. DetailsOfSelected'
  BY <1>2, <1>7, DetailsSelected DEF DetailsOfSelected
<1>9. TableIsWhole'
  BY <1>7, <1>8 DEF TableIsWhole, IdsInOrder, OwnHandlers, DetailsOfSelected
<1> QED BY <1>7, <1>9 DEF RowsInv

LEMMA TableKept ==
    ASSUME RowsInv, TableIsWhole, UNCHANGED <<nodesTable, detailsTable, selectedNode>>
    PROVE  RowsInv' /\ TableIsWhole'
BY DEF RowsInv, TableIsWhole

LEMMA MapsKept ==
    ASSUME MapsInv, UNCHANGED fetches, registered' \subseteq Node
    PROVE  MapsInv'
BY DEF MapsInv

LEMMA ClusterKeepsNodes ==
    ASSUME registered \subseteq Node, ClusterNext
    PROVE  registered' \subseteq Node
BY DEF ClusterNext, Register, SetUp, Crash, Deregister, Outage, Repair

LEMMA RoundsKeepInv ==
    ASSUME Inv, UpdateNodeData \/ \E k \in Calls, n \in Node : NodeAnswers(k, n)
    PROVE  Inv'
<1>1. /\ UNCHANGED <<fetches, selectedNode, registered>>
      /\ \/ UNCHANGED <<nodesTable, detailsTable>>
         \/ \E ping, ids, got : Finish(ping, ids, got)
  BY DEF UpdateNodeData, NodeAnswers, cluster, EventHere
<1>2. MapsInv'
  BY <1>1, MapsKept DEF Inv, MapsInv
<1>3. RowsInv' /\ TableIsWhole'
  BY <1>1, TableKept, FinishKeepsTable DEF Inv
<1> QED BY <1>2, <1>3 DEF Inv

\* A request to the name server begins, is answered or ends.
LEMMA FetchStep ==
    ASSUME MapsInv, NEW c, NEW keys \in Seq(Node), Sorted(keys), NEW state,
           fetches' = [fetches EXCEPT ![c] = [state |-> state, map |-> keys]],
           registered' = registered
    PROVE  MapsInv'
<1> DEFINE r == [state |-> state, map |-> keys]
<1>1. r.map = keys
  OBVIOUS
<1> HIDE DEF r
<1>2. fetches' = [fetches EXCEPT ![c] = r]
  BY DEF r
<1>3. DOMAIN fetches' = Calls /\ \A k \in Calls : fetches'[k] = r \/ fetches'[k] = fetches[k]
  BY <1>2 DEF MapsInv
<1>4. \A k \in Calls : fetches'[k].map \in Seq(Node) /\ Sorted(fetches'[k].map)
  BY <1>1, <1>3 DEF MapsInv
<1> QED BY <1>3, <1>4 DEF MapsInv

LEMMA EmptySorted == << >> \in Seq(Node) /\ Sorted(<< >>)
BY DEF Sorted

LEMMA ListingsSorted ==
    ASSUME NEW S, S \subseteq Node, NEW keys \in Listings(S)
    PROVE  keys \in Seq(Node) /\ Sorted(keys)
<1>1. IsFiniteSet(0 .. MaxId) /\ IsFiniteSet(Node)
  <2>1. IsFiniteSet(0 .. MaxId)
    BY Ids, FS_Interval
  <2> QED BY <2>1, Ids, FS_Subset
<1>2. Cardinality(S) \in Nat
  BY <1>1, FS_Subset, FS_CardinalityType
<1>3. keys \in [1 .. Cardinality(S) -> Node] /\ Sorted(keys)
  BY DEF Listings, Sorted
<1> QED BY <1>2, <1>3, SequenceOf

LEMMA NameServerKeepsInv ==
    ASSUME Inv, UpdateNameServerData \/ \E k \in Calls : NameServerCall(k)
    PROVE  Inv'
<1>1. CASE UpdateNameServerData
  <2>1. /\ UNCHANGED <<nodesTable, detailsTable, selectedNode, registered>>
        /\ \E c : fetches' = [fetches EXCEPT ![c] = [state |-> "asked", map |-> << >>]]
    BY <1>1 DEF UpdateNameServerData, tables, cluster, EventHere
  <2> QED BY <2>1, EmptySorted, FetchStep, TableKept DEF Inv
<1>2. ASSUME NEW k \in Calls, NameServerAnswers(k) PROVE Inv'
  <2>1. UNCHANGED <<nodesTable, detailsTable, selectedNode, registered>>
    BY <1>2 DEF NameServerAnswers, tables, cluster
  <2>2. PICK keys \in Listings(registered) :
            fetches' = [fetches EXCEPT ![k] = [state |-> "answered", map |-> keys]]
    BY <1>2 DEF NameServerAnswers
  <2>3. keys \in Seq(Node) /\ Sorted(keys)
    BY ListingsSorted DEF Inv, MapsInv
  <2>4. MapsInv'
    BY <2>1, <2>2, <2>3, FetchStep DEF Inv
  <2> QED BY <2>1, <2>4, TableKept DEF Inv
<1>3. ASSUME NEW k \in Calls, NEW status, NEW rows, FetchEnds(k, status, rows),
             rows \in Seq(Row), rows # << >>, IdsInOrder(rows), OwnHandlers(rows)
      PROVE  Inv'
  <2>1. /\ nodesTable' = rows /\ UNCHANGED <<detailsTable, selectedNode, registered>>
        /\ fetches' = [fetches EXCEPT ![k] = [state |-> "none", map |-> << >>]]
    BY <1>3 DEF FetchEnds, cluster, NoFetch
  <2>2. MapsInv'
    BY <2>1, EmptySorted, FetchStep DEF Inv
  <2>3. DetailsOfSelected'
    BY <2>1, Whole DEF DetailsOfSelected, Inv
  <2>4. TableIsWhole'
    BY <1>3, <2>1, <2>3 DEF TableIsWhole, IdsInOrder, OwnHandlers, DetailsOfSelected
  <2> QED BY <1>3, <2>1, <2>2, <2>4 DEF Inv, RowsInv
<1>4. RowsInv /\ OwnHandlers(nodesTable)
  BY Whole DEF Inv
<1>5. ASSUME NEW k \in Calls, MappingArrives(k) PROVE Inv'
  <2>1. fetches[k].map \in Seq(Node) /\ Sorted(fetches[k].map)
    BY DEF Inv, MapsInv
  <2>2. /\ UpdatedTable(fetches[k].map) \in Seq(Row) /\ UpdatedTable(fetches[k].map) # << >>
        /\ IdsInOrder(UpdatedTable(fetches[k].map)) /\ OwnHandlers(UpdatedTable(fetches[k].map))
    BY <1>4, <2>1, UpdatedIsWhole
  <2> QED BY <1>3, <1>5, <2>2 DEF MappingArrives
<1>6. ASSUME NEW k \in Calls, NoMappingArrives(k) PROVE Inv'
  <2>1. /\ EmptiedTable \in Seq(Row) /\ EmptiedTable # << >>
        /\ IdsInOrder(EmptiedTable) /\ OwnHandlers(EmptiedTable)
    BY <1>4, PlaceholderAlone DEF EmptiedTable
  <2> QED BY <1>3, <1>6, <2>1 DEF NoMappingArrives
<1> QED BY <1>1, <1>2, <1>5, <1>6 DEF NameServerCall

LEMMA ClickKeepsInv ==
    ASSUME Inv, NEW i \in DOMAIN nodesTable, UpdateDetailsEvent(i)
    PROVE  Inv'
<1>1. UNCHANGED <<nodesTable, fetches, registered>>
  BY DEF UpdateDetailsEvent, EventHere
<1>2. /\ selectedNode' = nodesTable[i].id
      /\ detailsTable' = undefined \/ detailsTable'.node = nodesTable[i].id
  BY DEF UpdateDetailsEvent
<1>3. MapsInv' /\ RowsInv'
  BY <1>1, MapsKept DEF Inv, MapsInv, RowsInv
<1>4. TableIsWhole'
  BY <1>1, <1>2, Whole DEF Inv, TableIsWhole, IdsInOrder, OwnHandlers
<1> QED BY <1>3, <1>4 DEF Inv

LEMMA InitInv == Init => Inv
<1> SUFFICES ASSUME Init PROVE Inv
  OBVIOUS
<1>1. MapsInv
  BY EmptySorted DEF Init, ClusterInit, PageInit, MapsInv, NoFetch
<1> DEFINE r == Placeholder(1)
<1>2. r \in Row /\ r.id = Unknown /\ r.click = 1
  BY DEF Placeholder, Row
<1>3. nodesTable = <<r>> /\ detailsTable = undefined
  BY DEF Init, PageInit
<1> HIDE DEF r
<1>4. RowsInv
  BY <1>2, <1>3 DEF RowsInv
<1>5. TableIsWhole
  BY <1>2, <1>3 DEF TableIsWhole
<1> QED BY <1>1, <1>4, <1>5 DEF Inv

LEMMA NextInv == Inv /\ [Next]_vars => Inv'
<1> SUFFICES ASSUME Inv, [Next]_vars PROVE Inv'
  OBVIOUS
<1>1. CASE ClusterNext /\ UNCHANGED <<tables, fetches, rounds>>
  <2>1. UNCHANGED <<fetches, nodesTable, detailsTable, selectedNode>>
    BY <1>1 DEF tables
  <2>2. registered' \subseteq Node
    BY <1>1, ClusterKeepsNodes DEF Inv, MapsInv
  <2> QED BY <2>1, <2>2, MapsKept, TableKept DEF Inv
<1>2. CASE UNCHANGED vars
  <2>1. UNCHANGED <<fetches, nodesTable, detailsTable, selectedNode, registered>>
    BY <1>2 DEF vars, tables, cluster
  <2> QED BY <2>1, MapsKept, TableKept DEF Inv, MapsInv
<1> QED BY <1>1, <1>2, NameServerKeepsInv, RoundsKeepInv, ClickKeepsInv DEF Next

(***************************************************************************)
(* The table is always that of one mapping, in order, every row has its    *)
(* own handler, and the details are those of the selected node.            *)
(***************************************************************************)
THEOREM TableStaysWhole == Spec => []TableIsWhole
<1>1. Inv => TableIsWhole
  BY DEF Inv
<1> QED BY <1>1, InitInv, NextInv, PTL DEF Spec
================================================================================
