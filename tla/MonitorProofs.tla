------------------------------ MODULE MonitorProofs ------------------------------
(***************************************************************************)
(* What holds of the monitor for every set of nodes, whatever files they   *)
(* hold, every number of rounds of requests under way and every limit: it  *)
(* is well typed, what it stores belongs to the mapping it got last, the   *)
(* requests are bounded, and what is on the screen is what it knows.       *)
(*                                                                         *)
(* The first three are inductive together.  The variables fall into groups *)
(* (the cluster, the stored data, the requests, the screen), most          *)
(* operators change one of them, and there is a lemma for each operator    *)
(* and each group that it changes; the steps of Next put these together.   *)
(*                                                                         *)
(* The fourth rests on what the file manager computes: that the table of   *)
(* what the nodes report is a sequence of rows (two folds), and that       *)
(* sortTable puts such a sequence in order.                                *)
(***************************************************************************)
EXTENDS Monitor, RingOrderProofs, FiniteSetTheorems

\* The two groups whose invariants need each other.
DataInv     == DataTypeOK /\ KnowsTheMapping
RequestsInv == RequestsTypeOK /\ RequestsBounded

\* The second one, apart for the name server and for the nodes.
CallInv ==
    /\ nameserverRequests = IF nsCall = NoCall THEN 0 ELSE 1
    /\ nsCall \in [state : {"none", "asked", "answered"}, map : SUBSET Node]

RoundsInv ==
    /\ nodeRequest \in Nat
    /\ rounds \in [Calls -> [asked : SUBSET Node, got : Answers]]
    /\ nodeRequest = Cardinality(Pending) /\ nodeRequest <= 3 * Cardinality(Node)

Inv == ClusterTypeOK /\ DataInv /\ RequestsInv /\ ScreenTypeOK

-------------------------------------------------------------------------------
(***************************************************************************)
(* The cluster.                                                            *)
(***************************************************************************)
LEMMA NodeIsFinite ==
    IsFiniteSet(Node) /\ MaxId \in Nat /\ Node \subseteq 0 .. MaxId
    /\ Cardinality(Node) \in Nat
<1>1. MaxId \in Nat /\ Node \subseteq 0 .. MaxId
  BY ClusterAssumption
<1>2. IsFiniteSet(0 .. MaxId)
  BY <1>1, FS_Interval
<1>3. IsFiniteSet(Node)
  BY <1>1, <1>2, FS_Subset
<1> QED BY <1>1, <1>3, FS_CardinalityType

\* A node's answer names registered nodes.
LEMMA NeighboursAreNodes ==
    ASSUME ClusterTypeOK, NEW n \in up
    PROVE  Neighbours(n) \in SUBSET Node
<1>1. registered \subseteq 0 .. MaxId /\ registered \subseteq Nat /\ registered # {} /\ n \in Nat
      /\ registered \subseteq Node
  BY NodeIsFinite DEF ClusterTypeOK
<1>2. GetNextNode(registered, n) \in registered
  BY <1>1, GetNextNodeIsNext DEF IsNext
<1>3. GetPrevNode(registered, n) \in registered
  BY <1>1, NodeIsFinite, GetPrevNodeIsPrev DEF IsPrev
<1> QED BY <1>1, <1>2, <1>3 DEF Neighbours

LEMMA ClusterKept ==
    ASSUME ClusterTypeOK, UNCHANGED cluster
    PROVE  ClusterTypeOK'
BY DEF ClusterTypeOK, cluster

LEMMA EventKeepsCluster ==
    ASSUME ClusterTypeOK, EventHere
    PROVE  ClusterTypeOK'
BY ClusterAssumption DEF ClusterTypeOK, EventHere, Event

LEMMA ClusterStep ==
    ASSUME ClusterTypeOK, ClusterNext
    PROVE  ClusterTypeOK'
<1> USE ClusterAssumption DEF ClusterTypeOK, Change, Event
<1>1. ASSUME NEW n \in Node, Register(n) PROVE ClusterTypeOK'
  BY <1>1 DEF Register
<1>2. ASSUME NEW n \in Node, SetUp(n) PROVE ClusterTypeOK'
  BY <1>2 DEF SetUp
<1>3. ASSUME NEW n \in Node, Crash(n) PROVE ClusterTypeOK'
  BY <1>3 DEF Crash
<1>4. ASSUME NEW n \in Node, Deregister(n) PROVE ClusterTypeOK'
  BY <1>4 DEF Deregister
<1>5. CASE Outage
  <2>1. events' \in 0 .. MaxEvents
    BY <1>5 DEF Outage
  <2>2. nsUp' \in BOOLEAN /\ registered' = registered /\ up' = up
    BY <1>5 DEF Outage
  <2> QED BY <2>1, <2>2
<1>6. CASE Repair
  BY <1>6 DEF Repair
<1> QED BY <1>1, <1>2, <1>3, <1>4, <1>5, <1>6 DEF ClusterNext

-------------------------------------------------------------------------------
(***************************************************************************)
(* The stored data.                                                        *)
(***************************************************************************)
LEMMA Distinct ==
    /\ null # undefined
    /\ \A S \in SUBSET Node : S # undefined /\ S # null
    /\ \A i \in 0 .. Limit : i # undefined
    /\ Limit \in Nat \ {0}
BY MonitorAssumption

\* Store stores, here and for the next page.
LEMMA StoreKeepsData ==
    ASSUME NEW m \in Mappings, NEW d \in NodeData, NEW ping \in Pings,
           Keys(d) = Ids(m), Keys(ping) = Ids(m),
           NEW flagSaved \in BOOLEAN, NEW flag \in BOOLEAN,
           Store(m, d, ping, flagSaved, flag)
    PROVE  DataInv'
<1>1. /\ nameServerData' = m /\ nodeData' = d /\ nodeLastPing' = ping
      /\ newDataAvailable' = flag
      /\ sessionStorage' = [mapping |-> m, nodes |-> d, pings |-> ping, flag |-> flagSaved]
  BY DEF Store, Saved
<1>2. DataTypeOK'
  BY <1>1 DEF DataTypeOK
<1>3. KnowsTheMapping'
  BY <1>1 DEF KnowsTheMapping, Keys, Ids
<1> QED BY <1>2, <1>3 DEF DataInv

LEMMA DataKept ==
    ASSUME DataInv, UNCHANGED <<data, newDataAvailable, sessionStorage>>
    PROVE  DataInv'
BY DEF DataInv, DataTypeOK, KnowsTheMapping, data, Keys, Ids

LEMMA StoreNothingKeepsData ==
    ASSUME StoreNothing
    PROVE  DataInv'
<1>1. undefined \in Mappings /\ Nothing \in NodeData /\ Nothing \in Pings
  BY DEF Mappings, NodeData, Pings, Nothing
<1>2. Keys(Nothing) = {} /\ Ids(undefined) = {}
  BY DEF Keys, Ids, Nothing
<1> QED BY <1>1, <1>2, StoreKeepsData DEF StoreNothing

LEMMA StoreMappingKeepsData ==
    ASSUME DataInv, NEW m \in SUBSET Node, StoreMapping(m)
    PROVE  DataInv'
<1> DEFINE d == [n \in Node |-> IF n \notin m THEN undefined
                                ELSE IF nodeData[n] = undefined THEN null ELSE nodeData[n]]
           ping == [n \in Node |-> IF n \notin m THEN undefined
                                   ELSE IF nodeData[n] = undefined THEN 0 ELSE nodeLastPing[n]]
<1>1. nodeData \in NodeData /\ nodeLastPing \in Pings
  BY DEF DataInv, DataTypeOK
<1>2. m \in Mappings /\ Ids(m) = m
  BY Distinct DEF Mappings, Ids
<1>3. d \in NodeData
  BY <1>1 DEF NodeData
<1>4. 0 \in 0 .. Limit
  BY Distinct
<1>5. ping \in Pings
  BY <1>1, <1>4 DEF Pings
<1>6. Keys(d) = m
  BY Distinct DEF Keys
<1>7. \A n \in Node : nodeData[n] # undefined => nodeLastPing[n] # undefined
  BY DEF DataInv, KnowsTheMapping, Keys
<1>8. Keys(ping) = m
  BY <1>4, <1>7, Distinct DEF Keys
<1>9. Store(m, d, ping, TRUE, TRUE)
  BY DEF StoreMapping
<1> HIDE DEF d, ping
<1> QED BY <1>2, <1>3, <1>5, <1>6, <1>8, <1>9, StoreKeepsData

LEMMA StoreAnswersKeepsData ==
    ASSUME DataInv, NEW got \in Answers, StoreAnswers(got)
    PROVE  DataInv'
<1> DEFINE d == [n \in Node |-> IF got[n] # undefined /\ nodeData[n] # undefined
                                THEN got[n] ELSE nodeData[n]]
           ping == [n \in Node |-> IF got[n] # undefined /\ nodeData[n] # undefined
                                   THEN 0 ELSE nodeLastPing[n]]
<1>1. /\ nodeData \in NodeData /\ nodeLastPing \in Pings
      /\ nameServerData \in Mappings /\ newDataAvailable \in BOOLEAN
  BY DEF DataInv, DataTypeOK
<1>2. d \in NodeData
  BY <1>1 DEF NodeData, Answers
<1>3. 0 \in 0 .. Limit
  BY Distinct
<1>4. ping \in Pings
  BY <1>1, <1>3 DEF Pings
<1>5. Keys(nodeData) = Ids(nameServerData) /\ Keys(nodeLastPing) = Ids(nameServerData)
  BY DEF DataInv, KnowsTheMapping
<1>6. Keys(d) = Keys(nodeData)
  BY DEF Keys
<1>7. Keys(ping) = Keys(nodeLastPing)
  BY <1>3, <1>5, Distinct DEF Keys
<1>8. Store(nameServerData, d, ping, newDataAvailable, TRUE)
  BY DEF StoreAnswers
<1> HIDE DEF d, ping
<1> QED BY <1>1, <1>2, <1>4, <1>5, <1>6, <1>7, <1>8, StoreKeepsData

\* Time passes for answers that have been stored, and only for them.
LEMMA OlderKeeps ==
    ASSUME NEW ping \in Pings, NEW intervals
    PROVE  Older(ping, intervals) \in Pings /\ Keys(Older(ping, intervals)) = Keys(ping)
<1>1. \A i \in 0 .. Limit : i < Limit => i + 1 \in 0 .. Limit
  BY Distinct
<1>2. Limit \in 0 .. Limit
  BY Distinct
<1>3. Older(ping, intervals) \in Pings
  BY <1>1, <1>2 DEF Older, Pings
<1>4. \A n \in Node : ping[n] = undefined \/ ping[n] \in 0 .. Limit
  BY DEF Pings
<1>5. \A n \in Node : Older(ping, intervals)[n] = undefined <=> ping[n] = undefined
  BY <1>1, <1>2, <1>4, Distinct DEF Older
<1> QED BY <1>3, <1>5 DEF Keys

\* Only the answers grow older.
LEMMA TimePassesKeepsData ==
    ASSUME DataInv, NEW intervals, NEW flag \in BOOLEAN, TimePasses(intervals, flag)
    PROVE  DataInv'
<1>1. /\ nodeData \in NodeData /\ nodeLastPing \in Pings
      /\ nameServerData \in Mappings /\ sessionStorage.pings = nodeLastPing
      /\ sessionStorage \in [mapping : Mappings, nodes : NodeData, pings : Pings, flag : BOOLEAN]
      /\ Keys(nodeData) = Ids(nameServerData) /\ Keys(nodeLastPing) = Ids(nameServerData)
      /\ sessionStorage.mapping = nameServerData /\ sessionStorage.nodes = nodeData
  BY DEF DataInv, DataTypeOK, KnowsTheMapping
<1> DEFINE ping == Older(nodeLastPing, intervals)
<1>2. ping \in Pings /\ Keys(ping) = Ids(nameServerData)
  BY <1>1, OlderKeeps
<1>3. /\ nodeLastPing' = ping /\ newDataAvailable' = flag
      /\ sessionStorage' = [sessionStorage EXCEPT !.pings = ping]
      /\ UNCHANGED <<nameServerData, nodeData>>
  BY <1>1 DEF TimePasses
<1> HIDE DEF ping
<1>4. DataTypeOK'
  BY <1>1, <1>2, <1>3 DEF DataTypeOK
<1>5. Keys(nodeData)' = Keys(nodeData) /\ Ids(nameServerData)' = Ids(nameServerData)
  BY <1>3 DEF Keys, Ids
<1>6. Keys(nodeLastPing)' = Keys(ping)
  BY <1>3 DEF Keys
<1>7. KnowsTheMapping'
  BY <1>1, <1>2, <1>3, <1>5, <1>6 DEF KnowsTheMapping
<1> QED BY <1>4, <1>7 DEF DataInv

LEMMA UpdateNSKeepsData ==
    ASSUME DataInv, NEW intervals, NEW flag \in BOOLEAN, NEW refused,
           UpdateNS(intervals, flag, refused)
    PROVE  DataInv'
<1>1. /\ nodeData \in NodeData /\ nameServerData \in Mappings /\ nodeLastPing \in Pings
      /\ Keys(nodeData) = Ids(nameServerData) /\ Keys(nodeLastPing) = Ids(nameServerData)
  BY DEF DataInv, DataTypeOK, KnowsTheMapping
<1> DEFINE ping == Older(nodeLastPing, intervals)
<1>2. ping \in Pings /\ Keys(ping) = Ids(nameServerData)
  BY <1>1, OlderKeeps
<1> HIDE DEF ping
<1>3. CASE StoreNothing
  BY <1>3, StoreNothingKeepsData
<1>4. CASE Store(nameServerData, nodeData, ping, flag, TRUE)
  BY <1>1, <1>2, <1>4, StoreKeepsData
<1>5. CASE TimePasses(intervals, flag)
  BY <1>5, TimePassesKeepsData
<1> QED BY <1>3, <1>4, <1>5 DEF UpdateNS, ping

-------------------------------------------------------------------------------
(***************************************************************************)
(* The requests.                                                           *)
(***************************************************************************)
LEMMA RequestsInvParts == RequestsInv <=> CallInv /\ RoundsInv
<1>1. ASSUME RequestsInv PROVE CallInv /\ RoundsInv
  BY <1>1 DEF RequestsInv, RequestsTypeOK, RequestsBounded, CallInv, RoundsInv
<1>2. ASSUME CallInv, RoundsInv PROVE RequestsInv
  BY <1>2 DEF RequestsInv, RequestsTypeOK, RequestsBounded, CallInv, RoundsInv
<1> QED BY <1>1, <1>2

LEMMA PendingIsFinite == IsFiniteSet(Pending)
<1>1. IsFiniteSet(Calls \X Node)
  BY MonitorAssumption, NodeIsFinite, FS_Product
<1>2. Pending \in SUBSET (Calls \X Node)
  BY DEF Pending
<1> QED BY <1>1, <1>2, FS_Subset

LEMMA NothingIsAnAnswer == Nothing \in Answers
BY DEF Nothing, Answers

LEMMA CallKept ==
    ASSUME CallInv, UNCHANGED <<nameserverRequests, nsCall>>
    PROVE  CallInv'
BY DEF CallInv

LEMMA RoundsKept ==
    ASSUME RoundsInv, UNCHANGED <<nodeRequest, rounds>>
    PROVE  RoundsInv'
BY DEF RoundsInv, Pending

LEMMA UpdateNSKeepsCall ==
    ASSUME CallInv, NEW intervals, NEW flag, NEW refused, UpdateNS(intervals, flag, refused)
    PROVE  CallInv'
<1>1. CASE UNCHANGED <<nameserverRequests, nsCall>>
  BY <1>1, CallKept
<1>2. CASE nameserverRequests' = 1 /\ nsCall' = [state |-> "asked", map |-> {}]
  BY <1>2 DEF CallInv, NoCall
<1> QED BY <1>1, <1>2 DEF UpdateNS

LEMMA CallEndsKeepsCall ==
    ASSUME CallInv, nsCall # NoCall, CallEnds
    PROVE  CallInv'
BY DEF CallInv, CallEnds, NoCall

\* A round begins with one request to each node of the mapping.
LEMMA AskNodesKeepsRounds ==
    ASSUME RoundsInv, NEW ips \in SUBSET Node, MayAsk(ips), AskNodes(ips)
    PROVE  RoundsInv'
<1>1. PICK k \in Calls :
          /\ rounds[k] = Idle
          /\ rounds' = [rounds EXCEPT ![k] = [asked |-> ips, got |-> Nothing]]
          /\ nodeRequest' = nodeRequest + Cardinality(ips)
  BY DEF AskNodes, Free
<1>2. /\ IsFiniteSet(ips) /\ Cardinality(ips) \in Nat
      /\ Cardinality(Node) \in Nat /\ Cardinality(ips) <= Cardinality(Node)
  BY NodeIsFinite, FS_Subset, FS_CardinalityType
<1>3. rounds' \in [Calls -> [asked : SUBSET Node, got : Answers]]
  BY <1>1, NothingIsAnAnswer DEF RoundsInv
<1>4. Pending' = Pending \union ({k} \X ips)
  <2>1. rounds'[k].asked = ips /\ rounds[k].asked = {}
    BY <1>1 DEF RoundsInv, Idle
  <2>2. \A j \in Calls \ {k} : rounds'[j] = rounds[j]
    BY <1>1 DEF RoundsInv
  <2>3. \A j \in Calls, n \in Node :
            n \in rounds'[j].asked <=> n \in rounds[j].asked \/ (j = k /\ n \in ips)
    BY <2>1, <2>2
  <2>4. \A kn \in Calls \X Node :
            kn[2] \in rounds'[kn[1]].asked <=> kn[2] \in rounds[kn[1]].asked \/ kn \in {k} \X ips
    BY <2>3
  <2>5. {k} \X ips \subseteq Calls \X Node
    OBVIOUS
  <2> QED BY <2>4, <2>5 DEF Pending
<1>5. Pending \cap ({k} \X ips) = {}
  BY <1>1 DEF Pending, Idle
<1>6. IsFiniteSet({k} \X ips) /\ Cardinality({k} \X ips) = Cardinality(ips)
  <2>1. IsFiniteSet({k}) /\ Cardinality({k}) = 1
    BY FS_Singleton
  <2>2. Cardinality({k} \X ips) = 1 * Cardinality(ips) /\ IsFiniteSet({k} \X ips)
    BY <1>2, <2>1, FS_Product
  <2> QED BY <1>2, <2>2
<1>7. Cardinality(Pending') = Cardinality(Pending) + Cardinality(ips)
  <2>1. Cardinality(Pending \union ({k} \X ips))
            = Cardinality(Pending) + Cardinality({k} \X ips) - Cardinality(Pending \cap ({k} \X ips))
    BY <1>6, PendingIsFinite, FS_Union
  <2>2. Cardinality(Pending) \in Nat
    BY PendingIsFinite, FS_CardinalityType
  <2>3. Cardinality(Pending \cap ({k} \X ips)) = 0
    BY <1>5, FS_EmptySet
  <2>4. Cardinality(Pending \union ({k} \X ips)) = Cardinality(Pending) + Cardinality(ips)
    BY <1>2, <1>6, <2>1, <2>2, <2>3
  <2> QED BY <1>4, <2>4
<1>8. nodeRequest <= 2 * Cardinality(ips) /\ nodeRequest \in Nat
  BY DEF MayAsk, RoundsInv
<1>9. nodeRequest' \in Nat /\ nodeRequest' <= 3 * Cardinality(Node)
  BY <1>1, <1>2, <1>8
<1> QED BY <1>1, <1>3, <1>7, <1>9 DEF RoundsInv

LEMMA UpdateNodesKeepsRounds ==
    ASSUME RoundsInv, DataInv, UpdateNodes
    PROVE  RoundsInv'
<1>1. Ids(nameServerData) \in SUBSET Node
  BY DEF DataInv, DataTypeOK, Mappings, Ids
<1>2. CASE MayAsk(Ids(nameServerData)) /\ AskNodes(Ids(nameServerData))
  BY <1>1, <1>2, AskNodesKeepsRounds
<1>3. CASE UNCHANGED <<nodeRequest, rounds>>
  BY <1>3, RoundsKept
<1> QED BY <1>2, <1>3 DEF UpdateNodes

\* A request ends, whatever the answer; the last one of a round makes its place free.
LEMMA EndRequestKeepsRounds ==
    ASSUME RoundsInv, NEW k \in Calls, NEW n \in rounds[k].asked,
           NEW answer \in {undefined} \union SUBSET Node, EndRequest(k, n, answer)
    PROVE  RoundsInv'
<1> DEFINE r == [asked |-> rounds[k].asked \ {n}, got |-> [rounds[k].got EXCEPT ![n] = answer]]
<1>1. rounds \in [Calls -> [asked : SUBSET Node, got : Answers]] /\ n \in Node
      /\ nodeRequest \in Nat /\ nodeRequest = Cardinality(Pending)
      /\ nodeRequest <= 3 * Cardinality(Node)
  BY DEF RoundsInv
<1>2. r \in [asked : SUBSET Node, got : Answers]
  BY <1>1 DEF Answers
<1>3. \E s \in [asked : SUBSET Node, got : Answers] :
          s.asked = rounds[k].asked \ {n} /\ rounds' = [rounds EXCEPT ![k] = s]
  <2>1. CASE rounds' = [rounds EXCEPT ![k] = r]
    BY <1>2, <2>1
  <2>2. CASE r.asked = {} /\ rounds' = [rounds EXCEPT ![k] = Idle]
    <3>1. Idle \in [asked : SUBSET Node, got : Answers] /\ Idle.asked = {}
      BY NothingIsAnAnswer DEF Idle
    <3>2. Idle.asked = rounds[k].asked \ {n}
      BY <2>2, <3>1
    <3> QED BY <2>2, <3>1, <3>2
  <2> QED BY <2>1, <2>2 DEF EndRequest
<1>4. PICK s \in [asked : SUBSET Node, got : Answers] :
          s.asked = rounds[k].asked \ {n} /\ rounds' = [rounds EXCEPT ![k] = s]
  BY <1>3
<1>5. rounds' \in [Calls -> [asked : SUBSET Node, got : Answers]]
  BY <1>1, <1>4
<1>6. Pending' = Pending \ {<<k, n>>}
  <2>1. \A j \in Calls, i \in Node :
            i \in rounds'[j].asked <=> i \in rounds[j].asked /\ <<j, i>> # <<k, n>>
    BY <1>1, <1>4
  <2>2. \A kn \in Calls \X Node :
            kn[2] \in rounds'[kn[1]].asked <=> kn[2] \in rounds[kn[1]].asked /\ kn # <<k, n>>
    BY <2>1
  <2> QED BY <2>2 DEF Pending
<1>7. <<k, n>> \in Pending
  BY <1>1 DEF Pending
<1>8. Cardinality(Pending') = Cardinality(Pending) - 1
  BY <1>6, <1>7, PendingIsFinite, FS_RemoveElement
<1>9. Cardinality(Pending) # 0
  BY <1>7, PendingIsFinite, FS_EmptySet
<1>10. nodeRequest' = nodeRequest - 1
  BY DEF EndRequest
<1>11. nodeRequest' \in Nat /\ nodeRequest' <= 3 * Cardinality(Node)
  BY <1>1, <1>9, <1>10, NodeIsFinite
<1> QED BY <1>1, <1>5, <1>8, <1>10, <1>11 DEF RoundsInv

LEMMA EndRequestKeepsData ==
    ASSUME DataInv, RoundsInv, NEW k \in Calls, NEW n \in rounds[k].asked,
           NEW answer \in {undefined} \union SUBSET Node, EndRequest(k, n, answer)
    PROVE  DataInv'
<1> DEFINE got == [rounds[k].got EXCEPT ![n] = answer]
<1>1. got \in Answers
  BY DEF RoundsInv, Answers
<1>2. CASE UNCHANGED <<data, newDataAvailable, sessionStorage>>
  BY <1>2, DataKept
<1>3. CASE StoreAnswers(got)
  BY <1>1, <1>3, StoreAnswersKeepsData
<1> QED BY <1>2, <1>3 DEF EndRequest

\* A new page has no requests.
LEMMA NoRequests ==
    ASSUME rounds = [k \in Calls |-> Idle], nodeRequest = 0,
           nsCall = NoCall, nameserverRequests = 0
    PROVE  CallInv /\ RoundsInv
<1>1. CallInv
  BY DEF CallInv, NoCall
<1>2. Pending = {}
  BY DEF Pending, Idle
<1>3. Cardinality(Pending) = 0
  BY <1>2, FS_EmptySet
<1>4. rounds \in [Calls -> [asked : SUBSET Node, got : Answers]]
  BY NothingIsAnAnswer DEF Idle
<1>5. RoundsInv
  BY <1>3, <1>4, NodeIsFinite DEF RoundsInv
<1> QED BY <1>1, <1>5

-------------------------------------------------------------------------------
(***************************************************************************)
(* The screen.                                                             *)
(***************************************************************************)
LEMMA DetailsAreNodes ==
    ASSUME NEW d \in NodeData, NEW id \in {undefined} \union Node
    PROVE  Details(d, id) \subseteq Node
<1>1. CASE id = undefined \/ ~ Known(d, id)
  BY <1>1 DEF Details
<1>2. CASE id # undefined /\ Known(d, id)
  <2>1. d[id] \in SUBSET Node
    BY <1>2 DEF Known, NodeData
  <2> QED BY <1>2, <2>1 DEF Details
<1> QED BY <1>1, <1>2

LEMMA FirstOrderIsAnOrder == FirstOrder \in Order
BY DEF FirstOrder, Order

LEMMA ScreenKept ==
    ASSUME ScreenTypeOK, UNCHANGED <<tab, selectedID, details, angles, sorting>>
    PROVE  ScreenTypeOK'
BY DEF ScreenTypeOK, tab

\* Whatever is drawn, only nodes get a place on the map and only nodes are listed.
LEMMA DrawKeepsScreen ==
    ASSUME NEW p \in Page, NEW m, NEW d \in NodeData, NEW ping,
           NEW places \in SUBSET Node, NEW by \in Order, NEW id \in {undefined} \union Node,
           Draw(p, m, d, ping, places, by, id), page' = p, loaded' \in BOOLEAN,
           sorting' = by, selectedID' = id
    PROVE  ScreenTypeOK'
<1>1. details' \subseteq Node
  BY DetailsAreNodes DEF Draw
<1>2. angles' \subseteq Node
  BY DEF Draw, Keys
<1> QED BY <1>1, <1>2 DEF ScreenTypeOK

LEMMA DrawCurrentKeepsScreen ==
    ASSUME ScreenTypeOK, DataTypeOK, DrawCurrent, UNCHANGED <<tab, sorting, selectedID>>
    PROVE  ScreenTypeOK'
<1>1. /\ page \in Page /\ nodeData \in NodeData /\ angles \in SUBSET Node
      /\ sorting \in Order /\ selectedID \in {undefined} \union Node
  BY DEF ScreenTypeOK, DataTypeOK
<1>2. page' = page /\ loaded' \in BOOLEAN /\ sorting' = sorting /\ selectedID' = selectedID
  BY DEF ScreenTypeOK, tab
<1> QED BY <1>1, <1>2, DrawKeepsScreen DEF DrawCurrent

LEMMA FlagAfterIsBoolean ==
    ASSUME NEW p, NEW flag, NEW d
    PROVE  FlagAfter(p, flag, d) \in BOOLEAN
BY Zenon DEF FlagAfter

-------------------------------------------------------------------------------
(***************************************************************************)
(* The steps.                                                              *)
(***************************************************************************)
\* What polls keeps what is stored and what is asked.
LEMMA UpdateDataKeeps ==
    ASSUME DataInv, CallInv, RoundsInv, NEW intervals, NEW flag \in BOOLEAN,
           UpdateData(intervals, flag)
    PROVE  DataInv' /\ CallInv' /\ RoundsInv'
<1> DEFINE refused == nameServerData # undefined /\ ~ MayAsk(Ids(nameServerData))
<1>1. CASE UpdateNS(intervals, flag, refused) /\ UpdateNodes
  <2> HIDE DEF refused
  <2>1. DataInv'
    BY <1>1, UpdateNSKeepsData
  <2>2. CallInv'
    BY <1>1, UpdateNSKeepsCall
  <2>3. RoundsInv'
    BY <1>1, UpdateNodesKeepsRounds
  <2> QED BY <2>1, <2>2, <2>3
<1>2. CASE TimePasses(intervals, flag) /\ UNCHANGED requests
  BY <1>2, TimePassesKeepsData, CallKept, RoundsKept DEF requests
<1> QED BY <1>1, <1>2 DEF UpdateData

LEMMA IntervalKeeps ==
    ASSUME ClusterTypeOK, DataInv, CallInv, RoundsInv, ScreenTypeOK, Interval
    PROVE  ClusterTypeOK' /\ DataInv' /\ CallInv' /\ RoundsInv' /\ ScreenTypeOK'
<1>1. ClusterTypeOK'
  BY ClusterKept, EventKeepsCluster DEF Interval
<1>2. newDataAvailable \in BOOLEAN
  BY DEF DataInv, DataTypeOK
<1>3. DataInv' /\ CallInv' /\ RoundsInv'
  BY <1>2, UpdateDataKeeps DEF Interval
<1>4. ScreenTypeOK'
  BY ScreenKept DEF Interval, screen
<1> QED BY <1>1, <1>3, <1>4

LEMMA ScreenRefreshKeeps ==
    ASSUME ClusterTypeOK, DataInv, CallInv, RoundsInv, ScreenTypeOK, ScreenRefresh
    PROVE  ClusterTypeOK' /\ DataInv' /\ CallInv' /\ RoundsInv' /\ ScreenTypeOK'
<1>1. newDataAvailable' \in BOOLEAN
  BY FlagAfterIsBoolean DEF ScreenRefresh
<1>2. /\ UNCHANGED <<nameServerData, nodeData, nodeLastPing, sessionStorage>>
      /\ UNCHANGED <<nameserverRequests, nsCall, nodeRequest, rounds>>
      /\ UNCHANGED <<selectedID, sorting, tab>> /\ UNCHANGED cluster
  BY DEF ScreenRefresh, data, requests
<1>3. DataInv'
  BY <1>1, <1>2 DEF DataInv, DataTypeOK, KnowsTheMapping, Keys, Ids
<1>4. DataTypeOK
  BY DEF DataInv
<1>5. ScreenTypeOK'
  BY <1>2, <1>4, DrawCurrentKeepsScreen DEF ScreenRefresh
<1> QED BY <1>2, <1>3, <1>5, ClusterKept, CallKept, RoundsKept

LEMMA NameServerCallKeeps ==
    ASSUME ClusterTypeOK, DataInv, CallInv, RoundsInv, ScreenTypeOK, NameServerCall
    PROVE  ClusterTypeOK' /\ DataInv' /\ CallInv' /\ RoundsInv' /\ ScreenTypeOK'
<1>1. ClusterTypeOK' /\ RoundsInv' /\ ScreenTypeOK'
  <2>1. UNCHANGED <<cluster, nodeRequest, rounds, screen, tab>>
    BY DEF NameServerCall, NameServerAnswers, MappingArrives, NoMappingArrives, CallEnds
  <2> QED BY <2>1, ClusterKept, RoundsKept, ScreenKept DEF screen
<1>2. CASE NameServerAnswers
  <2>1. DataInv'
    BY <1>2, DataKept DEF NameServerAnswers
  <2>2. registered \in SUBSET Node
    BY DEF ClusterTypeOK
  <2>3. CallInv'
    BY <1>2, <2>2 DEF NameServerAnswers, CallInv, NoCall
  <2> QED BY <1>1, <2>1, <2>3
<1>3. CASE MappingArrives
  <2>1. nsCall.map \in SUBSET Node /\ nsCall # NoCall
    BY <1>3 DEF CallInv, MappingArrives, NoCall
  <2>2. DataInv'
    BY <1>3, <2>1, StoreMappingKeepsData DEF MappingArrives
  <2>3. CallInv'
    BY <1>3, <2>1, CallEndsKeepsCall DEF MappingArrives
  <2> QED BY <1>1, <2>2, <2>3
<1>4. CASE NoMappingArrives
  <2>1. nsCall # NoCall
    BY <1>4 DEF NoMappingArrives, NoCall
  <2>2. DataInv'
    BY <1>4, StoreNothingKeepsData DEF NoMappingArrives
  <2>3. CallInv'
    BY <1>4, <2>1, CallEndsKeepsCall DEF NoMappingArrives
  <2> QED BY <1>1, <2>2, <2>3
<1> QED BY <1>2, <1>3, <1>4 DEF NameServerCall

LEMMA NodeAnswersKeeps ==
    ASSUME ClusterTypeOK, DataInv, CallInv, RoundsInv, ScreenTypeOK,
           NEW k \in Calls, NEW n \in Node, NodeAnswers(k, n)
    PROVE  ClusterTypeOK' /\ DataInv' /\ CallInv' /\ RoundsInv' /\ ScreenTypeOK'
<1>1. UNCHANGED cluster /\ UNCHANGED <<nameserverRequests, nsCall, screen, tab>>
  BY DEF NodeAnswers
<1>2. ClusterTypeOK' /\ CallInv' /\ ScreenTypeOK'
  BY <1>1, ClusterKept, CallKept, ScreenKept DEF screen
<1>3. \E answer \in {undefined} \union SUBSET Node : EndRequest(k, n, answer)
  BY NeighboursAreNodes DEF NodeAnswers
<1>4. n \in rounds[k].asked
  BY DEF NodeAnswers
<1> QED BY <1>2, <1>3, <1>4, EndRequestKeepsRounds, EndRequestKeepsData

LEMMA ClickRefreshKeeps ==
    ASSUME ClusterTypeOK, DataInv, CallInv, RoundsInv, ScreenTypeOK, ClickRefresh
    PROVE  ClusterTypeOK' /\ DataInv' /\ CallInv' /\ RoundsInv' /\ ScreenTypeOK'
<1>1. ClusterTypeOK'
  BY EventKeepsCluster DEF ClickRefresh
<1>2. PICK flag \in BOOLEAN : UpdateData(0, flag)
  <2>1. newDataAvailable \in BOOLEAN
    BY DEF DataInv, DataTypeOK
  <2> QED BY <2>1, FlagAfterIsBoolean DEF ClickRefresh
<1>3. DataInv' /\ CallInv' /\ RoundsInv'
  BY <1>2, UpdateDataKeeps
<1>4. ScreenTypeOK'
  BY DrawCurrentKeepsScreen, ScreenKept DEF ClickRefresh, DataInv
<1> QED BY <1>1, <1>3, <1>4

\* Clicks that change nothing but the screen.
LEMMA ClicksKeep ==
    ASSUME ClusterTypeOK, DataInv, CallInv, RoundsInv, ScreenTypeOK,
           \/ \E n \in Node : SelectNode(n)
           \/ \E col \in 0 .. 4 : SortBy(col)
    PROVE  ClusterTypeOK' /\ DataInv' /\ CallInv' /\ RoundsInv' /\ ScreenTypeOK'
<1>1. EventHere /\ UNCHANGED <<data, newDataAvailable, sessionStorage, requests, angles, tab>>
  BY DEF SelectNode, SortBy
<1>2. UNCHANGED <<nameserverRequests, nsCall, nodeRequest, rounds>>
  BY <1>1 DEF requests
<1>3. ClusterTypeOK' /\ DataInv' /\ CallInv' /\ RoundsInv'
  BY <1>1, <1>2, EventKeepsCluster, DataKept, CallKept, RoundsKept
<1>4. ASSUME NEW n \in Node, SelectNode(n) PROVE ScreenTypeOK'
  BY <1>1, <1>4, DetailsAreNodes DEF SelectNode, ScreenTypeOK, DataInv, DataTypeOK, tab
<1>5. ASSUME NEW col \in 0 .. 4, SortBy(col) PROVE ScreenTypeOK'
  <2>1. ClickHeader(sorting, col) \in Order
    BY DEF ScreenTypeOK, ClickHeader, Order
  <2> QED BY <1>1, <1>5, <2>1 DEF SortBy, ScreenTypeOK, tab
<1> QED BY <1>3, <1>4, <1>5

LEMMA OpenPageKeeps ==
    ASSUME ClusterTypeOK, DataInv, NEW p \in Page, OpenPage(p)
    PROVE  ClusterTypeOK' /\ DataInv' /\ CallInv' /\ RoundsInv' /\ ScreenTypeOK'
<1> DEFINE s == sessionStorage
<1>1. /\ s \in [mapping : Mappings, nodes : NodeData, pings : Pings, flag : BOOLEAN]
      /\ Keys(s.nodes) = Ids(s.mapping) /\ Keys(s.pings) = Ids(s.mapping)
  BY DEF DataInv, DataTypeOK, KnowsTheMapping
<1>2. newDataAvailable' \in BOOLEAN
  BY FlagAfterIsBoolean DEF OpenPage
<1>3. /\ nameServerData' = s.mapping /\ nodeData' = s.nodes /\ nodeLastPing' = s.pings
      /\ sessionStorage' = s
  BY DEF OpenPage
<1>4. DataTypeOK'
  BY <1>1, <1>2, <1>3 DEF DataTypeOK
<1>5. KnowsTheMapping'
  BY <1>1, <1>3 DEF KnowsTheMapping, Keys, Ids
<1>6. CallInv' /\ RoundsInv'
  <2>1. /\ (rounds = [k \in Calls |-> Idle])' /\ (nodeRequest = 0)'
        /\ (nsCall = NoCall)' /\ (nameserverRequests = 0)'
    BY DEF OpenPage, Idle, NoCall, Nothing
  <2> QED BY <2>1, NoRequests, PTL
<1>7. ScreenTypeOK'
  <2>1. loaded' \in BOOLEAN
    BY DEF OpenPage
  <2> QED BY <1>1, <2>1, FirstOrderIsAnOrder, DrawKeepsScreen DEF OpenPage
<1>8. ClusterTypeOK'
  BY EventKeepsCluster DEF OpenPage
<1> QED BY <1>4, <1>5, <1>6, <1>7, <1>8 DEF DataInv

\* The cluster's steps, the two that the user causes included.
LEMMA ClusterStepKeeps ==
    ASSUME ClusterTypeOK, DataInv, CallInv, RoundsInv, ScreenTypeOK, UNCHANGED monitor,
           \/ ClusterNext
           \/ \E n \in Node : TerminateNode(n) \/ ShutdownNode(n)
    PROVE  ClusterTypeOK' /\ DataInv' /\ CallInv' /\ RoundsInv' /\ ScreenTypeOK'
<1>1. /\ UNCHANGED <<data, newDataAvailable, sessionStorage>>
      /\ UNCHANGED <<nameserverRequests, nsCall>> /\ UNCHANGED <<nodeRequest, rounds>>
      /\ UNCHANGED <<tab, selectedID, details, angles, sorting>>
  BY DEF monitor, requests, screen
<1>2. DataInv' /\ CallInv' /\ RoundsInv' /\ ScreenTypeOK'
  BY <1>1, DataKept, CallKept, RoundsKept, ScreenKept
<1>3. CASE ClusterNext
  BY <1>2, <1>3, ClusterStep
<1>4. ASSUME NEW n \in Node, TerminateNode(n) PROVE ClusterTypeOK'
  BY <1>4, ClusterStep DEF TerminateNode, ClusterNext
<1>5. ASSUME NEW n \in Node, ShutdownNode(n) PROVE ClusterTypeOK'
  BY <1>5, ClusterAssumption DEF ShutdownNode, ClusterTypeOK, Change, Event
<1> QED BY <1>2, <1>3, <1>4, <1>5

LEMMA InitHasInv == Init => Inv
<1> SUFFICES ASSUME Init PROVE Inv
  OBVIOUS
<1>1. ClusterTypeOK
  BY ClusterAssumption DEF Init, ClusterInit, ClusterTypeOK
<1>2. undefined \in Mappings /\ Nothing \in NodeData /\ Nothing \in Pings
  BY DEF Mappings, NodeData, Pings, Nothing
<1>3. DataTypeOK
  BY <1>2 DEF Init, DataTypeOK, Saved
<1>4. Keys(nodeData) = {} /\ Keys(nodeLastPing) = {} /\ Ids(nameServerData) = {}
  BY DEF Init, Keys, Ids, Nothing
<1>5. KnowsTheMapping
  BY <1>4 DEF Init, KnowsTheMapping, Saved
<1>6. CallInv /\ RoundsInv
  BY NoRequests DEF Init
<1>7. ScreenTypeOK
  BY FirstOrderIsAnOrder DEF Init, ScreenTypeOK, Page
<1> QED BY <1>1, <1>3, <1>5, <1>6, <1>7, RequestsInvParts DEF Inv, DataInv

LEMMA NextKeepsInv == Inv /\ [Next]_vars => Inv'
<1> SUFFICES ASSUME Inv, [Next]_vars PROVE Inv'
  OBVIOUS
<1>1. ClusterTypeOK /\ DataInv /\ CallInv /\ RoundsInv /\ ScreenTypeOK
  BY RequestsInvParts DEF Inv
<1> DEFINE Kept == ClusterTypeOK' /\ DataInv' /\ CallInv' /\ RoundsInv' /\ ScreenTypeOK'
<1> SUFFICES Kept
  <2>1. (RequestsInv <=> CallInv /\ RoundsInv)'
    BY RequestsInvParts, PTL
  <2> QED BY <2>1 DEF Inv
<1>2. CASE ClusterNext /\ UNCHANGED monitor
  BY <1>1, <1>2, ClusterStepKeeps
<1>3. CASE Interval
  BY <1>1, <1>3, IntervalKeeps
<1>4. CASE ScreenRefresh
  BY <1>1, <1>4, ScreenRefreshKeeps
<1>5. CASE NameServerCall
  BY <1>1, <1>5, NameServerCallKeeps
<1>6. CASE \E k \in Calls, n \in Node : NodeAnswers(k, n)
  BY <1>1, <1>6, NodeAnswersKeeps
<1>7. CASE User
  <2>1. CASE ClickRefresh
    BY <1>1, <2>1, ClickRefreshKeeps
  <2>2. ASSUME NEW n \in Node, SelectNode(n) PROVE Kept
    BY <1>1, <2>2, ClicksKeep
  <2>3. ASSUME NEW n \in Node, TerminateNode(n) \/ ShutdownNode(n) PROVE Kept
    <3>1. UNCHANGED monitor
      BY <2>3 DEF TerminateNode, ShutdownNode
    <3> QED BY <1>1, <2>3, <3>1, ClusterStepKeeps
  <2>4. ASSUME NEW col \in 0 .. 4, SortBy(col) PROVE Kept
    BY <1>1, <2>4, ClicksKeep
  <2>5. ASSUME NEW p \in Page, OpenPage(p) PROVE Kept
    BY <1>1, <2>5, OpenPageKeeps
  <2> QED BY <1>7, <2>1, <2>2, <2>3, <2>4, <2>5 DEF User
<1>8. CASE UNCHANGED vars
  <2>1. UNCHANGED cluster /\ UNCHANGED <<data, newDataAvailable, sessionStorage>>
    BY <1>8 DEF vars, monitor
  <2>2. UNCHANGED <<nameserverRequests, nsCall>> /\ UNCHANGED <<nodeRequest, rounds>>
    BY <1>8 DEF vars, monitor, requests
  <2>3. UNCHANGED <<tab, selectedID, details, angles, sorting>>
    BY <1>8 DEF vars, monitor, screen
  <2> QED BY <1>1, <2>1, <2>2, <2>3, ClusterKept, DataKept, CallKept, RoundsKept, ScreenKept
<1> QED BY <1>2, <1>3, <1>4, <1>5, <1>6, <1>7, <1>8 DEF Next

LEMMA InvHolds == Spec => []Inv
BY InitHasInv, NextKeepsInv, PTL DEF Spec

-------------------------------------------------------------------------------
(***************************************************************************)
(* Induction, with a set for the predicate.                                *)
(***************************************************************************)
LEMMA InductionOver ==
    ASSUME NEW S, 0 \in S, \A n \in Nat : n \in S => n + 1 \in S
    PROVE  \A n \in Nat : n \in S
<1> SUFFICES ASSUME Nat \ S # {} PROVE FALSE
  OBVIOUS
<1> DEFINE m == Least(Nat \ S)
<1>1. m \in Nat \ S /\ \A k \in Nat \ S : m <= k
  BY LeastExists
<1> HIDE DEF m
<1>2. m # 0 /\ m - 1 \in Nat
  BY <1>1
<1>3. m - 1 \in S
  BY <1>1, <1>2
<1> QED BY <1>1, <1>2, <1>3

\* A step can be repeated: the recursive definition has a solution.
Repeats(f, V, first, step, N) ==
    /\ f \in [0 .. N -> V] /\ f[0] = first
    /\ \A k \in 1 .. N : f[k] = step[f[k - 1]]

LEMMA RepetitionExists ==
    ASSUME NEW V, NEW first \in V, NEW step \in [V -> V], NEW N \in Nat
    PROVE  \E f : Repeats(f, V, first, step, N)
<1> DEFINE Solves(f, n) == f[0] = first /\ \A k \in 1 .. n : f[k] = step[f[k - 1]]
           S == {n \in Nat : \E f \in [0 .. n -> V] : Solves(f, n)}
<1>1. 0 \in S
  <2> DEFINE f == [k \in 0 .. 0 |-> first]
  <2>1. f \in [0 .. 0 -> V]
    OBVIOUS
  <2>2. Solves(f, 0)
    OBVIOUS
  <2> HIDE DEF f, Solves
  <2> QED BY <2>1, <2>2
<1>2. ASSUME NEW n \in Nat, n \in S PROVE n + 1 \in S
  <2>1. PICK g \in [0 .. n -> V] : Solves(g, n)
    BY <1>2
  <2> DEFINE f == [k \in 0 .. n + 1 |-> IF k = n + 1 THEN step[g[n]] ELSE g[k]]
  <2>2. f \in [0 .. n + 1 -> V]
    OBVIOUS
  <2>3. f[0] = first
    BY <2>1
  <2>4. \A k \in 1 .. n + 1 : f[k] = step[f[k - 1]]
    <3> TAKE k \in 1 .. n + 1
    <3>1. CASE k = n + 1
      BY <3>1
    <3>2. CASE k \in 1 .. n
      BY <2>1, <3>2
    <3> QED BY <3>1, <3>2
  <2>5. Solves(f, n + 1)
    BY <2>3, <2>4
  <2> HIDE DEF f, Solves
  <2> QED BY <2>2, <2>5
<1>3. N \in S
  <2> HIDE DEF S
  <2> QED BY <1>1, <1>2, InductionOver
<1> QED BY <1>3 DEF Repeats

-------------------------------------------------------------------------------
(***************************************************************************)
(* Sorting.  A table is a sequence of rows whose cells can be compared.    *)
(***************************************************************************)
IsTable(rows) ==
    /\ rows \in Seq(ToSet(rows))
    /\ \A row \in ToSet(rows), col \in 0 .. 4 : Key(row, col) \in Int

\* The pairs of rows in the wrong order.
Inversions(rows, order) ==
    {p \in (1 .. Len(rows)) \X (1 .. Len(rows)) :
        p[1] < p[2] /\ OutOfOrder(rows[p[1]], rows[p[2]], order)}

LEMMA FunctionIsSequence ==
    ASSUME NEW S, NEW n \in Nat, NEW f \in [1 .. n -> S]
    PROVE  f \in Seq(S) /\ Len(f) = n
OBVIOUS

LEMMA NotBothOutOfOrder ==
    ASSUME NEW x, NEW y, NEW order \in Order,
           Key(x, order.col) \in Int, Key(y, order.col) \in Int, OutOfOrder(x, y, order)
    PROVE  ~ OutOfOrder(y, x, order)
BY DEF OutOfOrder

LEMMA SwitchesNeighbours ==
    ASSUME NEW rows, IsTable(rows), NEW order \in Order, Disorders(rows, order) # {}
    PROVE  \E i \in Disorders(rows, order) :
               Switch(rows, order) = [rows EXCEPT ![i] = rows[i + 1], ![i + 1] = rows[i]]
<1> DEFINE D == Disorders(rows, order)
<1>1. D \subseteq Nat
  BY DEF Disorders
<1>2. Least(D) \in D /\ \A j \in D : Least(D) <= j
  BY <1>1, LeastExists
<1>3. \E i \in D : \A j \in D : i <= j
  BY <1>2
<1> DEFINE i == CHOOSE i \in D : \A j \in D : i <= j
<1>4. i \in D
  BY <1>3
<1>5. Switch(rows, order) = [rows EXCEPT ![i] = rows[i + 1], ![i + 1] = rows[i]]
  BY DEF Switch
<1> QED BY <1>4, <1>5

LEMMA SwitchKeepsRows ==
    ASSUME NEW rows, IsTable(rows), NEW order \in Order
    PROVE  /\ Switch(rows, order) \in Seq(ToSet(rows))
           /\ Len(Switch(rows, order)) = Len(rows)
           /\ ToSet(Switch(rows, order)) = ToSet(rows)
<1>1. rows \in Seq(ToSet(rows)) /\ DOMAIN rows = 1 .. Len(rows) /\ Len(rows) \in Nat
  BY DEF IsTable
<1>2. CASE Disorders(rows, order) = {}
  BY <1>1, <1>2 DEF Switch
<1>3. CASE Disorders(rows, order) # {}
  <2>1. PICK i \in Disorders(rows, order) :
            Switch(rows, order) = [rows EXCEPT ![i] = rows[i + 1], ![i + 1] = rows[i]]
    BY <1>3, SwitchesNeighbours
  <2> DEFINE new == [rows EXCEPT ![i] = rows[i + 1], ![i + 1] = rows[i]]
  <2>2. i \in 1 .. Len(rows) /\ i + 1 \in 1 .. Len(rows) /\ i \in Nat
    BY <1>1 DEF Disorders
  <2>3. \A j \in 1 .. Len(rows) : rows[j] \in ToSet(rows)
    BY <1>1 DEF ToSet
  <2>4. new \in [1 .. Len(rows) -> ToSet(rows)]
    BY <1>1, <2>2, <2>3
  <2>5. new \in Seq(ToSet(rows)) /\ Len(new) = Len(rows)
    <3> HIDE DEF new
    <3> QED BY <1>1, <2>4, FunctionIsSequence
  <2>6. /\ new[i] = rows[i + 1] /\ new[i + 1] = rows[i]
        /\ \A j \in 1 .. Len(rows) : j # i /\ j # i + 1 => new[j] = rows[j]
    BY <1>1, <2>2
  <2>7. DOMAIN new = 1 .. Len(rows)
    BY <2>4
  <2> HIDE DEF new
  <2>8. ToSet(new) = ToSet(rows)
    BY <1>1, <2>2, <2>6, <2>7 DEF ToSet
  <2> QED BY <2>1, <2>5, <2>8 DEF new
<1> QED BY <1>2, <1>3

\* Every swap takes away one inversion, of the two rows that it swaps.
LEMMA SwitchTakesOneAway ==
    ASSUME NEW rows, IsTable(rows), NEW order \in Order, Disorders(rows, order) # {}
    PROVE  Cardinality(Inversions(Switch(rows, order), order))
               < Cardinality(Inversions(rows, order))
<1>1. rows \in Seq(ToSet(rows)) /\ DOMAIN rows = 1 .. Len(rows) /\ Len(rows) \in Nat
  BY DEF IsTable
<1>2. PICK i \in Disorders(rows, order) :
          Switch(rows, order) = [rows EXCEPT ![i] = rows[i + 1], ![i + 1] = rows[i]]
  BY SwitchesNeighbours
<1> DEFINE new == Switch(rows, order)
           Within == 1 .. Len(rows)
           other(j) == IF j = i THEN i + 1 ELSE IF j = i + 1 THEN i ELSE j
           Pairs == Inversions(rows, order)
           NewPairs == Inversions(new, order)
<1>3. i \in Within /\ i + 1 \in Within /\ i \in Nat /\ OutOfOrder(rows[i], rows[i + 1], order)
  BY <1>1 DEF Disorders
<1>4. \A j \in Within : other(j) \in Within /\ new[j] = rows[other(j)]
  BY <1>1, <1>2, <1>3
<1>5. Len(new) = Len(rows)
  BY SwitchKeepsRows
<1>6. ~ OutOfOrder(new[i], new[i + 1], order)
  <2>1. \A j \in Within : Key(rows[j], order.col) \in Int
    BY <1>1 DEF IsTable, ToSet, Order
  <2>2. ~ OutOfOrder(rows[i + 1], rows[i], order)
    BY <1>3, <2>1, NotBothOutOfOrder
  <2>3. new[i] = rows[i + 1] /\ new[i + 1] = rows[i]
    BY <1>3, <1>4
  <2> HIDE DEF new
  <2> QED BY <2>2, <2>3
<1> HIDE DEF new
<1>7. \A p \in NewPairs : <<other(p[1]), other(p[2])>> \in Pairs \ {<<i, i + 1>>}
  <2> SUFFICES ASSUME NEW a \in Within, NEW b \in Within, a < b,
                      OutOfOrder(new[a], new[b], order)
               PROVE  <<other(a), other(b)>> \in Pairs \ {<<i, i + 1>>}
    BY <1>5 DEF Inversions
  <2>1. ~ (a = i /\ b = i + 1)
    BY <1>6
  <2>2. other(a) < other(b) /\ ~ (other(a) = i /\ other(b) = i + 1)
    BY <1>1, <1>3, <2>1
  <2>3. OutOfOrder(rows[other(a)], rows[other(b)], order)
    BY <1>4
  <2>4. other(a) \in Within /\ other(b) \in Within
    BY <1>4
  <2> HIDE DEF other
  <2> QED BY <2>2, <2>3, <2>4 DEF Inversions
<1> DEFINE f == [p \in NewPairs |-> <<other(p[1]), other(p[2])>>]
<1>8. f \in Injection(NewPairs, Pairs \ {<<i, i + 1>>})
  <2>1. f \in [NewPairs -> Pairs \ {<<i, i + 1>>}]
    BY <1>7
  <2>2. \A a, b \in Within : other(a) = other(b) => a = b
    BY <1>1, <1>3
  <2>3. \A p \in NewPairs : p \in Within \X Within
    BY <1>5 DEF Inversions
  <2>4. \A p, q \in NewPairs : f[p] = f[q] => p = q
    <3> HIDE DEF other
    <3> TAKE p, q \in NewPairs
    <3> HAVE f[p] = f[q]
    <3>1. other(p[1]) = other(q[1]) /\ other(p[2]) = other(q[2])
      OBVIOUS
    <3> HIDE DEF f, NewPairs
    <3>2. PICK a \in Within, b \in Within : p = <<a, b>>
      BY <2>3
    <3>3. PICK c \in Within, d \in Within : q = <<c, d>>
      BY <2>3
    <3> QED BY <2>2, <3>1, <3>2, <3>3
  <2> HIDE DEF f, NewPairs
  <2> QED BY <2>1, <2>4 DEF Injection, IsInjective
<1>9. IsFiniteSet(Pairs)
  <2>1. IsFiniteSet(Within)
    BY <1>1, FS_Interval
  <2>2. IsFiniteSet(Within \X Within)
    BY <2>1, FS_Product
  <2>3. Pairs \in SUBSET (Within \X Within)
    BY DEF Inversions
  <2> QED BY <2>2, <2>3, FS_Subset
<1>10. <<i, i + 1>> \in Pairs
  BY <1>3 DEF Inversions
<1> HIDE DEF f, Pairs, NewPairs
<1>11. Cardinality(Pairs \ {<<i, i + 1>>}) = Cardinality(Pairs) - 1
       /\ IsFiniteSet(Pairs \ {<<i, i + 1>>})
  BY <1>9, <1>10, FS_RemoveElement
<1>12. Cardinality(NewPairs) <= Cardinality(Pairs \ {<<i, i + 1>>}) /\ IsFiniteSet(NewPairs)
  BY <1>8, <1>11, FS_Injection
<1>13. Cardinality(NewPairs) \in Nat /\ Cardinality(Pairs) \in Nat
  BY <1>9, <1>12, FS_CardinalityType
<1> QED BY <1>11, <1>12, <1>13 DEF Pairs, NewPairs, new

\* A table with other places for the same rows.
Places(rows) == 1 .. Len(rows)

Rearranged(rows) ==
    {r \in Seq(ToSet(rows)) :
        /\ Len(r) = Len(rows) /\ ToSet(r) = ToSet(rows)
        /\ \E p \in Bijection(Places(rows), Places(rows)) :
              \A i \in Places(rows) : r[i] = rows[p[i]]}

LEMMA RearrangedIsTable ==
    ASSUME NEW rows, IsTable(rows), NEW r \in Rearranged(rows)
    PROVE  IsTable(r) /\ Len(r) = Len(rows) /\ ToSet(r) = ToSet(rows)
BY DEF IsTable, Rearranged

LEMMA TableIsRearranged ==
    ASSUME NEW rows, IsTable(rows)
    PROVE  rows \in Rearranged(rows)
<1> DEFINE P == Places(rows)
           p == [i \in P |-> i]
<1>1. p \in Bijection(P, P)
  BY DEF Bijection, Injection, Surjection, IsInjective
<1>2. \A i \in P : rows[i] = rows[p[i]]
  OBVIOUS
<1> HIDE DEF p
<1> QED BY <1>1, <1>2 DEF IsTable, Rearranged

\* Two places exchanged.
LEMMA ExchangeIsBijection ==
    ASSUME NEW P, NEW i \in P, NEW j \in P, NEW p \in Bijection(P, P)
    PROVE  [k \in P |-> p[IF k = i THEN j ELSE IF k = j THEN i ELSE k]] \in Bijection(P, P)
<1> DEFINE other(k) == IF k = i THEN j ELSE IF k = j THEN i ELSE k
           q == [k \in P |-> p[other(k)]]
<1>1. /\ p \in [P -> P] /\ \A k, l \in P : p[k] = p[l] => k = l
      /\ \A y \in P : \E k \in P : p[k] = y
  BY DEF Bijection, Injection, Surjection, IsInjective
<1>2. \A k \in P : other(k) \in P /\ other(other(k)) = k
  OBVIOUS
<1> HIDE DEF other
<1>3. q \in [P -> P]
  BY <1>1, <1>2
<1>4. \A k, l \in P : q[k] = q[l] => k = l
  <2> TAKE k, l \in P
  <2> HAVE q[k] = q[l]
  <2>1. other(k) = other(l)
    BY <1>1, <1>2
  <2>2. other(other(k)) = other(other(l))
    BY <2>1
  <2> QED BY <1>2, <2>2
<1>5. \A y \in P : \E k \in P : q[k] = y
  <2> TAKE y \in P
  <2>1. PICK k \in P : p[k] = y
    BY <1>1
  <2>2. q[other(k)] = y /\ other(k) \in P
    BY <1>2, <2>1
  <2> QED BY <2>2
<1>6. q \in Bijection(P, P)
  <2> HIDE DEF q
  <2> QED BY <1>3, <1>4, <1>5 DEF Bijection, Injection, Surjection, IsInjective
<1> QED BY <1>6 DEF other

LEMMA SwitchRearranges ==
    ASSUME NEW rows, IsTable(rows), NEW order \in Order, NEW r \in Rearranged(rows)
    PROVE  Switch(r, order) \in Rearranged(rows)
<1>1. IsTable(r) /\ Len(r) = Len(rows) /\ ToSet(r) = ToSet(rows)
  BY RearrangedIsTable
<1> DEFINE new == Switch(r, order)
           P == Places(rows)
<1>2. new \in Seq(ToSet(rows)) /\ Len(new) = Len(rows) /\ ToSet(new) = ToSet(rows)
  BY <1>1, SwitchKeepsRows
<1>3. PICK p \in Bijection(P, P) : \A i \in P : r[i] = rows[p[i]]
  BY DEF Rearranged
<1>4. \E q \in Bijection(P, P) : \A i \in P : new[i] = rows[q[i]]
  <2>1. CASE Disorders(r, order) = {}
    BY <1>3, <2>1 DEF Switch
  <2>2. CASE Disorders(r, order) # {}
    <3>1. PICK i \in Disorders(r, order) : new = [r EXCEPT ![i] = r[i + 1], ![i + 1] = r[i]]
      BY <1>1, <2>2, SwitchesNeighbours
    <3>2. i \in P /\ i + 1 \in P /\ i \in Nat /\ DOMAIN r = P
      BY <1>1 DEF Disorders, Places, IsTable
    <3> HIDE DEF P, new
    <3> DEFINE other(k) == IF k = i THEN i + 1 ELSE IF k = i + 1 THEN i ELSE k
               q == [k \in P |-> p[other(k)]]
    <3>3. q \in Bijection(P, P)
      BY <3>2, ExchangeIsBijection
    <3>4. \A k \in P : other(k) \in P /\ new[k] = r[other(k)]
      BY <3>1, <3>2
    <3>5. \A k \in P : new[k] = rows[q[k]]
      <4> HIDE DEF other
      <4> QED BY <1>3, <3>4
    <3> HIDE DEF q
    <3> QED BY <3>3, <3>5
  <2> QED BY <2>1, <2>2
<1> QED BY <1>2, <1>4 DEF Rearranged

\* There are at most as many inversions as sortTable does rounds.
LEMMA InversionsBounded ==
    ASSUME NEW rows, NEW order, NEW n \in Nat, Len(rows) = n
    PROVE  /\ IsFiniteSet(Inversions(rows, order))
           /\ Cardinality(Inversions(rows, order)) \in 0 .. n * n
<1>1. IsFiniteSet(1 .. n) /\ Cardinality(1 .. n) = n
  BY FS_Interval
<1>2. IsFiniteSet((1 .. n) \X (1 .. n)) /\ Cardinality((1 .. n) \X (1 .. n)) = n * n
  BY <1>1, FS_Product
<1>3. Inversions(rows, order) \in SUBSET ((1 .. n) \X (1 .. n))
  BY DEF Inversions
<1>4. /\ IsFiniteSet(Inversions(rows, order))
      /\ Cardinality(Inversions(rows, order)) <= n * n
  BY <1>2, <1>3, FS_Subset
<1>5. Cardinality(Inversions(rows, order)) \in Nat
  BY <1>4, FS_CardinalityType
<1> QED BY <1>4, <1>5

(***************************************************************************)
(* sortTable rearranges the rows, and its loop ends with all of them in    *)
(* order.                                                                  *)
(***************************************************************************)
THEOREM SortTableSorts ==
    ASSUME NEW rows, IsTable(rows), NEW order \in Order
    PROVE  /\ SortTable(rows, order) \in Rearranged(rows)
           /\ Disorders(SortTable(rows, order), order) = {}
<1> DEFINE V == Rearranged(rows)
           turns == Len(rows) * Len(rows)
           step == [r \in V |-> Switch(r, order)]
           left(r) == Cardinality(Inversions(r, order))
<1>1. rows \in V /\ Len(rows) \in Nat
  BY TableIsRearranged DEF IsTable
<1>2. turns \in Nat
  BY <1>1
<1>3. step \in [V -> V]
  BY SwitchRearranges
<1> HIDE DEF V, turns, step
<1>4. PICK f : Repeats(f, V, rows, step, turns)
  BY <1>1, <1>2, <1>3, RepetitionExists
<1> USE DEF step
<1>5. f = [k \in 0 .. turns |-> IF k = 0 THEN rows ELSE Switch(f[k - 1], order)]
  <2>1. \A k \in 1 .. turns : f[k - 1] \in V
    BY <1>2, <1>4 DEF Repeats
  <2>2. \A k \in 1 .. turns : f[k] = Switch(f[k - 1], order)
    BY <1>4, <2>1 DEF Repeats
  <2>3. \A k \in 0 .. turns : f[k] = IF k = 0 THEN rows ELSE Switch(f[k - 1], order)
    BY <1>2, <1>4, <2>2 DEF Repeats
  <2>4. f = [k \in 0 .. turns |-> f[k]]
    BY <1>4 DEF Repeats
  <2> QED BY <2>3, <2>4
<1> DEFINE after == CHOOSE g : g = [k \in 0 .. turns |->
                                       IF k = 0 THEN rows ELSE Switch(g[k - 1], order)]
<1>6. after = [k \in 0 .. turns |-> IF k = 0 THEN rows ELSE Switch(after[k - 1], order)]
  BY <1>5
<1>7. SortTable(rows, order) = after[turns]
  BY DEF SortTable, turns
<1> HIDE DEF after, step
<1> DEFINE S == {k \in Nat : k <= turns =>
                    /\ after[k] \in V
                    /\ Disorders(after[k], order) = {} \/ left(after[k]) + k <= turns}
<1>8. 0 \in S
  <2>1. left(rows) + 0 <= turns
    BY <1>1, InversionsBounded DEF turns
  <2> QED BY <1>1, <1>2, <1>6, <2>1
<1>9. ASSUME NEW k \in Nat, k \in S PROVE k + 1 \in S
  <2> SUFFICES ASSUME k + 1 <= turns
               PROVE  /\ after[k + 1] \in V
                      /\ \/ Disorders(after[k + 1], order) = {}
                         \/ left(after[k + 1]) + (k + 1) <= turns
    OBVIOUS
  <2>1. after[k + 1] = Switch(after[k], order)
    BY <1>2, <1>6
  <2>2. /\ after[k] \in V
        /\ Disorders(after[k], order) = {} \/ left(after[k]) + k <= turns
    BY <1>2, <1>9
  <2>3. after[k + 1] \in V
    BY <2>1, <2>2, SwitchRearranges DEF V
  <2>4. CASE Disorders(after[k], order) = {}
    BY <2>1, <2>3, <2>4 DEF Switch
  <2>5. CASE Disorders(after[k], order) # {}
    <3>1. left(after[k]) + k <= turns
      BY <2>2, <2>5
    <3>2. IsTable(after[k])
      BY <2>2, RearrangedIsTable DEF V
    <3>3. left(after[k + 1]) < left(after[k])
      BY <2>1, <2>5, <3>2, SwitchTakesOneAway
    <3>4. left(after[k]) \in Nat /\ left(after[k + 1]) \in Nat
      BY <1>1, <2>2, <2>3, RearrangedIsTable, InversionsBounded DEF V
    <3> HIDE DEF left
    <3> QED BY <1>2, <2>3, <3>1, <3>3, <3>4
  <2> QED BY <2>4, <2>5
<1>10. \A k \in Nat : k \in S
  <2> HIDE DEF S
  <2> QED BY <1>8, <1>9, InductionOver
<1> DEFINE last == after[turns]
<1>11. last \in V /\ (Disorders(last, order) = {} \/ left(last) + turns <= turns)
  BY <1>2, <1>10
<1> HIDE DEF last
<1>12. CASE left(last) + turns <= turns
  <2>1. IsFiniteSet(Inversions(last, order)) /\ left(last) \in Nat
    BY <1>1, <1>11, RearrangedIsTable, InversionsBounded DEF V
  <2>2. left(last) = 0
    BY <1>2, <1>12, <2>1
  <2>3. Inversions(last, order) = {}
    BY <2>1, <2>2, FS_EmptySet
  <2>4. Len(last) \in Nat
    BY <1>1, <1>11, RearrangedIsTable DEF V
  <2>5. ASSUME NEW i \in Disorders(last, order) PROVE FALSE
    <3>1. i \in 1 .. Len(last) /\ i + 1 \in 1 .. Len(last) /\ i < i + 1
          /\ OutOfOrder(last[i], last[i + 1], order)
      BY <2>4 DEF Disorders
    <3>2. <<i, i + 1>> \in Inversions(last, order)
      BY <3>1 DEF Inversions
    <3> QED BY <2>3, <3>2
  <2> QED BY <1>7, <1>11, <2>5 DEF V, last
<1> QED BY <1>7, <1>11, <1>12 DEF V, last

-------------------------------------------------------------------------------
(***************************************************************************)
(* The folds over finite sets that build the table: MapThenFoldSet takes   *)
(* one element away after the other.                                       *)
(***************************************************************************)
Picks(pick, S) == \A s \in SUBSET S : s # {} => pick[s] \in s

Rest(pick, s) == s \ {pick[s]}

IsFold(g, S, V, first, pick, step) ==
    /\ g \in [SUBSET S -> V]
    /\ \A s \in SUBSET S :
          g[s] = IF s = {} THEN first ELSE step[<<pick[s], g[Rest(pick, s)]>>]

LEMMA RestIsSmaller ==
    ASSUME NEW S, IsFiniteSet(S), NEW pick, Picks(pick, S), NEW s \in SUBSET S, s # {}
    PROVE  /\ Rest(pick, s) \in SUBSET S
           /\ Cardinality(Rest(pick, s)) = Cardinality(s) - 1
           /\ Cardinality(s) \in Nat \ {0}
<1>1. IsFiniteSet(s) /\ pick[s] \in s
  BY FS_Subset DEF Picks
<1>2. Cardinality(s) \in Nat /\ Cardinality(s) # 0
  BY <1>1, FS_CardinalityType, FS_EmptySet
<1>3. Cardinality(s \ {pick[s]}) = Cardinality(s) - 1
  BY <1>1, FS_RemoveElement
<1> QED BY <1>1, <1>2, <1>3 DEF Rest

LEMMA CardinalityOfSubset ==
    ASSUME NEW S, IsFiniteSet(S), NEW s \in SUBSET S
    PROVE  Cardinality(s) \in Nat /\ (Cardinality(s) = 0 <=> s = {})
BY FS_Subset, FS_CardinalityType, FS_EmptySet

\* What holds of the first value and is kept by every step holds of the fold.
LEMMA FoldStaysIn ==
    ASSUME NEW S, IsFiniteSet(S), NEW V, NEW pick, Picks(pick, S), NEW g, g[{}] \in V,
           \A s \in SUBSET S : s # {} /\ g[Rest(pick, s)] \in V => g[s] \in V
    PROVE  g[S] \in V
<1> DEFINE T == {n \in Nat : \A s \in SUBSET S : Cardinality(s) = n => g[s] \in V}
<1>1. 0 \in T
  BY CardinalityOfSubset
<1>2. ASSUME NEW n \in Nat, n \in T PROVE n + 1 \in T
  <2> SUFFICES ASSUME NEW s \in SUBSET S, Cardinality(s) = n + 1 PROVE g[s] \in V
    OBVIOUS
  <2>1. s # {}
    BY CardinalityOfSubset
  <2>2. Rest(pick, s) \in SUBSET S /\ Cardinality(Rest(pick, s)) = n
    BY <2>1, RestIsSmaller
  <2>3. g[Rest(pick, s)] \in V
    BY <1>2, <2>2
  <2> QED BY <2>1, <2>3
<1>3. \A n \in Nat : n \in T
  <2> HIDE DEF T
  <2> QED BY <1>1, <1>2, InductionOver
<1>4. Cardinality(S) \in Nat
  BY CardinalityOfSubset
<1> QED BY <1>3, <1>4

\* The recursive definition of a fold has a solution.
LEMMA FoldExists ==
    ASSUME NEW S, IsFiniteSet(S), NEW V, NEW first \in V, NEW pick, Picks(pick, S),
           NEW step \in [S \X V -> V]
    PROVE  \E g : IsFold(g, S, V, first, pick, step)
<1> DEFINE Value(g, s) == IF s = {} THEN first ELSE step[<<pick[s], g[Rest(pick, s)]>>]
           Solves(g, n) == \A s \in SUBSET S : Cardinality(s) <= n => g[s] = Value(g, s)
           T == {n \in Nat : \E g \in [SUBSET S -> V] : Solves(g, n)}
<1>1. 0 \in T
  <2> DEFINE g == [s \in SUBSET S |-> first]
  <2>1. g \in [SUBSET S -> V]
    OBVIOUS
  <2>2. Solves(g, 0)
    BY CardinalityOfSubset
  <2> HIDE DEF g, Solves
  <2> QED BY <2>1, <2>2
<1>2. ASSUME NEW n \in Nat, n \in T PROVE n + 1 \in T
  <2>1. PICK g \in [SUBSET S -> V] : Solves(g, n)
    BY <1>2
  <2> DEFINE h == [s \in SUBSET S |-> IF Cardinality(s) = n + 1 THEN Value(g, s) ELSE g[s]]
  <2>2. \A s \in SUBSET S : s # {} => pick[s] \in S /\ Rest(pick, s) \in SUBSET S
    BY DEF Picks, Rest
  <2>3. \A s \in SUBSET S : Value(g, s) \in V
    BY <2>2
  <2>4. h \in [SUBSET S -> V]
    BY <2>3
  <2>5. \A s \in SUBSET S : Cardinality(s) <= n + 1 => h[s] = Value(g, s)
    BY <2>1, CardinalityOfSubset
  <2>6. \A s \in SUBSET S : Cardinality(s) <= n + 1 => Value(h, s) = Value(g, s)
    <3> SUFFICES ASSUME NEW s \in SUBSET S, Cardinality(s) <= n + 1, s # {}
                 PROVE  h[Rest(pick, s)] = g[Rest(pick, s)]
      OBVIOUS
    <3>1. Rest(pick, s) \in SUBSET S /\ Cardinality(Rest(pick, s)) # n + 1
      BY RestIsSmaller
    <3> QED BY <3>1
  <2> HIDE DEF h, Value
  <2>7. Solves(h, n + 1)
    BY <2>5, <2>6
  <2> HIDE DEF Solves
  <2> QED BY <2>4, <2>7
<1>3. \A n \in Nat : n \in T
  <2> HIDE DEF T
  <2> QED BY <1>1, <1>2, InductionOver
<1>4. PICK g \in [SUBSET S -> V] : Solves(g, Cardinality(S))
  BY <1>3, CardinalityOfSubset
<1>5. \A s \in SUBSET S : Cardinality(s) <= Cardinality(S)
  BY FS_Subset
<1> QED BY <1>4, <1>5 DEF IsFold


-------------------------------------------------------------------------------
(***************************************************************************)
(* The table of what nodes report is a sequence of rows.                   *)
(***************************************************************************)
AreReports(d) ==
    /\ DOMAIN d \in SUBSET Node
    /\ \A n \in DOMAIN d :
          d[n] = null \/ (d[n].local \in Seq(File) /\ d[n].replica \in Seq(File))

LEMMA MinIsLeast ==
    ASSUME NEW S, S \subseteq Nat, S # {}
    PROVE  Min(S) \in S
<1>1. Least(S) \in S /\ \A k \in S : Least(S) <= k
  BY LeastExists
<1> QED BY <1>1 DEF Min

LEMMA MaxIsGreatest ==
    ASSUME NEW M \in Nat, NEW S, S \subseteq 0 .. M, S # {}
    PROVE  Max(S) \in S /\ \A k \in S : k <= Max(S)
<1>1. Greatest(S) \in S /\ \A k \in S : k <= Greatest(S)
  BY GreatestExists
<1>2. \E x \in S : \A y \in S : x >= y
  BY <1>1
<1>3. Max(S) \in S /\ \A y \in S : Max(S) >= y
  BY <1>2 DEF Max
<1> QED BY <1>3

LEMMA MentionsAreFiles ==
    ASSUME NEW d, AreReports(d)
    PROVE  Mentions(d) \in Seq(File)
<1> DEFINE S == DOMAIN d
           V == Seq(File)
           folders(n) == IF d[n] = null THEN <<>> ELSE d[n].local \o d[n].replica
           pick == [s \in SUBSET S |-> Min(s)]
           step == [xv \in S \X V |-> folders(xv[1]) \o xv[2]]
<1>1. IsFiniteSet(S) /\ S \subseteq Nat
  BY NodeIsFinite, FS_Subset DEF AreReports
<1>2. Picks(pick, S)
  BY <1>1, MinIsLeast DEF Picks
<1>3. \A n \in S : folders(n) \in V
  BY DEF AreReports
<1>4. step \in [S \X V -> V] /\ <<>> \in V
  <2>1. \A n \in S, v \in V : folders(n) \o v \in V
    BY <1>3
  <2> HIDE DEF folders, V
  <2>2. step \in [S \X V -> V]
    BY <2>1
  <2> QED BY <2>2 DEF V
<1> HIDE DEF V, step, folders
<1>5. PICK f : IsFold(f, S, V, <<>>, pick, step)
  <2> HIDE DEF S, pick
  <2> QED BY <1>1, <1>2, <1>4, FoldExists
<1> DEFINE Value(g, s) == IF s = {} THEN <<>> ELSE folders(Min(s)) \o g[s \ {Min(s)}]
<1>6. f = [s \in SUBSET S |-> Value(f, s)]
  <2>1. \A s \in SUBSET S : s # {} =>
            pick[s] = Min(s) /\ Min(s) \in S /\ f[s \ {Min(s)}] \in V
    BY <1>1, <1>5, MinIsLeast DEF IsFold
  <2>2. \A s \in SUBSET S : f[s] = Value(f, s)
    BY <1>5, <2>1 DEF IsFold, Rest, step
  <2>3. f = [s \in SUBSET S |-> f[s]]
    BY <1>5 DEF IsFold
  <2> HIDE DEF Value
  <2> QED BY <2>2, <2>3
<1> DEFINE iter == CHOOSE g : g = [s \in SUBSET S |-> Value(g, s)]
<1>7. iter = [s \in SUBSET S |-> Value(iter, s)]
  <2> HIDE DEF Value
  <2> QED BY <1>6
<1>8. Mentions(d) = iter[S]
  BY DEF Mentions, MapThenFoldSet, folders
<1> HIDE DEF iter
<1>9. iter[{}] \in V
  BY <1>4, <1>7
<1>10. ASSUME NEW s \in SUBSET S, s # {}, iter[Rest(pick, s)] \in V
       PROVE  iter[s] \in V
  <2>1. iter[s] = folders(Min(s)) \o iter[Rest(pick, s)] /\ Min(s) \in S
    BY <1>1, <1>7, <1>10, MinIsLeast DEF Rest
  <2> QED BY <1>3, <1>10, <2>1 DEF V
<1>11. iter[S] \in V
  <2> HIDE DEF S, pick
  <2> QED BY <1>1, <1>2, <1>9, <1>10, FoldStaysIn
<1> QED BY <1>8, <1>11 DEF V

LEMMA FileListIsOfFiles ==
    ASSUME NEW d, AreReports(d)
    PROVE  FileList(d) \in Seq(File)
<1> DEFINE q == Mentions(d)
           S == DOMAIN q
           V == Seq(File)
           add(list, f) == IF Contains(list, f) THEN list ELSE Append(list, f)
           pick == [s \in SUBSET S |-> Max(s)]
           step == [xv \in S \X V |-> add(xv[2], q[xv[1]])]
<1>1. q \in Seq(File)
  BY MentionsAreFiles
<1> HIDE DEF q
<1>2. Len(q) \in Nat /\ S = 1 .. Len(q)
  BY <1>1
<1>3. IsFiniteSet(S) /\ S \subseteq 0 .. Len(q) /\ \A x \in S : q[x] \in File
  BY <1>1, <1>2, FS_Interval
<1>4. \A s \in SUBSET S : s # {} => Max(s) \in s
  BY <1>2, <1>3, MaxIsGreatest
<1>5. Picks(pick, S)
  BY <1>4 DEF Picks
<1>6. <<>> \in V /\ \A x \in S, v \in V : add(v, q[x]) \in V
  BY <1>3
<1>7. step \in [S \X V -> V] /\ <<>> \in V
  <2> HIDE DEF add, V
  <2> QED BY <1>6
<1> HIDE DEF V, step, S
<1>8. PICK f : IsFold(f, S, V, <<>>, pick, step)
  <2> HIDE DEF pick
  <2> QED BY <1>3, <1>5, <1>7, FoldExists
<1> DEFINE Value(g, s) == IF s = {} THEN <<>> ELSE add(g[s \ {Max(s)}], q[Max(s)])
<1>9. f = [s \in SUBSET S |-> Value(f, s)]
  <2> HIDE DEF add
  <2>1. \A s \in SUBSET S : s # {} =>
            pick[s] = Max(s) /\ Max(s) \in S /\ f[s \ {Max(s)}] \in V
    BY <1>4, <1>8 DEF IsFold
  <2>2. \A s \in SUBSET S : f[s] = Value(f, s)
    BY <1>8, <2>1 DEF IsFold, Rest, step
  <2>3. f = [s \in SUBSET S |-> f[s]]
    BY <1>8 DEF IsFold
  <2> HIDE DEF Value
  <2> QED BY <2>2, <2>3
<1> DEFINE iter == CHOOSE g : g = [s \in SUBSET S |-> Value(g, s)]
<1>10. iter = [s \in SUBSET S |-> Value(iter, s)]
  <2> HIDE DEF Value
  <2> QED BY <1>9
<1>11. FileList(d) = iter[S]
  BY DEF FileList, FoldLeft, MapThenFoldSet, q, S
<1> HIDE DEF iter
<1>12. iter[{}] \in V
  BY <1>7, <1>10
<1>13. ASSUME NEW s \in SUBSET S, s # {}, iter[Rest(pick, s)] \in V
       PROVE  iter[s] \in V
  <2>1. iter[s] = add(iter[Rest(pick, s)], q[Max(s)]) /\ Max(s) \in S
    BY <1>4, <1>10, <1>13 DEF Rest
  <2> HIDE DEF add
  <2> QED BY <1>13, <1>6, <2>1
<1>14. iter[S] \in V
  <2> HIDE DEF pick
  <2> QED BY <1>3, <1>5, <1>12, <1>13, FoldStaysIn
<1> QED BY <1>11, <1>14 DEF V

\* A set of places without gaps from the first one on is an interval.
LEMMA PrefixIsInterval ==
    ASSUME NEW n \in Nat, NEW S, S \subseteq 1 .. n, \A i \in S : 1 .. i \subseteq S
    PROVE  \E m \in 0 .. n : S = 1 .. m
<1>1. CASE S = {}
  BY <1>1
<1>2. CASE S # {}
  <2>1. S \subseteq 0 .. n
    OBVIOUS
  <2>2. Greatest(S) \in S /\ \A i \in S : i <= Greatest(S)
    BY <1>2, <2>1, GreatestExists
  <2>3. PICK m \in S : \A i \in S : i <= m
    BY <2>2
  <2>4. \A i \in S : i \in 1 .. n
    OBVIOUS
  <2>5. m \in 1 .. n /\ \A i \in 1 .. m : i \in S
    BY <2>4
  <2>6. \A i \in S : i \in 1 .. m
    BY <2>3, <2>4
  <2>7. S = 1 .. m
    BY <2>5, <2>6
  <2> QED BY <2>5, <2>7
<1> QED BY <1>1, <1>2

LEMMA LastIsNode ==
    ASSUME NEW S \in SUBSET Node
    PROVE  LastOf(S) = null \/ LastOf(S) \in Int
<1>1. CASE S = {}
  BY <1>1 DEF LastOf
<1>2. CASE S # {}
  <2>1. S \subseteq 0 .. MaxId /\ MaxId \in Nat
    BY NodeIsFinite
  <2>2. Greatest(S) \in S /\ \A m \in S : m <= Greatest(S)
    BY <1>2, <2>1, GreatestExists
  <2> DEFINE last == CHOOSE n \in S : \A m \in S : m <= n
  <2>3. last \in S
    BY <2>2
  <2>4. LastOf(S) = last
    BY <1>2 DEF LastOf
  <2> HIDE DEF last
  <2> QED BY <2>1, <2>3, <2>4
<1> QED BY <1>1, <1>2

LEMMA KeysAreNumbers ==
    ASSUME NEW d, AreReports(d), NEW f \in File, NEW col \in 0 .. 4
    PROVE  Key(Row(d, f), col) \in Int
<1>1. f \in Int /\ HashOf[f] \in Int
  BY FileAssumption
<1>2. Answered(d) \in SUBSET Node
  BY DEF AreReports, Answered
<1>3. Local(d, f) = null \/ Local(d, f) \in Int
  BY <1>2, LastIsNode DEF Local
<1>4. Replica(d, f) = null \/ Replica(d, f) \in Int
  BY <1>2, LastIsNode DEF Replica
<1>5. /\ Row(d, f).file = f
      /\ Row(d, f).local = Local(d, f) /\ Row(d, f).replica = Replica(d, f)
  BY DEF Row
<1> DEFINE row == Row(d, f)
<1> HIDE DEF row
<1>6. row.file = f /\ (row.local = null \/ row.local \in Int)
      /\ (row.replica = null \/ row.replica \in Int)
  BY <1>3, <1>4, <1>5 DEF row
<1>7. Key(row, col) \in Int
  BY <1>1, <1>6 DEF Key
<1> QED BY <1>7 DEF row

LEMMA TableIsTable ==
    ASSUME NEW d, AreReports(d)
    PROVE  IsTable(Table(d))
<1> DEFINE files == FileList(d)
           drawn == {i \in DOMAIN files : \A j \in 1 .. i : ~ LockThrows(d, files[j])}
           rows == [i \in drawn |-> Row(d, files[i])]
<1>1. files \in Seq(File)
  BY FileListIsOfFiles
<1> HIDE DEF files
<1>2. Len(files) \in Nat /\ DOMAIN files = 1 .. Len(files) /\ \A i \in 1 .. Len(files) : files[i] \in File
  BY <1>1
<1>3. \A i \in drawn : 1 .. i \subseteq drawn
  BY <1>2
<1>4. PICK m \in 0 .. Len(files) : drawn = 1 .. m
  <2>1. drawn \subseteq 1 .. Len(files)
    BY <1>2
  <2> HIDE DEF drawn
  <2> QED BY <1>2, <1>3, <2>1, PrefixIsInterval
<1> HIDE DEF drawn
<1>5. rows \in [1 .. m -> ToSet(rows)]
  BY <1>4 DEF ToSet
<1>6. rows \in Seq(ToSet(rows))
  <2> HIDE DEF rows
  <2>1. m \in Nat
    BY <1>2, <1>4
  <2> QED BY <1>5, <2>1, FunctionIsSequence
<1>7. \A row \in ToSet(rows) : \E f \in File : row = Row(d, f)
  BY <1>2, <1>4 DEF ToSet
<1>8. \A row \in ToSet(rows), col \in 0 .. 4 : Key(row, col) \in Int
  BY <1>7, KeysAreNumbers
<1>9. Table(d) = rows
  BY DEF Table, files, drawn
<1> QED BY <1>6, <1>8, <1>9 DEF IsTable

LEMMA ReportsMakeTables ==
    ASSUME NEW silent \in SUBSET Node, NEW known \in SUBSET Node
    PROVE  IsTable(Table(Reports(silent, known)))
<1>1. AreReports(Reports(silent, known))
  BY MonitorAssumption DEF AreReports, Reports
<1> QED BY <1>1, TableIsTable

-------------------------------------------------------------------------------
(***************************************************************************)
(* The screen is current: by a second invariant, on top of the first.      *)
(***************************************************************************)
\* What the page has got from the nodes, as the file manager reads it.
ReportsOf(d) == Reports({n \in Node : d[n] = null}, {n \in Node : Known(d, n)})

\* The set of screens is a table of updateFileTable's results.
LEMMA FileScreenIs ==
    ASSUME NEW d, NEW by \in Order
    PROVE  FileScreen(d, by) = TableScreen(ReportsOf(d), by)
<1> DEFINE silent == {n \in Node : d[n] = null}
           known == {n \in Node : Known(d, n)}
           entry == [silent |-> silent, known |-> known, by |-> by,
                     screen |-> TableScreen(Reports(silent, known), by)]
           found == CHOOSE s \in FileScreens : s.silent = silent /\ s.known = known /\ s.by = by
<1>1. silent \in SUBSET Node /\ known \in SUBSET Node
  OBVIOUS
<1> HIDE DEF silent, known
<1>2. entry \in FileScreens
  BY <1>1 DEF FileScreens
<1>3. entry.silent = silent /\ entry.known = known /\ entry.by = by
  OBVIOUS
<1> HIDE DEF entry
<1>4. found \in FileScreens /\ found.silent = silent /\ found.known = known /\ found.by = by
  BY <1>2, <1>3
<1> HIDE DEF found
<1>5. \A s \in FileScreens : s.screen = TableScreen(Reports(s.silent, s.known), s.by)
  BY DEF FileScreens
<1>6. found.screen = TableScreen(Reports(silent, known), by)
  BY <1>4, <1>5
<1>7. FileScreen(d, by) = found.screen
  BY DEF FileScreen, found, silent, known
<1> QED BY <1>6, <1>7 DEF ReportsOf, silent, known

\* The file manager's screen has the rows of the table, in order unless drawing failed.
LEMMA FileScreenShows ==
    ASSUME NEW d, NEW by \in Order
    PROVE  /\ IsTable(FileScreen(d, by).rows)
           /\ ToSet(FileScreen(d, by).rows) = ToSet(Table(ReportsOf(d)))
           /\ FileScreen(d, by).threw = TableThrows(ReportsOf(d))
           /\ FileScreen(d, by).threw \/ Disorders(FileScreen(d, by).rows, by) = {}
<1> DEFINE rows == Table(ReportsOf(d))
<1>1. IsTable(rows)
  BY ReportsMakeTables DEF ReportsOf
<1>2. FileScreen(d, by).threw = TableThrows(ReportsOf(d))
      /\ FileScreen(d, by).rows = IF TableThrows(ReportsOf(d)) THEN rows ELSE SortTable(rows, by)
  BY FileScreenIs DEF TableScreen
<1> HIDE DEF rows
<1>3. SortTable(rows, by) \in Rearranged(rows) /\ Disorders(SortTable(rows, by), by) = {}
  BY <1>1, SortTableSorts
<1>4. IsTable(SortTable(rows, by)) /\ ToSet(SortTable(rows, by)) = ToSet(rows)
  BY <1>1, <1>3, RearrangedIsTable
<1> QED BY <1>1, <1>2, <1>3, <1>4 DEF rows

\* The age of the answers is no matter of rows or exceptions.
LEMMA AgeIsNotDrawn ==
    ASSUME NEW p \in Page, NEW m, NEW d, NEW places, NEW by, NEW ping, NEW older
    PROVE  /\ Screen(p, m, d, ping, places, by).rows = Screen(p, m, d, older, places, by).rows
           /\ Screen(p, m, d, ping, places, by).threw = Screen(p, m, d, older, places, by).threw
<1>1. CASE p = "Dashboard"
  BY <1>1 DEF Screen, DashboardScreen
<1>2. CASE p = "Nodes"
  BY <1>2 DEF Screen, NodesScreen
<1>3. CASE p = "FileManager"
  BY <1>3 DEF Screen
<1>4. CASE p = "NetworkMap"
  BY <1>4 DEF Screen, MapScreen
<1> QED BY <1>1, <1>2, <1>3, <1>4 DEF Page

\* What SortBy sorts is a table, whether the flag is up or not.
ScreenInv == ScreenIsCurrent /\ (page = "FileManager" => IsTable(shown.rows))

\* Nothing is promised while a redraw is announced.
LEMMA AnnouncedIsCurrent ==
    ASSUME ScreenInv, newDataAvailable', UNCHANGED <<page, shown>>
    PROVE  ScreenInv'
BY DEF ScreenInv, ScreenIsCurrent

\* What is shown stays current when only the ages of the answers change.
LEMMA CurrentKept ==
    ASSUME ScreenInv, ScreenTypeOK,
           UNCHANGED <<page, nameServerData, nodeData, newDataAvailable>>,
           UNCHANGED <<selectedID, details, angles, sorting, shown>>
    PROVE  ScreenInv'
<1>1. page \in Page
  BY DEF ScreenTypeOK
<1> DEFINE now(ping) == Screen(page, nameServerData, nodeData, ping, angles, sorting)
<1>2. now(nodeLastPing).rows = now(nodeLastPing').rows
      /\ now(nodeLastPing).threw = now(nodeLastPing').threw
  BY <1>1, AgeIsNotDrawn
<1> HIDE DEF now
<1>3. now(nodeLastPing') = Screen(page, nameServerData, nodeData, nodeLastPing, angles, sorting)'
  BY DEF now
<1> QED BY <1>2, <1>3 DEF ScreenInv, ScreenIsCurrent, now

\* What has just been drawn is current, unless new data have come since.
LEMMA DrawnIsCurrent ==
    ASSUME NEW p \in Page, NEW m, NEW d, NEW ping, NEW places, NEW by \in Order, NEW id,
           Draw(p, m, d, ping, places, by, id),
           page' = p, sorting' = by, selectedID' = id,
           newDataAvailable' \/ (nameServerData' = m /\ nodeData' = d)
    PROVE  ScreenInv'
<1>1. shown' = Screen(p, m, d, ping, angles', by) /\ details' = Details(d, id)
  BY DEF Draw
<1>2. p = "FileManager" => shown' = FileScreen(d, by)
  BY <1>1 DEF Screen
<1>3. p = "FileManager" =>
          IsTable(shown'.rows) /\ (shown'.threw \/ Disorders(shown'.rows, by) = {})
  BY <1>2, FileScreenShows
<1>4. CASE newDataAvailable'
  BY <1>3, <1>4 DEF ScreenInv, ScreenIsCurrent
<1>5. CASE nameServerData' = m /\ nodeData' = d
  <2> DEFINE now == Screen(p, m, d, nodeLastPing', angles', by)
  <2>1. shown'.rows = now.rows /\ shown'.threw = now.threw
    BY <1>1, AgeIsNotDrawn
  <2>2. now = Screen(page, nameServerData, nodeData, nodeLastPing, angles, sorting)'
    BY <1>5
  <2> HIDE DEF now
  <2> QED BY <1>1, <1>3, <1>5, <2>1, <2>2 DEF ScreenInv, ScreenIsCurrent
<1> QED BY <1>4, <1>5

\* Polling announces what it stores, or stores nothing but ages.
LEMMA UpdateDataAnnounces ==
    ASSUME NEW intervals, NEW flag \in BOOLEAN, UpdateData(intervals, flag)
    PROVE  newDataAvailable' \/ (UNCHANGED <<nameServerData, nodeData>> /\ newDataAvailable' = flag)
BY DEF UpdateData, UpdateNS, TimePasses, StoreNothing, Store

LEMMA StoreAnnounces ==
    ASSUME NEW m, NEW d, NEW ping, NEW flagSaved, Store(m, d, ping, flagSaved, TRUE)
    PROVE  newDataAvailable'
BY DEF Store

\* The requests that end touch the screen in no other way than by the flag.
LEMMA RequestsKeepScreen ==
    ASSUME ScreenInv, ScreenTypeOK, DataTypeOK,
           Interval \/ NameServerCall \/ \E k \in Calls, n \in Node : NodeAnswers(k, n)
    PROVE  ScreenInv'
<1>1. UNCHANGED <<page, selectedID, details, angles, sorting, shown>>
  BY DEF Interval, NameServerCall, NameServerAnswers, MappingArrives, NoMappingArrives,
         CallEnds, NodeAnswers, screen, tab
<1>2. newDataAvailable' \/ UNCHANGED <<nameServerData, nodeData, newDataAvailable>>
  <2>1. CASE Interval
    <3>1. newDataAvailable \in BOOLEAN
      BY DEF DataTypeOK
    <3> QED BY <2>1, <3>1, UpdateDataAnnounces DEF Interval
  <2>2. CASE NameServerCall
    BY <2>2 DEF NameServerCall, NameServerAnswers, MappingArrives, NoMappingArrives,
                StoreMapping, StoreNothing, Store, data
  <2>3. ASSUME NEW k \in Calls, NEW n \in Node, NodeAnswers(k, n)
        PROVE  newDataAvailable' \/ UNCHANGED <<nameServerData, nodeData, newDataAvailable>>
    BY <2>3 DEF NodeAnswers, EndRequest, StoreAnswers, Store, data
  <2> QED BY <2>1, <2>2, <2>3
<1> QED BY <1>1, <1>2, AnnouncedIsCurrent, CurrentKept

LEMMA ScreenRefreshKeepsScreen ==
    ASSUME ScreenTypeOK, ScreenRefresh
    PROVE  ScreenInv'
<1>1. page \in Page /\ sorting \in Order
  BY DEF ScreenTypeOK
<1> QED BY <1>1, DrawnIsCurrent DEF ScreenRefresh, DrawCurrent, data, tab

LEMMA ClickRefreshKeepsScreen ==
    ASSUME ScreenInv, ScreenTypeOK, DataTypeOK, ClickRefresh
    PROVE  ScreenInv'
<1>1. page \in Page /\ sorting \in Order /\ newDataAvailable \in BOOLEAN
  BY DEF ScreenTypeOK, DataTypeOK
<1>2. UNCHANGED <<selectedID, sorting, page>>
  BY DEF ClickRefresh, tab
<1>3. CASE /\ DrawCurrent
           /\ UpdateData(0, FlagAfter(page, newDataAvailable, nodeData))
  <2>1. newDataAvailable' \/ UNCHANGED <<nameServerData, nodeData>>
    BY <1>3, FlagAfterIsBoolean, UpdateDataAnnounces
  <2> QED BY <1>1, <1>2, <1>3, <2>1, DrawnIsCurrent DEF DrawCurrent
<1>4. CASE UpdateData(0, newDataAvailable) /\ UNCHANGED <<details, angles, shown>>
  BY <1>1, <1>2, <1>4, UpdateDataAnnounces, AnnouncedIsCurrent, CurrentKept
<1> QED BY <1>3, <1>4 DEF ClickRefresh

LEMMA SelectNodeKeepsScreen ==
    ASSUME ScreenInv, ScreenTypeOK, NEW n \in Node, SelectNode(n)
    PROVE  ScreenInv'
<1>1. /\ page = "Dashboard" /\ page' = page /\ details' = Details(nodeData, n) /\ selectedID' = n
      /\ UNCHANGED <<nameServerData, nodeData, nodeLastPing, newDataAvailable>>
      /\ UNCHANGED <<angles, sorting, shown>>
  BY DEF SelectNode, data, tab
<1> DEFINE now == Screen(page, nameServerData, nodeData, nodeLastPing, angles, sorting)
<1>2. now' = now
  BY <1>1
<1>3. newDataAvailable \/ (shown.threw = now.threw /\ shown.rows = now.rows)
  BY <1>1 DEF ScreenInv, ScreenIsCurrent
<1> HIDE DEF now
<1>4. Details(nodeData, selectedID)' = Details(nodeData, n)
  BY <1>1
<1>5. newDataAvailable' \/ (shown'.threw = now'.threw /\ shown'.rows = now'.rows)
  BY <1>1, <1>2, <1>3
<1> QED BY <1>1, <1>4, <1>5 DEF ScreenInv, ScreenIsCurrent, now

LEMMA SortByKeepsScreen ==
    ASSUME ScreenInv, ScreenTypeOK, NEW col \in 0 .. 4, SortBy(col)
    PROVE  ScreenInv'
<1>1. page = "FileManager" /\ page' = page
      /\ UNCHANGED <<nameServerData, nodeData, nodeLastPing, newDataAvailable>>
      /\ UNCHANGED <<selectedID, details, angles>>
  BY DEF SortBy, data, tab
<1>2. PICK by \in Order : sorting' = by /\ shown' = [shown EXCEPT !.rows = SortTable(@, by)]
  <2>1. ClickHeader(sorting, col) \in Order
    BY DEF ScreenTypeOK, ClickHeader, Order
  <2> QED BY <2>1 DEF SortBy
<1>3. IsTable(shown.rows) /\ sorting \in Order
  BY <1>1 DEF ScreenInv, ScreenTypeOK
<1> DEFINE sorted == SortTable(shown.rows, by)
<1>4. sorted \in Rearranged(shown.rows) /\ Disorders(sorted, by) = {}
  BY <1>3, SortTableSorts
<1>5. IsTable(sorted) /\ ToSet(sorted) = ToSet(shown.rows)
  BY <1>3, <1>4, RearrangedIsTable
<1> HIDE DEF sorted
<1>6. shown'.rows = sorted /\ shown'.threw = shown.threw
  BY <1>2 DEF sorted
<1>7. ~ newDataAvailable =>
          /\ shown.threw = FileScreen(nodeData, sorting).threw
          /\ details = Details(nodeData, selectedID)
          /\ ToSet(shown.rows) = ToSet(FileScreen(nodeData, sorting).rows)
  BY <1>1 DEF ScreenInv, ScreenIsCurrent, Screen
<1>8. /\ FileScreen(nodeData, by).threw = FileScreen(nodeData, sorting).threw
      /\ ToSet(FileScreen(nodeData, by).rows) = ToSet(FileScreen(nodeData, sorting).rows)
  BY <1>3, FileScreenShows
<1>9. Screen(page, nameServerData, nodeData, nodeLastPing, angles, sorting)'
          = FileScreen(nodeData, by)
  BY <1>1, <1>2 DEF Screen
<1>10. Details(nodeData, selectedID)' = Details(nodeData, selectedID)
  BY <1>1
<1> QED BY <1>1, <1>2, <1>4, <1>5, <1>6, <1>7, <1>8, <1>9, <1>10 DEF ScreenInv, ScreenIsCurrent

LEMMA OpenPageKeepsScreen ==
    ASSUME NEW p \in Page, OpenPage(p)
    PROVE  ScreenInv'
BY FirstOrderIsAnOrder, DrawnIsCurrent DEF OpenPage

LEMMA InitIsCurrent == Init => ScreenInv
<1> SUFFICES ASSUME Init PROVE ScreenInv
  OBVIOUS
<1>1. page = "Dashboard" /\ selectedID = undefined /\ details = {}
      /\ shown = Screen(page, nameServerData, nodeData, nodeLastPing, angles, sorting)
  BY DEF Init
<1>2. Details(nodeData, selectedID) = {}
  BY <1>1 DEF Details
<1> QED BY <1>1, <1>2 DEF ScreenInv, ScreenIsCurrent

LEMMA NextKeepsScreen == Inv /\ ScreenInv /\ [Next]_vars => ScreenInv'
<1> SUFFICES ASSUME Inv, ScreenInv, [Next]_vars PROVE ScreenInv'
  OBVIOUS
<1>1. ScreenTypeOK /\ DataTypeOK
  BY DEF Inv, DataInv
<1>2. CASE UNCHANGED monitor
  <2>1. UNCHANGED <<page, nameServerData, nodeData, newDataAvailable>>
        /\ UNCHANGED <<selectedID, details, angles, sorting, shown>>
    BY <1>2 DEF monitor, data, screen, tab
  <2> QED BY <1>1, <2>1, CurrentKept
<1>3. CASE Interval \/ NameServerCall \/ \E k \in Calls, n \in Node : NodeAnswers(k, n)
  BY <1>1, <1>3, RequestsKeepScreen
<1>4. CASE ScreenRefresh
  BY <1>1, <1>4, ScreenRefreshKeepsScreen
<1>5. CASE User
  <2>1. CASE ClickRefresh
    BY <1>1, <2>1, ClickRefreshKeepsScreen
  <2>2. ASSUME NEW n \in Node, SelectNode(n) PROVE ScreenInv'
    BY <1>1, <2>2, SelectNodeKeepsScreen
  <2>3. ASSUME NEW n \in Node, TerminateNode(n) \/ ShutdownNode(n) PROVE ScreenInv'
    BY <1>2, <2>3 DEF TerminateNode, ShutdownNode
  <2>4. ASSUME NEW col \in 0 .. 4, SortBy(col) PROVE ScreenInv'
    BY <1>1, <2>4, SortByKeepsScreen
  <2>5. ASSUME NEW p \in Page, OpenPage(p) PROVE ScreenInv'
    BY <2>5, OpenPageKeepsScreen
  <2> QED BY <1>5, <2>1, <2>2, <2>3, <2>4, <2>5 DEF User
<1>6. CASE UNCHANGED vars
  BY <1>2, <1>6 DEF vars
<1> QED BY <1>2, <1>3, <1>4, <1>5, <1>6 DEF Next

-------------------------------------------------------------------------------
\* Every state is well typed, however many rounds of requests overlap.
THEOREM TypeCorrect == Spec => []TypeOK
<1>1. Inv => TypeOK
  BY DEF Inv, TypeOK, DataInv, RequestsInv
<1> QED BY <1>1, InvHolds, PTL

(***************************************************************************)
(* The page has data of exactly the nodes of the mapping it got last, and  *)
(* has saved what it has, whatever the order in which the answers come.    *)
(***************************************************************************)
THEOREM DataFollowsTheMapping == Spec => []KnowsTheMapping
<1>1. Inv => KnowsTheMapping
  BY DEF Inv, DataInv
<1> QED BY <1>1, InvHolds, PTL

(***************************************************************************)
(* The two counters of GetData.js count the requests that are pending: at  *)
(* most one to the name server, at most three to each node on average.     *)
(***************************************************************************)
THEOREM PendingIsBounded == Spec => []RequestsBounded
<1>1. Inv => RequestsBounded
  BY DEF Inv, RequestsInv
<1> QED BY <1>1, InvHolds, PTL

(***************************************************************************)
(* Unless a redraw is announced, every page shows what it knows, and the   *)
(* file manager's table is in the order the user asked for.                *)
(***************************************************************************)
THEOREM ScreenStaysCurrent == Spec => []ScreenIsCurrent
<1>1. ScreenInv => ScreenIsCurrent
  BY DEF ScreenInv
<1> QED BY <1>1, InvHolds, InitIsCurrent, NextKeepsScreen, PTL DEF Spec
===============================================================================
