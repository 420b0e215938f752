------------------------------- MODULE FileTable -------------------------------
(***************************************************************************)
(* The dashboard's table of files (RefreshFileManager.js): one row per     *)
(* file that any node reported, with the node that has it in its local     *)
(* folder, the node that has a replica, whether these are two nodes, and   *)
(* whether a user has locked it.  Pure operators of what the nodes         *)
(* reported, d: of each known node null (it has not answered yet) or       *)
(*   [local, replica : sequences of files, locks : file :-> owner].        *)
(* Nodes are numbered by id, the order in which JavaScript enumerates      *)
(* them; files by the order of their names, and the names of the nodes are *)
(* in the order of their ids.                                              *)
(***************************************************************************)
EXTENDS Integers, Sequences, SequencesExt

CONSTANTS
    null,
    HashOf          \* of each file: computeHash of its name (module NodeHash)

File == DOMAIN HashOf

ASSUME FileAssumption == \A f \in File : f \in Nat /\ HashOf[f] \in Nat

Answered(d) == {n \in DOMAIN d : d[n] # null}

(***************************************************************************)
(* The keys of fileList in the order in which the loops insert them.       *)
(***************************************************************************)
Mentions(d) ==
    LET folders(n) == IF d[n] = null THEN <<>> ELSE d[n].local \o d[n].replica
    IN  MapThenFoldSet(\o, <<>>, folders, Min, DOMAIN d)

Files(d) == ToSet(Mentions(d))

FileList(d) ==
    LET add(list, f) == IF Contains(list, f) THEN list ELSE Append(list, f)
    IN  FoldLeft(add, <<>>, Mentions(d))

(***************************************************************************)
(* fileList[f].local and fileList[f].replica: each later node overwrites   *)
(* an earlier one; null when no node has it.                               *)
(***************************************************************************)
LastOf(S) == IF S = {} THEN null ELSE CHOOSE n \in S : \A m \in S : m <= n
Local(d, f)   == LastOf({n \in Answered(d) : Contains(d[n].local, f)})
Replica(d, f) == LastOf({n \in Answered(d) : Contains(d[n].replica, f)})

(***************************************************************************)
(* islocked and lockOwner look at one node after the other.  They do not   *)
(* expect a null: a node that has not answered yet, met before a node that *)
(* knows the lock, is a TypeError.                                         *)
(***************************************************************************)
LockedAt(d, f) == {n \in Answered(d) : f \in DOMAIN d[n].locks}

LockThrows(d, f) ==
    \E n \in DOMAIN d : d[n] = null /\ \A m \in LockedAt(d, f) : n < m

IsLocked(d, f)  == LockedAt(d, f) # {}
LockOwner(d, f) ==
    IF IsLocked(d, f)
    THEN LET first == CHOOSE n \in LockedAt(d, f) : \A m \in LockedAt(d, f) : n <= m
         IN  d[first].locks[f]
    ELSE null

(***************************************************************************)
(* updateFileTable: a row per file until one throws (the table had been    *)
(* cleared before), sorted when none does.                                 *)
(***************************************************************************)
Row(d, f) ==
    [file  |-> f,
     local |-> Local(d, f), replica |-> Replica(d, f),
     ok    |-> /\ Local(d, f) # null /\ Replica(d, f) # null
               /\ Local(d, f) # Replica(d, f),
     owner |-> LockOwner(d, f)]

TableThrows(d) == \E f \in Files(d) : LockThrows(d, f)

Table(d) ==
    LET files == FileList(d)
        drawn == {i \in DOMAIN files : \A j \in 1 .. i : ~ LockThrows(d, files[j])}
    IN  [i \in drawn |-> Row(d, files[i])]

-------------------------------------------------------------------------------
(***************************************************************************)
(* sortTable compares the texts of the cells in one column: the hash,      *)
(* padded to its full width; the name; the nodes, which may be empty; and  *)
(* the image of the sign, whose name says ERROR or OK.                     *)
(***************************************************************************)
Key(row, col) ==
    CASE col = 0 -> HashOf[row.file]
      [] col = 1 -> row.file
      [] col = 2 -> IF row.local = null THEN -1 ELSE row.local
      [] col = 3 -> IF row.replica = null THEN -1 ELSE row.replica
      [] col = 4 -> IF row.ok THEN 1 ELSE 0

OutOfOrder(x, y, order) ==
    IF order.dir = "asc" THEN Key(x, order.col) > Key(y, order.col)
                         ELSE Key(x, order.col) < Key(y, order.col)

(***************************************************************************)
(* As long as two neighbouring rows are in the wrong order, the first such *)
(* pair is swapped.  Every swap takes away one inversion, so the loop ends *)
(* within Len(rows)^2 rounds.                                              *)
(***************************************************************************)
Disorders(rows, order) ==
    {i \in 1 .. Len(rows) - 1 : OutOfOrder(rows[i], rows[i + 1], order)}

Switch(rows, order) ==
    LET i == CHOOSE i \in Disorders(rows, order) : \A j \in Disorders(rows, order) : i <= j
    IN  IF Disorders(rows, order) = {} THEN rows
        ELSE [rows EXCEPT ![i] = rows[i + 1], ![i + 1] = rows[i]]

SortTable(rows, order) ==
    LET after[k \in 0 .. Len(rows) * Len(rows)] ==
            IF k = 0 THEN rows ELSE Switch(after[k - 1], order)
    IN  after[Len(rows) * Len(rows)]

(***************************************************************************)
(* A click on a column's header: the same column again turns the order     *)
(* round, another column keeps the direction.                              *)
(***************************************************************************)
Order == [col : 0 .. 4, dir : {"asc", "desc"}]

FirstOrder == [col |-> 0, dir |-> "asc"]

ClickHeader(order, col) ==
    [col |-> col,
     dir |-> IF col # order.col THEN order.dir
             ELSE IF order.dir = "asc" THEN "desc" ELSE "asc"]

-------------------------------------------------------------------------------
(***************************************************************************)
(* What these should be.                                                   *)
(*                                                                         *)
(* The sorted table has the rows of the old one, ordered by the column,    *)
(* rows with equal cells in the order they had.                            *)
(***************************************************************************)
Goes(rows, i, j, order) ==  \* row i of the old table comes before row j
    \/ OutOfOrder(rows[j], rows[i], order)
    \/ Key(rows[i], order.col) = Key(rows[j], order.col) /\ i < j

Sorted(rows, order) ==
    LET place(i) == 1 + Cardinality({j \in DOMAIN rows : Goes(rows, j, i, order)})
    IN  [p \in DOMAIN rows |-> rows[CHOOSE i \in DOMAIN rows : place(i) = p]]

(***************************************************************************)
(* The table lists every reported file once; a file has the good sign when *)
(* its local and its replicated copy, of which there is at most one each,  *)
(* are at different nodes; a lock known to any node is shown.              *)
(***************************************************************************)
AtMostOnce(d) ==
    \A m, n \in Answered(d) : m # n =>
        /\ ToSet(d[m].local) \cap ToSet(d[n].local) = {}
        /\ ToSet(d[m].replica) \cap ToSet(d[n].replica) = {}

TableIsTrue(d) ==
    LET rows == Table(d)
    IN  /\ {rows[i].file : i \in DOMAIN rows} = Files(d) /\ IsInjective(FileList(d))
        /\ \A i \in DOMAIN rows :
               /\ rows[i].ok <=> \E m, n \in Answered(d) :
                      /\ m # n
                      /\ Contains(d[m].local, rows[i].file)
                      /\ Contains(d[n].replica, rows[i].file)
               /\ rows[i].owner # null <=>
                      \E n \in Answered(d) : rows[i].file \in DOMAIN d[n].locks
===============================================================================
