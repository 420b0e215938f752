------------------------------- MODULE MonitorMC -------------------------------
(***************************************************************************)
(* A small instance of the monitor for TLC: two nodes, each with a file of *)
(* its own and the replica of the other's, one of them locked by a user at *)
(* node 2.  And checks of the pure operators over bounded inputs.          *)
(***************************************************************************)
EXTENDS Monitor

Hashing == INSTANCE NodeHash

TwoHold == << [local |-> <<1>>, replica |-> <<2>>, locks |-> <<>>],
              [local |-> <<2>>, replica |-> <<1>>, locks |-> 1 :> 2] >>

\* doc1.txt and doc2.txt: by their hashes they come in the other order.
Doc(digit) == <<100, 111, 99, digit, 46, 116, 120, 116>>
HashOfDocs == <<21895, 6346>>

ASSUME HashesOfDocs ==
    \A f \in 1 .. 2 : HashOfDocs[f] = Hashing!ComputeHash(Doc(48 + f))

(***************************************************************************)
(* MD5 of utils.js gives the digests of RFC 1321 (of "", "abc" and         *)
(* "message digest").                                                      *)
(***************************************************************************)
Digest(s) == Hashing!ToBytes(Hashing!MD5(s))

ASSUME MD5IsMD5 ==
    /\ Digest(<<>>) = <<212, 29, 140, 217, 143, 0, 178, 4, 233, 128, 9, 152, 236, 248, 66, 126>>
    /\ Digest(<<97, 98, 99>>) =
           <<144, 1, 80, 152, 60, 210, 79, 176, 214, 150, 63, 125, 40, 225, 127, 114>>
    /\ Digest(<<109, 101, 115, 115, 97, 103, 101, 32, 100, 105, 103, 101, 115, 116>>) =
           <<249, 107, 105, 125, 124, 183, 147, 141, 82, 90, 47, 49, 170, 241, 97, 208>>

\* Around the length where the padding needs another block (of the letter a).
ASSUME PaddingIsMD5s ==
    LET hash(n) == Hashing!ComputeHash([i \in 1 .. n |-> 97])
    IN  hash(55) = 24337 /\ hash(56) = 22203 /\ hash(63) = 17610 /\ hash(64) = 4577

\* The browser and the nodes shrink a digest to the same 15 bits.
ASSUME HashesAgree ==
    \A bytes \in [1 .. 6 -> {0, 1, 127, 128, 255}] :
        Hashing!BytesToShort(bytes) = Hashing!Hash(bytes)

(***************************************************************************)
(* sortTable is a stable sort in either direction, for up to four rows.    *)
(***************************************************************************)
Rows ==
    {[file |-> f, local |-> l, replica |-> null, ok |-> FALSE, owner |-> null] :
        f \in 1 .. 2, l \in {null, 1, 2}}

ASSUME SortTableSorts ==
    \A len \in 0 .. 4, order \in Order :
        \A rows \in [1 .. len -> Rows] : SortTable(rows, order) = Sorted(rows, order)

(***************************************************************************)
(* The table of files is right for two nodes whatever they report of two   *)
(* files, provided each file has one local copy and one replica.           *)
(***************************************************************************)
Folder == {<<>>, <<1>>, <<2>>, <<1, 2>>}
Report == [local : Folder, replica : Folder, locks : {<<>>, 1 :> 2}]

ASSUME TablesAreTrue ==
    \A d \in [1 .. 2 -> {null} \union Report] :
        AtMostOnce(d) /\ ~ TableThrows(d) => TableIsTrue(d)
===============================================================================
