------------------------- MODULE NameServerDirectory --------------------------
(***************************************************************************)
(* NameServer implements Directory.  An operation is under way from the    *)
(* request (or from the point where DiscoveryHandler goes on to the next   *)
(* operation) until res is set: addNode, updateNode and deleteNode take    *)
(* effect when they put or remove the key, nodeToJson and the status when  *)
(* they read for the last time.                                            *)
(***************************************************************************)
EXTENDS NameServer

Jsoning == {"offerR", "jsonR", "jsonCheck", "jsonPrev"}

Operation(t) ==
    CASE pc[t] \in Jsoning                     -> "config"
      [] pc[t] \in {"fileR", "file"}           -> "owner"
      [] pc[t] \in {"scanR", "scanSize", "scanMap"} -> "status"
      [] pc[t] \in {"outerW", "callW", "body"} ->
            IF req[t].op \in AddOps THEN "add"
            ELSE IF req[t].op \in DeleteOps THEN "remove" ELSE "update"

UnderWay(t) ==
    IF res[t] = Pending
    THEN [op |-> Operation(t), id |-> req[t].id, addr |-> req[t].addr]
    ELSE [op |-> "none"]

Dir == INSTANCE Directory WITH
           Client  <- Thread,
           AskedId <- NodeId \union {NoNode} \union {r.id : r \in Requests},
           nodes   <- map,
           call    <- [t \in Thread |-> UnderWay(t)],
           answer  <- res,
           unsaved <- {t \in Thread : pc[t] = "save"},
           saved   <- disk

(***************************************************************************)
(* Every step of the name server is one instant of the directory or        *)
(* invisible to its callers.                                               *)
(***************************************************************************)
ImplementsDirectory == Dir!Spec
===============================================================================
