--------------------------- MODULE NameServerProofs ---------------------------
(***************************************************************************)
(* The safety properties of module NameServer, for every set of nodes,     *)
(* threads and requests.  The inductive invariant adds to the types what   *)
(* the nested lock() and unlock() calls guarantee: Held bounds every       *)
(* thread's holds from below by what its label says it has locked (a       *)
(* thread that leaked a hold has more), Exclusive is the lock's promise,   *)
(* and Fresh says that what a reader has read so far is still true.  The   *)
(* last part proves that the name server implements Directory.             *)
(***************************************************************************)
EXTENDS NameServerDirectory, RingOrderProofs, FiniteSetTheorems

OuterOps == {"post", "put", "fail"}

WriteDepth(label, op) ==
    (IF label \in {"callW", "body", "save", "ret"} /\ op \in OuterOps THEN 1 ELSE 0)
        + (IF label \in {"body", "save"} THEN 1 ELSE 0)

ReadDepth(label, t) ==
    (IF label \in {"jsonR", "jsonCheck", "jsonPrev"} /\ t = Disc THEN 1 ELSE 0)
        + (IF label \in {"jsonCheck", "jsonPrev", "offer", "post", "prev", "agent",
                         "file", "scanSize", "scanMap"} THEN 1 ELSE 0)

HeldBy(t) == wholds[t] >= WriteDepth(pc[t], req[t].op) /\ rholds[t] >= ReadDepth(pc[t], t)

Held == \A t \in Thread : HeldBy(t)

Exclusive ==
    \A t, u \in Thread : t # u /\ wholds[t] > 0 => wholds[u] = 0 /\ rholds[u] = 0

FreshIn(t) ==
    /\ pc[t] = "scanMap" => out[t] = Cardinality(Registered)
    /\ res[t].is = "status" => res[t].x = res[t].y
    /\ pc[t] = "jsonPrev" => /\ req[t].id \in Registered
                             /\ out[t] = GetNextNode(Registered, req[t].id)
    /\ t = Disc => OfferIsTheRing

Fresh == \A t \in Thread : FreshIn(t)


-------------------------------------------------------------------------------
(***************************************************************************)
(* Registered ids are values of the hash.                                  *)
(***************************************************************************)
LEMMA RegisteredIds == Registered \subseteq NodeId /\ Registered \subseteq 0 .. MaxId /\ MaxId \in Nat
BY NameServerAssumption DEF Registered

(***************************************************************************)
(* The map is finite, so its size is a number.                             *)
(***************************************************************************)
LEMMA RegisteredCount == Cardinality(Registered) \in Nat
<1>1. IsFiniteSet(0 .. MaxId)
  BY RegisteredIds, FS_Interval
<1>2. IsFiniteSet(Registered)
  BY <1>1, RegisteredIds, FS_Subset
<1> QED BY <1>2, FS_CardinalityType

(***************************************************************************)
(* The lookups in the TreeMap return ids, also for an id that is not       *)
(* registered.                                                             *)
(***************************************************************************)
LEMMA Lookups ==
    ASSUME NEW i \in Int
    PROVE  GetNextNode(Registered, i) \in Int /\ GetPrevNode(Registered, i) \in Int
BY RegisteredIds, LookupsInInt

(***************************************************************************)
(* A call of lock() either takes the lock or leaves the thread where it is.*)
(***************************************************************************)
LEMMA DequeuedType ==
    ASSUME NEW t \in Thread, queue \in Seq(Thread)
    PROVE  Dequeued(t) \in Seq(Thread)
<1>1. CASE Parked(t)
  <2>1. queue # << >>
    BY <1>1 DEF Parked
  <2> QED BY <1>1, <2>1 DEF Dequeued
<1> QED BY <1>1 DEF Dequeued

(***************************************************************************)
(* What writeLock().lock() changes: the thread takes a hold and moves on,  *)
(* or stays where it is.                                                   *)
(***************************************************************************)
LEMMA LockWriteEffect ==
    ASSUME NEW t \in Thread, NEW label \in Label, TypeOK, LockWrite(t, label)
    PROVE  /\ queue' \in Seq(Thread)
           /\ rholds' = rholds
           /\ \/ wholds' = wholds /\ pc' = pc
              \/ /\ FreeForWrite(t)
                 /\ wholds' = [wholds EXCEPT ![t] = @ + 1]
                 /\ pc' = [pc EXCEPT ![t] = label]
<1>1. queue \in Seq(Thread) /\ Dequeued(t) \in Seq(Thread)
  BY DequeuedType DEF TypeOK
<1> QED BY <1>1 DEF LockWrite, TakeWrite, Park, Goto

(***************************************************************************)
(* What readLock().lock() changes, likewise.                               *)
(***************************************************************************)
LEMMA LockReadEffect ==
    ASSUME NEW t \in Thread, NEW label \in Label, TypeOK, LockRead(t, label)
    PROVE  /\ queue' \in Seq(Thread)
           /\ wholds' = wholds
           /\ \/ rholds' = rholds /\ pc' = pc
              \/ /\ FreeForRead(t)
                 /\ rholds' = [rholds EXCEPT ![t] = @ + 1]
                 /\ pc' = [pc EXCEPT ![t] = label]
<1>1. queue \in Seq(Thread) /\ Dequeued(t) \in Seq(Thread)
  BY DequeuedType DEF TypeOK
<1> QED BY <1>1 DEF LockRead, TakeRead, Park, Goto

(***************************************************************************)
(* The answers the handlers give are well typed.                           *)
(***************************************************************************)
LEMMA ResultTypes ==
    /\ {Yes, No, Pending, NoResult} \subseteq ResultOf
    /\ \A x, y \in Int : /\ Result("config", x, y) \in ResultOf
                         /\ Result("owner", x, y) \in ResultOf
                         /\ Result("status", x, y) \in ResultOf
BY DEF Yes, No, Pending, NoResult, Result, ResultOf

(***************************************************************************)
(* Held depends on the locks, labels and requests only: it survives a step *)
(* of one thread that is right for that thread.                            *)
(***************************************************************************)
LEMMA HeldFrame ==
    ASSUME NEW t \in Thread, Held, HeldBy(t)',
           \A u \in Thread \ {t} : /\ wholds'[u] = wholds[u] /\ rholds'[u] = rholds[u]
                                   /\ pc'[u] = pc[u] /\ req'[u] = req[u]
    PROVE  Held'
BY DEF Held, HeldBy

(***************************************************************************)
(* A step that calls writeLock().lock() keeps the lock discipline when its *)
(* next label expects at most one hold more.                               *)
(***************************************************************************)
LEMMA LockWriteStep ==
    ASSUME NEW t \in Thread, NEW label \in Label, TypeOK, Held, Exclusive, LockWrite(t, label),
           WriteDepth(label, req[t].op) <= WriteDepth(pc[t], req[t].op) + 1,
           ReadDepth(label, t) <= ReadDepth(pc[t], t) + 0,
           UNCHANGED <<store, req, res, bounds>>, remote' \in {remote, "asked"}, out' \in [Thread -> Int]
    PROVE  TypeOK' /\ Held' /\ Exclusive'
<1>1. /\ queue' \in Seq(Thread)
      /\ rholds' = rholds
      /\ \/ wholds' = wholds /\ pc' = pc
         \/ /\ FreeForWrite(t)
            /\ wholds' = [wholds EXCEPT ![t] = @ + 1]
            /\ pc' = [pc EXCEPT ![t] = label]
  BY LockWriteEffect
<1>2. wholds' \in [Thread -> Nat] /\ pc' \in [Thread -> Label]
  <2>1. wholds \in [Thread -> Nat] /\ pc \in [Thread -> Label]
    BY DEF TypeOK
  <2>2. CASE wholds' = wholds /\ pc' = pc
    BY <2>1, <2>2
  <2>3. CASE wholds' = [wholds EXCEPT ![t] = @ + 1] /\ pc' = [pc EXCEPT ![t] = label]
    <3>1. wholds' \in [Thread -> Nat]
      BY <2>1, <2>3
    <3>2. pc' \in [Thread -> Label]
      BY <2>1, <2>3
    <3> QED BY <3>1, <3>2
  <2> QED BY <1>1, <2>2, <2>3
<1>3. TypeOK'
  <2>1. /\ map' = map /\ disk' = disk /\ torn' = torn
        /\ req' = req /\ res' = res /\ calls' = calls /\ crashes' = crashes
    BY DEF store, bounds
  <2>2. remote' \in {"none", "asked", "serving", "served"}
    BY DEF TypeOK
  <2>3. rholds' \in [Thread -> Nat]
    BY <1>1 DEF TypeOK
  <2> QED BY <1>1, <1>2, <2>1, <2>2, <2>3, Zenon DEF TypeOK
<1>4. Exclusive'
  <2>1. /\ wholds \in [Thread -> Nat] /\ rholds \in [Thread -> Nat]
    BY DEF TypeOK
  <2>2. CASE wholds' = wholds
    BY <1>1, <2>2 DEF Exclusive
  <2>3. CASE FreeForWrite(t) /\ wholds' = [wholds EXCEPT ![t] = @ + 1]
    BY <1>1, <2>1, <2>3 DEF Exclusive, FreeForWrite
  <2> QED BY <1>1, <2>2, <2>3
<1>5. CASE wholds' = wholds /\ pc' = pc
  BY <1>1, <1>3, <1>4, <1>5 DEF Held, HeldBy
<1>6. CASE wholds' = [wholds EXCEPT ![t] = @ + 1] /\ pc' = [pc EXCEPT ![t] = label]
  <2>1. HeldBy(t)
    BY DEF Held
  <2>2. wholds'[t] = wholds[t] + 1 /\ rholds'[t] = rholds[t] /\ pc'[t] = label /\ req'[t] = req[t]
    BY <1>1, <1>6 DEF TypeOK
  <2>3. WriteDepth(label, req[t].op) \in Int /\ WriteDepth(pc[t], req[t].op) \in Int
        /\ ReadDepth(label, t) \in Int /\ ReadDepth(pc[t], t) \in Int
        /\ wholds[t] \in Int /\ rholds[t] \in Int
    BY DEF WriteDepth, ReadDepth, TypeOK
  <2>4. HeldBy(t)'
    BY <2>1, <2>2, <2>3 DEF HeldBy
  <2>5. \A u \in Thread \ {t} : /\ wholds'[u] = wholds[u] /\ rholds'[u] = rholds[u]
                                  /\ pc'[u] = pc[u] /\ req'[u] = req[u]
    BY <1>1, <1>6 DEF TypeOK
  <2> QED BY <1>3, <1>4, <2>4, <2>5, HeldFrame
<1> QED BY <1>1, <1>5, <1>6

(***************************************************************************)
(* The same for a step that calls readLock().lock().                       *)
(***************************************************************************)
LEMMA LockReadStep ==
    ASSUME NEW t \in Thread, NEW label \in Label, TypeOK, Held, Exclusive, LockRead(t, label),
           WriteDepth(label, req[t].op) <= WriteDepth(pc[t], req[t].op) + 0,
           ReadDepth(label, t) <= ReadDepth(pc[t], t) + 1,
           UNCHANGED <<store, req, res, bounds>>, remote' \in {remote, "asked"}, out' \in [Thread -> Int]
    PROVE  TypeOK' /\ Held' /\ Exclusive'
<1>1. /\ queue' \in Seq(Thread)
      /\ wholds' = wholds
      /\ \/ rholds' = rholds /\ pc' = pc
         \/ /\ FreeForRead(t)
            /\ rholds' = [rholds EXCEPT ![t] = @ + 1]
            /\ pc' = [pc EXCEPT ![t] = label]
  BY LockReadEffect
<1>2. rholds' \in [Thread -> Nat] /\ pc' \in [Thread -> Label]
  <2>1. rholds \in [Thread -> Nat] /\ pc \in [Thread -> Label]
    BY DEF TypeOK
  <2>2. CASE rholds' = rholds /\ pc' = pc
    BY <2>1, <2>2
  <2>3. CASE rholds' = [rholds EXCEPT ![t] = @ + 1] /\ pc' = [pc EXCEPT ![t] = label]
    <3>1. rholds' \in [Thread -> Nat]
      BY <2>1, <2>3
    <3>2. pc' \in [Thread -> Label]
      BY <2>1, <2>3
    <3> QED BY <3>1, <3>2
  <2> QED BY <1>1, <2>2, <2>3
<1>3. TypeOK'
  <2>1. /\ map' = map /\ disk' = disk /\ torn' = torn
        /\ req' = req /\ res' = res /\ calls' = calls /\ crashes' = crashes
    BY DEF store, bounds
  <2>2. remote' \in {"none", "asked", "serving", "served"}
    BY DEF TypeOK
  <2>3. wholds' \in [Thread -> Nat]
    BY <1>1 DEF TypeOK
  <2> QED BY <1>1, <1>2, <2>1, <2>2, <2>3, Zenon DEF TypeOK
<1>4. Exclusive'
  <2>1. /\ wholds \in [Thread -> Nat] /\ rholds \in [Thread -> Nat]
    BY DEF TypeOK
  <2>2. CASE rholds' = rholds
    BY <1>1, <2>2 DEF Exclusive
  <2>3. CASE FreeForRead(t) /\ rholds' = [rholds EXCEPT ![t] = @ + 1]
    BY <1>1, <2>1, <2>3 DEF Exclusive, FreeForRead
  <2> QED BY <1>1, <2>2, <2>3
<1>5. CASE rholds' = rholds /\ pc' = pc
  BY <1>1, <1>3, <1>4, <1>5 DEF Held, HeldBy
<1>6. CASE rholds' = [rholds EXCEPT ![t] = @ + 1] /\ pc' = [pc EXCEPT ![t] = label]
  <2>1. HeldBy(t)
    BY DEF Held
  <2>2. rholds'[t] = rholds[t] + 1 /\ wholds'[t] = wholds[t] /\ pc'[t] = label /\ req'[t] = req[t]
    BY <1>1, <1>6 DEF TypeOK
  <2>3. WriteDepth(label, req[t].op) \in Int /\ WriteDepth(pc[t], req[t].op) \in Int
        /\ ReadDepth(label, t) \in Int /\ ReadDepth(pc[t], t) \in Int
        /\ wholds[t] \in Int /\ rholds[t] \in Int
    BY DEF WriteDepth, ReadDepth, TypeOK
  <2>4. HeldBy(t)'
    BY <2>1, <2>2, <2>3 DEF HeldBy
  <2>5. \A u \in Thread \ {t} : /\ wholds'[u] = wholds[u] /\ rholds'[u] = rholds[u]
                                  /\ pc'[u] = pc[u] /\ req'[u] = req[u]
    BY <1>1, <1>6 DEF TypeOK
  <2> QED BY <1>3, <1>4, <2>4, <2>5, HeldFrame
<1> QED BY <1>1, <1>5, <1>6


(***************************************************************************)
(* A step of one thread that takes no lock: it may release one hold, and   *)
(* it arrives at a label whose depth it has.                               *)
(***************************************************************************)
Released(h, t) == h' = h \/ h' = [h EXCEPT ![t] = @ - 1]

Kept(t) == /\ queue' = queue /\ map' \in Map /\ disk' \in Map /\ torn' \in BOOLEAN
           /\ req' \in [Thread -> Request] /\ \A u \in Thread \ {t} : req'[u] = req[u]
           /\ out' \in [Thread -> Int] /\ res' \in [Thread -> ResultOf]
           /\ remote' \in {"none", "asked", "serving", "served"}
           /\ calls' \in 0 .. MaxCalls /\ crashes' \in 0 .. MaxCrashes

(***************************************************************************)
(* A release takes one hold of one thread, and never one that is not       *)
(* there.                                                                  *)
(***************************************************************************)
LEMMA ReleasedType ==
    ASSUME NEW t \in Thread, NEW h \in [Thread -> Nat], NEW k \in [Thread -> Int],
           k = h \/ k = [h EXCEPT ![t] = @ - 1], k[t] >= 0
    PROVE  k \in [Thread -> Nat] /\ \A u \in Thread \ {t} : k[u] = h[u]
OBVIOUS

(***************************************************************************)
(* Every other step of a thread moves it to a label that expects no more   *)
(* holds than the thread has left.                                         *)
(***************************************************************************)
LEMMA MoveStep ==
    ASSUME NEW t \in Thread, NEW label \in Label, TypeOK, Held, Exclusive, Kept(t),
           pc' = [pc EXCEPT ![t] = label],
           Released(wholds, t), Released(rholds, t),
           wholds'[t] >= WriteDepth(label, req'[t].op), rholds'[t] >= ReadDepth(label, t)
    PROVE  TypeOK' /\ Held' /\ Exclusive'
<1>1. pc' \in [Thread -> Label] /\ pc'[t] = label
      /\ \A u \in Thread \ {t} : pc'[u] = pc[u]
  BY DEF TypeOK
<1>2. WriteDepth(label, req'[t].op) >= 0 /\ WriteDepth(label, req'[t].op) \in Int
  BY DEF WriteDepth
<1>3. ReadDepth(label, t) >= 0 /\ ReadDepth(label, t) \in Int
  BY DEF ReadDepth
<1>4. wholds' \in [Thread -> Nat] /\ \A u \in Thread \ {t} : wholds'[u] = wholds[u]
  <2>1. wholds \in [Thread -> Nat]
    BY DEF TypeOK
  <2>2. wholds' \in [Thread -> Int]
    BY <2>1 DEF Released
  <2>3. wholds'[t] >= 0
    <3>1. wholds'[t] \in Int
      BY <2>2
    <3> QED BY <1>2, <3>1
  <2> QED BY <2>1, <2>2, <2>3, ReleasedType DEF Released
<1>5. rholds' \in [Thread -> Nat] /\ \A u \in Thread \ {t} : rholds'[u] = rholds[u]
  <2>1. rholds \in [Thread -> Nat]
    BY DEF TypeOK
  <2>2. rholds' \in [Thread -> Int]
    BY <2>1 DEF Released
  <2>3. rholds'[t] >= 0
    <3>1. rholds'[t] \in Int
      BY <2>2
    <3> QED BY <1>3, <3>1
  <2> QED BY <2>1, <2>2, <2>3, ReleasedType DEF Released
<1>6. TypeOK'
  <2>1. queue' \in Seq(Thread)
    BY DEF Kept, TypeOK
  <2> QED BY <1>1, <1>4, <1>5, <2>1, Zenon DEF TypeOK, Kept
<1>7. HeldBy(t)'
  BY <1>1 DEF HeldBy
<1>8. \A u \in Thread \ {t} : /\ wholds'[u] = wholds[u] /\ rholds'[u] = rholds[u]
                              /\ pc'[u] = pc[u] /\ req'[u] = req[u]
  BY <1>1, <1>4, <1>5 DEF Kept
<1>9. Exclusive'
  <2>1. wholds \in [Thread -> Nat] /\ rholds \in [Thread -> Nat]
    BY DEF TypeOK
  <2>2. \A u \in Thread : /\ wholds'[u] > 0 => wholds[u] > 0
                          /\ wholds[u] = 0 => wholds'[u] = 0
                          /\ rholds[u] = 0 => rholds'[u] = 0
    BY <2>1, <1>4, <1>5 DEF Released
  <2> QED BY <2>2 DEF Exclusive
<1> QED BY <1>6, <1>7, <1>8, <1>9, HeldFrame


(***************************************************************************)
(* Every step keeps the types. One step per action; a step that locks    *)
(* goes by LockWriteStep or LockReadStep, another one by MoveStep.         *)
(***************************************************************************)
LEMMA TypeFacts ==
    ASSUME TypeOK
    PROVE  /\ map \in Map /\ disk \in Map /\ torn \in BOOLEAN
           /\ wholds \in [Thread -> Nat] /\ rholds \in [Thread -> Nat]
           /\ pc \in [Thread -> Label] /\ req \in [Thread -> Request]
           /\ out \in [Thread -> Int] /\ res \in [Thread -> ResultOf]
           /\ remote \in {"none", "asked", "serving", "served"}
           /\ calls \in 0 .. MaxCalls /\ crashes \in 0 .. MaxCrashes
BY Zenon DEF TypeOK

(***************************************************************************)
(* Each step of a handler keeps types and lock discipline; one case per    *)
(* action.                                                                 *)
(***************************************************************************)
LEMMA HandlerTyped ==
    ASSUME TypeOK, Held, Exclusive, NEW t \in Thread, HandlerStep(t)
    PROVE  TypeOK' /\ Held' /\ Exclusive'
<1> USE TypeFacts
<1>0. /\ HeldBy(t)
      /\ wholds[t] \in Nat /\ rholds[t] \in Nat
      /\ req[t].id \in Int /\ req[t].op \in Op /\ req[t].addr \in Addr
  BY DEF Held, Request
<1>1. CASE LockOuter(t)
  <2>1. /\ pc[t] = "outerW" /\ LockWrite(t, "callW")
        /\ UNCHANGED <<store, req, res, bounds>> /\ remote' = remote /\ out' = out
    BY <1>1 DEF LockOuter
  <2>2. "callW" \in Label
        /\ WriteDepth("callW", req[t].op) <= WriteDepth(pc[t], req[t].op) + 1
        /\ ReadDepth("callW", t) <= ReadDepth(pc[t], t) + 0
    BY <2>1 DEF WriteDepth, ReadDepth, Label
  <2> QED BY <2>1, <2>2, LockWriteStep
<1>2. CASE LockCall(t)
  <2>1. /\ pc[t] = "callW" /\ LockWrite(t, "body")
        /\ UNCHANGED <<store, req, res, bounds>> /\ remote' = remote /\ out' = out
    BY <1>2 DEF LockCall
  <2>2. "body" \in Label
        /\ WriteDepth("body", req[t].op) <= WriteDepth(pc[t], req[t].op) + 1
        /\ ReadDepth("body", t) <= ReadDepth(pc[t], t) + 0
    BY <2>1 DEF WriteDepth, ReadDepth, Label
  <2> QED BY <2>1, <2>2, LockWriteStep
<1>3. CASE Refuse(t)
  <2>1. /\ pc[t] = "body" /\ pc' = [pc EXCEPT ![t] = "ret"]
        /\ wholds' = [wholds EXCEPT ![t] = @ - 1]
        /\ rholds' = rholds
        /\ req'[t] = req[t]
        /\ "ret" \in Label
    BY <1>3 DEF Refuse, Goto, UnlockWrite, Label, Request
  <2>2. Kept(t)
    BY <1>3, ResultTypes DEF Refuse, Goto, UnlockWrite, store, bounds, Kept, Yields
  <2>3. wholds'[t] >= WriteDepth("ret", req'[t].op) /\ rholds'[t] >= ReadDepth("ret", t)
    BY <1>3, <1>0, <2>1 DEF Refuse, HeldBy, WriteDepth, ReadDepth, OuterOps
  <2> QED BY <2>1, <2>2, <2>3, MoveStep DEF Released
<1>4. CASE Change(t)
  <2>1. /\ pc[t] = "body" /\ pc' = [pc EXCEPT ![t] = "save"]
        /\ wholds' = wholds
        /\ rholds' = rholds
        /\ req'[t] = req[t]
        /\ "save" \in Label
    BY <1>4 DEF Change, Goto, locks, Label, Request
  <2>2. Kept(t)
    <3>1. map' \in Map
      <4>1. map' = Changed(req[t]) /\ req[t].addr \in Addr \union {NoAddr}
        BY <1>4, <1>0 DEF Change
      <4>2. Changed(req[t]) \in Map
        BY <4>1 DEF Changed, Map
      <4> QED BY <4>1, <4>2
    <3>2. torn' \in BOOLEAN
      BY <1>4 DEF Change
    <3>3. /\ queue' = queue /\ disk' = disk /\ req' = req /\ out' = out
          /\ remote' = remote /\ calls' = calls /\ crashes' = crashes
      BY <1>4 DEF Change, locks, bounds
    <3>4. res' \in [Thread -> ResultOf]
      BY <1>4, ResultTypes DEF Change, Yields
    <3> QED BY <3>1, <3>2, <3>3, <3>4, Zenon DEF Kept
  <2>3. wholds'[t] >= WriteDepth("save", req'[t].op) /\ rholds'[t] >= ReadDepth("save", t)
    BY <1>4, <1>0, <2>1 DEF Change, HeldBy, WriteDepth, ReadDepth, OuterOps
  <2> QED BY <2>1, <2>2, <2>3, MoveStep DEF Released
<1>24. CASE Truncate(t)
  <2>1. torn' \in BOOLEAN
    BY <1>24 DEF Truncate
  <2>2. /\ UNCHANGED <<map, disk, locks, pc, req, out, res, remote, bounds>>
    BY <1>24 DEF Truncate
  <2>3. TypeOK'
    BY <2>1, <2>2, Zenon DEF TypeOK, locks, bounds
  <2>4. Held' /\ Exclusive'
    BY <2>2 DEF Held, HeldBy, Exclusive, locks
  <2> QED BY <2>3, <2>4
<1>5. CASE Save(t)
  <2>1. /\ pc[t] = "save" /\ pc' = [pc EXCEPT ![t] = "ret"]
        /\ wholds' = [wholds EXCEPT ![t] = @ - 1]
        /\ rholds' = rholds
        /\ req'[t] = req[t]
        /\ "ret" \in Label
    BY <1>5 DEF Save, Goto, UnlockWrite, Label, Request
  <2>2. Kept(t)
    BY <1>5 DEF Save, Goto, UnlockWrite, store, bounds, Kept
  <2>3. wholds'[t] >= WriteDepth("ret", req'[t].op) /\ rholds'[t] >= ReadDepth("ret", t)
    BY <1>5, <1>0, <2>1 DEF Save, HeldBy, WriteDepth, ReadDepth, OuterOps
  <2> QED BY <2>1, <2>2, <2>3, MoveStep DEF Released
<1>6. CASE PostAdded(t)
  <2>1. /\ pc[t] = "ret" /\ pc' = [pc EXCEPT ![t] = "idle"]
        /\ wholds' = wholds
        /\ rholds' = rholds
        /\ req'[t] = req[t]
        /\ "idle" \in Label
    BY <1>6 DEF PostAdded, Goto, locks, Label, Request
  <2>2. Kept(t)
    BY <1>6 DEF PostAdded, Goto, locks, store, bounds, Kept
  <2>3. wholds'[t] >= WriteDepth("idle", req'[t].op) /\ rholds'[t] >= ReadDepth("idle", t)
    BY <1>6, <1>0, <2>1 DEF PostAdded, HeldBy, WriteDepth, ReadDepth, OuterOps
  <2> QED BY <2>1, <2>2, <2>3, MoveStep DEF Released
<1>7. CASE PostRefused(t)
  <2>1. /\ pc[t] = "ret" /\ pc' = [pc EXCEPT ![t] = "idle"]
        /\ wholds' = [wholds EXCEPT ![t] = @ - 1]
        /\ rholds' = rholds
        /\ req'[t] = req[t]
        /\ "idle" \in Label
    BY <1>7 DEF PostRefused, Goto, UnlockWrite, Label, Request
  <2>2. Kept(t)
    BY <1>7 DEF PostRefused, Goto, UnlockWrite, store, bounds, Kept
  <2>3. wholds'[t] >= WriteDepth("idle", req'[t].op) /\ rholds'[t] >= ReadDepth("idle", t)
    BY <1>7, <1>0, <2>1 DEF PostRefused, HeldBy, WriteDepth, ReadDepth, OuterOps
  <2> QED BY <2>1, <2>2, <2>3, MoveStep DEF Released
<1>8. CASE PutUpdated(t)
  <2>1. /\ pc[t] = "ret" /\ pc' = [pc EXCEPT ![t] = "idle"]
        /\ wholds' = [wholds EXCEPT ![t] = @ - 1]
        /\ rholds' = rholds
        /\ req'[t] = req[t]
        /\ "idle" \in Label
    BY <1>8 DEF PutUpdated, Goto, UnlockWrite, Label, Request
  <2>2. Kept(t)
    BY <1>8 DEF PutUpdated, Goto, UnlockWrite, store, bounds, Kept
  <2>3. wholds'[t] >= WriteDepth("idle", req'[t].op) /\ rholds'[t] >= ReadDepth("idle", t)
    BY <1>8, <1>0, <2>1 DEF PutUpdated, HeldBy, WriteDepth, ReadDepth, OuterOps
  <2> QED BY <2>1, <2>2, <2>3, MoveStep DEF Released
<1>9. CASE PutCreates(t)
  <2>1. /\ pc[t] = "ret" /\ pc' = [pc EXCEPT ![t] = "callW"]
        /\ wholds' = [wholds EXCEPT ![t] = @ - 1]
        /\ rholds' = rholds
        /\ req'[t].op = "putAdd"
        /\ "callW" \in Label
    BY <1>9 DEF PutCreates, Goto, UnlockWrite, Label, Request
  <2>2. Kept(t)
    <3>1. req' \in [Thread -> Request]
      <4>1. [req[t] EXCEPT !.op = "putAdd"] \in Request
        BY DEF Request, Op, AddOps
      <4> QED BY <4>1, <1>9 DEF PutCreates
    <3>2. \A u \in Thread \ {t} : req'[u] = req[u]
      BY <1>9 DEF PutCreates
    <3> QED BY <3>1, <3>2, <1>9, ResultTypes
        DEF PutCreates, UnlockWrite, store, bounds, Kept, Yields
  <2>3. wholds'[t] >= WriteDepth("callW", req'[t].op) /\ rholds'[t] >= ReadDepth("callW", t)
    BY <1>9, <1>0, <2>1 DEF PutCreates, HeldBy, WriteDepth, ReadDepth, OuterOps
  <2> QED BY <2>1, <2>2, <2>3, MoveStep DEF Released
<1>10. CASE PutAdded(t)
  <2>1. /\ pc[t] = "ret" /\ pc' = [pc EXCEPT ![t] = "idle"]
        /\ Released(wholds, t)
        /\ rholds' = rholds
        /\ req'[t] = req[t]
        /\ "idle" \in Label
    BY <1>10 DEF PutAdded, Goto, UnlockWrite, Label, Request, Released, locks
  <2>2. Kept(t)
    BY <1>10 DEF PutAdded, Goto, UnlockWrite, locks, store, bounds, Kept
  <2>3. wholds'[t] >= WriteDepth("idle", req'[t].op) /\ rholds'[t] >= ReadDepth("idle", t)
    BY <1>10, <1>0, <2>1 DEF PutAdded, HeldBy, WriteDepth, ReadDepth, OuterOps, Released, UnlockWrite, locks
  <2> QED BY <2>1, <2>2, <2>3, MoveStep DEF Released
<1>11. CASE DeleteAnswered(t)
  <2>1. /\ pc[t] = "ret" /\ pc' = [pc EXCEPT ![t] = "idle"]
        /\ wholds' = wholds
        /\ rholds' = rholds
        /\ req'[t] = req[t]
        /\ "idle" \in Label
    BY <1>11 DEF DeleteAnswered, Goto, locks, Label, Request
  <2>2. Kept(t)
    BY <1>11 DEF DeleteAnswered, Goto, locks, store, bounds, Kept
  <2>3. wholds'[t] >= WriteDepth("idle", req'[t].op) /\ rholds'[t] >= ReadDepth("idle", t)
    BY <1>11, <1>0, <2>1 DEF DeleteAnswered, HeldBy, WriteDepth, ReadDepth, OuterOps
  <2> QED BY <2>1, <2>2, <2>3, MoveStep DEF Released
<1>12. CASE Notify(t)
  <2>1. /\ pc[t] = "ret" /\ pc' = [pc EXCEPT ![t] = "agentR"]
        /\ wholds' = [wholds EXCEPT ![t] = @ - 1]
        /\ rholds' = rholds
        /\ req'[t] = req[t]
        /\ "agentR" \in Label
    BY <1>12 DEF Notify, Goto, UnlockWrite, Label, Request
  <2>2. Kept(t)
    BY <1>12 DEF Notify, Goto, UnlockWrite, store, bounds, Kept
  <2>3. wholds'[t] >= WriteDepth("agentR", req'[t].op) /\ rholds'[t] >= ReadDepth("agentR", t)
    BY <1>12, <1>0, <2>1 DEF Notify, HeldBy, WriteDepth, ReadDepth, OuterOps
  <2> QED BY <2>1, <2>2, <2>3, MoveStep DEF Released
<1>13. CASE LockAgent(t)
  <2>1. /\ pc[t] = "agentR" /\ LockRead(t, "agent")
        /\ UNCHANGED <<store, req, res, bounds>> /\ remote' = remote /\ out' = out
    BY <1>13 DEF LockAgent
  <2>2. "agent" \in Label
        /\ WriteDepth("agent", req[t].op) <= WriteDepth(pc[t], req[t].op) + 0
        /\ ReadDepth("agent", t) <= ReadDepth(pc[t], t) + 1
    BY <2>1 DEF WriteDepth, ReadDepth, Label
  <2> QED BY <2>1, <2>2, LockReadStep
<1>14. CASE LaunchAgent(t)
  <2>1. /\ pc[t] = "agent" /\ pc' = [pc EXCEPT ![t] = "idle"]
        /\ wholds' = wholds
        /\ rholds' = [rholds EXCEPT ![t] = @ - 1]
        /\ req'[t] = req[t]
        /\ "idle" \in Label
    BY <1>14 DEF LaunchAgent, Goto, UnlockRead, Label, Request
  <2>2. Kept(t)
    BY <1>14, <1>0, Lookups DEF LaunchAgent, Goto, UnlockRead, store, bounds, Kept, Reads
  <2>3. wholds'[t] >= WriteDepth("idle", req'[t].op) /\ rholds'[t] >= ReadDepth("idle", t)
    BY <1>14, <1>0, <2>1 DEF LaunchAgent, HeldBy, WriteDepth, ReadDepth, OuterOps
  <2> QED BY <2>1, <2>2, <2>3, MoveStep DEF Released
<1>15. CASE LockJson(t)
  <2>1. /\ pc[t] = "jsonR" /\ LockRead(t, "jsonCheck")
        /\ UNCHANGED <<store, req, res, bounds>> /\ remote' = remote /\ out' = out
    BY <1>15 DEF LockJson
  <2>2. "jsonCheck" \in Label
        /\ WriteDepth("jsonCheck", req[t].op) <= WriteDepth(pc[t], req[t].op) + 0
        /\ ReadDepth("jsonCheck", t) <= ReadDepth(pc[t], t) + 1
    BY <2>1 DEF WriteDepth, ReadDepth, Label
  <2> QED BY <2>1, <2>2, LockReadStep
<1>16. CASE JsonNotFound(t)
  <2>1. /\ pc[t] = "jsonCheck" /\ pc' = [pc EXCEPT ![t] = (IF t = Disc THEN "dead" ELSE "idle")]
        /\ wholds' = wholds
        /\ rholds' = [rholds EXCEPT ![t] = @ - 1]
        /\ req'[t] = req[t]
        /\ (IF t = Disc THEN "dead" ELSE "idle") \in Label
    BY <1>16 DEF JsonNotFound, Goto, UnlockRead, Label, Request
  <2>2. Kept(t)
    BY <1>16, ResultTypes DEF JsonNotFound, Goto, UnlockRead, store, bounds, Kept, Yields
  <2>3. wholds'[t] >= WriteDepth((IF t = Disc THEN "dead" ELSE "idle"), req'[t].op) /\ rholds'[t] >= ReadDepth((IF t = Disc THEN "dead" ELSE "idle"), t)
    BY <1>16, <1>0, <2>1 DEF JsonNotFound, HeldBy, WriteDepth, ReadDepth, OuterOps
  <2> QED BY <2>1, <2>2, <2>3, MoveStep DEF Released
<1>17. CASE JsonNext(t)
  <2>1. /\ pc[t] = "jsonCheck" /\ pc' = [pc EXCEPT ![t] = "jsonPrev"]
        /\ wholds' = wholds
        /\ rholds' = rholds
        /\ req'[t] = req[t]
        /\ "jsonPrev" \in Label
    BY <1>17 DEF JsonNext, Goto, locks, Label, Request
  <2>2. Kept(t)
    BY <1>17, <1>0, Lookups DEF JsonNext, Goto, locks, store, bounds, Kept, Reads
  <2>3. wholds'[t] >= WriteDepth("jsonPrev", req'[t].op) /\ rholds'[t] >= ReadDepth("jsonPrev", t)
    BY <1>17, <1>0, <2>1 DEF JsonNext, HeldBy, WriteDepth, ReadDepth, OuterOps
  <2> QED BY <2>1, <2>2, <2>3, MoveStep DEF Released
<1>18. CASE JsonPrev(t)
  <2>1. /\ pc[t] = "jsonPrev" /\ pc' = [pc EXCEPT ![t] = (IF t = Disc THEN "offer" ELSE "idle")]
        /\ wholds' = wholds
        /\ rholds' = [rholds EXCEPT ![t] = @ - 1]
        /\ req'[t] = req[t]
        /\ (IF t = Disc THEN "offer" ELSE "idle") \in Label
    BY <1>18 DEF JsonPrev, Goto, UnlockRead, Label, Request
  <2>2. Kept(t)
    BY <1>18, <1>0, Lookups, ResultTypes DEF JsonPrev, Goto, UnlockRead, store, bounds, Kept, Yields
  <2>3. wholds'[t] >= WriteDepth((IF t = Disc THEN "offer" ELSE "idle"), req'[t].op) /\ rholds'[t] >= ReadDepth((IF t = Disc THEN "offer" ELSE "idle"), t)
    BY <1>18, <1>0, <2>1 DEF JsonPrev, HeldBy, WriteDepth, ReadDepth, OuterOps
  <2> QED BY <2>1, <2>2, <2>3, MoveStep DEF Released
<1>19. CASE LockFile(t)
  <2>1. /\ pc[t] = "fileR" /\ LockRead(t, "file")
        /\ UNCHANGED <<store, req, res, bounds>> /\ remote' = remote /\ out' = out
    BY <1>19 DEF LockFile
  <2>2. "file" \in Label
        /\ WriteDepth("file", req[t].op) <= WriteDepth(pc[t], req[t].op) + 0
        /\ ReadDepth("file", t) <= ReadDepth(pc[t], t) + 1
    BY <2>1 DEF WriteDepth, ReadDepth, Label
  <2> QED BY <2>1, <2>2, LockReadStep
<1>20. CASE AnswerOwner(t)
  <2>1. /\ pc[t] = "file" /\ pc' = [pc EXCEPT ![t] = "idle"]
        /\ wholds' = wholds
        /\ rholds' = [rholds EXCEPT ![t] = @ - 1]
        /\ req'[t] = req[t]
        /\ "idle" \in Label
    BY <1>20 DEF AnswerOwner, Goto, UnlockRead, Label, Request
  <2>2. Kept(t)
    BY <1>20, <1>0, Lookups, ResultTypes DEF AnswerOwner, Goto, UnlockRead, store, bounds, Kept, Yields
  <2>3. wholds'[t] >= WriteDepth("idle", req'[t].op) /\ rholds'[t] >= ReadDepth("idle", t)
    BY <1>20, <1>0, <2>1 DEF AnswerOwner, HeldBy, WriteDepth, ReadDepth, OuterOps
  <2> QED BY <2>1, <2>2, <2>3, MoveStep DEF Released
<1>21. CASE LockScan(t)
  <2>1. /\ pc[t] = "scanR" /\ LockRead(t, "scanSize")
        /\ UNCHANGED <<store, req, res, bounds>> /\ remote' = remote /\ out' = out
    BY <1>21 DEF LockScan
  <2>2. "scanSize" \in Label
        /\ WriteDepth("scanSize", req[t].op) <= WriteDepth(pc[t], req[t].op) + 0
        /\ ReadDepth("scanSize", t) <= ReadDepth(pc[t], t) + 1
    BY <2>1 DEF WriteDepth, ReadDepth, Label
  <2> QED BY <2>1, <2>2, LockReadStep
<1>22. CASE ScanSize(t)
  <2>1. /\ pc[t] = "scanSize" /\ pc' = [pc EXCEPT ![t] = "scanMap"]
        /\ wholds' = wholds
        /\ rholds' = rholds
        /\ req'[t] = req[t]
        /\ "scanMap" \in Label
    BY <1>22 DEF ScanSize, Goto, locks, Label, Request
  <2>2. Kept(t)
    BY <1>22, RegisteredCount DEF ScanSize, Goto, locks, store, bounds, Kept, Reads
  <2>3. wholds'[t] >= WriteDepth("scanMap", req'[t].op) /\ rholds'[t] >= ReadDepth("scanMap", t)
    BY <1>22, <1>0, <2>1 DEF ScanSize, HeldBy, WriteDepth, ReadDepth, OuterOps
  <2> QED BY <2>1, <2>2, <2>3, MoveStep DEF Released
<1>23. CASE ScanMap(t)
  <2>1. /\ pc[t] = "scanMap" /\ pc' = [pc EXCEPT ![t] = "idle"]
        /\ wholds' = wholds
        /\ rholds' = [rholds EXCEPT ![t] = @ - 1]
        /\ req'[t] = req[t]
        /\ "idle" \in Label
    BY <1>23 DEF ScanMap, Goto, UnlockRead, Label, Request
  <2>2. Kept(t)
    BY <1>23, RegisteredCount, ResultTypes DEF ScanMap, Goto, UnlockRead, store, bounds, Kept, Yields
  <2>3. wholds'[t] >= WriteDepth("idle", req'[t].op) /\ rholds'[t] >= ReadDepth("idle", t)
    BY <1>23, <1>0, <2>1 DEF ScanMap, HeldBy, WriteDepth, ReadDepth, OuterOps
  <2> QED BY <2>1, <2>2, <2>3, MoveStep DEF Released
<1> QED BY <1>1, <1>2, <1>3, <1>4, <1>5, <1>6, <1>7, <1>8, <1>9, <1>10, <1>11, <1>12, <1>13, <1>14, <1>15, <1>16, <1>17, <1>18, <1>19, <1>20, <1>21, <1>22, <1>23, <1>24 DEF HandlerStep

(***************************************************************************)
(* The same for the steps of DiscoveryHandler, for the arrival of a        *)
(* request, and for a restart.                                             *)
(***************************************************************************)
LEMMA DiscoveryTyped ==
    ASSUME TypeOK, Held, Exclusive, DiscoveryStep
    PROVE  TypeOK' /\ Held' /\ Exclusive'
<1> USE TypeFacts
<1>0. /\ Disc \in Thread /\ HeldBy(Disc)
      /\ wholds[Disc] \in Nat /\ rholds[Disc] \in Nat
      /\ req[Disc].id \in Int /\ req[Disc].op \in Op /\ req[Disc].addr \in Addr
  BY DEF Held, Request, Thread
<1>1. CASE Deny
  <2>1. /\ pc[Disc] = "ret" /\ pc' = [pc EXCEPT ![Disc] = "idle"]
        /\ wholds' = wholds
        /\ rholds' = rholds
        /\ req'[Disc] = req[Disc]
        /\ "idle" \in Label
    BY <1>1, <1>0 DEF Deny, Goto, locks, Label, Request
  <2>2. Kept(Disc)
    BY <1>1, <1>0 DEF Deny, locks, store, bounds, Kept
  <2>3. wholds'[Disc] >= WriteDepth("idle", req'[Disc].op) /\ rholds'[Disc] >= ReadDepth("idle", Disc)
    BY <1>1, <1>0, <2>1 DEF Deny, HeldBy, WriteDepth, ReadDepth, OuterOps
  <2> QED BY <1>0, <2>1, <2>2, <2>3, MoveStep DEF Released
<1>2. CASE Added
  <2>1. /\ pc[Disc] = "ret" /\ pc' = [pc EXCEPT ![Disc] = "offerR"]
        /\ wholds' = wholds
        /\ rholds' = rholds
        /\ req'[Disc] = req[Disc]
        /\ "offerR" \in Label
    BY <1>2, <1>0 DEF Added, Goto, locks, Label, Request
  <2>2. Kept(Disc)
    BY <1>2, <1>0, ResultTypes DEF Added, locks, store, bounds, Kept, Yields
  <2>3. wholds'[Disc] >= WriteDepth("offerR", req'[Disc].op) /\ rholds'[Disc] >= ReadDepth("offerR", Disc)
    BY <1>2, <1>0, <2>1 DEF Added, HeldBy, WriteDepth, ReadDepth, OuterOps
  <2> QED BY <1>0, <2>1, <2>2, <2>3, MoveStep DEF Released
<1>3. CASE LockOffer
  <2>1. /\ pc[Disc] = "offerR" /\ LockRead(Disc, "jsonR")
        /\ UNCHANGED <<store, req, res, bounds>> /\ remote' = remote /\ out' = out
    BY <1>3 DEF LockOffer
  <2>2. "jsonR" \in Label
        /\ WriteDepth("jsonR", req[Disc].op) <= WriteDepth(pc[Disc], req[Disc].op) + 0
        /\ ReadDepth("jsonR", Disc) <= ReadDepth(pc[Disc], Disc) + 1
    BY <2>1 DEF WriteDepth, ReadDepth, Label
  <2> QED BY <1>0, <2>1, <2>2, LockReadStep
<1>4. CASE SendOffer
  <2>1. /\ pc[Disc] = "offer" /\ pc' = [pc EXCEPT ![Disc] = "postR"]
        /\ wholds' = wholds
        /\ rholds' = [rholds EXCEPT ![Disc] = @ - 1]
        /\ req'[Disc] = req[Disc]
        /\ "postR" \in Label
    BY <1>4, <1>0 DEF SendOffer, Goto, UnlockRead, Label, Request
  <2>2. Kept(Disc)
    BY <1>4, <1>0 DEF SendOffer, UnlockRead, store, bounds, Kept
  <2>3. wholds'[Disc] >= WriteDepth("postR", req'[Disc].op) /\ rholds'[Disc] >= ReadDepth("postR", Disc)
    BY <1>4, <1>0, <2>1 DEF SendOffer, HeldBy, WriteDepth, ReadDepth, OuterOps
  <2> QED BY <1>0, <2>1, <2>2, <2>3, MoveStep DEF Released
<1>5. CASE PostFiles
  <2>1. pc[Disc] = "postR" /\ LockRead(Disc, "post") /\ UNCHANGED <<store, req, res, bounds>>
    BY <1>5 DEF PostFiles
  <2>3. remote' \in {remote, "asked"}
    BY <1>5 DEF PostFiles
  <2>4. out' \in [Thread -> Int]
    <3>1. GetPrevNode(Registered, req[Disc].id) \in Int
      BY <1>0, Lookups
    <3> QED BY <1>5, <3>1 DEF PostFiles, Reads
  <2>2. "post" \in Label
        /\ WriteDepth("post", req[Disc].op) <= WriteDepth(pc[Disc], req[Disc].op) + 0
        /\ ReadDepth("post", Disc) <= ReadDepth(pc[Disc], Disc) + 1
    BY <2>1 DEF WriteDepth, ReadDepth, Label
  <2> QED BY <1>0, <2>1, <2>2, <2>3, <2>4, LockReadStep
<1>6. CASE FilesPosted
  <2>1. /\ pc[Disc] = "post" /\ pc' = [pc EXCEPT ![Disc] = "idle"]
        /\ wholds' = wholds
        /\ rholds' = [rholds EXCEPT ![Disc] = @ - 1]
        /\ req'[Disc] = req[Disc]
        /\ "idle" \in Label
    BY <1>6, <1>0 DEF FilesPosted, Goto, UnlockRead, Label, Request
  <2>2. Kept(Disc)
    BY <1>6, <1>0 DEF FilesPosted, UnlockRead, store, bounds, Kept
  <2>3. wholds'[Disc] >= WriteDepth("idle", req'[Disc].op) /\ rholds'[Disc] >= ReadDepth("idle", Disc)
    BY <1>6, <1>0, <2>1 DEF FilesPosted, HeldBy, WriteDepth, ReadDepth, OuterOps
  <2> QED BY <1>0, <2>1, <2>2, <2>3, MoveStep DEF Released
<1>7. CASE PostFails
  <2>1. /\ pc[Disc] = "post" /\ pc' = [pc EXCEPT ![Disc] = "prevR"]
        /\ wholds' = wholds
        /\ rholds' = [rholds EXCEPT ![Disc] = @ - 1]
        /\ req'[Disc] = req[Disc]
        /\ "prevR" \in Label
    BY <1>7, <1>0 DEF PostFails, Goto, UnlockRead, Label, Request
  <2>2. Kept(Disc)
    BY <1>7, <1>0 DEF PostFails, UnlockRead, store, bounds, Kept
  <2>3. wholds'[Disc] >= WriteDepth("prevR", req'[Disc].op) /\ rholds'[Disc] >= ReadDepth("prevR", Disc)
    BY <1>7, <1>0, <2>1 DEF PostFails, HeldBy, WriteDepth, ReadDepth, OuterOps
  <2> QED BY <1>0, <2>1, <2>2, <2>3, MoveStep DEF Released
<1>8. CASE LockPrev
  <2>1. /\ pc[Disc] = "prevR" /\ LockRead(Disc, "prev")
        /\ UNCHANGED <<store, req, res, bounds>> /\ remote' = remote /\ out' = out
    BY <1>8 DEF LockPrev
  <2>2. "prev" \in Label
        /\ WriteDepth("prev", req[Disc].op) <= WriteDepth(pc[Disc], req[Disc].op) + 0
        /\ ReadDepth("prev", Disc) <= ReadDepth(pc[Disc], Disc) + 1
    BY <2>1 DEF WriteDepth, ReadDepth, Label
  <2> QED BY <1>0, <2>1, <2>2, LockReadStep
<1>9. CASE FailPrev
  <2>1. /\ pc[Disc] = "prev" /\ pc' = [pc EXCEPT ![Disc] = "outerW"]
        /\ wholds' = wholds
        /\ rholds' = [rholds EXCEPT ![Disc] = @ - 1]
        /\ "outerW" \in Label
    BY <1>9, <1>0 DEF FailPrev, Goto, UnlockRead, Label, Entry
  <2>2. Kept(Disc)
    <3>1. GetPrevNode(Registered, req[Disc].id) \in Int
      BY <1>0, Lookups
    <3>2. [req[Disc] EXCEPT !.op = "fail", !.id = GetPrevNode(Registered, req[Disc].id)] \in Request
      BY <1>0, <3>1 DEF Request, Op, DeleteOps
    <3>3. req' = [req EXCEPT ![Disc] =
              [req[Disc] EXCEPT !.op = "fail", !.id = GetPrevNode(Registered, req[Disc].id)]]
      BY <1>9, <1>0 DEF FailPrev
    <3>4. req' \in [Thread -> Request] /\ \A u \in Thread \ {Disc} : req'[u] = req[u]
      BY <1>0, <3>2, <3>3
    <3> QED BY <3>4, <1>9, ResultTypes DEF FailPrev, UnlockRead, store, bounds, Kept, Yields
  <2>3. wholds'[Disc] >= WriteDepth("outerW", req'[Disc].op) /\ rholds'[Disc] >= ReadDepth("outerW", Disc)
    BY <1>0, <2>1 DEF HeldBy, WriteDepth, ReadDepth
  <2> QED BY <1>0, <2>1, <2>2, <2>3, MoveStep DEF Released
<1> QED BY <1>1, <1>2, <1>3, <1>4, <1>5, <1>6, <1>7, <1>8, <1>9 DEF DiscoveryStep

(***************************************************************************)
(* A request starts a handler at a label that expects no hold beyond those *)
(* the thread already has.                                                 *)
(***************************************************************************)
LEMMA BeginTyped ==
    ASSUME TypeOK, Held, Exclusive, NEW t \in Thread, NEW r \in Request, Begin(t, r),
           r.op \in {"post", "put", "delete", "fail", "get", "file", "lookup", "scan", "discover"},
           t = Disc => r.op = "discover",
           remote' \in {remote, "serving"}, calls' \in 0 .. MaxCalls
    PROVE  TypeOK' /\ Held' /\ Exclusive'
<1> USE TypeFacts
<1>1. /\ pc' = [pc EXCEPT ![t] = Entry(r.op)] /\ wholds' = wholds /\ rholds' = rholds
      /\ req' = [req EXCEPT ![t] = r] /\ req'[t] = r
  BY DEF Begin, Goto, locks
<1>2. Kept(t)
  BY <1>1, ResultTypes DEF Begin, locks, store, Kept, Yields
<1>3. /\ Entry(r.op) \in Label
      /\ WriteDepth(Entry(r.op), r.op) = 0 /\ ReadDepth(Entry(r.op), t) = 0
  BY DEF Entry, Label, WriteDepth, ReadDepth, OuterOps
<1>4. wholds'[t] >= WriteDepth(Entry(r.op), req'[t].op) /\ rholds'[t] >= ReadDepth(Entry(r.op), t)
  BY <1>1, <1>3
<1> QED BY <1>1, <1>2, <1>3, <1>4, MoveStep DEF Released

(***************************************************************************)
(* Requests and discovery packets arrive at idle threads.                  *)
(***************************************************************************)
LEMMA ArrivalTyped ==
    ASSUME TypeOK, Held, Exclusive,
           ReceiveDiscovery \/ \E w \in Worker : Receive(w) \/ RemoteAsks(w)
    PROVE  TypeOK' /\ Held' /\ Exclusive'
<1> USE TypeFacts
<1>1. CASE ReceiveDiscovery
  <2>1. PICK r \in Arrivals : Begin(Disc, r)
    BY <1>1 DEF ReceiveDiscovery
  <2>2. r \in Request /\ r.op = "discover" /\ Disc \in Thread
    <3>1. NodeId \subseteq Int
      BY RegisteredIds, NameServerAssumption
    <3> QED BY <3>1, NameServerAssumption DEF Request, Op, AddOps, Thread
  <2>3. remote' = remote /\ calls' \in 0 .. MaxCalls
    BY <1>1, NameServerAssumption DEF ReceiveDiscovery
  <2> QED BY <2>1, <2>2, <2>3, BeginTyped
<1>2. ASSUME NEW w \in Worker, Receive(w)
      PROVE  TypeOK' /\ Held' /\ Exclusive'
  <2>1. PICK r \in Requests : Begin(w, r)
    BY <1>2 DEF Receive
  <2>2. r \in Request /\ r.op \in {"post", "put", "delete", "fail", "get", "file", "scan"}
    BY NameServerAssumption DEF Request, Op, AddOps, DeleteOps
  <2>3. remote' = remote /\ calls' \in 0 .. MaxCalls
    BY <1>2, NameServerAssumption DEF Receive
  <2>4. w \in Thread /\ w # Disc
    BY NameServerAssumption DEF Thread
  <2> QED BY <2>1, <2>2, <2>3, <2>4, BeginTyped
<1>3. ASSUME NEW w \in Worker, RemoteAsks(w)
      PROVE  TypeOK' /\ Held' /\ Exclusive'
  <2>1. PICK i \in NodeId, a \in Addr : Begin(w, [op |-> "lookup", id |-> i, addr |-> a])
    BY <1>3 DEF RemoteAsks
  <2>2. [op |-> "lookup", id |-> i, addr |-> a] \in Request
    BY NameServerAssumption DEF Request, Op
  <2>3. remote' = "serving" /\ calls' \in 0 .. MaxCalls
    BY <1>3 DEF RemoteAsks
  <2>4. w \in Thread /\ w # Disc
    BY NameServerAssumption DEF Thread
  <2> QED BY <2>1, <2>2, <2>3, <2>4, BeginTyped
<1> QED BY <1>1, <1>2, <1>3

\* A process that has just been started, whatever it loaded.
Started ==
    /\ map \in Map /\ disk \in Map /\ torn = FALSE
    /\ wholds = Every(0) /\ rholds = Every(0) /\ queue = << >>
    /\ pc = Every("idle") /\ req = Every(NoRequest)
    /\ out = Every(0) /\ res = Every(NoResult) /\ remote = "none"
    /\ calls \in 0 .. MaxCalls /\ crashes \in 0 .. MaxCrashes

(***************************************************************************)
(* The state of a name server that has just been started is well typed and *)
(* nobody holds a lock.                                                    *)
(***************************************************************************)
LEMMA StartTyped == Started => TypeOK /\ Held /\ Exclusive
<1> SUFFICES ASSUME Started PROVE TypeOK /\ Held /\ Exclusive
  OBVIOUS
<1>1. NoRequest \in Request /\ "idle" \in Label
  BY NameServerAssumption DEF NoRequest, Request, Op, Label
<1>2. TypeOK
  <2>1. torn \in BOOLEAN
    BY Zenon DEF Started
  <2>2. /\ wholds \in [Thread -> Nat] /\ rholds \in [Thread -> Nat]
        /\ queue \in Seq(Thread) /\ pc \in [Thread -> Label] /\ req \in [Thread -> Request]
        /\ out \in [Thread -> Int] /\ res \in [Thread -> ResultOf]
        /\ remote \in {"none", "asked", "serving", "served"}
    BY <1>1, ResultTypes DEF Started, Every
  <2> QED BY <2>1, <2>2, Zenon DEF TypeOK, Started
<1>3. Held
  BY <1>1 DEF Started, Held, HeldBy, Every, WriteDepth, ReadDepth
<1>4. Exclusive
  BY DEF Started, Exclusive, Every
<1> QED BY <1>2, <1>3, <1>4

-------------------------------------------------------------------------------
(***************************************************************************)
(* The three facts of the inductive invariant.                             *)
(***************************************************************************)
LockInv == TypeOK /\ Held /\ Exclusive

LEMMA InitLockInv == Init => LockInv
<1> SUFFICES ASSUME Init PROVE LockInv
  OBVIOUS
<1>1. Started
  BY NameServerAssumption DEF Init, Started
<1> QED BY <1>1, StartTyped DEF LockInv

(***************************************************************************)
(* A restart leads to such a state (NameServer.java:35-52, loadMapping).   *)
(***************************************************************************)
LEMMA RestartTyped ==
    ASSUME TypeOK, Restart
    PROVE  Started'
<1>1. map' \in Map
  BY DEF Restart, TypeOK, Map
<1>2. crashes' \in 0 .. MaxCrashes /\ calls' \in 0 .. MaxCalls
  BY NameServerAssumption DEF Restart, TypeOK
<1>3. disk' = map' /\ torn' = FALSE
  BY Zenon DEF Restart
<1>4. /\ wholds' = Every(0) /\ rholds' = Every(0) /\ queue' = << >>
      /\ pc' = Every("idle") /\ req' = Every(NoRequest)
      /\ out' = Every(0) /\ res' = Every(NoResult) /\ remote' = "none"
  BY Zenon DEF Restart
<1>5. Every(0)' = Every(0) /\ Every("idle")' = Every("idle") /\ Every(NoRequest)' = Every(NoRequest)
      /\ Every(NoResult)' = Every(NoResult)
  BY DEF Every, NoRequest, NoResult, Result
<1> QED BY <1>1, <1>2, <1>3, <1>4, <1>5, Zenon DEF Started

(***************************************************************************)
(* LockInv is inductive.                                                   *)
(***************************************************************************)
LEMMA NextLockInv == LockInv /\ [Next]_vars => LockInv'
<1> SUFFICES ASSUME LockInv, [Next]_vars PROVE LockInv'
  OBVIOUS
<1> USE DEF LockInv
<1>1. ASSUME NEW t \in Thread, HandlerStep(t) PROVE LockInv'
  BY <1>1, HandlerTyped
<1>2. CASE DiscoveryStep
  BY <1>2, DiscoveryTyped
<1>3. CASE ReceiveDiscovery \/ \E w \in Worker : Receive(w) \/ RemoteAsks(w)
  BY <1>3, ArrivalTyped
<1>4. CASE RemoteDone
  BY <1>4, Zenon DEF RemoteDone, store, locks, bounds, TypeOK, Held, HeldBy, Exclusive
<1>5. CASE Restart
  <2>1. Started'
    BY <1>5, RestartTyped
  <2>2. Started' => (TypeOK /\ Held /\ Exclusive)'
    BY StartTyped, PTL
  <2> QED BY <2>1, <2>2
<1>6. CASE UNCHANGED vars
  BY <1>6 DEF vars, store, locks, bounds, TypeOK, Held, HeldBy, Exclusive
<1> QED BY <1>1, <1>2, <1>3, <1>4, <1>5, <1>6 DEF Next

-------------------------------------------------------------------------------
(***************************************************************************)
(* What a reader has read stays true: a step of thread t leaves the        *)
(* others' labels and results alone, and it changes the map only while no  *)
(* other thread has a read hold.                                           *)
(***************************************************************************)
LEMMA FreshFrame ==
    ASSUME NEW t \in Thread, Held, Fresh, FreshIn(t)',
           \A u \in Thread \ {t} : /\ pc'[u] = pc[u] /\ req'[u] = req[u]
                                    /\ out'[u] = out[u] /\ res'[u] = res[u],
           map' = map \/ \A u \in Thread \ {t} : rholds[u] = 0
    PROVE  Fresh'
<1> SUFFICES ASSUME NEW u \in Thread \ {t} PROVE FreshIn(u)'
  BY DEF Fresh
<1>1. FreshIn(u) /\ HeldBy(u) /\ pc'[u] = pc[u] /\ req'[u] = req[u]
      /\ out'[u] = out[u] /\ res'[u] = res[u]
  BY DEF Fresh, Held
<1>2. CASE map' = map
  <2>1. Registered' = Registered
    BY <1>2 DEF Registered
  <2> QED BY <1>1, <2>1 DEF FreshIn, OfferIsTheRing
<1>3. CASE rholds[u] = 0
  <2>1. pc[u] \notin {"scanMap", "jsonPrev", "offer"}
    BY <1>1, <1>3 DEF HeldBy, ReadDepth
  <2> QED BY <1>1, <2>1 DEF FreshIn, OfferIsTheRing
<1> QED BY <1>2, <1>3

(***************************************************************************)
(* No step of a handler changes the map under a reader: what a handler has *)
(* already looked up is still what the map says.                           *)
(***************************************************************************)
LEMMA HandlerFresh ==
    ASSUME TypeOK, Held, Exclusive, Fresh, NEW t \in Thread, HandlerStep(t)
    PROVE  Fresh'
<1> USE TypeFacts
<1>0. /\ HeldBy(t) /\ FreshIn(t)
      /\ req[t].id \in Int /\ req[t].op \in Op /\ req[t].addr \in Addr
  BY DEF Held, Fresh, Request
<1>1. CASE LockOuter(t)
  <2>1. /\ pc' = pc \/ pc' = [pc EXCEPT ![t] = "callW"]
        /\ req' = req /\ out' = out /\ res' = res /\ map' = map
    <3>1. LockWrite(t, "callW") /\ "callW" \in Label
      BY <1>1 DEF LockOuter, Label
    <3>2. pc' = pc \/ pc' = [pc EXCEPT ![t] = "callW"]
      BY <1>0, <3>1, LockWriteEffect
    <3> QED BY <1>1, <3>2 DEF LockOuter, store
  <2>2. FreshIn(t)'
    <3>1. Registered' = Registered /\ (pc'[t] = pc[t] \/ pc'[t] = "callW")
      BY <2>1 DEF Registered
    <3> QED BY <1>0, <2>1, <3>1 DEF FreshIn, OfferIsTheRing
  <2> QED BY <2>1, <2>2, FreshFrame
<1>2. CASE LockCall(t)
  <2>1. /\ pc' = pc \/ pc' = [pc EXCEPT ![t] = "body"]
        /\ req' = req /\ out' = out /\ res' = res /\ map' = map
    <3>1. LockWrite(t, "body") /\ "body" \in Label
      BY <1>2 DEF LockCall, Label
    <3>2. pc' = pc \/ pc' = [pc EXCEPT ![t] = "body"]
      BY <1>0, <3>1, LockWriteEffect
    <3> QED BY <1>2, <3>2 DEF LockCall, store
  <2>2. FreshIn(t)'
    <3>1. Registered' = Registered /\ (pc'[t] = pc[t] \/ pc'[t] = "body")
      BY <2>1 DEF Registered
    <3> QED BY <1>0, <2>1, <3>1 DEF FreshIn, OfferIsTheRing
  <2> QED BY <2>1, <2>2, FreshFrame
<1>3. CASE Refuse(t)
  <2>1. /\ \A u \in Thread \ {t} : /\ pc'[u] = pc[u] /\ req'[u] = req[u]
                                    /\ out'[u] = out[u] /\ res'[u] = res[u]
        /\ map' = map
    BY <1>3 DEF Refuse, Goto, Yields, Reads, store
  <2>2. FreshIn(t)'
    <3>1. /\ pc'[t] \notin {"scanMap", "jsonPrev", "offer"} /\ res'[t].is # "status"
      BY <1>3 DEF Refuse, Goto, Yields, Yes, No, Pending, Result
    <3> QED BY <1>0, <3>1 DEF FreshIn, OfferIsTheRing
  <2> QED BY <2>1, <2>2, FreshFrame
<1>4. CASE Change(t)
  <2>1. /\ pc[t] = "body" /\ pc' = [pc EXCEPT ![t] = "save"]
        /\ req' = req /\ out' = out /\ res' = [res EXCEPT ![t] = Yes]
    BY <1>4 DEF Change, Goto, Yields
  <2>2. FreshIn(t)'
    <3>1. pc'[t] = "save" /\ res'[t] = Yes
      BY <2>1
    <3> QED BY <3>1 DEF FreshIn, OfferIsTheRing, Yes, Result
  <2>3. \A u \in Thread \ {t} : rholds[u] = 0
    <3>1. wholds[t] > 0
      BY <1>0, <2>1 DEF HeldBy, WriteDepth
    <3> QED BY <3>1 DEF Exclusive
  <2> QED BY <2>1, <2>2, <2>3, FreshFrame
<1>24. CASE Truncate(t)
  BY <1>24 DEF Truncate, Fresh, FreshIn, OfferIsTheRing, Registered
<1>5. CASE Save(t)
  <2>1. /\ \A u \in Thread \ {t} : /\ pc'[u] = pc[u] /\ req'[u] = req[u]
                                    /\ out'[u] = out[u] /\ res'[u] = res[u]
        /\ map' = map
    BY <1>5 DEF Save, Goto, Yields, Reads, store
  <2>2. FreshIn(t)'
    <3>1. /\ pc'[t] \notin {"scanMap", "jsonPrev", "offer"} /\ res'[t] = res[t]
      BY <1>5 DEF Save, Goto
    <3> QED BY <1>0, <3>1 DEF FreshIn, OfferIsTheRing
  <2> QED BY <2>1, <2>2, FreshFrame
<1>6. CASE PostAdded(t)
  <2>1. /\ \A u \in Thread \ {t} : /\ pc'[u] = pc[u] /\ req'[u] = req[u]
                                    /\ out'[u] = out[u] /\ res'[u] = res[u]
        /\ map' = map
    BY <1>6 DEF PostAdded, Goto, Yields, Reads, store
  <2>2. FreshIn(t)'
    <3>1. /\ pc'[t] \notin {"scanMap", "jsonPrev", "offer"} /\ res'[t] = res[t]
      BY <1>6 DEF PostAdded, Goto
    <3> QED BY <1>0, <3>1 DEF FreshIn, OfferIsTheRing
  <2> QED BY <2>1, <2>2, FreshFrame
<1>7. CASE PostRefused(t)
  <2>1. /\ \A u \in Thread \ {t} : /\ pc'[u] = pc[u] /\ req'[u] = req[u]
                                    /\ out'[u] = out[u] /\ res'[u] = res[u]
        /\ map' = map
    BY <1>7 DEF PostRefused, Goto, Yields, Reads, store
  <2>2. FreshIn(t)'
    <3>1. /\ pc'[t] \notin {"scanMap", "jsonPrev", "offer"} /\ res'[t] = res[t]
      BY <1>7 DEF PostRefused, Goto
    <3> QED BY <1>0, <3>1 DEF FreshIn, OfferIsTheRing
  <2> QED BY <2>1, <2>2, FreshFrame
<1>8. CASE PutUpdated(t)
  <2>1. /\ \A u \in Thread \ {t} : /\ pc'[u] = pc[u] /\ req'[u] = req[u]
                                    /\ out'[u] = out[u] /\ res'[u] = res[u]
        /\ map' = map
    BY <1>8 DEF PutUpdated, Goto, Yields, Reads, store
  <2>2. FreshIn(t)'
    <3>1. /\ pc'[t] \notin {"scanMap", "jsonPrev", "offer"} /\ res'[t] = res[t]
      BY <1>8 DEF PutUpdated, Goto
    <3> QED BY <1>0, <3>1 DEF FreshIn, OfferIsTheRing
  <2> QED BY <2>1, <2>2, FreshFrame
<1>9. CASE PutCreates(t)
  <2>1. /\ \A u \in Thread \ {t} : /\ pc'[u] = pc[u] /\ req'[u] = req[u]
                                    /\ out'[u] = out[u] /\ res'[u] = res[u]
        /\ map' = map
    BY <1>9 DEF PutCreates, Goto, Yields, Reads, store
  <2>2. FreshIn(t)'
    <3>1. /\ pc'[t] \notin {"scanMap", "jsonPrev", "offer"} /\ res'[t].is # "status"
      BY <1>9 DEF PutCreates, Goto, Yields, Yes, No, Pending, Result
    <3> QED BY <1>0, <3>1 DEF FreshIn, OfferIsTheRing
  <2> QED BY <2>1, <2>2, FreshFrame
<1>10. CASE PutAdded(t)
  <2>1. /\ \A u \in Thread \ {t} : /\ pc'[u] = pc[u] /\ req'[u] = req[u]
                                    /\ out'[u] = out[u] /\ res'[u] = res[u]
        /\ map' = map
    BY <1>10 DEF PutAdded, Goto, Yields, Reads, store
  <2>2. FreshIn(t)'
    <3>1. /\ pc'[t] \notin {"scanMap", "jsonPrev", "offer"} /\ res'[t] = res[t]
      BY <1>10 DEF PutAdded, Goto
    <3> QED BY <1>0, <3>1 DEF FreshIn, OfferIsTheRing
  <2> QED BY <2>1, <2>2, FreshFrame
<1>11. CASE DeleteAnswered(t)
  <2>1. /\ \A u \in Thread \ {t} : /\ pc'[u] = pc[u] /\ req'[u] = req[u]
                                    /\ out'[u] = out[u] /\ res'[u] = res[u]
        /\ map' = map
    BY <1>11 DEF DeleteAnswered, Goto, Yields, Reads, store
  <2>2. FreshIn(t)'
    <3>1. /\ pc'[t] \notin {"scanMap", "jsonPrev", "offer"} /\ res'[t] = res[t]
      BY <1>11 DEF DeleteAnswered, Goto
    <3> QED BY <1>0, <3>1 DEF FreshIn, OfferIsTheRing
  <2> QED BY <2>1, <2>2, FreshFrame
<1>12. CASE Notify(t)
  <2>1. /\ \A u \in Thread \ {t} : /\ pc'[u] = pc[u] /\ req'[u] = req[u]
                                    /\ out'[u] = out[u] /\ res'[u] = res[u]
        /\ map' = map
    BY <1>12 DEF Notify, Goto, Yields, Reads, store
  <2>2. FreshIn(t)'
    <3>1. /\ pc'[t] \notin {"scanMap", "jsonPrev", "offer"} /\ res'[t] = res[t]
      BY <1>12 DEF Notify, Goto
    <3> QED BY <1>0, <3>1 DEF FreshIn, OfferIsTheRing
  <2> QED BY <2>1, <2>2, FreshFrame
<1>13. CASE LockAgent(t)
  <2>1. /\ pc' = pc \/ pc' = [pc EXCEPT ![t] = "agent"]
        /\ req' = req /\ out' = out /\ res' = res /\ map' = map
    <3>1. LockRead(t, "agent") /\ "agent" \in Label
      BY <1>13 DEF LockAgent, Label
    <3>2. pc' = pc \/ pc' = [pc EXCEPT ![t] = "agent"]
      BY <1>0, <3>1, LockReadEffect
    <3> QED BY <1>13, <3>2 DEF LockAgent, store
  <2>2. FreshIn(t)'
    <3>1. Registered' = Registered /\ (pc'[t] = pc[t] \/ pc'[t] = "agent")
      BY <2>1 DEF Registered
    <3> QED BY <1>0, <2>1, <3>1 DEF FreshIn, OfferIsTheRing
  <2> QED BY <2>1, <2>2, FreshFrame
<1>14. CASE LaunchAgent(t)
  <2>1. /\ \A u \in Thread \ {t} : /\ pc'[u] = pc[u] /\ req'[u] = req[u]
                                    /\ out'[u] = out[u] /\ res'[u] = res[u]
        /\ map' = map
    BY <1>14 DEF LaunchAgent, Goto, Yields, Reads, store
  <2>2. FreshIn(t)'
    <3>1. /\ pc'[t] \notin {"scanMap", "jsonPrev", "offer"} /\ res'[t] = res[t]
      BY <1>14 DEF LaunchAgent, Goto
    <3> QED BY <1>0, <3>1 DEF FreshIn, OfferIsTheRing
  <2> QED BY <2>1, <2>2, FreshFrame
<1>15. CASE LockJson(t)
  <2>1. /\ pc' = pc \/ pc' = [pc EXCEPT ![t] = "jsonCheck"]
        /\ req' = req /\ out' = out /\ res' = res /\ map' = map
    <3>1. LockRead(t, "jsonCheck") /\ "jsonCheck" \in Label
      BY <1>15 DEF LockJson, Label
    <3>2. pc' = pc \/ pc' = [pc EXCEPT ![t] = "jsonCheck"]
      BY <1>0, <3>1, LockReadEffect
    <3> QED BY <1>15, <3>2 DEF LockJson, store
  <2>2. FreshIn(t)'
    <3>1. Registered' = Registered /\ (pc'[t] = pc[t] \/ pc'[t] = "jsonCheck")
      BY <2>1 DEF Registered
    <3> QED BY <1>0, <2>1, <3>1 DEF FreshIn, OfferIsTheRing
  <2> QED BY <2>1, <2>2, FreshFrame
<1>16. CASE JsonNotFound(t)
  <2>1. /\ \A u \in Thread \ {t} : /\ pc'[u] = pc[u] /\ req'[u] = req[u]
                                    /\ out'[u] = out[u] /\ res'[u] = res[u]
        /\ map' = map
    BY <1>16 DEF JsonNotFound, Goto, Yields, Reads, store
  <2>2. FreshIn(t)'
    <3>1. /\ pc'[t] \notin {"scanMap", "jsonPrev", "offer"} /\ res'[t].is # "status"
      BY <1>16 DEF JsonNotFound, Goto, Yields, Yes, No, Pending, Result
    <3> QED BY <1>0, <3>1 DEF FreshIn, OfferIsTheRing
  <2> QED BY <2>1, <2>2, FreshFrame
<1>17. CASE JsonNext(t)
  <2>1. /\ \A u \in Thread \ {t} : /\ pc'[u] = pc[u] /\ req'[u] = req[u]
                                    /\ out'[u] = out[u] /\ res'[u] = res[u]
        /\ map' = map
    BY <1>17 DEF JsonNext, Goto, Yields, Reads, store
  <2>2. FreshIn(t)'
    <3>1. /\ pc'[t] = "jsonPrev" /\ res'[t] = res[t] /\ req'[t] = req[t]
          /\ req[t].id \in Registered /\ out'[t] = GetNextNode(Registered, req[t].id)
      BY <1>17 DEF JsonNext, Goto, Reads
    <3>2. Registered' = Registered
      BY <2>1 DEF Registered
    <3> QED BY <1>0, <3>1, <3>2 DEF FreshIn, OfferIsTheRing
  <2> QED BY <2>1, <2>2, FreshFrame
<1>18. CASE JsonPrev(t)
  <2>1. /\ \A u \in Thread \ {t} : /\ pc'[u] = pc[u] /\ req'[u] = req[u]
                                    /\ out'[u] = out[u] /\ res'[u] = res[u]
        /\ map' = map
    BY <1>18 DEF JsonPrev, Goto, Yields, Reads, store
  <2>2. FreshIn(t)'
    <3>1. /\ pc'[t] = (IF t = Disc THEN "offer" ELSE "idle") /\ pc[t] = "jsonPrev"
          /\ res'[t] = Result("config", out[t], GetPrevNode(Registered, req[t].id))
          /\ req'[t] = req[t]
      BY <1>18 DEF JsonPrev, Goto, Yields
    <3>2. Registered' = Registered
      BY <2>1 DEF Registered
    <3>3. /\ req[t].id \in Registered
          /\ out[t] = GetNextNode(Registered, req[t].id)
      BY <1>0, <3>1 DEF FreshIn
    <3>4. /\ IsNext(Registered, req[t].id, GetNextNode(Registered, req[t].id))
          /\ IsPrev(Registered, req[t].id, GetPrevNode(Registered, req[t].id))
      <4>1. Registered \subseteq 0 .. MaxId /\ MaxId \in Nat /\ Registered # {}
        BY <3>3, RegisteredIds
      <4>2. Registered \subseteq Nat
        BY <4>1
      <4>3. req[t].id \in Nat
        BY <3>3, <4>2, Zenon
      <4> QED BY <4>1, <4>2, <4>3, GetNextNodeIsNext, GetPrevNodeIsPrev
    <3>5. /\ res'[t].is = "config" /\ res'[t].x = out[t]
          /\ res'[t].y = GetPrevNode(Registered, req[t].id)
      BY <3>1 DEF Result
    <3> QED BY <3>1, <3>2, <3>3, <3>4, <3>5 DEF FreshIn, OfferIsTheRing
  <2> QED BY <2>1, <2>2, FreshFrame
<1>19. CASE LockFile(t)
  <2>1. /\ pc' = pc \/ pc' = [pc EXCEPT ![t] = "file"]
        /\ req' = req /\ out' = out /\ res' = res /\ map' = map
    <3>1. LockRead(t, "file") /\ "file" \in Label
      BY <1>19 DEF LockFile, Label
    <3>2. pc' = pc \/ pc' = [pc EXCEPT ![t] = "file"]
      BY <1>0, <3>1, LockReadEffect
    <3> QED BY <1>19, <3>2 DEF LockFile, store
  <2>2. FreshIn(t)'
    <3>1. Registered' = Registered /\ (pc'[t] = pc[t] \/ pc'[t] = "file")
      BY <2>1 DEF Registered
    <3> QED BY <1>0, <2>1, <3>1 DEF FreshIn, OfferIsTheRing
  <2> QED BY <2>1, <2>2, FreshFrame
<1>20. CASE AnswerOwner(t)
  <2>1. /\ \A u \in Thread \ {t} : /\ pc'[u] = pc[u] /\ req'[u] = req[u]
                                    /\ out'[u] = out[u] /\ res'[u] = res[u]
        /\ map' = map
    BY <1>20 DEF AnswerOwner, Goto, Yields, Reads, store
  <2>2. FreshIn(t)'
    <3>1. /\ pc'[t] \notin {"scanMap", "jsonPrev", "offer"} /\ res'[t].is # "status"
      BY <1>20 DEF AnswerOwner, Goto, Yields, Yes, No, Pending, Result
    <3> QED BY <1>0, <3>1 DEF FreshIn, OfferIsTheRing
  <2> QED BY <2>1, <2>2, FreshFrame
<1>21. CASE LockScan(t)
  <2>1. /\ pc' = pc \/ pc' = [pc EXCEPT ![t] = "scanSize"]
        /\ req' = req /\ out' = out /\ res' = res /\ map' = map
    <3>1. LockRead(t, "scanSize") /\ "scanSize" \in Label
      BY <1>21 DEF LockScan, Label
    <3>2. pc' = pc \/ pc' = [pc EXCEPT ![t] = "scanSize"]
      BY <1>0, <3>1, LockReadEffect
    <3> QED BY <1>21, <3>2 DEF LockScan, store
  <2>2. FreshIn(t)'
    <3>1. Registered' = Registered /\ (pc'[t] = pc[t] \/ pc'[t] = "scanSize")
      BY <2>1 DEF Registered
    <3> QED BY <1>0, <2>1, <3>1 DEF FreshIn, OfferIsTheRing
  <2> QED BY <2>1, <2>2, FreshFrame
<1>22. CASE ScanSize(t)
  <2>1. /\ \A u \in Thread \ {t} : /\ pc'[u] = pc[u] /\ req'[u] = req[u]
                                    /\ out'[u] = out[u] /\ res'[u] = res[u]
        /\ map' = map
    BY <1>22 DEF ScanSize, Goto, Yields, Reads, store
  <2>2. FreshIn(t)'
    <3>1. /\ pc'[t] = "scanMap" /\ res'[t] = res[t] /\ out'[t] = Cardinality(Registered)
      BY <1>22 DEF ScanSize, Goto, Reads
    <3>2. Registered' = Registered
      BY <2>1 DEF Registered
    <3> QED BY <1>0, <3>1, <3>2 DEF FreshIn, OfferIsTheRing
  <2> QED BY <2>1, <2>2, FreshFrame
<1>23. CASE ScanMap(t)
  <2>1. /\ \A u \in Thread \ {t} : /\ pc'[u] = pc[u] /\ req'[u] = req[u]
                                    /\ out'[u] = out[u] /\ res'[u] = res[u]
        /\ map' = map
    BY <1>23 DEF ScanMap, Goto, Yields, Reads, store
  <2>2. FreshIn(t)'
    <3>1. /\ pc'[t] = "idle" /\ pc[t] = "scanMap"
          /\ res'[t] = Result("status", out[t], Cardinality(Registered))
      BY <1>23 DEF ScanMap, Goto, Yields
    <3> QED BY <1>0, <3>1 DEF FreshIn, OfferIsTheRing, Result
  <2> QED BY <2>1, <2>2, FreshFrame
<1> QED BY <1>1, <1>2, <1>3, <1>4, <1>5, <1>6, <1>7, <1>8, <1>9, <1>10, <1>11, <1>12, <1>13, <1>14, <1>15, <1>16, <1>17, <1>18, <1>19, <1>20, <1>21, <1>22, <1>23, <1>24 DEF HandlerStep

(***************************************************************************)
(* The same for the steps of DiscoveryHandler.                             *)
(***************************************************************************)
LEMMA DiscoveryFresh ==
    ASSUME TypeOK, Held, Exclusive, Fresh, DiscoveryStep
    PROVE  Fresh'
<1> USE TypeFacts
<1>0. Disc \in Thread /\ HeldBy(Disc) /\ FreshIn(Disc)
  BY DEF Held, Fresh, Thread
<1>1. CASE Deny
  <2>1. /\ \A u \in Thread \ {Disc} : /\ pc'[u] = pc[u] /\ req'[u] = req[u]
                                       /\ out'[u] = out[u] /\ res'[u] = res[u]
        /\ map' = map
    BY <1>1 DEF Deny, Goto, Yields, store
  <2>2. pc'[Disc] \notin {"scanMap", "jsonPrev", "offer"} /\ res'[Disc] = res[Disc]
    BY <1>1, <1>0 DEF Deny, Goto, Yields, Pending, Result, Entry
  <2>3. FreshIn(Disc)'
    BY <1>0, <2>2 DEF FreshIn, OfferIsTheRing
  <2> QED BY <1>0, <2>1, <2>3, FreshFrame
<1>2. CASE Added
  <2>1. /\ \A u \in Thread \ {Disc} : /\ pc'[u] = pc[u] /\ req'[u] = req[u]
                                       /\ out'[u] = out[u] /\ res'[u] = res[u]
        /\ map' = map
    BY <1>2 DEF Added, Goto, Yields, store
  <2>2. pc'[Disc] \notin {"scanMap", "jsonPrev", "offer"} /\ res'[Disc].is # "status"
    BY <1>2, <1>0 DEF Added, Goto, Yields, Pending, Result, Entry
  <2>3. FreshIn(Disc)'
    BY <1>0, <2>2 DEF FreshIn, OfferIsTheRing
  <2> QED BY <1>0, <2>1, <2>3, FreshFrame
<1>3. CASE LockOffer
  <2>1. /\ pc' = pc \/ pc' = [pc EXCEPT ![Disc] = "jsonR"]
        /\ req' = req /\ res' = res /\ map' = map
    <3>1. LockRead(Disc, "jsonR") /\ "jsonR" \in Label
      BY <1>3 DEF LockOffer, Label
    <3>2. pc' = pc \/ pc' = [pc EXCEPT ![Disc] = "jsonR"]
      BY <1>0, <3>1, LockReadEffect
    <3> QED BY <1>3, <3>2 DEF LockOffer, store
  <2>2. \A u \in Thread \ {Disc} : out'[u] = out[u]
    BY <1>3 DEF LockOffer, Reads
  <2>3. FreshIn(Disc)'
    <3>1. /\ Registered' = Registered /\ (pc'[Disc] = pc[Disc] \/ pc'[Disc] = "jsonR")
          /\ pc[Disc] \notin {"scanMap", "jsonPrev"}
      BY <1>3, <1>0, <2>1 DEF Registered, LockOffer
    <3> QED BY <1>0, <2>1, <3>1 DEF FreshIn, OfferIsTheRing
  <2> QED BY <1>0, <2>1, <2>2, <2>3, FreshFrame
<1>4. CASE SendOffer
  <2>1. /\ \A u \in Thread \ {Disc} : /\ pc'[u] = pc[u] /\ req'[u] = req[u]
                                       /\ out'[u] = out[u] /\ res'[u] = res[u]
        /\ map' = map
    BY <1>4 DEF SendOffer, Goto, Yields, store
  <2>2. pc'[Disc] \notin {"scanMap", "jsonPrev", "offer"} /\ res'[Disc] = res[Disc]
    BY <1>4, <1>0 DEF SendOffer, Goto, Yields, Pending, Result, Entry
  <2>3. FreshIn(Disc)'
    BY <1>0, <2>2 DEF FreshIn, OfferIsTheRing
  <2> QED BY <1>0, <2>1, <2>3, FreshFrame
<1>5. CASE PostFiles
  <2>1. /\ pc' = pc \/ pc' = [pc EXCEPT ![Disc] = "post"]
        /\ req' = req /\ res' = res /\ map' = map
    <3>1. LockRead(Disc, "post") /\ "post" \in Label
      BY <1>5 DEF PostFiles, Label
    <3>2. pc' = pc \/ pc' = [pc EXCEPT ![Disc] = "post"]
      BY <1>0, <3>1, LockReadEffect
    <3> QED BY <1>5, <3>2 DEF PostFiles, store
  <2>2. \A u \in Thread \ {Disc} : out'[u] = out[u]
    BY <1>5 DEF PostFiles, Reads
  <2>3. FreshIn(Disc)'
    <3>1. /\ Registered' = Registered /\ (pc'[Disc] = pc[Disc] \/ pc'[Disc] = "post")
          /\ pc[Disc] \notin {"scanMap", "jsonPrev"}
      BY <1>5, <1>0, <2>1 DEF Registered, PostFiles
    <3> QED BY <1>0, <2>1, <3>1 DEF FreshIn, OfferIsTheRing
  <2> QED BY <1>0, <2>1, <2>2, <2>3, FreshFrame
<1>6. CASE FilesPosted
  <2>1. /\ \A u \in Thread \ {Disc} : /\ pc'[u] = pc[u] /\ req'[u] = req[u]
                                       /\ out'[u] = out[u] /\ res'[u] = res[u]
        /\ map' = map
    BY <1>6 DEF FilesPosted, Goto, Yields, store
  <2>2. pc'[Disc] \notin {"scanMap", "jsonPrev", "offer"} /\ res'[Disc] = res[Disc]
    BY <1>6, <1>0 DEF FilesPosted, Goto, Yields, Pending, Result, Entry
  <2>3. FreshIn(Disc)'
    BY <1>0, <2>2 DEF FreshIn, OfferIsTheRing
  <2> QED BY <1>0, <2>1, <2>3, FreshFrame
<1>7. CASE PostFails
  <2>1. /\ \A u \in Thread \ {Disc} : /\ pc'[u] = pc[u] /\ req'[u] = req[u]
                                       /\ out'[u] = out[u] /\ res'[u] = res[u]
        /\ map' = map
    BY <1>7 DEF PostFails, Goto, Yields, store
  <2>2. pc'[Disc] \notin {"scanMap", "jsonPrev", "offer"} /\ res'[Disc] = res[Disc]
    BY <1>7, <1>0 DEF PostFails, Goto, Yields, Pending, Result, Entry
  <2>3. FreshIn(Disc)'
    BY <1>0, <2>2 DEF FreshIn, OfferIsTheRing
  <2> QED BY <1>0, <2>1, <2>3, FreshFrame
<1>8. CASE LockPrev
  <2>1. /\ pc' = pc \/ pc' = [pc EXCEPT ![Disc] = "prev"]
        /\ req' = req /\ res' = res /\ map' = map
    <3>1. LockRead(Disc, "prev") /\ "prev" \in Label
      BY <1>8 DEF LockPrev, Label
    <3>2. pc' = pc \/ pc' = [pc EXCEPT ![Disc] = "prev"]
      BY <1>0, <3>1, LockReadEffect
    <3> QED BY <1>8, <3>2 DEF LockPrev, store
  <2>2. \A u \in Thread \ {Disc} : out'[u] = out[u]
    BY <1>8 DEF LockPrev, Reads
  <2>3. FreshIn(Disc)'
    <3>1. /\ Registered' = Registered /\ (pc'[Disc] = pc[Disc] \/ pc'[Disc] = "prev")
          /\ pc[Disc] \notin {"scanMap", "jsonPrev"}
      BY <1>8, <1>0, <2>1 DEF Registered, LockPrev
    <3> QED BY <1>0, <2>1, <3>1 DEF FreshIn, OfferIsTheRing
  <2> QED BY <1>0, <2>1, <2>2, <2>3, FreshFrame
<1>9. CASE FailPrev
  <2>1. /\ \A u \in Thread \ {Disc} : /\ pc'[u] = pc[u] /\ req'[u] = req[u]
                                       /\ out'[u] = out[u] /\ res'[u] = res[u]
        /\ map' = map
    BY <1>9 DEF FailPrev, Goto, Yields, store
  <2>2. pc'[Disc] \notin {"scanMap", "jsonPrev", "offer"} /\ res'[Disc].is # "status"
    BY <1>9, <1>0 DEF FailPrev, Goto, Yields, Pending, Result, Entry
  <2>3. FreshIn(Disc)'
    BY <1>0, <2>2 DEF FreshIn, OfferIsTheRing
  <2> QED BY <1>0, <2>1, <2>3, FreshFrame
<1> QED BY <1>1, <1>2, <1>3, <1>4, <1>5, <1>6, <1>7, <1>8, <1>9 DEF DiscoveryStep

(***************************************************************************)
(* A handler that starts has looked up nothing.                            *)
(***************************************************************************)
LEMMA BeginFresh ==
    ASSUME TypeOK, Held, Fresh, NEW t \in Thread, NEW r, Begin(t, r),
           r.op \in {"post", "put", "delete", "fail", "get", "file", "lookup", "scan", "discover"}
    PROVE  Fresh'
<1> USE TypeFacts
<1>1. /\ \A u \in Thread \ {t} : /\ pc'[u] = pc[u] /\ req'[u] = req[u]
                                 /\ out'[u] = out[u] /\ res'[u] = res[u]
      /\ map' = map
  BY DEF Begin, Goto, Yields, store
<1>2. pc'[t] \notin {"scanMap", "jsonPrev", "offer"} /\ res'[t].is # "status"
  BY DEF Begin, Goto, Yields, Pending, Result, Entry
<1>3. FreshIn(t)'
  BY <1>2 DEF FreshIn, OfferIsTheRing
<1> QED BY <1>1, <1>3, FreshFrame

(***************************************************************************)
(* Fresh is inductive relative to LockInv.                                 *)
(***************************************************************************)
LEMMA NextFresh == LockInv /\ Fresh /\ [Next]_vars => Fresh'
<1> SUFFICES ASSUME TypeOK, Held, Exclusive, Fresh, [Next]_vars PROVE Fresh'
  BY DEF LockInv
<1>1. ASSUME NEW t \in Thread, HandlerStep(t) PROVE Fresh'
  BY <1>1, HandlerFresh
<1>2. CASE DiscoveryStep
  BY <1>2, DiscoveryFresh
<1>3. CASE ReceiveDiscovery
  <2>1. PICK r \in Arrivals : Begin(Disc, r)
    BY <1>3 DEF ReceiveDiscovery
  <2>2. Disc \in Thread /\ r.op = "discover"
    BY NameServerAssumption DEF Thread
  <2> QED BY <2>1, <2>2, BeginFresh
<1>4. ASSUME NEW w \in Worker, Receive(w) PROVE Fresh'
  <2>1. PICK r \in Requests : Begin(w, r)
    BY <1>4 DEF Receive
  <2>2. w \in Thread /\ r.op \in {"post", "put", "delete", "fail", "get", "file", "scan"}
    BY NameServerAssumption DEF Thread
  <2> QED BY <2>1, <2>2, BeginFresh
<1>5. ASSUME NEW w \in Worker, RemoteAsks(w) PROVE Fresh'
  <2>1. PICK i \in NodeId, a \in Addr : Begin(w, [op |-> "lookup", id |-> i, addr |-> a])
    BY <1>5 DEF RemoteAsks
  <2>2. w \in Thread
    BY DEF Thread
  <2> QED BY <2>1, <2>2, BeginFresh
<1>6. CASE RemoteDone \/ UNCHANGED vars
  <2>1. map' = map /\ pc' = pc /\ req' = req /\ out' = out /\ res' = res
    BY <1>6 DEF RemoteDone, vars, store
  <2>2. Registered' = Registered
    BY <2>1 DEF Registered
  <2> QED BY <2>1, <2>2 DEF Fresh, FreshIn, OfferIsTheRing
<1>7. CASE Restart
  <2>1. pc' = Every("idle") /\ res' = Every(NoResult)
    BY <1>7 DEF Restart
  <2>2. \A t \in Thread : pc'[t] = "idle" /\ res'[t].is = "none"
    BY <2>1 DEF Every, NoResult, Result
  <2>3. Disc \in Thread
    BY DEF Thread
  <2> QED BY <2>2, <2>3 DEF Fresh, FreshIn, OfferIsTheRing
<1> QED BY <1>1, <1>2, <1>3, <1>4, <1>5, <1>6, <1>7 DEF Next

-------------------------------------------------------------------------------
(***************************************************************************)
(* The file: only Change, Truncate, Save and Restart touch the map or the file, and  *)
(* only Save leaves the label "save".                                      *)
(***************************************************************************)
LEMMA DiskFrame ==
    ASSUME NEW t \in Thread, UNCHANGED store, pc[t] # "save",
           \A u \in Thread \ {t} : pc'[u] = pc[u], DiskFollowsMap
    PROVE  DiskFollowsMap'
BY DEF DiskFollowsMap, store

(***************************************************************************)
(* A call of lock() moves no other thread.                                 *)
(***************************************************************************)
LEMMA LockKeepsLabels ==
    ASSUME NEW t \in Thread, NEW label, pc \in [Thread -> Label],
           LockWrite(t, label) \/ LockRead(t, label)
    PROVE  \A u \in Thread \ {t} : pc'[u] = pc[u]
BY DEF LockWrite, LockRead, TakeWrite, TakeRead, Park, Goto

(***************************************************************************)
(* DiskFollowsMap is inductive: every change of the map leads to a save    *)
(* before any other thread can write.                                      *)
(***************************************************************************)
LEMMA NextDisk == TypeOK /\ DiskFollowsMap /\ [Next]_vars => DiskFollowsMap'
<1> SUFFICES ASSUME TypeOK, DiskFollowsMap, [Next]_vars PROVE DiskFollowsMap'
  OBVIOUS
<1> USE TypeFacts
<1>0. Disc \in Thread /\ \A w \in Worker : w \in Thread
  BY DEF Thread
<1>1. ASSUME NEW t \in Thread, HandlerStep(t) PROVE DiskFollowsMap'
  <2>1. CASE Change(t)
    <3>1. pc'[t] = "save"
      BY <2>1 DEF Change, Goto
    <3> QED BY <3>1 DEF DiskFollowsMap
  <2>2. CASE Save(t)
    BY <2>2 DEF Save, DiskFollowsMap
  <2>6. CASE Truncate(t)
    BY <2>6 DEF Truncate, DiskFollowsMap
  <2>3. CASE LockOuter(t) \/ LockCall(t) \/ LockAgent(t) \/ LockJson(t) \/ LockFile(t) \/ LockScan(t)
    <3>1. UNCHANGED store /\ pc[t] # "save"
      BY <2>3 DEF LockOuter, LockCall, LockAgent, LockJson, LockFile, LockScan
    <3>2. \A u \in Thread \ {t} : pc'[u] = pc[u]
      BY <2>3, LockKeepsLabels DEF LockOuter, LockCall, LockAgent, LockJson, LockFile, LockScan
    <3> QED BY <3>1, <3>2, DiskFrame
  <2>4. CASE Refuse(t) \/ PostAdded(t) \/ PostRefused(t) \/ PutUpdated(t) \/ PutCreates(t)
              \/ PutAdded(t) \/ DeleteAnswered(t) \/ Notify(t)
    <3>1. /\ UNCHANGED store /\ pc[t] # "save"
          /\ \A u \in Thread \ {t} : pc'[u] = pc[u]
      BY <2>4 DEF Refuse, PostAdded, PostRefused, PutUpdated, PutCreates, PutAdded,
                  DeleteAnswered, Notify, Goto
    <3> QED BY <3>1, DiskFrame
  <2>5. CASE LaunchAgent(t) \/ JsonNotFound(t) \/ JsonNext(t) \/ JsonPrev(t)
              \/ AnswerOwner(t) \/ ScanSize(t) \/ ScanMap(t)
    <3>1. /\ UNCHANGED store /\ pc[t] # "save"
          /\ \A u \in Thread \ {t} : pc'[u] = pc[u]
      BY <2>5 DEF LaunchAgent, JsonNotFound, JsonNext, JsonPrev, AnswerOwner, ScanSize,
                  ScanMap, Goto
    <3> QED BY <3>1, DiskFrame
  <2> QED BY <1>1, <2>1, <2>2, <2>3, <2>4, <2>5, <2>6 DEF HandlerStep
<1>2. CASE DiscoveryStep
  <2>1. CASE LockOffer \/ PostFiles \/ LockPrev
    <3>1. UNCHANGED store /\ pc[Disc] # "save"
      BY <2>1 DEF LockOffer, PostFiles, LockPrev
    <3>2. \A u \in Thread \ {Disc} : pc'[u] = pc[u]
      BY <1>0, <2>1, LockKeepsLabels DEF LockOffer, PostFiles, LockPrev
    <3> QED BY <1>0, <3>1, <3>2, DiskFrame
  <2>2. CASE Deny \/ Added \/ SendOffer \/ FilesPosted \/ PostFails \/ FailPrev
    <3>1. /\ UNCHANGED store /\ pc[Disc] # "save"
          /\ \A u \in Thread \ {Disc} : pc'[u] = pc[u]
      BY <2>2 DEF Deny, Added, SendOffer, FilesPosted, PostFails, FailPrev, Goto
    <3> QED BY <1>0, <3>1, DiskFrame
  <2> QED BY <1>2, <2>1, <2>2 DEF DiscoveryStep
<1>3. ASSUME NEW t \in Thread, NEW r, Begin(t, r) PROVE DiskFollowsMap'
  BY <1>3, DiskFrame DEF Begin, Goto
<1>4. CASE ReceiveDiscovery \/ \E w \in Worker : Receive(w) \/ RemoteAsks(w)
  BY <1>0, <1>3, <1>4 DEF ReceiveDiscovery, Receive, RemoteAsks
<1>5. CASE Restart
  BY <1>5 DEF Restart, DiskFollowsMap
<1>6. CASE RemoteDone \/ UNCHANGED vars
  BY <1>6 DEF RemoteDone, vars, store, DiskFollowsMap
<1> QED BY <1>1, <1>2, <1>4, <1>5, <1>6 DEF Next

(***************************************************************************)
(* Who changes the map: a thread that holds the write lock, or a restart.  *)
(***************************************************************************)
LEMMA WhoChangesMap ==
    ASSUME TypeOK, Held, [Next]_vars
    PROVE  \/ map' = map
           \/ Restart
           \/ \E t \in Thread : wholds[t] > 0 /\ crashes' = crashes
<1> USE TypeFacts
<1>1. ASSUME NEW t \in Thread, HandlerStep(t), map' # map PROVE wholds[t] > 0 /\ crashes' = crashes
  <2>1. Change(t)
    BY <1>1 DEF HandlerStep, store, LockOuter, LockCall, Refuse, Truncate, Save, PostAdded, PostRefused,
                PutUpdated, PutCreates, PutAdded, DeleteAnswered, Notify, LockAgent,
                LaunchAgent, LockJson, JsonNotFound, JsonNext, JsonPrev, LockFile,
                AnswerOwner, LockScan, ScanSize, ScanMap
  <2>2. pc[t] = "body" /\ crashes' = crashes /\ HeldBy(t) /\ wholds[t] \in Nat
    BY <2>1 DEF Change, bounds, Held
  <2> QED BY <2>2 DEF HeldBy, WriteDepth
<1>2. ASSUME NEW t, NEW r, Begin(t, r) PROVE map' = map
  BY <1>2 DEF Begin, store
<1>3. CASE DiscoveryStep \/ ReceiveDiscovery \/ RemoteDone \/ UNCHANGED vars
            \/ \E w \in Worker : Receive(w) \/ RemoteAsks(w)
  BY <1>2, <1>3 DEF DiscoveryStep, Deny, Added, LockOffer, SendOffer, PostFiles, FilesPosted,
         PostFails, LockPrev, FailPrev, ReceiveDiscovery, RemoteDone, Receive, RemoteAsks,
         vars, store
<1> QED BY <1>1, <1>3 DEF Next

-------------------------------------------------------------------------------
(***************************************************************************)
(* Every reachable state has the declared types: in particular no unlock() *)
(* takes a hold a thread does not have, in any interleaving of any number  *)
(* of handlers (putNode's second unlock() throws instead).                 *)
(***************************************************************************)
THEOREM TypeCorrect == Spec => []TypeOK
<1>1. LockInv => TypeOK
  BY DEF LockInv
<1> QED BY <1>1, InitLockInv, NextLockInv, PTL DEF Spec

(***************************************************************************)
(* A restart finds the map in the file unless it interrupts saveMapping.   *)
(***************************************************************************)
THEOREM DiskHoldsTheMap == Spec => []DiskFollowsMap
<1>1. Init => DiskFollowsMap
  BY DEF Init, DiskFollowsMap
<1> QED BY <1>1, TypeCorrect, NextDisk, PTL DEF Spec

(***************************************************************************)
(* A crash outside saveMapping loses no node.                              *)
(***************************************************************************)
THEOREM RestartFindsTheMap == Spec => RestartKeepsMap
<1>1. LockInv /\ DiskFollowsMap /\ [Next]_vars
        => [crashes' # crashes /\ map' # map => \E t \in Thread : pc[t] = "save"]_vars
  <2> SUFFICES ASSUME LockInv, DiskFollowsMap, [Next]_vars,
                      crashes' # crashes, map' # map
               PROVE  \E t \in Thread : pc[t] = "save"
    OBVIOUS
  <2>1. Restart
    BY WhoChangesMap DEF LockInv
  <2> QED BY <2>1 DEF Restart, DiskFollowsMap
<1> QED BY <1>1, InitLockInv, NextLockInv, DiskHoldsTheMap, PTL DEF Spec, RestartKeepsMap

(***************************************************************************)
(* nodeToJson, getNameServerStatus and the other readers see one map from  *)
(* their first lookup to their last, whatever writers do.                  *)
(***************************************************************************)
THEOREM ReadersAreIsolated == Spec => ReadersSeeOneMap
<1>1. LockInv /\ [Next]_vars => [MapIsStable]_vars
  <2> SUFFICES ASSUME LockInv, [Next]_vars,
                      NEW t \in Thread, rholds[t] > 0, rholds'[t] > 0, wholds[t] = 0
               PROVE  map' = map
    BY DEF MapIsStable
  <2>1. ~ Restart
    BY DEF Restart, Every
  <2>2. \A u \in Thread : ~ (wholds[u] > 0)
    BY DEF LockInv, Exclusive
  <2> QED BY <2>1, <2>2, WhoChangesMap DEF LockInv
<1> QED BY <1>1, InitLockInv, NextLockInv, PTL DEF Spec, ReadersSeeOneMap

(***************************************************************************)
(* The offer of DiscoveryHandler is the new node's place in the ring of    *)
(* the nodes registered when it is sent.                                   *)
(***************************************************************************)
LEMMA InitFresh == Init => Fresh
BY DEF Init, Fresh, FreshIn, OfferIsTheRing, Every, NoResult, Result, Thread

(***************************************************************************)
(* The configuration that DiscoveryHandler sends to a new node is that     *)
(* node's place in the ring registered at that moment                      *)
(* (NameServerController.java:432-450).                                    *)
(***************************************************************************)
THEOREM OfferIsCorrect == Spec => []OfferIsTheRing
<1>1. Fresh => OfferIsTheRing
  <2>1. Disc \in Thread
    BY DEF Thread
  <2> QED BY <2>1 DEF Fresh, FreshIn
<1> QED BY <1>1, InitFresh, NextFresh, InitLockInv, NextLockInv, PTL DEF Spec

(***************************************************************************)
(* The status that getNameServerStatus returns counts the nodes it lists.  *)
(***************************************************************************)
THEOREM StatusIsConsistent == Spec => []StatusAgrees
<1>1. Fresh => StatusAgrees
  BY DEF Fresh, FreshIn, StatusAgrees
<1> QED BY <1>1, InitFresh, NextFresh, InitLockInv, NextLockInv, PTL DEF Spec

-------------------------------------------------------------------------------
(***************************************************************************)
(* When nobody keeps the lock.  The handlers nest lock() and unlock()      *)
(* calls, and three of them can get the balance wrong: postNode, putNode,  *)
(* and DiscoveryHandler when the node it has just registered is deleted    *)
(* before it is offered its place.  Without these (Balanced) every thread  *)
(* has, at every label, exactly the holds that its label says, and none    *)
(* when it is idle again.                                                  *)
(***************************************************************************)
\* No POST, no PUT, and nobody deletes or reports a node that is joining.
Balanced ==
    \A r \in Requests :
        /\ r.op \notin {"post", "put"}
        /\ r.op \in DeleteOps => \A a \in Arrivals : a.id # r.id

ExactAt(t) ==
    /\ wholds[t] = WriteDepth(pc[t], req[t].op)
    /\ rholds[t] = ReadDepth(pc[t], t)
    /\ req[t].op \notin {"post", "put", "putAdd"}
    /\ pc[t] = "outerW" => req[t].op = "fail"

Exact == \A t \in Thread : ExactAt(t)

\* DiscoveryHandler has registered the node of its broadcast and not offered yet.
Offering ==
    \/ pc[Disc] \in {"offerR", "jsonR", "jsonCheck"}
    \/ req[Disc].op = "discover" /\ pc[Disc] = "save"
    \/ req[Disc].op = "discover" /\ pc[Disc] = "ret" /\ res[Disc] = Yes

(***************************************************************************)
(* That node stays registered until the offer.                             *)
(***************************************************************************)
StaysRegistered ==
    /\ \A w \in Worker : req[w].op \in DeleteOps => \A a \in Arrivals : a.id # req[w].id
    /\ req[Disc].op = "discover" => req[Disc] \in Arrivals
    /\ pc[Disc] \in {"offerR", "jsonR", "jsonCheck"} => req[Disc].op = "discover"
    /\ Offering => map[req[Disc].id] # NoAddr

-------------------------------------------------------------------------------
(***************************************************************************)
(* Steps of one thread.  SameFor says what they leave alone.               *)
(***************************************************************************)
SameFor(u) ==
    /\ wholds'[u] = wholds[u] /\ rholds'[u] = rholds[u]
    /\ pc'[u] = pc[u] /\ req'[u] = req[u] /\ res'[u] = res[u]

LEMMA ExactFrame ==
    ASSUME NEW t \in Thread, Exact, ExactAt(t)', \A u \in Thread \ {t} : SameFor(u)
    PROVE  Exact'
BY DEF Exact, ExactAt, SameFor

\* lock() adds the hold that the next label expects, or leaves everything as it is.
LEMMA LockWriteExact ==
    ASSUME NEW t \in Thread, NEW label \in Label, TypeOK, Exact, LockWrite(t, label),
           label # "outerW", UNCHANGED <<req, res>>,
           WriteDepth(label, req[t].op) = WriteDepth(pc[t], req[t].op) + 1,
           ReadDepth(label, t) = ReadDepth(pc[t], t)
    PROVE  ExactAt(t)' /\ \A u \in Thread \ {t} : SameFor(u)
<1>1. /\ rholds' = rholds
      /\ \/ wholds' = wholds /\ pc' = pc
         \/ wholds' = [wholds EXCEPT ![t] = @ + 1] /\ pc' = [pc EXCEPT ![t] = label]
  BY LockWriteEffect
<1>2. ExactAt(t) /\ wholds \in [Thread -> Nat] /\ pc \in [Thread -> Label]
  BY TypeFacts DEF Exact
<1>3. CASE wholds' = wholds /\ pc' = pc
  BY <1>1, <1>2, <1>3 DEF ExactAt, SameFor
<1>4. CASE wholds' = [wholds EXCEPT ![t] = @ + 1] /\ pc' = [pc EXCEPT ![t] = label]
  <2>1. wholds'[t] = wholds[t] + 1 /\ pc'[t] = label /\ rholds'[t] = rholds[t] /\ req' = req
    BY <1>1, <1>2, <1>4
  <2>2. ExactAt(t)'
    BY <1>2, <2>1 DEF ExactAt
  <2> QED BY <1>1, <1>2, <1>4, <2>2 DEF SameFor
<1> QED BY <1>1, <1>3, <1>4

LEMMA LockReadExact ==
    ASSUME NEW t \in Thread, NEW label \in Label, TypeOK, Exact, LockRead(t, label),
           label # "outerW", UNCHANGED <<req, res>>,
           WriteDepth(label, req[t].op) = WriteDepth(pc[t], req[t].op),
           ReadDepth(label, t) = ReadDepth(pc[t], t) + 1
    PROVE  ExactAt(t)' /\ \A u \in Thread \ {t} : SameFor(u)
<1>1. /\ wholds' = wholds
      /\ \/ rholds' = rholds /\ pc' = pc
         \/ rholds' = [rholds EXCEPT ![t] = @ + 1] /\ pc' = [pc EXCEPT ![t] = label]
  BY LockReadEffect
<1>2. ExactAt(t) /\ rholds \in [Thread -> Nat] /\ pc \in [Thread -> Label]
  BY TypeFacts DEF Exact
<1>3. CASE rholds' = rholds /\ pc' = pc
  BY <1>1, <1>2, <1>3 DEF ExactAt, SameFor
<1>4. CASE rholds' = [rholds EXCEPT ![t] = @ + 1] /\ pc' = [pc EXCEPT ![t] = label]
  <2>1. rholds'[t] = rholds[t] + 1 /\ pc'[t] = label /\ wholds'[t] = wholds[t] /\ req' = req
    BY <1>1, <1>2, <1>4
  <2>2. ExactAt(t)'
    BY <1>2, <2>1 DEF ExactAt
  <2> QED BY <1>1, <1>2, <1>4, <2>2 DEF SameFor
<1> QED BY <1>1, <1>3, <1>4

\* The steps that take no lock, on their own thread and on the others.
Moves(t, label) ==
    /\ pc' = [pc EXCEPT ![t] = label]
    /\ \/ wholds' = [wholds EXCEPT ![t] = @ - 1] /\ rholds' = rholds
       \/ rholds' = [rholds EXCEPT ![t] = @ - 1] /\ wholds' = wholds
       \/ wholds' = wholds /\ rholds' = rholds
    /\ \A u \in Thread \ {t} : req'[u] = req[u] /\ res'[u] = res[u]

LEMMA MovesOne ==
    ASSUME NEW t \in Thread, NEW label, TypeOK, Moves(t, label)
    PROVE  pc'[t] = label /\ \A u \in Thread \ {t} : SameFor(u)
BY TypeFacts DEF Moves, SameFor

-------------------------------------------------------------------------------
(***************************************************************************)
(* Each step of a handler, action by action.  PostAdded, PostRefused,      *)
(* PutUpdated, PutCreates and PutAdded do not happen, and JsonNotFound     *)
(* not to DiscoveryHandler.                                                *)
(***************************************************************************)
LEMMA HandlerExact ==
    ASSUME TypeOK, Exact, StaysRegistered, NEW t \in Thread, HandlerStep(t)
    PROVE  ExactAt(t)' /\ \A u \in Thread \ {t} : SameFor(u)
<1> USE TypeFacts
<1>0. /\ ExactAt(t) /\ wholds[t] \in Nat /\ rholds[t] \in Nat
      /\ req[t].op \notin {"post", "put", "putAdd"}
  BY DEF Exact, ExactAt
<1>1. CASE LockOuter(t)
  <2>1. pc[t] = "outerW" /\ LockWrite(t, "callW") /\ UNCHANGED <<req, res>>
    BY <1>1 DEF LockOuter
  <2>2. /\ "callW" \in Label
        /\ WriteDepth("callW", req[t].op) = WriteDepth(pc[t], req[t].op) + 1
        /\ ReadDepth("callW", t) = ReadDepth(pc[t], t)
    BY <1>0, <2>1 DEF WriteDepth, ReadDepth, Label, ExactAt, OuterOps
  <2> QED BY <1>0, <2>1, <2>2, LockWriteExact
<1>2. CASE LockCall(t)
  <2>1. pc[t] = "callW" /\ LockWrite(t, "body") /\ UNCHANGED <<req, res>>
    BY <1>2 DEF LockCall
  <2>2. /\ "body" \in Label
        /\ WriteDepth("body", req[t].op) = WriteDepth(pc[t], req[t].op) + 1
        /\ ReadDepth("body", t) = ReadDepth(pc[t], t)
    BY <1>0, <2>1 DEF WriteDepth, ReadDepth, Label, ExactAt, OuterOps
  <2> QED BY <1>0, <2>1, <2>2, LockWriteExact
<1>3. CASE Refuse(t)
  <2>1. Moves(t, "ret")
    BY <1>0, <1>3 DEF Refuse, Moves, Goto, UnlockWrite, Yields
  <2>2. ExactAt(t)'
    BY <1>0, <1>3, <2>1, MovesOne DEF Refuse, ExactAt, WriteDepth, ReadDepth, OuterOps, Yields, UnlockWrite, Yields
  <2> QED BY <1>0, <2>1, <2>2, MovesOne
<1>4. CASE Change(t)
  <2>1. Moves(t, "save")
    BY <1>0, <1>4 DEF Change, Moves, Goto, locks, Yields
  <2>2. ExactAt(t)'
    BY <1>0, <1>4, <2>1, MovesOne DEF Change, ExactAt, WriteDepth, ReadDepth, OuterOps, Yields, locks, Yields
  <2> QED BY <1>0, <2>1, <2>2, MovesOne
<1>24. CASE Truncate(t)
  BY <1>0, <1>24 DEF Truncate, ExactAt, SameFor, locks
<1>5. CASE Save(t)
  <2>1. Moves(t, "ret")
    BY <1>0, <1>5 DEF Save, Moves, Goto, UnlockWrite
  <2>2. ExactAt(t)'
    BY <1>0, <1>5, <2>1, MovesOne DEF Save, ExactAt, WriteDepth, ReadDepth, OuterOps, Yields, UnlockWrite
  <2> QED BY <1>0, <2>1, <2>2, MovesOne
<1>6. CASE PostAdded(t) \/ PostRefused(t) \/ PutUpdated(t) \/ PutCreates(t) \/ PutAdded(t)
  BY <1>0, <1>6 DEF PostAdded, PostRefused, PutUpdated, PutCreates, PutAdded
<1>7. CASE DeleteAnswered(t)
  <2>1. Moves(t, "idle")
    BY <1>0, <1>7 DEF DeleteAnswered, Moves, Goto, locks
  <2>2. ExactAt(t)'
    BY <1>0, <1>7, <2>1, MovesOne DEF DeleteAnswered, ExactAt, WriteDepth, ReadDepth, OuterOps, Yields, locks
  <2> QED BY <1>0, <2>1, <2>2, MovesOne
<1>8. CASE Notify(t)
  <2>1. Moves(t, "agentR")
    BY <1>0, <1>8 DEF Notify, Moves, Goto, UnlockWrite
  <2>2. ExactAt(t)'
    BY <1>0, <1>8, <2>1, MovesOne DEF Notify, ExactAt, WriteDepth, ReadDepth, OuterOps, Yields, UnlockWrite
  <2> QED BY <1>0, <2>1, <2>2, MovesOne
<1>9. CASE LockAgent(t)
  <2>1. pc[t] = "agentR" /\ LockRead(t, "agent") /\ UNCHANGED <<req, res>>
    BY <1>9 DEF LockAgent
  <2>2. /\ "agent" \in Label
        /\ WriteDepth("agent", req[t].op) = WriteDepth(pc[t], req[t].op)
        /\ ReadDepth("agent", t) = ReadDepth(pc[t], t) + 1
    BY <1>0, <2>1 DEF WriteDepth, ReadDepth, Label
  <2> QED BY <1>0, <2>1, <2>2, LockReadExact
<1>10. CASE LaunchAgent(t)
  <2>1. Moves(t, "idle")
    BY <1>0, <1>10 DEF LaunchAgent, Moves, Goto, UnlockRead
  <2>2. ExactAt(t)'
    BY <1>0, <1>10, <2>1, MovesOne DEF LaunchAgent, ExactAt, WriteDepth, ReadDepth, OuterOps, Yields, UnlockRead
  <2> QED BY <1>0, <2>1, <2>2, MovesOne
<1>11. CASE LockJson(t)
  <2>1. pc[t] = "jsonR" /\ LockRead(t, "jsonCheck") /\ UNCHANGED <<req, res>>
    BY <1>11 DEF LockJson
  <2>2. /\ "jsonCheck" \in Label
        /\ WriteDepth("jsonCheck", req[t].op) = WriteDepth(pc[t], req[t].op)
        /\ ReadDepth("jsonCheck", t) = ReadDepth(pc[t], t) + 1
    BY <1>0, <2>1 DEF WriteDepth, ReadDepth, Label
  <2> QED BY <1>0, <2>1, <2>2, LockReadExact
<1>12. CASE JsonNotFound(t)
  <2>1. t # Disc
    <3>1. ASSUME t = Disc PROVE FALSE
      <4>1. req[Disc] \in Arrivals /\ map[req[Disc].id] # NoAddr /\ req[Disc].id \notin Registered
        BY <1>12, <3>1 DEF JsonNotFound, StaysRegistered, Offering
      <4>2. req[Disc].id \in NodeId
        BY <4>1, NameServerAssumption
      <4> QED BY <4>1, <4>2 DEF Registered
    <3> QED BY <3>1
  <2>2. Moves(t, "idle")
    BY <1>12, <2>1 DEF JsonNotFound, Moves, Goto, UnlockRead, Yields
  <2>3. ExactAt(t)'
    BY <1>0, <1>12, <2>1, <2>2, MovesOne DEF JsonNotFound, ExactAt, WriteDepth, ReadDepth, UnlockRead
  <2> QED BY <2>2, <2>3, MovesOne
<1>13. CASE JsonNext(t)
  <2>1. Moves(t, "jsonPrev")
    BY <1>0, <1>13 DEF JsonNext, Moves, Goto, locks
  <2>2. ExactAt(t)'
    BY <1>0, <1>13, <2>1, MovesOne DEF JsonNext, ExactAt, WriteDepth, ReadDepth, OuterOps, Yields, locks
  <2> QED BY <1>0, <2>1, <2>2, MovesOne
<1>14. CASE JsonPrev(t)
  <2>1. Moves(t, IF t = Disc THEN "offer" ELSE "idle")
    BY <1>14 DEF JsonPrev, Moves, Goto, UnlockRead, Yields
  <2>2. ExactAt(t)'
    BY <1>0, <1>14, <2>1, MovesOne DEF JsonPrev, ExactAt, WriteDepth, ReadDepth, UnlockRead
  <2> QED BY <2>1, <2>2, MovesOne
<1>15. CASE LockFile(t)
  <2>1. pc[t] = "fileR" /\ LockRead(t, "file") /\ UNCHANGED <<req, res>>
    BY <1>15 DEF LockFile
  <2>2. /\ "file" \in Label
        /\ WriteDepth("file", req[t].op) = WriteDepth(pc[t], req[t].op)
        /\ ReadDepth("file", t) = ReadDepth(pc[t], t) + 1
    BY <1>0, <2>1 DEF WriteDepth, ReadDepth, Label
  <2> QED BY <1>0, <2>1, <2>2, LockReadExact
<1>16. CASE AnswerOwner(t)
  <2>1. Moves(t, "idle")
    BY <1>0, <1>16 DEF AnswerOwner, Moves, Goto, UnlockRead, Yields
  <2>2. ExactAt(t)'
    BY <1>0, <1>16, <2>1, MovesOne DEF AnswerOwner, ExactAt, WriteDepth, ReadDepth, OuterOps, Yields, UnlockRead, Yields
  <2> QED BY <1>0, <2>1, <2>2, MovesOne
<1>17. CASE LockScan(t)
  <2>1. pc[t] = "scanR" /\ LockRead(t, "scanSize") /\ UNCHANGED <<req, res>>
    BY <1>17 DEF LockScan
  <2>2. /\ "scanSize" \in Label
        /\ WriteDepth("scanSize", req[t].op) = WriteDepth(pc[t], req[t].op)
        /\ ReadDepth("scanSize", t) = ReadDepth(pc[t], t) + 1
    BY <1>0, <2>1 DEF WriteDepth, ReadDepth, Label
  <2> QED BY <1>0, <2>1, <2>2, LockReadExact
<1>18. CASE ScanSize(t)
  <2>1. Moves(t, "scanMap")
    BY <1>0, <1>18 DEF ScanSize, Moves, Goto, locks
  <2>2. ExactAt(t)'
    BY <1>0, <1>18, <2>1, MovesOne DEF ScanSize, ExactAt, WriteDepth, ReadDepth, OuterOps, Yields, locks
  <2> QED BY <1>0, <2>1, <2>2, MovesOne
<1>19. CASE ScanMap(t)
  <2>1. Moves(t, "idle")
    BY <1>0, <1>19 DEF ScanMap, Moves, Goto, UnlockRead, Yields
  <2>2. ExactAt(t)'
    BY <1>0, <1>19, <2>1, MovesOne DEF ScanMap, ExactAt, WriteDepth, ReadDepth, OuterOps, Yields, UnlockRead, Yields
  <2> QED BY <1>0, <2>1, <2>2, MovesOne
<1> QED BY <1>1, <1>2, <1>3, <1>4, <1>5, <1>6, <1>7, <1>8, <1>9, <1>10, <1>11, <1>12, <1>13, <1>14, <1>15, <1>16, <1>17, <1>18, <1>19, <1>24 DEF HandlerStep

(***************************************************************************)
(* Each step of DiscoveryHandler of its own.                               *)
(***************************************************************************)
LEMMA DiscoveryExact ==
    ASSUME TypeOK, Exact, StaysRegistered, DiscoveryStep
    PROVE  ExactAt(Disc)' /\ \A u \in Thread \ {Disc} : SameFor(u)
<1> USE TypeFacts
<1>0. /\ Disc \in Thread /\ ExactAt(Disc) /\ wholds[Disc] \in Nat /\ rholds[Disc] \in Nat
  BY DEF Exact, Thread
<1>1. CASE Deny
  <2>1. Moves(Disc, "idle")
    BY <1>0, <1>1 DEF Deny, Moves, Goto, locks
  <2>2. ExactAt(Disc)'
    BY <1>0, <1>1, <2>1, MovesOne DEF Deny, ExactAt, WriteDepth, ReadDepth, OuterOps, Yields, locks
  <2> QED BY <1>0, <2>1, <2>2, MovesOne
<1>2. CASE Added
  <2>1. Moves(Disc, "offerR")
    BY <1>0, <1>2 DEF Added, Moves, Goto, locks, Yields
  <2>2. ExactAt(Disc)'
    BY <1>0, <1>2, <2>1, MovesOne DEF Added, ExactAt, WriteDepth, ReadDepth, OuterOps, Yields, locks, Yields
  <2> QED BY <1>0, <2>1, <2>2, MovesOne
<1>3. CASE LockOffer
  <2>1. pc[Disc] = "offerR" /\ LockRead(Disc, "jsonR") /\ UNCHANGED <<req, res>>
    BY <1>3 DEF LockOffer
  <2>2. /\ "jsonR" \in Label
        /\ WriteDepth("jsonR", req[Disc].op) = WriteDepth(pc[Disc], req[Disc].op)
        /\ ReadDepth("jsonR", Disc) = ReadDepth(pc[Disc], Disc) + 1
    BY <1>0, <2>1 DEF WriteDepth, ReadDepth, Label
  <2> QED BY <1>0, <2>1, <2>2, LockReadExact
<1>4. CASE SendOffer
  <2>1. Moves(Disc, "postR")
    BY <1>0, <1>4 DEF SendOffer, Moves, Goto, UnlockRead
  <2>2. ExactAt(Disc)'
    BY <1>0, <1>4, <2>1, MovesOne DEF SendOffer, ExactAt, WriteDepth, ReadDepth, OuterOps, Yields, UnlockRead
  <2> QED BY <1>0, <2>1, <2>2, MovesOne
<1>5. CASE PostFiles
  <2>1. pc[Disc] = "postR" /\ LockRead(Disc, "post") /\ UNCHANGED <<req, res>>
    BY <1>5 DEF PostFiles
  <2>2. /\ "post" \in Label
        /\ WriteDepth("post", req[Disc].op) = WriteDepth(pc[Disc], req[Disc].op)
        /\ ReadDepth("post", Disc) = ReadDepth(pc[Disc], Disc) + 1
    BY <1>0, <2>1 DEF WriteDepth, ReadDepth, Label
  <2> QED BY <1>0, <2>1, <2>2, LockReadExact
<1>6. CASE FilesPosted
  <2>1. Moves(Disc, "idle")
    BY <1>0, <1>6 DEF FilesPosted, Moves, Goto, UnlockRead
  <2>2. ExactAt(Disc)'
    BY <1>0, <1>6, <2>1, MovesOne DEF FilesPosted, ExactAt, WriteDepth, ReadDepth, OuterOps, Yields, UnlockRead
  <2> QED BY <1>0, <2>1, <2>2, MovesOne
<1>7. CASE PostFails
  <2>1. Moves(Disc, "prevR")
    BY <1>0, <1>7 DEF PostFails, Moves, Goto, UnlockRead
  <2>2. ExactAt(Disc)'
    BY <1>0, <1>7, <2>1, MovesOne DEF PostFails, ExactAt, WriteDepth, ReadDepth, OuterOps, Yields, UnlockRead
  <2> QED BY <1>0, <2>1, <2>2, MovesOne
<1>8. CASE LockPrev
  <2>1. pc[Disc] = "prevR" /\ LockRead(Disc, "prev") /\ UNCHANGED <<req, res>>
    BY <1>8 DEF LockPrev
  <2>2. /\ "prev" \in Label
        /\ WriteDepth("prev", req[Disc].op) = WriteDepth(pc[Disc], req[Disc].op)
        /\ ReadDepth("prev", Disc) = ReadDepth(pc[Disc], Disc) + 1
    BY <1>0, <2>1 DEF WriteDepth, ReadDepth, Label
  <2> QED BY <1>0, <2>1, <2>2, LockReadExact
<1>9. CASE FailPrev
  <2>1. Moves(Disc, "outerW") /\ rholds' = [rholds EXCEPT ![Disc] = @ - 1] /\ pc[Disc] = "prev"
    BY <1>0, <1>9 DEF FailPrev, Moves, Goto, Entry, UnlockRead, Yields
  <2>2. wholds'[Disc] = wholds[Disc] /\ req'[Disc].op = "fail"
    BY <1>0, <1>9 DEF FailPrev, UnlockRead
  <2>3. ExactAt(Disc)'
    BY <1>0, <2>1, <2>2, MovesOne DEF ExactAt, WriteDepth, ReadDepth
  <2> QED BY <1>0, <2>1, <2>3, MovesOne
<1> QED BY <1>1, <1>2, <1>3, <1>4, <1>5, <1>6, <1>7, <1>8, <1>9 DEF DiscoveryStep

-------------------------------------------------------------------------------
(***************************************************************************)
(* The node that is being offered its place stays registered.              *)
(***************************************************************************)
LEMMA HandlerKeepsRequest ==
    ASSUME TypeOK, Exact, NEW t \in Thread, HandlerStep(t)
    PROVE  req' = req /\ (map' = map \/ Change(t))
<1>1. req[t].op # "put"
  BY DEF Exact, ExactAt
<1> QED BY <1>1 DEF HandlerStep, store, LockOuter, LockCall, Refuse, Truncate, Save, PostAdded, PostRefused,
             PutUpdated, PutCreates, PutAdded, DeleteAnswered, Notify, LockAgent,
             LaunchAgent, LockJson, JsonNotFound, JsonNext, JsonPrev, LockFile,
             AnswerOwner, LockScan, ScanSize, ScanMap, Change

\* An entry disappears only by a request to delete that very id.
LEMMA ChangeDeletesItsOwn ==
    ASSUME TypeOK, NEW t \in Thread, Change(t), NEW i, map[i] # NoAddr,
           req[t].op \in DeleteOps => req[t].id # i
    PROVE  map'[i] # NoAddr
<1>1. map' = [map EXCEPT ![req[t].id] = IF req[t].op \in DeleteOps THEN NoAddr ELSE req[t].addr]
  BY DEF Change, Changed
<1>2. req[t].addr # NoAddr
  BY TypeFacts, NameServerAssumption DEF Request
<1>3. map \in Map
  BY TypeFacts
<1> QED BY <1>1, <1>2, <1>3 DEF Map

LEMMA WorkersKeepIt ==
    ASSUME TypeOK, Exact, StaysRegistered, NEW t \in Worker, HandlerStep(t)
    PROVE  StaysRegistered'
<1>1. t \in Thread /\ Disc \in Thread /\ t # Disc
  BY NameServerAssumption DEF Thread
<1>2. req' = req /\ (map' = map \/ Change(t))
  BY <1>1, HandlerKeepsRequest
<1>3. pc'[Disc] = pc[Disc] /\ res'[Disc] = res[Disc]
  BY <1>1, HandlerExact DEF SameFor
<1>4. Offering' <=> Offering
  BY <1>2, <1>3 DEF Offering
<1>5. ASSUME Offering PROVE map'[req[Disc].id] # NoAddr
  <2>1. map[req[Disc].id] # NoAddr /\ req[Disc].op = "discover"
    BY <1>5 DEF StaysRegistered, Offering
  <2>2. req[t].op \in DeleteOps => req[t].id # req[Disc].id
    BY <2>1 DEF StaysRegistered
  <2> QED BY <1>1, <1>2, <2>1, <2>2, ChangeDeletesItsOwn
<1> QED BY <1>2, <1>3, <1>4, <1>5 DEF StaysRegistered

LEMMA DiscKeepsIt ==
    ASSUME TypeOK, Exact, StaysRegistered, HandlerStep(Disc)
    PROVE  StaysRegistered'
<1> USE TypeFacts
<1>1. Disc \in Thread
  BY DEF Thread
<1>2. req' = req /\ (map' = map \/ Change(Disc))
  BY <1>1, HandlerKeepsRequest
<1>3. CASE Change(Disc)
  <2>1. pc'[Disc] = "save"
    BY <1>1, <1>3 DEF Change, Goto
  <2>2. ASSUME req[Disc].op = "discover" PROVE map'[req[Disc].id] # NoAddr
    <3>1. req[Disc].id \in NodeId
      BY <2>2, NameServerAssumption DEF StaysRegistered
    <3>2. map' = [map EXCEPT ![req[Disc].id] = req[Disc].addr] /\ req[Disc].addr \in Addr
      BY <1>1, <1>3, <2>2 DEF Change, Changed, DeleteOps, Request
    <3> QED BY <3>1, <3>2, NameServerAssumption DEF Map
  <2> QED BY <1>2, <2>1, <2>2 DEF StaysRegistered, Offering
<1>10. CASE Truncate(Disc)
  <2>1. pc[Disc] = "save" /\ pc' = pc /\ map' = map
    BY <1>10 DEF Truncate
  <2> QED BY <1>2, <2>1 DEF StaysRegistered, Offering
<1>4. CASE Save(Disc)
  <2>1. pc[Disc] = "save" /\ pc'[Disc] = "ret" /\ map' = map
    BY <1>1, <1>4 DEF Save, Goto
  <2> QED BY <1>2, <2>1 DEF StaysRegistered, Offering
<1>5. CASE LockJson(Disc)
  <2>1. pc[Disc] = "jsonR" /\ pc'[Disc] \in {"jsonR", "jsonCheck"} /\ map' = map
    BY <1>1, <1>5 DEF LockJson, LockRead, TakeRead, Park, Goto, store
  <2> QED BY <1>2, <2>1 DEF StaysRegistered, Offering
<1>6. CASE Refuse(Disc)
  <2>1. pc'[Disc] = "ret" /\ res'[Disc] = No /\ map' = map
    BY <1>1, <1>6 DEF Refuse, Goto, Yields, store
  <2>2. No # Yes
    BY DEF No, Yes, Result
  <2> QED BY <1>2, <2>1, <2>2 DEF StaysRegistered, Offering
<1>7. CASE LockOuter(Disc) \/ LockCall(Disc) \/ LockAgent(Disc) \/ LockFile(Disc) \/ LockScan(Disc)
  <2>1. /\ map' = map
        /\ pc'[Disc] \in {"outerW", "callW", "body", "agentR", "agent", "fileR", "file",
                          "scanR", "scanSize"}
    BY <1>1, <1>7 DEF LockOuter, LockCall, LockAgent, LockFile, LockScan, LockWrite, LockRead,
                      TakeWrite, TakeRead, Park, Goto, store
  <2> QED BY <1>2, <2>1 DEF StaysRegistered, Offering
<1>8. CASE DeleteAnswered(Disc) \/ Notify(Disc) \/ LaunchAgent(Disc) \/ JsonNotFound(Disc)
             \/ JsonNext(Disc) \/ JsonPrev(Disc) \/ AnswerOwner(Disc) \/ ScanSize(Disc) \/ ScanMap(Disc)
  <2>1. map' = map /\ pc'[Disc] \in {"idle", "agentR", "dead", "jsonPrev", "offer", "scanMap"}
    BY <1>1, <1>8 DEF DeleteAnswered, Notify, LaunchAgent, JsonNotFound, JsonNext, JsonPrev,
                      AnswerOwner, ScanSize, ScanMap, Goto, store
  <2> QED BY <1>2, <2>1 DEF StaysRegistered, Offering
<1>9. CASE PostAdded(Disc) \/ PostRefused(Disc) \/ PutUpdated(Disc) \/ PutCreates(Disc) \/ PutAdded(Disc)
  <2>1. req[Disc].op \notin {"post", "put", "putAdd"}
    BY <1>1 DEF Exact, ExactAt
  <2> QED BY <1>9, <2>1 DEF PostAdded, PostRefused, PutUpdated, PutCreates, PutAdded
<1> QED BY <1>3, <1>4, <1>5, <1>6, <1>7, <1>8, <1>9, <1>10 DEF HandlerStep

LEMMA DiscoveryKeepsIt ==
    ASSUME TypeOK, Exact, StaysRegistered, DiscoveryStep
    PROVE  StaysRegistered'
<1> USE TypeFacts
<1>1. Disc \in Thread /\ \A w \in Worker : w \in Thread /\ w # Disc
  BY NameServerAssumption DEF Thread
<1>2. CASE Added
  <2>1. /\ pc'[Disc] = "offerR" /\ map' = map /\ req' = req
        /\ req[Disc].op = "discover" /\ pc[Disc] = "ret" /\ res[Disc] = Yes
    BY <1>1, <1>2 DEF Added, Goto, store
  <2> QED BY <2>1 DEF StaysRegistered, Offering
<1>3. CASE LockOffer
  <2>1. pc[Disc] = "offerR" /\ pc'[Disc] \in {"offerR", "jsonR"} /\ map' = map /\ req' = req
    BY <1>1, <1>3 DEF LockOffer, LockRead, TakeRead, Park, Goto, store
  <2> QED BY <2>1 DEF StaysRegistered, Offering
<1>4. CASE Deny \/ SendOffer \/ PostFiles \/ FilesPosted \/ PostFails \/ LockPrev
  <2>1. /\ map' = map /\ req' = req
        /\ pc'[Disc] \in {"idle", "postR", "post", "prevR", "prev"}
    BY <1>1, <1>4 DEF Deny, SendOffer, PostFiles, FilesPosted, PostFails, LockPrev,
                      LockRead, TakeRead, Park, Goto, store
  <2> QED BY <2>1 DEF StaysRegistered, Offering
<1>5. CASE FailPrev
  <2>1. /\ map' = map /\ pc'[Disc] = "outerW" /\ req'[Disc].op = "fail"
        /\ \A w \in Worker : req'[w] = req[w]
    BY <1>1, <1>5 DEF FailPrev, Goto, Entry, store
  <2> QED BY <2>1 DEF StaysRegistered, Offering
<1> QED BY <1>2, <1>3, <1>4, <1>5 DEF DiscoveryStep

(***************************************************************************)
(* A request begins without holds.                                         *)
(***************************************************************************)
LEMMA BeginKeeps ==
    ASSUME TypeOK, Exact, StaysRegistered, NEW t \in Thread, NEW r, Begin(t, r),
           r.op \in {"delete", "fail", "get", "file", "lookup", "scan", "discover"},
           t = Disc => r \in Arrivals /\ r.op = "discover",
           t # Disc /\ r.op \in DeleteOps => \A a \in Arrivals : a.id # r.id
    PROVE  Exact' /\ StaysRegistered'
<1> USE TypeFacts
<1>1. /\ pc[t] = "idle" /\ pc' = [pc EXCEPT ![t] = Entry(r.op)]
      /\ req' = [req EXCEPT ![t] = r] /\ req'[t] = r
      /\ wholds' = wholds /\ rholds' = rholds /\ map' = map
      /\ \A u \in Thread \ {t} : res'[u] = res[u]
  BY DEF Begin, Goto, locks, store, Yields
<1>2. Disc \in Thread /\ \A w \in Worker : w \in Thread /\ w # Disc
  BY NameServerAssumption DEF Thread
<1>3. /\ Entry(r.op) \in {"outerW", "callW", "jsonR", "fileR", "scanR"}
      /\ Entry(r.op) = "outerW" => r.op = "fail"
      /\ Entry(r.op) = "jsonR" => r.op = "get"
      /\ Entry(r.op) = "callW" => r.op \in {"delete", "discover"}
      /\ r.op = "discover" => Entry(r.op) = "callW"
  BY DEF Entry
<1>4. wholds[t] = 0 /\ rholds[t] = 0
  BY <1>1 DEF Exact, ExactAt, WriteDepth, ReadDepth
<1>5. WriteDepth(Entry(r.op), r.op) = 0 /\ ReadDepth(Entry(r.op), t) = 0
  BY <1>3 DEF WriteDepth, ReadDepth, OuterOps
<1>6. ExactAt(t)'
  BY <1>1, <1>3, <1>4, <1>5 DEF ExactAt
<1>7. \A u \in Thread \ {t} : SameFor(u)
  BY <1>1 DEF SameFor
<1>8. Exact'
  BY <1>6, <1>7, ExactFrame
<1>9. CASE t = Disc
  <2>1. pc'[Disc] = "callW" /\ req'[Disc] = r /\ \A w \in Worker : req'[w] = req[w]
    BY <1>1, <1>2, <1>3, <1>9
  <2> QED BY <1>1, <1>8, <1>9, <2>1 DEF StaysRegistered, Offering
<1>10. CASE t # Disc
  <2>1. /\ pc'[Disc] = pc[Disc] /\ req'[Disc] = req[Disc] /\ res'[Disc] = res[Disc]
    BY <1>2, <1>7, <1>10 DEF SameFor
  <2>2. \A w \in Worker : req'[w] = r \/ req'[w] = req[w]
    BY <1>1, <1>2
  <2> QED BY <1>1, <1>8, <1>10, <2>1, <2>2 DEF StaysRegistered, Offering
<1> QED BY <1>9, <1>10

-------------------------------------------------------------------------------
\* A process that has just been started has no requests and no holds.
LEMMA StartedBalance == Started => Exact /\ StaysRegistered
<1> SUFFICES ASSUME Started PROVE Exact /\ StaysRegistered
  OBVIOUS
<1>1. /\ wholds = Every(0) /\ rholds = Every(0) /\ pc = Every("idle") /\ req = Every(NoRequest)
      /\ NoRequest.op = "idle"
  BY DEF Started, NoRequest
<1>2. Exact
  BY <1>1 DEF Exact, ExactAt, Every, WriteDepth, ReadDepth
<1>3. StaysRegistered
  BY <1>1 DEF StaysRegistered, Offering, Every, DeleteOps, Thread
<1> QED BY <1>2, <1>3

LEMMA InitBalance == Init => Exact /\ StaysRegistered
<1>1. Init => Started
  BY NameServerAssumption DEF Init, Started
<1> QED BY <1>1, StartedBalance

LEMMA NextBalance == Balanced /\ LockInv /\ Exact /\ StaysRegistered /\ [Next]_vars
                         => Exact' /\ StaysRegistered'
<1> SUFFICES ASSUME Balanced, TypeOK, Exact, StaysRegistered, [Next]_vars
             PROVE  Exact' /\ StaysRegistered'
  BY DEF LockInv
<1>0. Disc \in Thread /\ \A w \in Worker : w \in Thread /\ w # Disc
  BY NameServerAssumption DEF Thread
<1>1. ASSUME NEW t \in Thread, HandlerStep(t) PROVE Exact' /\ StaysRegistered'
  <2>1. Exact'
    BY <1>1, HandlerExact, ExactFrame
  <2>2. StaysRegistered'
    BY <1>1, WorkersKeepIt, DiscKeepsIt DEF Thread
  <2> QED BY <2>1, <2>2
<1>2. CASE DiscoveryStep
  BY <1>0, <1>2, DiscoveryExact, ExactFrame, DiscoveryKeepsIt
<1>3. CASE ReceiveDiscovery
  <2>1. PICK r \in Arrivals : Begin(Disc, r)
    BY <1>3 DEF ReceiveDiscovery
  <2>2. r.op = "discover"
    BY NameServerAssumption
  <2> QED BY <1>0, <2>1, <2>2, BeginKeeps
<1>4. ASSUME NEW w \in Worker, Receive(w) PROVE Exact' /\ StaysRegistered'
  <2>1. PICK r \in Requests : Begin(w, r)
    BY <1>4 DEF Receive
  <2>2. r.op \in {"delete", "fail", "get", "file", "scan"}
    BY NameServerAssumption DEF Balanced
  <2>3. r.op \in DeleteOps => \A a \in Arrivals : a.id # r.id
    BY DEF Balanced
  <2> QED BY <1>0, <2>1, <2>2, <2>3, BeginKeeps
<1>5. ASSUME NEW w \in Worker, RemoteAsks(w) PROVE Exact' /\ StaysRegistered'
  <2>1. PICK i \in NodeId, a \in Addr : Begin(w, [op |-> "lookup", id |-> i, addr |-> a])
    BY <1>5 DEF RemoteAsks
  <2> DEFINE r == [op |-> "lookup", id |-> i, addr |-> a]
  <2>2. r.op = "lookup" /\ r.op \notin DeleteOps
    BY DEF DeleteOps
  <2>3. Begin(w, r)
    BY <2>1
  <2> HIDE DEF r
  <2> QED BY <1>0, <2>2, <2>3, BeginKeeps
<1>6. CASE Restart
  <2>1. Started'
    BY <1>6, RestartTyped
  <2>2. (Started => Exact /\ StaysRegistered)'
    BY StartedBalance, PTL
  <2> QED BY <2>1, <2>2
<1>7. CASE RemoteDone \/ UNCHANGED vars
  <2>1. UNCHANGED <<map, wholds, rholds, pc, req, res>>
    BY <1>7 DEF RemoteDone, vars, store, locks
  <2> QED BY <2>1 DEF Exact, ExactAt, StaysRegistered, Offering
<1> QED BY <1>1, <1>2, <1>3, <1>4, <1>5, <1>6, <1>7 DEF Next

(***************************************************************************)
(* Whatever the interleaving, a thread that is done with its request holds *)
(* no lock, provided that nobody uses POST or PUT or deletes a node that   *)
(* is joining.  (README section 3 names, for each of these, the property   *)
(* that TLC refutes.)                                                      *)
(***************************************************************************)
THEOREM IdleThreadsHoldNothing == Balanced => (Spec => []IdleHoldsNothing)
<1> SUFFICES ASSUME Balanced PROVE Spec => []IdleHoldsNothing
  OBVIOUS
<1>1. LockInv /\ Exact /\ StaysRegistered /\ [Next]_vars => (Exact /\ StaysRegistered)'
  BY NextBalance
<1>2. Exact => IdleHoldsNothing
  BY DEF Exact, ExactAt, IdleHoldsNothing, WriteDepth, ReadDepth
<1> QED BY <1>1, <1>2, InitBalance, InitLockInv, NextLockInv, PTL DEF Spec
-------------------------------------------------------------------------------
(***************************************************************************)
(* NameServer implements Directory, for every set of threads, nodes and    *)
(* requests: every step is one instant of the directory or invisible to    *)
(* its callers.  The proof needs, besides the lock discipline of LockInv   *)
(* and what a reader has read so far (Fresh), when a request is under way  *)
(* (Asking) and that the file holds the map when nobody is writing it      *)
(* (DiskFollowsMap).                                                       *)
(***************************************************************************)
\* The labels of a thread whose operation has not taken effect yet.
Active == Jsoning \union {"fileR", "file", "scanR", "scanSize", "scanMap",
                          "outerW", "callW", "body"}

\* They fall into four kinds, by what the thread was asked for.
Kind(label) ==
    IF label \in Jsoning THEN "json"
    ELSE IF label \in {"fileR", "file"} THEN "file"
    ELSE IF label \in {"scanR", "scanSize", "scanMap"} THEN "scan" ELSE "change"

Asked == NodeId \union {NoNode} \union {r.id : r \in Requests}

AskingAt(t) ==
    /\ res[t] = Pending <=> pc[t] \in Active
    /\ pc[t] # "idle" => req[t].id \in Asked

Asking == \A t \in Thread : AskingAt(t)

\* A step of thread t leaves the others where they are.
Others(t) == \A u \in Thread \ {t} : pc'[u] = pc[u] /\ req'[u] = req[u] /\ res'[u] = res[u]

-------------------------------------------------------------------------------
(***************************************************************************)
(* The directory's operators are those of the name server.                 *)
(***************************************************************************)
LEMMA SameLookups ==
    ASSUME NEW S, NEW i
    PROVE  /\ Dir!GetNextNode(S, i) = GetNextNode(S, i)
           /\ Dir!GetPrevNode(S, i) = GetPrevNode(S, i)
BY DEF Dir!GetNextNode, Dir!GetPrevNode, GetNextNode, GetPrevNode, Dir!Above, Dir!Below,
       Dir!Least, Dir!Greatest, Above, Below, Least, Greatest, NoNode, Dir!NoNode

LEMMA SameCount == \A S : Dir!Cardinality(S) = Cardinality(S)
BY DEF Dir!Cardinality, Cardinality

LEMMA SameMembers == Dir!Members = Registered
BY DEF Dir!Members, Registered

LEMMA SameResults ==
    /\ Dir!Pending = Pending /\ Dir!NoResult = NoResult
    /\ \A kind, x, y : Dir!Result(kind, x, y) = Result(kind, x, y)
BY DEF Dir!Pending, Dir!NoResult, Dir!Result, Pending, NoResult, Result

LEMMA NotPending ==
    /\ Yes # Pending /\ No # Pending /\ NoResult # Pending
    /\ \A x, y : /\ Result("config", x, y) # Pending
                 /\ Result("owner", x, y) # Pending
                 /\ Result("status", x, y) # Pending
BY DEF Yes, No, Pending, NoResult, Result

\* The previous node's id is one that an operation can be asked for.
LEMMA PrevIsAsked ==
    ASSUME NEW i
    PROVE  GetPrevNode(Registered, i) \in Asked
<1>1. Registered \subseteq NodeId /\ Registered \subseteq 0 .. MaxId /\ MaxId \in Nat
  BY RegisteredIds
<1>2. CASE Registered = {}
  BY <1>2 DEF GetPrevNode, Asked
<1>3. CASE Registered # {} /\ Below(Registered, i) # {}
  <2>1. Below(Registered, i) \subseteq Registered
    BY DEF Below
  <2>2. Greatest(Below(Registered, i)) \in Below(Registered, i)
    BY <1>1, <1>3, <2>1, GreatestExists
  <2> QED BY <1>1, <1>3, <2>1, <2>2 DEF GetPrevNode, Asked
<1>4. CASE Registered # {} /\ Below(Registered, i) = {}
  <2>1. Greatest(Registered) \in Registered
    BY <1>1, <1>4, GreatestExists
  <2> QED BY <1>1, <1>4, <2>1 DEF GetPrevNode, Asked
<1> QED BY <1>2, <1>3, <1>4

-------------------------------------------------------------------------------
(***************************************************************************)
(* Four kinds of steps of a thread: it is asked for an operation, it does  *)
(* something invisible, it answers a query or refuses a change, it changes *)
(* the map.                                                                *)
(***************************************************************************)
LEMMA OthersUnderWay ==
    ASSUME NEW t \in Thread, Others(t)
    PROVE  \A u \in Thread \ {t} : UnderWay(u)' = UnderWay(u)
BY DEF Others, UnderWay, Operation

LEMMA AskStep ==
    ASSUME NEW t \in Thread, TypeOK, AskingAt(t), Others(t), UNCHANGED store,
           pc[t] \notin Active, pc[t] # "save", pc'[t] \in Active,
           res' = [res EXCEPT ![t] = Pending],
           req'[t].id \in Asked, req'[t].addr \in Addr
    PROVE  Dir!Ask(t) /\ AskingAt(t)'
<1>1. res[t] # Pending /\ res'[t] = Pending
  BY TypeFacts DEF AskingAt
<1>2. [u \in Thread |-> UnderWay(u)][t] = Dir!None
  BY <1>1 DEF Dir!None, UnderWay
<1>3. t \notin {u \in Thread : pc[u] = "save"}
  OBVIOUS
<1>4. [u \in Thread |-> UnderWay(u)'] = [[u \in Thread |-> UnderWay(u)] EXCEPT ![t] = UnderWay(t)']
  BY OthersUnderWay
<1>5. {u \in Thread : pc'[u] = "save"} = {u \in Thread : pc[u] = "save"}
  BY DEF Others, Active, Jsoning
<1>6. UnderWay(t)' \in Dir!Call
  <2>1. Operation(t)' \in {"add", "update", "remove", "config", "owner", "status"}
    BY DEF Operation, Active
  <2>2. UnderWay(t)' = [op |-> Operation(t)', id |-> req'[t].id, addr |-> req'[t].addr]
    BY <1>1 DEF UnderWay
  <2> QED BY <2>1, <2>2 DEF Dir!Call, Asked
<1>7. map' = map /\ disk' = disk
  BY DEF store
<1>8. Dir!Ask(t)
  BY <1>2, <1>3, <1>4, <1>5, <1>6, <1>7, SameResults DEF Dir!Ask
<1>9. AskingAt(t)'
  BY <1>1 DEF AskingAt
<1> QED BY <1>8, <1>9

LEMMA HiddenStep ==
    ASSUME NEW t \in Thread, TypeOK, AskingAt(t), Others(t), UNCHANGED store,
           req'[t] = req[t], res' = res,
           \/ pc'[t] = pc[t]
           \/ pc[t] \in Active /\ pc'[t] \in Active /\ Kind(pc'[t]) = Kind(pc[t])
           \/ pc[t] \notin Active \union {"save", "idle"} /\ pc'[t] \notin Active \union {"save"}
    PROVE  UNCHANGED Dir!vars /\ AskingAt(t)'
<1>1. UnderWay(t)' = UnderWay(t)
  <2>1. CASE res[t] # Pending
    BY <2>1 DEF UnderWay
  <2>2. CASE res[t] = Pending /\ pc'[t] = pc[t]
    BY <2>2 DEF UnderWay, Operation
  <2>3. CASE res[t] = Pending /\ pc'[t] # pc[t]
    <3>1. pc[t] \in Active /\ pc'[t] \in Active /\ Kind(pc'[t]) = Kind(pc[t])
      BY <2>3 DEF AskingAt
    <3>2. Operation(t)' = Operation(t)
      BY <3>1 DEF Kind, Operation, Active, Jsoning
    <3> QED BY <3>2 DEF UnderWay
  <2> QED BY <2>1, <2>2, <2>3
<1>2. [u \in Thread |-> UnderWay(u)'] = [u \in Thread |-> UnderWay(u)]
  BY <1>1, OthersUnderWay
<1>3. pc'[t] = "save" <=> pc[t] = "save"
  BY DEF Active, Jsoning
<1>4. {u \in Thread : pc'[u] = "save"} = {u \in Thread : pc[u] = "save"}
  BY <1>3 DEF Others
<1>5. map' = map /\ disk' = disk
  BY DEF store
<1>6. UNCHANGED Dir!vars
  BY <1>2, <1>4, <1>5 DEF Dir!vars
<1>7. AskingAt(t)'
  BY DEF AskingAt, Active, Jsoning
<1> QED BY <1>6, <1>7

\* The operation under way takes effect with result r.
LEMMA TakesStep ==
    ASSUME NEW t \in Thread, TypeOK, AskingAt(t), Others(t), pc[t] \in Active,
           NEW r, r # Pending, res' = [res EXCEPT ![t] = r]
    PROVE  /\ Dir!Takes(t, Operation(t), r)
           /\ [u \in Thread |-> UnderWay(u)][t] # Dir!None
           /\ [u \in Thread |-> UnderWay(u)][t].op = Operation(t)
           /\ [u \in Thread |-> UnderWay(u)][t].id = req[t].id
           /\ [u \in Thread |-> UnderWay(u)][t].addr = req[t].addr
<1>1. UnderWay(t) = [op |-> Operation(t), id |-> req[t].id, addr |-> req[t].addr]
  BY DEF UnderWay, AskingAt
<1>2. UnderWay(t)' = [op |-> "none"]
  BY TypeFacts DEF UnderWay
<1>3. [u \in Thread |-> UnderWay(u)'] = [[u \in Thread |-> UnderWay(u)] EXCEPT ![t] = UnderWay(t)']
  BY OthersUnderWay
<1>4. Operation(t) # "none"
  BY DEF Operation, Active
<1> QED BY <1>1, <1>2, <1>3, <1>4 DEF Dir!Takes, Dir!None

\* Queries and refusals, with the answers that the directory would give.
Answer(t, r) ==
    \/ /\ Operation(t) = "add" /\ req[t].id \in Registered /\ r = No
    \/ /\ Operation(t) \in {"update", "remove", "config"} /\ req[t].id \notin Registered /\ r = No
    \/ /\ Operation(t) = "config" /\ req[t].id \in Registered
       /\ r = Result("config", GetNextNode(Registered, req[t].id), GetPrevNode(Registered, req[t].id))
    \/ /\ Operation(t) = "owner"
       /\ r = Result("owner", GetPrevNode(Registered, req[t].id), 0)
    \/ /\ Operation(t) = "status"
       /\ r = Result("status", Cardinality(Registered), Cardinality(Registered))

LEMMA AnswerStep ==
    ASSUME NEW t \in Thread, TypeOK, AskingAt(t), Others(t), UNCHANGED store,
           pc[t] \in Active, pc'[t] \notin Active \union {"save"}, req'[t] = req[t],
           NEW r, r # Pending, res' = [res EXCEPT ![t] = r], Answer(t, r)
    PROVE  Dir!Effect(t) /\ AskingAt(t)'
<1> DEFINE call == [u \in Thread |-> UnderWay(u)]
<1>1. /\ Dir!Takes(t, Operation(t), r) /\ call[t] # Dir!None
      /\ call[t].op = Operation(t) /\ call[t].id = req[t].id
  BY TakesStep
<1>2. map' = map /\ disk' = disk
  BY DEF store
<1>3. {u \in Thread : pc'[u] = "save"} = {u \in Thread : pc[u] = "save"}
  BY DEF Others, Active, Jsoning
<1>4. Dir!Query(t, Operation(t), r)
  BY <1>1, <1>2, <1>3 DEF Dir!Query
<1>5. ASSUME Operation(t) = "add" /\ req[t].id \in Registered /\ r = No
      PROVE  Dir!Effect(t)
  <2>1. Dir!Reject(t)
    BY <1>1, <1>4, <1>5, SameMembers, SameResults DEF Dir!Reject, No
  <2> QED BY <1>1, <2>1 DEF Dir!Effect
<1>6. ASSUME /\ Operation(t) \in {"update", "remove", "config"}
             /\ req[t].id \notin Registered /\ r = No
      PROVE  Dir!Effect(t)
  <2>1. Dir!Reject(t)
    BY <1>1, <1>4, <1>6, SameMembers, SameResults DEF Dir!Reject, No
  <2> QED BY <1>1, <2>1 DEF Dir!Effect
<1>7. ASSUME /\ Operation(t) = "config" /\ req[t].id \in Registered
             /\ r = Result("config", GetNextNode(Registered, req[t].id),
                                     GetPrevNode(Registered, req[t].id))
      PROVE  Dir!Effect(t)
  <2>1. Dir!Config(t)
    BY <1>1, <1>4, <1>7, SameMembers, SameResults, SameLookups DEF Dir!Config
  <2> QED BY <1>1, <2>1 DEF Dir!Effect
<1>8. ASSUME /\ Operation(t) = "owner"
             /\ r = Result("owner", GetPrevNode(Registered, req[t].id), 0)
      PROVE  Dir!Effect(t)
  <2>1. Dir!Owner(t)
    BY <1>1, <1>4, <1>8, SameMembers, SameResults, SameLookups DEF Dir!Owner
  <2> QED BY <1>1, <2>1 DEF Dir!Effect
<1>9. ASSUME /\ Operation(t) = "status"
             /\ r = Result("status", Cardinality(Registered), Cardinality(Registered))
      PROVE  Dir!Effect(t)
  <2>1. Dir!Status(t)
    BY <1>4, <1>9, SameMembers, SameResults, SameCount DEF Dir!Status
  <2> QED BY <1>1, <2>1 DEF Dir!Effect
<1>10. Dir!Effect(t)
  BY <1>5, <1>6, <1>7, <1>8, <1>9 DEF Answer
<1>11. AskingAt(t)'
  BY TypeFacts DEF AskingAt, Active, Jsoning
<1> QED BY <1>10, <1>11

\* addNode, updateNode and deleteNode when they change the map.
LEMMA ChangeStep ==
    ASSUME NEW t \in Thread, TypeOK, AskingAt(t), Change(t)
    PROVE  Dir!Effect(t) /\ AskingAt(t)' /\ Others(t)
<1> DEFINE call == [u \in Thread |-> UnderWay(u)]
<1>1. /\ pc[t] = "body" /\ pc'[t] = "save" /\ req' = req /\ res' = [res EXCEPT ![t] = Yes]
      /\ Others(t) /\ Accepts(req[t]) /\ disk' = disk
      /\ map' = [map EXCEPT ![req[t].id] = IF req[t].op \in DeleteOps THEN NoAddr ELSE req[t].addr]
  BY TypeFacts DEF Change, Goto, Yields, Others, Changed
<1>2. pc[t] \in Active
  BY <1>1 DEF Active
<1>3. /\ Dir!Takes(t, Operation(t), Yes) /\ call[t] # Dir!None
      /\ call[t].id = req[t].id /\ call[t].addr = req[t].addr
  BY <1>1, <1>2, NotPending, TakesStep
<1>4. {u \in Thread : pc'[u] = "save"} = {u \in Thread : pc[u] = "save"} \union {t}
  BY <1>1 DEF Others
<1>5. Yes = Dir!Result("yes", 0, 0)
  BY SameResults DEF Yes
<1>6. ASSUME req[t].op \in AddOps
      PROVE  Dir!Effect(t)
  <2>1. Operation(t) = "add" /\ req[t].op \notin DeleteOps
    BY <1>1, <1>6 DEF Operation, Jsoning, AddOps, DeleteOps
  <2>2. Dir!Add(t)
    BY <1>1, <1>3, <1>4, <1>5, <1>6, <2>1, SameMembers DEF Dir!Add, Dir!Alter, Accepts
  <2> QED BY <1>3, <2>2 DEF Dir!Effect
<1>7. ASSUME req[t].op \notin AddOps /\ req[t].op \in DeleteOps
      PROVE  Dir!Effect(t)
  <2>1. Operation(t) = "remove"
    BY <1>1, <1>7 DEF Operation, Jsoning
  <2>2. Dir!Remove(t)
    BY <1>1, <1>3, <1>4, <1>5, <1>7, <2>1, SameMembers DEF Dir!Remove, Dir!Alter, Accepts
  <2> QED BY <1>3, <2>2 DEF Dir!Effect
<1>8. ASSUME req[t].op \notin AddOps /\ req[t].op \notin DeleteOps
      PROVE  Dir!Effect(t)
  <2>1. Operation(t) = "update"
    BY <1>1, <1>8 DEF Operation, Jsoning
  <2>2. Dir!Update(t)
    BY <1>1, <1>3, <1>4, <1>5, <1>8, <2>1, SameMembers DEF Dir!Update, Dir!Alter, Accepts
  <2> QED BY <1>3, <2>2 DEF Dir!Effect
<1>9. Dir!Effect(t)
  BY <1>6, <1>7, <1>8
<1>10. AskingAt(t)'
  BY <1>1, <1>2, NotPending, TypeFacts DEF AskingAt, Active, Jsoning
<1> QED BY <1>1, <1>9, <1>10

LEMMA SaveStep ==
    ASSUME NEW t \in Thread, TypeOK, AskingAt(t), Save(t)
    PROVE  Dir!Saved(t) /\ AskingAt(t)' /\ Others(t)
<1>1. /\ pc[t] = "save" /\ pc'[t] = "ret" /\ req' = req /\ res' = res /\ map' = map /\ disk' = map /\ Others(t)
  BY TypeFacts DEF Save, Goto, Others
<1>2. UnderWay(t)' = UnderWay(t)
  BY <1>1 DEF UnderWay, AskingAt, Active, Jsoning
<1>3. [u \in Thread |-> UnderWay(u)'] = [u \in Thread |-> UnderWay(u)]
  BY <1>1, <1>2, OthersUnderWay
<1>4. {u \in Thread : pc'[u] = "save"} = {u \in Thread : pc[u] = "save"} \ {t}
  BY <1>1 DEF Others
<1>5. Dir!Saved(t)
  BY <1>1, <1>3, <1>4 DEF Dir!Saved
<1>6. AskingAt(t)'
  BY <1>1 DEF AskingAt, Active, Jsoning
<1> QED BY <1>1, <1>5, <1>6

LEMMA TruncateStep ==
    ASSUME NEW t \in Thread, AskingAt(t), Truncate(t)
    PROVE  UNCHANGED Dir!vars /\ AskingAt(t)' /\ Others(t)
<1>1. UNCHANGED <<map, disk, pc, req, res>>
  BY DEF Truncate
<1>2. \A u \in Thread : UnderWay(u)' = UnderWay(u)
  BY <1>1 DEF UnderWay, Operation
<1>3. UNCHANGED Dir!vars
  BY <1>1, <1>2 DEF Dir!vars
<1> QED BY <1>1, <1>3 DEF AskingAt, Others

-------------------------------------------------------------------------------
(***************************************************************************)
(* The handlers' steps.                                                    *)
(***************************************************************************)
Simulates(t) ==
    /\ Dir!Ask(t) \/ Dir!Effect(t) \/ Dir!Saved(t) \/ UNCHANGED Dir!vars
    /\ AskingAt(t)' /\ Others(t)

LEMMA HandlerSimulates ==
    ASSUME LockInv, Fresh, Asking, NEW t \in Thread, HandlerStep(t)
    PROVE  Simulates(t)
<1> USE TypeFacts DEF LockInv
<1>0. /\ AskingAt(t) /\ FreshIn(t)
      /\ req[t].id \in Int /\ req[t].op \in Op /\ req[t].addr \in Addr
  BY DEF Asking, Fresh, Request
<1>1. CASE LockOuter(t)
  <2>1. /\ pc[t] = "outerW" /\ pc'[t] \in {"outerW", "callW"} /\ UNCHANGED store
        /\ req' = req /\ res' = res /\ Others(t)
    BY <1>0, <1>1 DEF LockOuter, LockWrite, TakeWrite, Park, Goto, Others
  <2> QED BY <1>0, <2>1, HiddenStep DEF Simulates, Kind, Active, Jsoning
<1>2. CASE LockCall(t)
  <2>1. /\ pc[t] = "callW" /\ pc'[t] \in {"callW", "body"} /\ UNCHANGED store
        /\ req' = req /\ res' = res /\ Others(t)
    BY <1>0, <1>2 DEF LockCall, LockWrite, TakeWrite, Park, Goto, Others
  <2> QED BY <1>0, <2>1, HiddenStep DEF Simulates, Kind, Active, Jsoning
<1>3. CASE Refuse(t)
  <2>1. /\ pc[t] = "body" /\ pc'[t] = "ret" /\ UNCHANGED store
        /\ req' = req /\ Others(t)
        /\ res' = [res EXCEPT ![t] = No]
    BY <1>0, <1>3 DEF Refuse, Goto, Yields, Others
  <2>2. Answer(t, No)
    BY <1>0, <1>3, <2>1 DEF Refuse, Answer, Operation, Jsoning, Accepts, AddOps, DeleteOps, Op
  <2>3. No # Pending
    BY NotPending
  <2> QED BY <1>0, <2>1, <2>2, <2>3, AnswerStep DEF Simulates, Active, Jsoning
<1>4. CASE Change(t)
  BY <1>0, <1>4, ChangeStep DEF Simulates
<1>24. CASE Truncate(t)
  BY <1>0, <1>24, TruncateStep DEF Simulates
<1>5. CASE Save(t)
  BY <1>0, <1>5, SaveStep DEF Simulates
<1>6. CASE PostAdded(t)
  <2>1. /\ pc[t] = "ret" /\ pc'[t] = "idle" /\ UNCHANGED store
        /\ req' = req /\ res' = res /\ Others(t)
    BY <1>0, <1>6 DEF PostAdded, Goto, Others
  <2> QED BY <1>0, <2>1, HiddenStep DEF Simulates, Kind, Active, Jsoning
<1>7. CASE PostRefused(t)
  <2>1. /\ pc[t] = "ret" /\ pc'[t] = "idle" /\ UNCHANGED store
        /\ req' = req /\ res' = res /\ Others(t)
    BY <1>0, <1>7 DEF PostRefused, Goto, Others
  <2> QED BY <1>0, <2>1, HiddenStep DEF Simulates, Kind, Active, Jsoning
<1>8. CASE PutUpdated(t)
  <2>1. /\ pc[t] = "ret" /\ pc'[t] = "idle" /\ UNCHANGED store
        /\ req' = req /\ res' = res /\ Others(t)
    BY <1>0, <1>8 DEF PutUpdated, Goto, Others
  <2> QED BY <1>0, <2>1, HiddenStep DEF Simulates, Kind, Active, Jsoning
<1>9. CASE PutCreates(t)
  <2>1. /\ pc[t] = "ret" /\ pc'[t] = "callW" /\ UNCHANGED store
        /\ req'[t].id = req[t].id /\ req'[t].addr = req[t].addr /\ Others(t)
        /\ res' = [res EXCEPT ![t] = Pending]
    BY <1>0, <1>9 DEF PutCreates, Goto, Yields, Others
  <2> QED BY <1>0, <2>1, AskStep DEF Simulates, AskingAt, Active, Jsoning
<1>10. CASE PutAdded(t)
  <2>1. /\ pc[t] = "ret" /\ pc'[t] = "idle" /\ UNCHANGED store
        /\ req' = req /\ res' = res /\ Others(t)
    BY <1>0, <1>10 DEF PutAdded, Goto, Others
  <2> QED BY <1>0, <2>1, HiddenStep DEF Simulates, Kind, Active, Jsoning
<1>11. CASE DeleteAnswered(t)
  <2>1. /\ pc[t] = "ret" /\ pc'[t] = "idle" /\ UNCHANGED store
        /\ req' = req /\ res' = res /\ Others(t)
    BY <1>0, <1>11 DEF DeleteAnswered, Goto, Others
  <2> QED BY <1>0, <2>1, HiddenStep DEF Simulates, Kind, Active, Jsoning
<1>12. CASE Notify(t)
  <2>1. /\ pc[t] = "ret" /\ pc'[t] = "agentR" /\ UNCHANGED store
        /\ req' = req /\ res' = res /\ Others(t)
    BY <1>0, <1>12 DEF Notify, Goto, Others
  <2> QED BY <1>0, <2>1, HiddenStep DEF Simulates, Kind, Active, Jsoning
<1>13. CASE LockAgent(t)
  <2>1. /\ pc[t] = "agentR" /\ pc'[t] \in {"agentR", "agent"} /\ UNCHANGED store
        /\ req' = req /\ res' = res /\ Others(t)
    BY <1>0, <1>13 DEF LockAgent, LockRead, TakeRead, Park, Goto, Others
  <2> QED BY <1>0, <2>1, HiddenStep DEF Simulates, Kind, Active, Jsoning
<1>14. CASE LaunchAgent(t)
  <2>1. /\ pc[t] = "agent" /\ pc'[t] = "idle" /\ UNCHANGED store
        /\ req' = req /\ res' = res /\ Others(t)
    BY <1>0, <1>14 DEF LaunchAgent, Goto, Others
  <2> QED BY <1>0, <2>1, HiddenStep DEF Simulates, Kind, Active, Jsoning
<1>15. CASE LockJson(t)
  <2>1. /\ pc[t] = "jsonR" /\ pc'[t] \in {"jsonR", "jsonCheck"} /\ UNCHANGED store
        /\ req' = req /\ res' = res /\ Others(t)
    BY <1>0, <1>15 DEF LockJson, LockRead, TakeRead, Park, Goto, Others
  <2> QED BY <1>0, <2>1, HiddenStep DEF Simulates, Kind, Active, Jsoning
<1>16. CASE JsonNotFound(t)
  <2>1. /\ pc[t] = "jsonCheck" /\ pc'[t] \in {"idle", "dead"} /\ UNCHANGED store
        /\ req' = req /\ Others(t)
        /\ res' = [res EXCEPT ![t] = No]
    BY <1>0, <1>16 DEF JsonNotFound, Goto, Yields, Others
  <2>2. Answer(t, No)
    BY <1>0, <1>16, <2>1 DEF JsonNotFound, Answer, Operation, Jsoning, Accepts
  <2>3. No # Pending
    BY NotPending
  <2> QED BY <1>0, <2>1, <2>2, <2>3, AnswerStep DEF Simulates, Active, Jsoning
<1>17. CASE JsonNext(t)
  <2>1. /\ pc[t] = "jsonCheck" /\ pc'[t] = "jsonPrev" /\ UNCHANGED store
        /\ req' = req /\ res' = res /\ Others(t)
    BY <1>0, <1>17 DEF JsonNext, Goto, Others
  <2> QED BY <1>0, <2>1, HiddenStep DEF Simulates, Kind, Active, Jsoning
<1>18. CASE JsonPrev(t)
  <2> DEFINE r == Result("config", out[t], GetPrevNode(Registered, req[t].id))
  <2>1. /\ pc[t] = "jsonPrev" /\ pc'[t] \in {"idle", "offer"} /\ UNCHANGED store
        /\ req' = req /\ Others(t)
        /\ res' = [res EXCEPT ![t] = r]
    BY <1>0, <1>18 DEF JsonPrev, Goto, Yields, Others
  <2>2. req[t].id \in Registered /\ out[t] = GetNextNode(Registered, req[t].id)
    BY <1>0, <2>1 DEF FreshIn
  <2>3. Answer(t, r)
    BY <2>1, <2>2 DEF Answer, Operation, Jsoning
  <2>4. r # Pending
    BY NotPending
  <2> HIDE DEF r
  <2> QED BY <1>0, <2>1, <2>3, <2>4, AnswerStep DEF Simulates, Active, Jsoning
<1>19. CASE LockFile(t)
  <2>1. /\ pc[t] = "fileR" /\ pc'[t] \in {"fileR", "file"} /\ UNCHANGED store
        /\ req' = req /\ res' = res /\ Others(t)
    BY <1>0, <1>19 DEF LockFile, LockRead, TakeRead, Park, Goto, Others
  <2> QED BY <1>0, <2>1, HiddenStep DEF Simulates, Kind, Active, Jsoning
<1>20. CASE AnswerOwner(t)
  <2> DEFINE r == Result("owner", GetPrevNode(Registered, req[t].id), 0)
  <2>1. /\ pc[t] = "file" /\ pc'[t] = "idle" /\ UNCHANGED store
        /\ req' = req /\ Others(t)
        /\ res' = [res EXCEPT ![t] = r]
    BY <1>0, <1>20 DEF AnswerOwner, Goto, Yields, Others
  <2>2. Answer(t, r)
    BY <2>1 DEF Answer, Operation, Jsoning
  <2>3. r # Pending
    BY NotPending
  <2> HIDE DEF r
  <2> QED BY <1>0, <2>1, <2>2, <2>3, AnswerStep DEF Simulates, Active, Jsoning
<1>21. CASE LockScan(t)
  <2>1. /\ pc[t] = "scanR" /\ pc'[t] \in {"scanR", "scanSize"} /\ UNCHANGED store
        /\ req' = req /\ res' = res /\ Others(t)
    BY <1>0, <1>21 DEF LockScan, LockRead, TakeRead, Park, Goto, Others
  <2> QED BY <1>0, <2>1, HiddenStep DEF Simulates, Kind, Active, Jsoning
<1>22. CASE ScanSize(t)
  <2>1. /\ pc[t] = "scanSize" /\ pc'[t] = "scanMap" /\ UNCHANGED store
        /\ req' = req /\ res' = res /\ Others(t)
    BY <1>0, <1>22 DEF ScanSize, Goto, Others
  <2> QED BY <1>0, <2>1, HiddenStep DEF Simulates, Kind, Active, Jsoning
<1>23. CASE ScanMap(t)
  <2> DEFINE r == Result("status", out[t], Cardinality(Registered))
  <2>1. /\ pc[t] = "scanMap" /\ pc'[t] = "idle" /\ UNCHANGED store
        /\ req' = req /\ Others(t)
        /\ res' = [res EXCEPT ![t] = r]
    BY <1>0, <1>23 DEF ScanMap, Goto, Yields, Others
  <2>2. out[t] = Cardinality(Registered)
    BY <1>0, <2>1 DEF FreshIn
  <2>3. Answer(t, r)
    BY <2>1, <2>2 DEF Answer, Operation, Jsoning
  <2>4. r # Pending
    BY NotPending
  <2> HIDE DEF r
  <2> QED BY <1>0, <2>1, <2>3, <2>4, AnswerStep DEF Simulates, Active, Jsoning
<1> QED BY <1>1, <1>2, <1>3, <1>4, <1>5, <1>6, <1>7, <1>8, <1>9, <1>10, <1>11, <1>12, <1>13, <1>14, <1>15, <1>16, <1>17, <1>18, <1>19, <1>20, <1>21, <1>22, <1>23, <1>24 DEF HandlerStep

LEMMA DiscoverySimulates ==
    ASSUME LockInv, Fresh, Asking, DiscoveryStep
    PROVE  Simulates(Disc)
<1> USE TypeFacts DEF LockInv
<1>0. /\ Disc \in Thread /\ AskingAt(Disc)
      /\ req[Disc].id \in Int /\ req[Disc].op \in Op /\ req[Disc].addr \in Addr
  BY DEF Asking, Request, Thread
<1>1. CASE Deny
  <2>1. /\ pc[Disc] = "ret" /\ pc'[Disc] = "idle" /\ UNCHANGED store
        /\ req' = req /\ res' = res /\ Others(Disc)
    BY <1>0, <1>1 DEF Deny, Goto, Others
  <2> QED BY <1>0, <2>1, HiddenStep DEF Simulates, Kind, Active, Jsoning
<1>2. CASE Added
  <2>1. /\ pc[Disc] = "ret" /\ pc'[Disc] = "offerR" /\ UNCHANGED store
        /\ req' = req /\ Others(Disc) /\ res' = [res EXCEPT ![Disc] = Pending]
    BY <1>0, <1>2 DEF Added, Goto, Yields, Others
  <2> QED BY <1>0, <2>1, AskStep DEF Simulates, AskingAt, Active, Jsoning
<1>3. CASE LockOffer
  <2>1. /\ pc[Disc] = "offerR" /\ pc'[Disc] \in {"offerR", "jsonR"} /\ UNCHANGED store
        /\ req' = req /\ res' = res /\ Others(Disc)
    BY <1>0, <1>3 DEF LockOffer, LockRead, TakeRead, Park, Goto, Others
  <2> QED BY <1>0, <2>1, HiddenStep DEF Simulates, Kind, Active, Jsoning
<1>4. CASE SendOffer
  <2>1. /\ pc[Disc] = "offer" /\ pc'[Disc] = "postR" /\ UNCHANGED store
        /\ req' = req /\ res' = res /\ Others(Disc)
    BY <1>0, <1>4 DEF SendOffer, Goto, Others
  <2> QED BY <1>0, <2>1, HiddenStep DEF Simulates, Kind, Active, Jsoning
<1>5. CASE PostFiles
  <2>1. /\ pc[Disc] = "postR" /\ pc'[Disc] \in {"postR", "post"} /\ UNCHANGED store
        /\ req' = req /\ res' = res /\ Others(Disc)
    BY <1>0, <1>5 DEF PostFiles, LockRead, TakeRead, Park, Goto, Others
  <2> QED BY <1>0, <2>1, HiddenStep DEF Simulates, Kind, Active, Jsoning
<1>6. CASE FilesPosted
  <2>1. /\ pc[Disc] = "post" /\ pc'[Disc] = "idle" /\ UNCHANGED store
        /\ req' = req /\ res' = res /\ Others(Disc)
    BY <1>0, <1>6 DEF FilesPosted, Goto, Others
  <2> QED BY <1>0, <2>1, HiddenStep DEF Simulates, Kind, Active, Jsoning
<1>7. CASE PostFails
  <2>1. /\ pc[Disc] = "post" /\ pc'[Disc] = "prevR" /\ UNCHANGED store
        /\ req' = req /\ res' = res /\ Others(Disc)
    BY <1>0, <1>7 DEF PostFails, Goto, Others
  <2> QED BY <1>0, <2>1, HiddenStep DEF Simulates, Kind, Active, Jsoning
<1>8. CASE LockPrev
  <2>1. /\ pc[Disc] = "prevR" /\ pc'[Disc] \in {"prevR", "prev"} /\ UNCHANGED store
        /\ req' = req /\ res' = res /\ Others(Disc)
    BY <1>0, <1>8 DEF LockPrev, LockRead, TakeRead, Park, Goto, Others
  <2> QED BY <1>0, <2>1, HiddenStep DEF Simulates, Kind, Active, Jsoning
<1>9. CASE FailPrev
  <2>1. /\ pc[Disc] = "prev" /\ pc'[Disc] = "outerW" /\ UNCHANGED store
        /\ req'[Disc].id = GetPrevNode(Registered, req[Disc].id)
        /\ req'[Disc].addr = req[Disc].addr
        /\ Others(Disc) /\ res' = [res EXCEPT ![Disc] = Pending]
    BY <1>0, <1>9 DEF FailPrev, Goto, Entry, Yields, Others
  <2>2. req'[Disc].id \in Asked
    BY <2>1, PrevIsAsked
  <2> QED BY <1>0, <2>1, <2>2, AskStep DEF Simulates, Active, Jsoning
<1> QED BY <1>1, <1>2, <1>3, <1>4, <1>5, <1>6, <1>7, <1>8, <1>9 DEF DiscoveryStep

LEMMA BeginSimulates ==
    ASSUME LockInv, Asking, NEW t \in Thread, NEW r, Begin(t, r),
           r.op \in {"post", "put", "delete", "fail", "get", "file", "lookup", "scan", "discover"},
           r.id \in Asked, r.addr \in Addr
    PROVE  Simulates(t)
<1> USE TypeFacts DEF LockInv
<1>1. /\ pc[t] = "idle" /\ pc'[t] = Entry(r.op) /\ UNCHANGED store
      /\ req'[t] = r /\ Others(t) /\ res' = [res EXCEPT ![t] = Pending]
  BY DEF Begin, Goto, Yields, Others
<1>2. Entry(r.op) \in Active
  BY DEF Entry, Active, Jsoning
<1>3. AskingAt(t)
  BY DEF Asking
<1> QED BY <1>1, <1>2, <1>3, AskStep DEF Simulates, Active, Jsoning

LEMMA RestartSimulates ==
    ASSUME LockInv, DiskFollowsMap, Restart
    PROVE  Dir!Crash /\ Asking'
<1>1. /\ pc' = [t \in Thread |-> "idle"] /\ res' = [t \in Thread |-> NoResult]
      /\ map' = IF torn THEN [i \in NodeId |-> NoAddr] ELSE disk
      /\ disk' = map'
  BY DEF Restart, Every
<1>2. {u \in Thread : pc'[u] = "save"} = {}
  BY <1>1
<1>3. [u \in Thread |-> UnderWay(u)'] = [u \in Thread |-> Dir!None]
  BY <1>1, NotPending DEF UnderWay, Dir!None
<1>4. ASSUME {u \in Thread : pc[u] = "save"} = {} PROVE map' = map
  BY <1>1, <1>4 DEF DiskFollowsMap
<1>5. Dir!Crash
  BY <1>1, <1>2, <1>3, <1>4, SameResults DEF Dir!Crash
<1>6. Asking'
  BY <1>1, NotPending DEF Asking, AskingAt, Active, Jsoning
<1> QED BY <1>5, <1>6

-------------------------------------------------------------------------------
(***************************************************************************)
(* All steps together.                                                     *)
(***************************************************************************)
LEMMA SimulatesAsking ==
    ASSUME NEW t \in Thread, Asking, Simulates(t)
    PROVE  Asking' /\ [Dir!Next]_(Dir!vars)
<1>1. Asking'
  BY DEF Simulates, Asking, AskingAt, Others
<1>2. [Dir!Next]_(Dir!vars)
  BY DEF Simulates, Dir!Next
<1> QED BY <1>1, <1>2 DEF Simulates

LEMMA NextSimulates ==
    LockInv /\ Fresh /\ DiskFollowsMap /\ Asking /\ [Next]_vars
        => Asking' /\ [Dir!Next]_(Dir!vars)
<1> SUFFICES ASSUME LockInv, Fresh, DiskFollowsMap, Asking, [Next]_vars
             PROVE  Asking' /\ [Dir!Next]_(Dir!vars)
  OBVIOUS
<1>0. Disc \in Thread /\ \A w \in Worker : w \in Thread
  BY DEF Thread
<1>1. ASSUME NEW t \in Thread, HandlerStep(t)
      PROVE  Asking' /\ [Dir!Next]_(Dir!vars)
  BY <1>1, HandlerSimulates, SimulatesAsking
<1>2. CASE DiscoveryStep
  BY <1>0, <1>2, DiscoverySimulates, SimulatesAsking
<1>3. CASE ReceiveDiscovery
  <2>1. PICK r \in Arrivals : Begin(Disc, r)
    BY <1>3 DEF ReceiveDiscovery
  <2>2. r.op = "discover" /\ r.id \in Asked /\ r.addr \in Addr
    BY NameServerAssumption DEF Asked
  <2>3. Simulates(Disc)
    BY <1>0, <2>1, <2>2, BeginSimulates
  <2> QED BY <1>0, <2>3, SimulatesAsking
<1>4. ASSUME NEW w \in Worker, Receive(w)
      PROVE  Asking' /\ [Dir!Next]_(Dir!vars)
  <2>1. PICK r \in Requests : Begin(w, r)
    BY <1>4 DEF Receive
  <2>2. /\ r.op \in {"post", "put", "delete", "fail", "get", "file", "scan"}
        /\ r.id \in Asked /\ r.addr \in Addr
    BY NameServerAssumption DEF Asked
  <2>3. Simulates(w)
    BY <1>0, <2>1, <2>2, BeginSimulates
  <2> QED BY <1>0, <2>3, SimulatesAsking
<1>5. ASSUME NEW w \in Worker, RemoteAsks(w)
      PROVE  Asking' /\ [Dir!Next]_(Dir!vars)
  <2>1. PICK i \in NodeId, a \in Addr : Begin(w, [op |-> "lookup", id |-> i, addr |-> a])
    BY <1>5 DEF RemoteAsks
  <2> DEFINE r == [op |-> "lookup", id |-> i, addr |-> a]
  <2>2. r.op = "lookup" /\ r.id \in Asked /\ r.addr \in Addr
    BY DEF Asked
  <2>3. Begin(w, r)
    BY <2>1
  <2> HIDE DEF r
  <2>4. Simulates(w)
    BY <1>0, <2>2, <2>3, BeginSimulates
  <2> QED BY <1>0, <2>4, SimulatesAsking
<1>6. CASE Restart
  BY <1>6, RestartSimulates DEF Dir!Next
<1>7. CASE RemoteDone \/ UNCHANGED vars
  <2>1. UNCHANGED <<map, disk, pc, req, res>>
    BY <1>7 DEF RemoteDone, vars, store
  <2>2. \A u \in Thread : UnderWay(u)' = UnderWay(u)
    BY <2>1 DEF UnderWay, Operation
  <2>3. UNCHANGED Dir!vars
    BY <2>1, <2>2 DEF Dir!vars
  <2> QED BY <2>1, <2>3 DEF Asking, AskingAt
<1> QED BY <1>1, <1>2, <1>3, <1>4, <1>5, <1>6, <1>7 DEF Next

LEMMA InitSimulates == Init => Dir!Init /\ Asking
<1> SUFFICES ASSUME Init PROVE Dir!Init /\ Asking
  OBVIOUS
<1>1. /\ pc = [t \in Thread |-> "idle"] /\ res = [t \in Thread |-> NoResult]
      /\ map \in Map /\ disk = map
  BY NameServerAssumption DEF Init, Every
<1>2. {u \in Thread : pc[u] = "save"} = {}
  BY <1>1
<1>3. [u \in Thread |-> UnderWay(u)] = [u \in Thread |-> Dir!None]
  BY <1>1, NotPending DEF UnderWay, Dir!None
<1>4. Dir!Init
  BY <1>1, <1>2, <1>3, SameResults DEF Dir!Init, Map
<1>5. Asking
  BY <1>1, NotPending DEF Asking, AskingAt, Active, Jsoning
<1> QED BY <1>4, <1>5

(***************************************************************************)
(* The name server is a directory whose operations take effect at one      *)
(* instant each, between their request and their answer; a crash forgets   *)
(* no change that has been answered, unless another was being written.      *)
(***************************************************************************)
THEOREM IsADirectory == Spec => ImplementsDirectory
<1>1. LockInv /\ Fresh /\ DiskFollowsMap /\ Asking /\ [Next]_vars
          => Asking' /\ [Dir!Next]_(Dir!vars)
  BY NextSimulates
<1>2. LockInv /\ DiskFollowsMap /\ [Next]_vars => DiskFollowsMap'
  BY NextDisk DEF LockInv
<1>3. Init => DiskFollowsMap
  BY DEF Init, DiskFollowsMap
<1> QED BY <1>1, <1>2, <1>3, InitSimulates, InitLockInv, NextLockInv, InitFresh, NextFresh, PTL
        DEF Spec, ImplementsDirectory, Dir!Spec
================================================================================
