---------------------------- MODULE SyncAgentProofs -----------------------------
(***************************************************************************)
(* File locks, for any number of agents and files: when nobody starts,     *)
(* locks or unlocks before the system is settled and no packet is lost, a  *)
(* lock has one holder and every agent comes to know it, although packets, *)
(* polls, new agents and deletions interleave, and although a list that    *)
(* was fetched before an unlock brings the lock back into agents' tables.  *)
(*                                                                         *)
(* The invariant is about each file that has not been deleted.  It says    *)
(* nothing of entries that name somebody who holds nothing; its parts say  *)
(* what makes up for an agent that does not know a holder: a lock packet   *)
(* on its way to it, and for a new agent, whose table is still empty, the  *)
(* answer it polled.                                                       *)
(***************************************************************************)
EXTENDS SyncAgent, RingOrderProofs

\* One call at a time and no loss; polls may overlap everything.
Serial == {"start", "lock", "unlock"} \subseteq Calm /\ Losable = {}

\* Node k is going to hear that f is locked, or unlocked.
Has(packets, f, action) ==
    \E j \in DOMAIN packets : packets[j].file = f /\ packets[j].action = action

Hears(k, f, action) == \E m \in Node : Has(chan[<<m, k>>], f, action)

Spreading(f) == \E k \in Node : Hears(k, f, "lock") \/ Hears(k, f, "unlock")

-------------------------------------------------------------------------------
(***************************************************************************)
(* Only nodes in the ring do or receive anything; packets carry their      *)
(* sender's name.                                                          *)
(***************************************************************************)
Places ==
    /\ \A n \in Node :
          /\ poll[n].at = "idle" => poll[n] = NoPoll
          /\ poll[n].at # "idle" => n \in up /\ poll[n].from \in up
          /\ n \notin up => call[n] = NoCall /\ deleting[n] = NoFile /\ owner[n] = Free
    /\ \A m, n \in Node :
          /\ n \notin up => chan[<<m, n>>] = << >>
          /\ \A j \in DOMAIN chan[<<m, n>>] : chan[<<m, n>>][j].name = m
    /\ \A d \in deletes : d.to \in up

TypeInv == TypeOK /\ Places

\* There is one call at a time, after everything about the last one has settled.
CallsAlone ==
    /\ \A m, n \in Node : call[m] # NoCall /\ call[n] # NoCall => m = n
    /\ \A n \in Node : call[n] # NoCall => /\ up = synced
                                           /\ \A f \in File \ removed : ~ Spreading(f)
    /\ \A n \in Node : call[n].op = "unlock" => call[n].file \in held[n]

\* A new agent is alone in not knowing the locks, and learns them from one that does.
NewcomerLearns ==
    /\ \A n \in Node : held[n] # {} => n \in synced
    /\ \A u \in up \ synced :
          /\ up \ {u} \subseteq synced
          /\ \A f \in File \ removed : ~ Spreading(f) /\ owner[u][f] = NoNode
          /\ poll[u].at # "idle" => \/ poll[u].from \in synced
                                    \/ \A n \in Node : held[n] = {}
          /\ poll[u].at = "answer" =>
                \A m \in Node : \A f \in File \ removed : f \in held[m] => poll[u].owner[f] = m

(***************************************************************************)
(* Of each file that has not been deleted.                                 *)
(***************************************************************************)
\* Packets tell the present state of the lock.
PacketsTrue(f) ==
    /\ \A m, k \in Node : Has(chan[<<m, k>>], f, "lock") => f \in held[m]
    /\ \A k \in Node : Hears(k, f, "unlock") => \A n \in Node : f \notin held[n]

OneHolder(f) == \A m, n \in Node : f \in held[m] /\ f \in held[n] => m = n

\* An agent's table names every holder, unless the agent is going to hear of the lock.
HoldersKnown(f) == \A k \in synced, m \in Node :
    f \in held[m] => owner[k][f] = m \/ Hears(k, f, "lock")

FileInv(f) == PacketsTrue(f) /\ OneHolder(f) /\ HoldersKnown(f)

LocksInv == CallsAlone /\ NewcomerLearns /\ \A f \in File \ removed : FileInv(f)

-------------------------------------------------------------------------------
(***************************************************************************)
(* Packets.                                                                *)
(***************************************************************************)
LEMMA HasNothing == \A f, a : ~ Has(<< >>, f, a)
<1>1. DOMAIN << >> = {}
  OBVIOUS
<1> QED BY <1>1 DEF Has

LEMMA HasTail ==
    ASSUME NEW s \in Seq(Packet), s # << >>, NEW f, NEW action
    PROVE  /\ Head(s) \in Packet /\ Tail(s) \in Seq(Packet)
           /\ Has(s, Head(s).file, Head(s).action)
           /\ Has(Tail(s), f, action) => Has(s, f, action)
           /\ Has(s, f, action) => \/ Has(Tail(s), f, action)
                                   \/ Head(s).file = f /\ Head(s).action = action
           /\ \A j \in DOMAIN Tail(s) : \E i \in DOMAIN s : Tail(s)[j] = s[i]
<1>1. /\ Len(s) \in Nat \ {0} /\ DOMAIN s = 1 .. Len(s) /\ Head(s) = s[1]
      /\ Tail(s) \in Seq(Packet) /\ DOMAIN Tail(s) = 1 .. Len(s) - 1
      /\ \A j \in 1 .. Len(s) - 1 : Tail(s)[j] = s[j + 1]
      /\ \A j \in DOMAIN s : s[j] \in Packet
  OBVIOUS
<1>2. \A j \in DOMAIN Tail(s) : \E i \in DOMAIN s : Tail(s)[j] = s[i]
  <2> TAKE j \in DOMAIN Tail(s)
  <2>1. j + 1 \in DOMAIN s /\ Tail(s)[j] = s[j + 1]
    BY <1>1
  <2> QED BY <2>1
<1>3. ASSUME Has(s, f, action), ~ (Head(s).file = f /\ Head(s).action = action)
      PROVE  Has(Tail(s), f, action)
  <2>1. PICK i \in DOMAIN s : s[i].file = f /\ s[i].action = action
    BY <1>3 DEF Has
  <2>2. i # 1
    BY <1>1, <1>3, <2>1
  <2>3. i - 1 \in DOMAIN Tail(s) /\ Tail(s)[i - 1] = s[i]
    BY <1>1, <2>1, <2>2
  <2> QED BY <2>1, <2>3 DEF Has
<1>4. Has(Tail(s), f, action) => Has(s, f, action)
  BY <1>2 DEF Has
<1>5. Has(s, Head(s).file, Head(s).action) /\ Head(s) \in Packet
  <2>1. 1 \in DOMAIN s
    BY <1>1
  <2> QED BY <1>1, <2>1 DEF Has
<1> QED BY <1>1, <1>2, <1>3, <1>4, <1>5

LEMMA HasAppend ==
    ASSUME NEW s \in Seq(Packet), NEW p \in Packet, NEW f, NEW action
    PROVE  /\ Append(s, p) \in Seq(Packet)
           /\ Has(Append(s, p), f, action) <=> \/ Has(s, f, action)
                                               \/ p.file = f /\ p.action = action
           /\ \A j \in DOMAIN Append(s, p) : Append(s, p)[j] = p \/ \E i \in DOMAIN s : Append(s, p)[j] = s[i]
<1> DEFINE t == Append(s, p)
<1>1. /\ Len(s) \in Nat /\ DOMAIN s = 1 .. Len(s)
      /\ t \in Seq(Packet) /\ DOMAIN t = 1 .. Len(s) + 1 /\ t[Len(s) + 1] = p
      /\ \A j \in 1 .. Len(s) : t[j] = s[j]
  OBVIOUS
<1>2. \A j \in DOMAIN t : j = Len(s) + 1 \/ j \in DOMAIN s
  BY <1>1
<1>3. Len(s) + 1 \in DOMAIN t /\ DOMAIN s \subseteq DOMAIN t
  BY <1>1
<1> HIDE DEF t
<1>4. Has(t, f, action) <=> Has(s, f, action) \/ (p.file = f /\ p.action = action)
  BY <1>1, <1>2, <1>3 DEF Has
<1>5. \A j \in DOMAIN t : t[j] = p \/ \E i \in DOMAIN s : t[j] = s[i]
  BY <1>1, <1>2
<1> QED BY <1>1, <1>4, <1>5 DEF t

LEMMA MulticastEffect ==
    ASSUME TypeOK, NEW n \in Node, NEW a \in {"lock", "unlock"}, NEW g \in File, Multicast(n, a, g)
    PROVE  /\ chan' \in [Node \X Node -> Seq(Packet)]
           /\ \A m, k \in Node : \A f, b :
                 Has(chan'[<<m, k>>], f, b) <=>
                     Has(chan[<<m, k>>], f, b) \/ (m = n /\ k \in up /\ f = g /\ b = a)
           /\ \A m, k \in Node :
                 /\ k \notin up => chan'[<<m, k>>] = chan[<<m, k>>]
                 /\ \A j \in DOMAIN chan'[<<m, k>>] :
                       \/ m = n /\ chan'[<<m, k>>][j].name = n
                       \/ \E i \in DOMAIN chan[<<m, k>>] : chan'[<<m, k>>][j] = chan[<<m, k>>][i]
<1> DEFINE p == [action |-> a, file |-> g, name |-> n]
<1>1. p \in Packet /\ p.file = g /\ p.action = a /\ p.name = n
  BY DEF Packet
<1>2. chan \in [Node \X Node -> Seq(Packet)]
  BY DEF TypeOK
<1>3. chan' = [c \in Node \X Node |-> IF c[1] = n /\ c[2] \in up THEN Append(chan[c], p) ELSE chan[c]]
  BY DEF Multicast
<1> HIDE DEF p
<1>4. \A c \in Node \X Node : chan[c] \in Seq(Packet) /\ Append(chan[c], p) \in Seq(Packet)
  BY <1>1, <1>2, HasAppend
<1>5. chan' \in [Node \X Node -> Seq(Packet)]
  BY <1>3, <1>4
<1>6. \A m, k \in Node : chan'[<<m, k>>] = IF m = n /\ k \in up THEN Append(chan[<<m, k>>], p)
                                           ELSE chan[<<m, k>>]
  BY <1>3
<1>7. ASSUME NEW m \in Node, NEW k \in Node
      PROVE  /\ \A f, b : Has(chan'[<<m, k>>], f, b) <=>
                    Has(chan[<<m, k>>], f, b) \/ (m = n /\ k \in up /\ f = g /\ b = a)
             /\ k \notin up => chan'[<<m, k>>] = chan[<<m, k>>]
             /\ \A j \in DOMAIN chan'[<<m, k>>] :
                   \/ m = n /\ chan'[<<m, k>>][j].name = n
                   \/ \E i \in DOMAIN chan[<<m, k>>] : chan'[<<m, k>>][j] = chan[<<m, k>>][i]
  <2>1. chan[<<m, k>>] \in Seq(Packet)
    BY <1>2
  <2>2. CASE m = n /\ k \in up
    <3>1. chan'[<<m, k>>] = Append(chan[<<m, k>>], p)
      BY <1>6, <2>2
    <3>2. \A f, b : Has(Append(chan[<<m, k>>], p), f, b) <=>
                       Has(chan[<<m, k>>], f, b) \/ (f = g /\ b = a)
      BY <1>1, <2>1, HasAppend
    <3>3. \A j \in DOMAIN Append(chan[<<m, k>>], p) :
             \/ Append(chan[<<m, k>>], p)[j] = p
             \/ \E i \in DOMAIN chan[<<m, k>>] : Append(chan[<<m, k>>], p)[j] = chan[<<m, k>>][i]
      BY <1>1, <2>1, HasAppend
    <3> QED BY <1>1, <2>2, <3>1, <3>2, <3>3
  <2>3. CASE ~ (m = n /\ k \in up)
    <3>1. chan'[<<m, k>>] = chan[<<m, k>>]
      BY <1>6, <2>3
    <3> QED BY <2>3, <3>1
  <2> QED BY <2>2, <2>3
<1> QED BY <1>5, <1>7

LEMMA ListenEffect ==
    ASSUME TypeInv, NEW m \in Node, NEW n \in Node, chan[<<m, n>>] # << >>,
           chan' = [chan EXCEPT ![<<m, n>>] = Tail(@)]
    PROVE  /\ n \in up /\ chan' \in [Node \X Node -> Seq(Packet)]
           /\ Head(chan[<<m, n>>]) \in Packet /\ Head(chan[<<m, n>>]).name = m
           /\ Has(chan[<<m, n>>], Head(chan[<<m, n>>]).file, Head(chan[<<m, n>>]).action)
           /\ \A i, k \in Node :
                 /\ k \notin up => chan'[<<i, k>>] = chan[<<i, k>>]
                 /\ \A j \in DOMAIN chan'[<<i, k>>] :
                       \E l \in DOMAIN chan[<<i, k>>] : chan'[<<i, k>>][j] = chan[<<i, k>>][l]
<1> DEFINE s == chan[<<m, n>>]
<1>1. chan \in [Node \X Node -> Seq(Packet)] /\ n \in up
  BY DEF TypeInv, TypeOK, Places
<1>2. s \in Seq(Packet) /\ s # << >>
  BY <1>1
<1>3. \A i, k \in Node : chan'[<<i, k>>] = IF i = m /\ k = n THEN Tail(s) ELSE chan[<<i, k>>]
  BY <1>1
<1>4. Head(s) \in Packet /\ Tail(s) \in Seq(Packet) /\ Has(s, Head(s).file, Head(s).action)
  BY <1>2, HasTail
<1>6. \A j \in DOMAIN Tail(s) : \E i \in DOMAIN s : Tail(s)[j] = s[i]
  BY <1>2, HasTail
<1>7. Head(s).name = m
  <2>1. 1 \in DOMAIN s /\ Head(s) = s[1]
    BY <1>2
  <2> QED BY <2>1 DEF TypeInv, Places
<1>8. chan' \in [Node \X Node -> Seq(Packet)]
  BY <1>1, <1>4
<1>9. s = chan[<<m, n>>]
  OBVIOUS
<1> HIDE DEF s
<1>10. ASSUME NEW i \in Node, NEW k \in Node
       PROVE  /\ k \notin up => chan'[<<i, k>>] = chan[<<i, k>>]
              /\ \A j \in DOMAIN chan'[<<i, k>>] :
                    \E l \in DOMAIN chan[<<i, k>>] : chan'[<<i, k>>][j] = chan[<<i, k>>][l]
  <2>1. CASE i = m /\ k = n
    <3>1. chan'[<<i, k>>] = Tail(s) /\ chan[<<i, k>>] = s
      BY <1>3, <1>9, <2>1
    <3> QED BY <1>1, <1>6, <2>1, <3>1
  <2>2. CASE ~ (i = m /\ k = n)
    <3>1. chan'[<<i, k>>] = chan[<<i, k>>]
      BY <1>3, <2>2
    <3> QED BY <3>1
  <2> QED BY <2>1, <2>2
<1> QED BY <1>1, <1>4, <1>7, <1>8, <1>10 DEF s

LEMMA ListenPackets ==
    ASSUME TypeOK, NEW m \in Node, NEW n \in Node, chan[<<m, n>>] # << >>,
           chan' = [chan EXCEPT ![<<m, n>>] = Tail(@)],
           NEW i \in Node, NEW k \in Node, NEW f, NEW a
    PROVE  /\ Has(chan'[<<i, k>>], f, a) => Has(chan[<<i, k>>], f, a)
           /\ Has(chan[<<i, k>>], f, a) =>
                  Has(chan'[<<i, k>>], f, a) \/ (k = n /\ Head(chan[<<m, n>>]).file = f)
<1>1. chan[<<m, n>>] \in Seq(Packet) /\ <<m, n>> \in Node \X Node
      /\ chan \in [Node \X Node -> Seq(Packet)]
  BY DEF TypeOK
<1>2. CASE i = m /\ k = n
  <2>1. chan'[<<i, k>>] = Tail(chan[<<m, n>>])
    BY <1>1, <1>2
  <2> QED BY <1>1, <1>2, <2>1, HasTail
<1>3. CASE ~ (i = m /\ k = n)
  <2>1. chan'[<<i, k>>] = chan[<<i, k>>]
    BY <1>1, <1>3
  <2> QED BY <2>1
<1> QED BY <1>2, <1>3

-------------------------------------------------------------------------------
(***************************************************************************)
(* Types, and where things are.                                            *)
(***************************************************************************)
LEMMA Facts ==
    /\ Node \subseteq Nat /\ NoNode \notin Node
    /\ NoCall.op = "none" /\ NoPoll.at = "idle" /\ NoPoll.owner = Free /\ Free \in Table
    /\ \A f \in File : Free[f] = NoNode
    /\ NoPoll \in [at : {"idle", "files", "answer"}, from : Node \union {NoNode},
                   files : SUBSET File, owner : Table]
BY SyncAgentAssumption DEF NoCall, NoPoll, Free, Table

LEMMA NextIsUp ==
    ASSUME TypeOK, NEW n \in up
    PROVE  NextOf(n) \in up /\ (up # {n} => NextOf(n) # n)
<1>1. up \subseteq Nat /\ up # {} /\ n \in Nat
  BY Facts DEF TypeOK
<1>2. IsNext(up, n, NextOf(n))
  BY <1>1, GetNextNodeIsNext DEF NextOf
<1>3. ASSUME NextOf(n) = n, NEW k \in up, k # n PROVE FALSE
  BY <1>1, <1>2, <1>3 DEF IsNext, StrictlyBetween
<1> QED BY <1>2, <1>3 DEF IsNext

LEMMA InitTypes == Init => TypeInv
<1> SUFFICES ASSUME Init PROVE TypeInv
  OBVIOUS
<1>1. TypeOK
  BY Facts, SyncAgentAssumption DEF Init, TypeOK, Table
<1>2. Places
  BY Facts DEF Init, Places
<1> QED BY <1>1, <1>2 DEF TypeInv

LEMMA StartTypes ==
    ASSUME TypeInv, NEW n \in Node, Start(n)
    PROVE  TypeInv'
<1>1. /\ up' = up \union {n}
      /\ UNCHANGED <<owner, call, held, deleting, poll, chan, deletes, synced, removed, calls, losses>>
  BY DEF Start, users, wire, bounds
<1>2. PICK local \in Folders[n] :
          /\ files' = [files EXCEPT ![n] = local]
          /\ leak' = [leak EXCEPT ![n] = IF local = {} THEN "agent" ELSE "none"]
  BY DEF Start
<1>3. local \subseteq File
  BY <1>2, SyncAgentAssumption
<1>4. TypeOK'
  BY <1>1, <1>2, <1>3 DEF TypeInv, TypeOK
<1>5. Places'
  BY <1>1, Facts DEF TypeInv, TypeOK, Places
<1> QED BY <1>4, <1>5 DEF TypeInv

LEMMA PollTypes ==
    ASSUME TypeInv, NEW n \in Node, Poll(n)
    PROVE  TypeInv'
<1> USE Facts DEF TypeInv, tables, users, wire, bounds
<1>1. n \in up /\ NextOf(n) \in up /\ NextOf(n) \in Node
  BY NextIsUp DEF Poll, TypeOK
<1> DEFINE p == [NoPoll EXCEPT !.at = "files", !.from = NextOf(n), !.files = files[NextOf(n)]]
<1>2. /\ p.at = "files" /\ p.from = NextOf(n)
      /\ p \in [at : {"idle", "files", "answer"}, from : Node \union {NoNode},
                files : SUBSET File, owner : Table]
  BY <1>1 DEF TypeOK, NoPoll
<1>3. poll' = [poll EXCEPT ![n] = p]
  BY DEF Poll
<1> HIDE DEF p
<1>4. TypeOK'
  BY <1>2, <1>3 DEF TypeOK, Poll
<1>5. \A k \in Node : poll'[k] = IF k = n THEN p ELSE poll[k]
  BY <1>3 DEF TypeOK
<1>6. Places'
  BY <1>1, <1>2, <1>5 DEF Places, Poll
<1> QED BY <1>4, <1>6

LEMMA AnswerTypes ==
    ASSUME TypeInv, NEW n \in Node, Answer(n)
    PROVE  TypeInv'
<1> USE Facts DEF TypeInv, tables, users, wire, bounds
<1>0. UNCHANGED <<up, files, owner, leak, call, held, deleting, chan, deletes, synced, removed,
                  calls, losses>>
  BY DEF Answer
<1>1. n \in up /\ poll[n].from \in up /\ poll[n].from \in Node /\ owner[poll[n].from] \in Table
  BY DEF Answer, TypeOK, Places
<1> DEFINE p == [poll[n] EXCEPT !.at = "answer", !.owner = owner[poll[n].from]]
<1>2. /\ p.at = "answer" /\ p.from = poll[n].from
      /\ p \in [at : {"idle", "files", "answer"}, from : Node \union {NoNode},
                files : SUBSET File, owner : Table]
  BY <1>1 DEF TypeOK
<1>3. poll' = [poll EXCEPT ![n] = p]
  BY DEF Answer, TypeOK
<1> HIDE DEF p
<1>4. TypeOK'
  BY <1>0, <1>2, <1>3 DEF TypeOK
<1>5. \A k \in Node : poll'[k] = IF k = n THEN p ELSE poll[k]
  BY <1>3 DEF TypeOK
<1>6. Places'
  BY <1>0, <1>1, <1>2, <1>5 DEF Places
<1> QED BY <1>4, <1>6

LEMMA MergeTypes ==
    ASSUME TypeInv, NEW n \in Node, Merge(n)
    PROVE  TypeInv'
<1> USE Facts DEF TypeInv, users, wire, bounds
<1>1. n \in up
  BY DEF Merge, Places
<1>2. [f \in File |-> IF owner[n][f] = NoNode THEN poll[n].owner[f] ELSE owner[n][f]] \in Table
  BY DEF TypeOK, Table
<1>3. owner' \in [Node -> Table] /\ files' \in [Node -> SUBSET File]
  BY <1>2 DEF Merge, TypeOK
<1>4. TypeOK'
  BY <1>1, <1>3 DEF TypeOK, Merge
<1>5. \A k \in Node : k # n => owner'[k] = owner[k] /\ poll'[k] = poll[k]
  BY DEF Merge, TypeOK
<1>6. poll'[n] = NoPoll
  BY DEF Merge, TypeOK
<1>7. Places'
  BY <1>1, <1>5, <1>6 DEF Places, Merge
<1> QED BY <1>4, <1>7

LEMMA EnterTypes ==
    ASSUME TypeInv, NEW n \in Node, NEW op \in {"lock", "unlock"}, NEW f \in File, Enter(n, op, f)
    PROVE  TypeInv'
<1> USE Facts, SyncAgentAssumption DEF TypeInv, tables, wire, Enter, Call
<1>1. TypeOK'
  BY DEF TypeOK
<1>2. Places'
  BY DEF TypeOK, Places
<1> QED BY <1>1, <1>2

\* SetOwner and Multicast keep the types; the rest of a step is left to the caller.
LEMMA SetOwnerTypes ==
    ASSUME TypeOK, NEW n \in Node, NEW g \in File, NEW o \in Node \union {NoNode}, SetOwner(n, g, o)
    PROVE  /\ owner' \in [Node -> Table] /\ owner'[n][g] = o
           /\ \A k \in Node : \A f \in File : k # n \/ f # g => owner'[k][f] = owner[k][f]
           /\ \A k \in Node : k # n => owner'[k] = owner[k]
BY DEF TypeOK, Table, SetOwner

LEMMA MulticastPlaces ==
    ASSUME TypeInv, NEW n \in up, NEW a \in {"lock", "unlock"}, NEW g \in File, Multicast(n, a, g)
    PROVE  \A m, k \in Node :
               /\ k \notin up => chan'[<<m, k>>] = << >>
               /\ \A j \in DOMAIN chan'[<<m, k>>] : chan'[<<m, k>>][j].name = m
<1>1. n \in Node /\ TypeOK
  BY DEF TypeInv, TypeOK
<1>2. \A m, k \in Node :
          /\ k \notin up => chan'[<<m, k>>] = chan[<<m, k>>]
          /\ \A j \in DOMAIN chan'[<<m, k>>] :
                 \/ m = n /\ chan'[<<m, k>>][j].name = n
                 \/ \E i \in DOMAIN chan[<<m, k>>] : chan'[<<m, k>>][j] = chan[<<m, k>>][i]
  BY <1>1, MulticastEffect
<1>3. \A m, k \in Node :
          /\ k \notin up => chan[<<m, k>>] = << >>
          /\ \A i \in DOMAIN chan[<<m, k>>] : chan[<<m, k>>][i].name = m
  BY DEF TypeInv, Places
<1> TAKE m, k \in Node
<1>4. \A j \in DOMAIN chan'[<<m, k>>] : chan'[<<m, k>>][j].name = m
  BY <1>2, <1>3
<1> QED BY <1>2, <1>3, <1>4

LEMMA LockFileTypes ==
    ASSUME TypeInv, NEW n \in Node, LockFile(n)
    PROVE  TypeInv'
<1> USE Facts DEF TypeInv, bounds
<1>1. /\ call[n].op = "lock" /\ call[n] # NoCall /\ call[n].file \in File /\ n \in up
      /\ call' = [call EXCEPT ![n] = NoCall]
      /\ UNCHANGED <<up, files, leak, deleting, poll, deletes, synced, removed, calls, losses>>
  BY DEF LockFile, Return, TypeOK, Places
<1>2. CASE owner[n][call[n].file] # NoNode
  <2>1. UNCHANGED <<owner, chan, held>>
    BY <1>2 DEF LockFile
  <2>2. TypeOK'
    BY <1>1, <2>1 DEF TypeOK
  <2>3. Places'
    BY <1>1, <2>1 DEF TypeOK, Places
  <2> QED BY <2>2, <2>3
<1>3. CASE owner[n][call[n].file] = NoNode
  <2>1. /\ Multicast(n, "lock", call[n].file) /\ SetOwner(n, call[n].file, n)
        /\ held' = [held EXCEPT ![n] = @ \union {call[n].file}]
    BY <1>3 DEF LockFile
  <2>2. owner' \in [Node -> Table] /\ \A k \in Node : k # n => owner'[k] = owner[k]
    BY <1>1, <2>1, SetOwnerTypes
  <2>3. chan' \in [Node \X Node -> Seq(Packet)]
    BY <1>1, <2>1, MulticastEffect
  <2>4. TypeOK'
    BY <1>1, <2>1, <2>2, <2>3 DEF TypeOK
  <2>5. \A m, k \in Node : /\ k \notin up => chan'[<<m, k>>] = << >>
                           /\ \A j \in DOMAIN chan'[<<m, k>>] : chan'[<<m, k>>][j].name = m
    BY <1>1, <2>1, MulticastPlaces
  <2>6. \A k \in Node : k \notin up => call'[k] = NoCall /\ owner'[k] = Free
    BY <1>1, <2>2 DEF TypeOK, Places
  <2>7. Places'
    BY <1>1, <2>5, <2>6 DEF Places
  <2> QED BY <2>4, <2>7
<1> QED BY <1>2, <1>3

\* What Unlocks changes.
LEMMA UnlocksTypes ==
    ASSUME TypeInv, NEW n \in up, NEW g \in File, Unlocks(n, g)
    PROVE  /\ owner' \in [Node -> Table] /\ chan' \in [Node \X Node -> Seq(Packet)]
           /\ \A k \in Node : k \notin up => owner'[k] = Free
           /\ \A m, k \in Node : /\ k \notin up => chan'[<<m, k>>] = << >>
                                 /\ \A j \in DOMAIN chan'[<<m, k>>] : chan'[<<m, k>>][j].name = m
<1>1. n \in Node /\ TypeOK
  BY DEF TypeInv, TypeOK
<1>2. CASE owner[n][g] = NoNode
  BY <1>1, <1>2 DEF Unlocks, TypeInv, TypeOK, Places
<1>3. CASE owner[n][g] # NoNode
  <2>1. Multicast(n, "unlock", g) /\ SetOwner(n, g, NoNode)
    BY <1>3 DEF Unlocks
  <2>2. owner' \in [Node -> Table] /\ \A k \in Node : k # n => owner'[k] = owner[k]
    BY <1>1, <2>1, SetOwnerTypes
  <2>3. chan' \in [Node \X Node -> Seq(Packet)]
    BY <1>1, <2>1, MulticastEffect
  <2>4. \A m, k \in Node : /\ k \notin up => chan'[<<m, k>>] = << >>
                           /\ \A j \in DOMAIN chan'[<<m, k>>] : chan'[<<m, k>>][j].name = m
    BY <2>1, MulticastPlaces
  <2>5. \A k \in Node : k \notin up => owner'[k] = Free
    BY <2>2 DEF TypeInv, Places
  <2> QED BY <2>2, <2>3, <2>4, <2>5
<1> QED BY <1>2, <1>3

LEMMA UnlockFileTypes ==
    ASSUME TypeInv, NEW n \in Node, UnlockFile(n)
    PROVE  TypeInv'
<1> USE Facts DEF TypeInv, bounds
<1>1. /\ call[n].op = "unlock" /\ call[n] # NoCall /\ call[n].file \in File /\ n \in up
      /\ call' = [call EXCEPT ![n] = NoCall] /\ Unlocks(n, call[n].file)
      /\ held' = [held EXCEPT ![n] = @ \ {call[n].file}]
      /\ UNCHANGED <<up, files, leak, deleting, poll, deletes, synced, removed, calls, losses>>
  BY DEF UnlockFile, Return, TypeOK, Places
<1>2. /\ owner' \in [Node -> Table] /\ chan' \in [Node \X Node -> Seq(Packet)]
      /\ \A k \in Node : k \notin up => owner'[k] = Free
      /\ \A m, k \in Node : /\ k \notin up => chan'[<<m, k>>] = << >>
                            /\ \A j \in DOMAIN chan'[<<m, k>>] : chan'[<<m, k>>][j].name = m
  BY <1>1, UnlocksTypes
<1>3. TypeOK'
  BY <1>1, <1>2 DEF TypeOK
<1>4. \A k \in Node : k \notin up => call'[k] = NoCall
  BY <1>1 DEF TypeOK, Places
<1>5. Places'
  BY <1>1, <1>2, <1>4 DEF Places
<1> QED BY <1>3, <1>5

LEMMA ListenTypes ==
    ASSUME TypeInv, NEW m \in Node, NEW n \in Node, Listen(m, n)
    PROVE  TypeInv'
<1> USE Facts DEF TypeInv, users, bounds
<1> DEFINE p == Head(chan[<<m, n>>])
<1>1. /\ chan[<<m, n>>] # << >> /\ chan' = [chan EXCEPT ![<<m, n>>] = Tail(@)]
      /\ SetOwner(n, p.file, IF p.action = "lock" THEN p.name ELSE NoNode)
      /\ UNCHANGED <<up, files, leak, call, held, deleting, poll, deletes, synced, removed, calls, losses>>
  BY DEF Listen
<1>2. n \in up /\ chan' \in [Node \X Node -> Seq(Packet)] /\ p \in Packet
  BY <1>1, ListenEffect
<1>3. \A i, k \in Node :
          /\ k \notin up => chan'[<<i, k>>] = chan[<<i, k>>]
          /\ \A j \in DOMAIN chan'[<<i, k>>] :
                \E l \in DOMAIN chan[<<i, k>>] : chan'[<<i, k>>][j] = chan[<<i, k>>][l]
  BY <1>1, ListenEffect
<1> HIDE DEF p
<1>4. p.file \in File /\ (IF p.action = "lock" THEN p.name ELSE NoNode) \in Node \union {NoNode}
  BY <1>2 DEF Packet
<1>5. owner' \in [Node -> Table] /\ \A k \in Node : k # n => owner'[k] = owner[k]
  BY <1>1, <1>4, SetOwnerTypes
<1>6. TypeOK'
  BY <1>1, <1>2, <1>5 DEF TypeOK
<1>7. \A i, k \in Node : /\ k \notin up => chan'[<<i, k>>] = << >>
                         /\ \A j \in DOMAIN chan'[<<i, k>>] : chan'[<<i, k>>][j].name = i
  <2> TAKE i, k \in Node
  <2>1. k \notin up => chan'[<<i, k>>] = << >>
    BY <1>3 DEF Places
  <2>2. \A l \in DOMAIN chan[<<i, k>>] : chan[<<i, k>>][l].name = i
    BY DEF Places
  <2>3. ASSUME NEW j \in DOMAIN chan'[<<i, k>>] PROVE chan'[<<i, k>>][j].name = i
    <3>1. PICK l \in DOMAIN chan[<<i, k>>] : chan'[<<i, k>>][j] = chan[<<i, k>>][l]
      BY <1>3
    <3> QED BY <2>2, <3>1
  <2> QED BY <2>1, <2>3
<1>8. Places'
  <2>1. UNCHANGED <<up, call, deleting, poll, deletes>>
    BY <1>1
  <2>2. \A k \in Node : k \notin up => owner'[k] = Free
    BY <1>2, <1>5 DEF Places
  <2> QED BY <1>7, <2>1, <2>2 DEF Places
<1> QED BY <1>6, <1>8

LEMMA DeleteTypes ==
    ASSUME TypeInv, NEW n \in Node, DeleteLocalFile(n)
    PROVE  TypeInv'
<1> USE Facts DEF TypeInv, users, bounds
<1>1. /\ deleting[n] # NoFile /\ deleting[n] \in File /\ n \in up /\ Unlocks(n, deleting[n])
      /\ files' = [files EXCEPT ![n] = @ \ {deleting[n]}]
      /\ deletes' = deletes \union {[to |-> NextOf(n), file |-> deleting[n]]}
      /\ deleting' = [deleting EXCEPT ![n] = NoFile]
      /\ removed' = removed \union {deleting[n]}
      /\ UNCHANGED <<up, leak, call, held, poll, synced, calls, losses>>
  BY DEF DeleteLocalFile, TypeOK, Places
<1>2. /\ owner' \in [Node -> Table] /\ chan' \in [Node \X Node -> Seq(Packet)]
      /\ \A k \in Node : k \notin up => owner'[k] = Free
      /\ \A m, k \in Node : /\ k \notin up => chan'[<<m, k>>] = << >>
                            /\ \A j \in DOMAIN chan'[<<m, k>>] : chan'[<<m, k>>][j].name = m
  BY <1>1, UnlocksTypes
<1>3. NextOf(n) \in up /\ NextOf(n) \in Node
  BY <1>1, NextIsUp DEF TypeOK
<1>4. TypeOK'
  <2>1. deletes' \in SUBSET [to : Node, file : File]
    BY <1>1, <1>3 DEF TypeOK
  <2>2. files' \in [Node -> SUBSET File] /\ deleting' \in [Node -> File \union {NoFile}]
        /\ removed' \subseteq File
    BY <1>1 DEF TypeOK
  <2> QED BY <1>1, <1>2, <2>1, <2>2 DEF TypeOK
<1>5. \A k \in Node : k \notin up => deleting'[k] = NoFile
  BY <1>1 DEF TypeOK, Places
<1>6. Places'
  BY <1>1, <1>2, <1>3, <1>5 DEF Places
<1> QED BY <1>4, <1>6

LEMMA HandleDeleteTypes ==
    ASSUME TypeInv, NEW d \in deletes, HandleDelete(d)
    PROVE  TypeInv'
<1> USE Facts DEF TypeInv, users, bounds
<1>1. d \in [to : Node, file : File] /\ d.to \in up /\ NextOf(d.to) \in up
  BY NextIsUp DEF TypeOK, Places
<1>2. NextOf(d.to) \in Node
  BY <1>1 DEF TypeOK
<1> DEFINE e == [d EXCEPT !.to = NextOf(d.to)]
<1>3. e \in [to : Node, file : File] /\ e.to \in up
  BY <1>1, <1>2
<1>4. deletes' \subseteq deletes \union {e}
  BY DEF HandleDelete
<1> HIDE DEF e
<1>5. files' \in [Node -> SUBSET File]
  BY <1>1 DEF HandleDelete, TypeOK
<1>6. TypeOK'
  BY <1>3, <1>4, <1>5 DEF HandleDelete, TypeOK
<1>7. Places'
  BY <1>3, <1>4 DEF HandleDelete, Places
<1> QED BY <1>6, <1>7

LEMMA OtherTypes ==
    ASSUME TypeInv, NEW n \in Node, NEW f \in File, AddLocalFile(n, f) \/ CallDelete(n, f)
    PROVE  TypeInv'
<1> USE Facts, SyncAgentAssumption DEF TypeInv, users, wire, tables, Call
<1>1. CASE AddLocalFile(n, f)
  <2>1. TypeOK'
    BY <1>1 DEF AddLocalFile, TypeOK
  <2>2. Places'
    BY <1>1 DEF AddLocalFile, Places
  <2> QED BY <2>1, <2>2
<1>2. CASE CallDelete(n, f)
  <2>1. TypeOK'
    <3>1. deleting' \in [Node -> File \union {NoFile}]
      BY <1>2 DEF CallDelete, TypeOK
    <3>2. leak' \in [Node -> {"none", "agent", "manager"}]
      BY <1>2 DEF CallDelete, TypeOK
    <3>3. calls' \in 0 .. MaxCalls
      BY <1>2 DEF CallDelete, TypeOK
    <3>4. UNCHANGED <<up, files, owner, call, held, poll, chan, deletes, synced, removed, losses>>
      BY <1>2 DEF CallDelete
    <3> QED BY <3>1, <3>2, <3>3, <3>4 DEF TypeOK
  <2>2. Places'
    BY <1>2 DEF CallDelete, Places, TypeOK
  <2> QED BY <2>1, <2>2
<1> QED BY <1>1, <1>2

LEMMA LoseTypes ==
    ASSUME TypeInv, NEW m \in Node, NEW n \in Node, Lose(m, n)
    PROVE  TypeInv'
<1> USE Facts DEF TypeInv, users, tables
<1>1. /\ chan[<<m, n>>] # << >> /\ chan' = [chan EXCEPT ![<<m, n>>] = Tail(@)]
      /\ losses < MaxLosses /\ losses' = losses + 1
      /\ UNCHANGED <<up, files, owner, leak, call, held, deleting, poll, deletes, synced, removed, calls>>
  BY DEF Lose
<1>2. chan' \in [Node \X Node -> Seq(Packet)]
  BY <1>1, ListenEffect
<1>3. \A i, k \in Node :
          /\ k \notin up => chan'[<<i, k>>] = chan[<<i, k>>]
          /\ \A j \in DOMAIN chan'[<<i, k>>] :
                \E l \in DOMAIN chan[<<i, k>>] : chan'[<<i, k>>][j] = chan[<<i, k>>][l]
  BY <1>1, ListenEffect
<1>4. TypeOK'
  BY <1>1, <1>2, SyncAgentAssumption DEF TypeOK
<1>5. \A i, k \in Node : /\ k \notin up => chan'[<<i, k>>] = << >>
                         /\ \A j \in DOMAIN chan'[<<i, k>>] : chan'[<<i, k>>][j].name = i
  <2> TAKE i, k \in Node
  <2>1. k \notin up => chan'[<<i, k>>] = << >>
    BY <1>3 DEF Places
  <2>2. \A l \in DOMAIN chan[<<i, k>>] : chan[<<i, k>>][l].name = i
    BY DEF Places
  <2>3. ASSUME NEW j \in DOMAIN chan'[<<i, k>>] PROVE chan'[<<i, k>>][j].name = i
    <3>1. PICK l \in DOMAIN chan[<<i, k>>] : chan'[<<i, k>>][j] = chan[<<i, k>>][l]
      BY <1>3
    <3> QED BY <2>2, <3>1
  <2> QED BY <2>1, <2>3
<1>6. Places'
  <2>1. UNCHANGED <<up, owner, call, deleting, poll, deletes>>
    BY <1>1
  <2> QED BY <1>5, <2>1 DEF Places
<1> QED BY <1>4, <1>6

LEMMA NextTypes == TypeInv /\ [Next]_vars => TypeInv'
<1> SUFFICES ASSUME TypeInv, [Next]_vars PROVE TypeInv'
  OBVIOUS
<1>1. CASE UNCHANGED vars
  <2>1. UNCHANGED <<up, files, owner, leak, call, held, deleting, poll, chan, deletes, synced,
                    removed, calls, losses>>
    BY <1>1 DEF vars, tables, users, wire, bounds
  <2>2. TypeOK'
    BY <2>1 DEF TypeInv, TypeOK
  <2>3. Places'
    BY <2>1 DEF TypeInv, Places
  <2> QED BY <2>2, <2>3 DEF TypeInv
<1>2. CASE Environment
  BY <1>2, StartTypes, EnterTypes, OtherTypes DEF Environment, CallLock, CallUnlock
<1>3. ASSUME NEW n \in Node, LockFile(n) \/ UnlockFile(n) \/ Agent(n) \/ DeleteLocalFile(n)
      PROVE  TypeInv'
  BY <1>3, LockFileTypes, UnlockFileTypes, PollTypes, AnswerTypes, MergeTypes, DeleteTypes DEF Agent
<1>4. ASSUME NEW m \in Node, NEW n \in Node, Listen(m, n) \/ Lose(m, n)
      PROVE  TypeInv'
  BY <1>4, ListenTypes, LoseTypes
<1>5. ASSUME NEW d \in deletes, HandleDelete(d)
      PROVE  TypeInv'
  BY <1>5, HandleDeleteTypes
<1> QED BY <1>1, <1>2, <1>3, <1>4, <1>5 DEF Next

(***************************************************************************)
(* Every state of the sync agents is well typed.                           *)
(***************************************************************************)
THEOREM TypeCorrect == Spec => []TypeOK
<1>1. TypeInv => TypeOK
  BY DEF TypeInv
<1> QED BY <1>1, InitTypes, NextTypes, PTL DEF Spec

-------------------------------------------------------------------------------
(***************************************************************************)
(* Locks.  SameFile(f): the step is not about file f.                      *)
(***************************************************************************)
SamePackets(f) ==
    \A m, k \in Node : \A a \in {"lock", "unlock"} :
        Has(chan'[<<m, k>>], f, a) <=> Has(chan[<<m, k>>], f, a)

SameFile(f) ==
    /\ SamePackets(f)
    /\ \A k \in Node : owner'[k][f] = owner[k][f] /\ (f \in held'[k] <=> f \in held[k])

LEMMA HearsSame ==
    ASSUME NEW f, SamePackets(f)
    PROVE  /\ \A k \in Node : \A a \in {"lock", "unlock"} : Hears(k, f, a)' <=> Hears(k, f, a)
           /\ Spreading(f)' <=> Spreading(f)
<1>1. \A k \in Node : \A a \in {"lock", "unlock"} : Hears(k, f, a)' <=> Hears(k, f, a)
  BY DEF SamePackets, Hears
<1> QED BY <1>1 DEF Spreading

\* chan' = chan
LEMMA SameChan ==
    ASSUME chan' = chan
    PROVE  /\ \A f : SamePackets(f)
           /\ \A k, f, a : Hears(k, f, a)' <=> Hears(k, f, a)
           /\ \A f : Spreading(f)' <=> Spreading(f)
<1>1. \A k, f, a : Hears(k, f, a)' <=> Hears(k, f, a)
  BY DEF Hears
<1> QED BY <1>1 DEF SamePackets, Spreading

LEMMA FileFrame ==
    ASSUME TypeOK, NEW f \in File, FileInv(f), SameFile(f), synced' = synced
    PROVE  FileInv(f)'
<1>1. \A k \in Node : \A a \in {"lock", "unlock"} : Hears(k, f, a)' <=> Hears(k, f, a)
  BY HearsSame DEF SameFile
<1>2. \A k \in Node : owner'[k][f] = owner[k][f] /\ (f \in held'[k] <=> f \in held[k])
  BY DEF SameFile
<1>3. PacketsTrue(f)'
  BY <1>1, <1>2 DEF FileInv, PacketsTrue, SameFile, SamePackets
<1>4. OneHolder(f)'
  BY <1>2 DEF FileInv, OneHolder
<1>5. HoldersKnown(f)'
  <2>1. synced \subseteq Node
    BY DEF TypeOK
  <2> QED BY <1>1, <1>2, <2>1 DEF FileInv, HoldersKnown
<1> QED BY <1>3, <1>4, <1>5 DEF FileInv

\* When everything is settled nobody is calling or polling and no packet is on its way.
LEMMA SettledMeans ==
    ASSUME TypeInv, Settled
    PROVE  /\ \A n \in Node : call[n] = NoCall /\ poll[n] = NoPoll
           /\ up = synced
           /\ \A f : ~ Spreading(f)
           /\ \A k \in Node : \A f, a : ~ Hears(k, f, a)
<1>1. \A n \in Node : call[n] = NoCall /\ poll[n] = NoPoll
  BY DEF Settled, Quiet, TypeInv, TypeOK, Places
<1>2. up = synced
  BY DEF Settled, Quiet, TypeInv, TypeOK
<1>3. \A m, k \in Node : chan[<<m, k>>] = << >>
  BY DEF Settled, Quiet
<1>4. \A k \in Node : \A f, a : ~ Hears(k, f, a)
  BY <1>3, HasNothing DEF Hears
<1> QED BY <1>1, <1>2, <1>4 DEF Spreading

LEMMA InitLocks == Init => LocksInv
<1> SUFFICES ASSUME Init PROVE LocksInv
  OBVIOUS
<1>1. CallsAlone
  BY Facts DEF Init, CallsAlone
<1>2. NewcomerLearns
  BY DEF Init, NewcomerLearns
<1>3. ASSUME NEW f \in File PROVE FileInv(f)
  <2>1. \A m, k \in Node : \A a : ~ Has(chan[<<m, k>>], f, a)
    BY HasNothing DEF Init
  <2>2. \A k \in Node : \A a : ~ Hears(k, f, a)
    BY <2>1 DEF Hears
  <2> QED BY <2>1, <2>2, Facts DEF Init, FileInv, PacketsTrue, OneHolder, HoldersKnown
<1> QED BY <1>1, <1>2, <1>3 DEF LocksInv

LEMMA StartLocks ==
    ASSUME Serial, TypeInv, LocksInv, NEW n \in Node, Start(n)
    PROVE  LocksInv'
<1>1. Settled
  BY DEF Start, May, Serial
<1>2. /\ up' = up \union {n} /\ n \notin up
      /\ UNCHANGED <<owner, call, held, poll, chan, synced, removed>>
  BY DEF Start, users, wire
<1>3. /\ \A k \in Node : call[k] = NoCall /\ poll[k] = NoPoll
      /\ up = synced /\ \A f : ~ Spreading(f)
  BY <1>1, SettledMeans
<1>4. \A f : ~ Spreading(f)'
  BY <1>2, <1>3, SameChan
<1>5. CallsAlone'
  BY <1>2, <1>3, Facts DEF CallsAlone
<1>6. NewcomerLearns'
  BY <1>2, <1>3, <1>4, Facts DEF NewcomerLearns, LocksInv, TypeInv, TypeOK, Places
<1>7. ASSUME NEW f \in File \ removed PROVE FileInv(f)'
  <2>1. SameFile(f)
    BY <1>2, SameChan DEF SameFile
  <2> QED BY <1>2, <2>1, FileFrame DEF LocksInv, TypeInv
<1> QED BY <1>2, <1>5, <1>6, <1>7 DEF LocksInv

\* Steps that change no lock, call, poll or packet.
LEMMA IdleLocks ==
    ASSUME TypeInv, LocksInv, UNCHANGED <<up, owner, call, held, poll, chan, synced, removed>>
    PROVE  LocksInv'
<1>1. \A f : Spreading(f)' <=> Spreading(f)
  BY SameChan
<1>2. CallsAlone'
  BY <1>1 DEF CallsAlone, LocksInv
<1>3. NewcomerLearns'
  BY <1>1 DEF NewcomerLearns, LocksInv
<1>4. ASSUME NEW f \in File \ removed PROVE FileInv(f)'
  <2>1. SameFile(f)
    BY SameChan DEF SameFile
  <2> QED BY <2>1, FileFrame DEF LocksInv, TypeInv
<1> QED BY <1>2, <1>3, <1>4 DEF LocksInv

LEMMA PollLocks ==
    ASSUME Serial, TypeInv, LocksInv, NEW n \in Node, Poll(n)
    PROVE  LocksInv'
<1>1. /\ n \in up /\ NextOf(n) \in up /\ (up # {n} => NextOf(n) # n)
  BY NextIsUp DEF Poll, TypeInv
<1>2. UNCHANGED <<up, owner, call, held, chan, synced, removed>>
  BY DEF Poll, tables, users, wire
<1>3. /\ poll'[n].at = "files" /\ poll'[n].from = NextOf(n) /\ poll'[n].owner = Free
      /\ \A k \in Node : k # n => poll'[k] = poll[k]
  BY Facts DEF Poll, TypeInv, TypeOK, NoPoll
<1>6. /\ \A k, f, a : Hears(k, f, a)' <=> Hears(k, f, a)
      /\ \A f : Spreading(f)' <=> Spreading(f)
  BY <1>2, SameChan
<1>7. CallsAlone'
  BY <1>2, <1>6 DEF CallsAlone, LocksInv
<1>8. NewcomerLearns'
  <2>1. \A k \in Node : held'[k] # {} => k \in synced'
    BY <1>2 DEF NewcomerLearns, LocksInv
  <2> SUFFICES ASSUME NEW u \in up \ synced
               PROVE  /\ up \ {u} \subseteq synced
                      /\ \A f \in File \ removed : ~ Spreading(f) /\ owner[u][f] = NoNode
                      /\ poll'[u].at # "idle" => \/ poll'[u].from \in synced
                                                 \/ \A k \in Node : held[k] = {}
                      /\ poll'[u].at = "answer" =>
                            \A m \in Node : \A f \in File \ removed :
                                f \in held[m] => poll'[u].owner[f] = m
    BY <1>2, <1>6, <2>1 DEF NewcomerLearns
  <2>2. /\ up \ {u} \subseteq synced /\ u \in Node /\ synced \subseteq up
        /\ \A f \in File \ removed : ~ Spreading(f) /\ owner[u][f] = NoNode
    BY DEF NewcomerLearns, LocksInv, TypeInv, TypeOK
  <2>3. CASE u # n
    BY <1>3, <2>2, <2>3 DEF NewcomerLearns, LocksInv
  <2>4. CASE u = n /\ up = {n}
    BY <1>2, <1>3, <2>1, <2>2, <2>4
  <2>5. CASE u = n /\ up # {n}
    BY <1>1, <1>3, <2>2, <2>5
  <2> QED BY <2>3, <2>4, <2>5
<1>9. ASSUME NEW f \in File \ removed PROVE FileInv(f)'
  <2>1. SameFile(f)
    BY <1>2, SameChan DEF SameFile
  <2> QED BY <1>2, <2>1, FileFrame DEF LocksInv, TypeInv
<1> QED BY <1>2, <1>7, <1>8, <1>9 DEF LocksInv

LEMMA AnswerLocks ==
    ASSUME TypeInv, LocksInv, NEW n \in Node, Answer(n)
    PROVE  LocksInv'
<1> DEFINE k == poll[n].from
<1>1. /\ poll[n].at = "files" /\ n \in up /\ k \in up /\ k \in Node
      /\ UNCHANGED <<up, owner, call, held, chan, synced, removed>>
  BY DEF Answer, TypeInv, TypeOK, Places, tables, users, wire
<1>2. /\ poll'[n].at = "answer" /\ poll'[n].from = k /\ poll'[n].owner = owner[k]
      /\ \A j \in Node : j # n => poll'[j] = poll[j]
  BY DEF Answer, TypeInv, TypeOK
<1> HIDE DEF k
<1>5. /\ \A j, f, a : Hears(j, f, a)' <=> Hears(j, f, a)
      /\ \A f : Spreading(f)' <=> Spreading(f)
  BY <1>1, SameChan
<1>6. CallsAlone'
  BY <1>1, <1>5 DEF CallsAlone, LocksInv
<1>8. NewcomerLearns'
  <2> SUFFICES ASSUME NEW u \in up \ synced
               PROVE  /\ up \ {u} \subseteq synced
                      /\ \A f \in File \ removed : ~ Spreading(f) /\ owner[u][f] = NoNode
                      /\ poll'[u].at # "idle" => \/ poll'[u].from \in synced
                                                 \/ \A j \in Node : held[j] = {}
                      /\ poll'[u].at = "answer" =>
                            \A m \in Node : \A f \in File \ removed :
                                f \in held[m] => poll'[u].owner[f] = m
    BY <1>1, <1>5 DEF NewcomerLearns, LocksInv
  <2>1. /\ up \ {u} \subseteq synced /\ u \in Node
        /\ \A f \in File \ removed : ~ Spreading(f) /\ owner[u][f] = NoNode
    BY DEF NewcomerLearns, LocksInv, TypeInv, TypeOK
  <2>2. CASE u # n
    BY <1>2, <2>1, <2>2 DEF NewcomerLearns, LocksInv
  <2>3. CASE u = n
    <3>1. k \in synced \/ \A j \in Node : held[j] = {}
      BY <1>1, <2>3 DEF NewcomerLearns, LocksInv, k
    <3>2. ASSUME NEW m \in Node, NEW f \in File \ removed, f \in held[m]
          PROVE  owner[k][f] = m
      <4>1. k \in synced
        BY <3>1, <3>2
      <4>2. ~ Hears(k, f, "lock")
        BY <1>1, <2>1 DEF Spreading
      <4> QED BY <3>2, <4>1, <4>2 DEF LocksInv, FileInv, HoldersKnown
    <3> QED BY <1>2, <2>1, <2>3, <3>1, <3>2
  <2> QED BY <2>2, <2>3
<1>9. ASSUME NEW f \in File \ removed PROVE FileInv(f)'
  <2>1. SameFile(f)
    BY <1>1, SameChan DEF SameFile
  <2> QED BY <1>1, <2>1, FileFrame DEF LocksInv, TypeInv
<1> QED BY <1>1, <1>6, <1>8, <1>9 DEF LocksInv

LEMMA MergeLocks ==
    ASSUME TypeInv, LocksInv, NEW n \in Node, Merge(n)
    PROVE  LocksInv'
<1>1. /\ poll[n].at = "answer" /\ n \in up /\ synced' = synced \union {n} /\ synced' \subseteq Node
      /\ UNCHANGED <<up, call, held, chan, removed>>
  BY DEF Merge, TypeInv, TypeOK, Places, users, wire
<1>2. /\ poll'[n] = NoPoll /\ \A k \in Node : k # n => poll'[k] = poll[k] /\ owner'[k] = owner[k]
      /\ \A f \in File :
            owner'[n][f] = IF owner[n][f] = NoNode THEN poll[n].owner[f] ELSE owner[n][f]
  BY DEF Merge, TypeInv, TypeOK, Table
<1>3. /\ \A k, f, a : Hears(k, f, a)' <=> Hears(k, f, a)
      /\ \A f : Spreading(f)' <=> Spreading(f)
  BY <1>1, SameChan
<1>4. CallsAlone'
  <2>1. \A k \in Node : call[k] # NoCall => up = synced'
    BY <1>1 DEF CallsAlone, LocksInv
  <2> QED BY <1>1, <1>3, <2>1 DEF CallsAlone, LocksInv
<1>5. NewcomerLearns'
  <2>1. \A u \in up \ synced' : u # n /\ u \in up \ synced /\ u \in Node
    BY <1>1 DEF TypeInv, TypeOK
  <2>2. \A u \in up \ synced' : up \ {u} \subseteq synced'
    BY <1>1, <2>1 DEF NewcomerLearns, LocksInv
  <2>3. \A k \in Node : held[k] # {} => k \in synced'
    BY <1>1 DEF NewcomerLearns, LocksInv
  <2> QED BY <1>1, <1>2, <1>3, <2>1, <2>2, <2>3 DEF NewcomerLearns, LocksInv
<1>6. ASSUME NEW f \in File \ removed PROVE FileInv(f)'
  <2>1. FileInv(f)
    BY DEF LocksInv
  <2>2. PacketsTrue(f)'
    BY <1>1, <1>3, <2>1 DEF FileInv, PacketsTrue
  <2>3. OneHolder(f)'
    BY <1>1, <2>1 DEF FileInv, OneHolder
  <2>4. ASSUME NEW k \in synced', NEW m \in Node, f \in held[m], ~ Hears(k, f, "lock")
        PROVE  owner'[k][f] = m
    <3>1. m # NoNode /\ k \in Node
      BY <1>1, Facts
    <3>2. CASE k \in synced
      <4>1. owner[k][f] = m
        BY <2>1, <2>4, <3>2 DEF FileInv, HoldersKnown
      <4> QED BY <1>2, <3>1, <4>1
    <3>3. CASE k \notin synced
      <4>1. k = n /\ n \in up \ synced
        BY <1>1, <3>3
      <4>2. poll[n].owner[f] = m /\ owner[n][f] = NoNode
        BY <1>1, <2>4, <4>1 DEF NewcomerLearns, LocksInv
      <4> QED BY <1>2, <4>1, <4>2
    <3> QED BY <3>2, <3>3
  <2>5. HoldersKnown(f)'
    BY <1>1, <1>3, <2>4 DEF HoldersKnown
  <2> QED BY <2>2, <2>3, <2>5 DEF FileInv
<1> QED BY <1>1, <1>4, <1>5, <1>6 DEF LocksInv

LEMMA EnterLocks ==
    ASSUME Serial, TypeInv, LocksInv, NEW n \in Node, NEW op \in {"lock", "unlock"}, NEW f \in File,
           Enter(n, op, f), op = "unlock" => f \in held[n]
    PROVE  LocksInv'
<1>1. Settled
  BY DEF Enter, Call, May, Serial
<1>2. /\ UNCHANGED <<up, owner, held, poll, chan, synced, removed>>
      /\ call'[n] = [op |-> op, file |-> f] /\ \A k \in Node : k # n => call'[k] = call[k]
  BY DEF Enter, tables, wire, TypeInv, TypeOK
<1>3. /\ \A k \in Node : call[k] = NoCall /\ poll[k] = NoPoll
      /\ up = synced /\ \A g : ~ Spreading(g)
  BY <1>1, SettledMeans
<1>4. \A g : Spreading(g)' <=> Spreading(g)
  BY <1>2, SameChan
<1>5. CallsAlone'
  BY <1>2, <1>3, <1>4, Facts DEF CallsAlone
<1>6. NewcomerLearns'
  BY <1>2, <1>4 DEF NewcomerLearns, LocksInv
<1>7. ASSUME NEW g \in File \ removed PROVE FileInv(g)'
  <2>1. SameFile(g)
    BY <1>2, SameChan DEF SameFile
  <2> QED BY <1>2, <2>1, FileFrame DEF LocksInv, TypeInv
<1> QED BY <1>2, <1>5, <1>6, <1>7 DEF LocksInv

\* When the one call under way returns: what it relied on, and what is left of CallsAlone.
LEMMA CallingMeans ==
    ASSUME TypeInv, LocksInv, NEW n \in Node, call[n] # NoCall
    PROVE  /\ n \in synced /\ up = synced /\ call[n].file \in File
           /\ \A f \in File \ removed : ~ Spreading(f)
           /\ \A k \in Node : k # n => call[k] = NoCall
BY DEF TypeInv, TypeOK, Places, LocksInv, CallsAlone

LEMMA Returned ==
    ASSUME TypeInv, LocksInv, NEW n \in Node, call[n] # NoCall,
           call' = [call EXCEPT ![n] = NoCall], UNCHANGED <<up, synced, poll, removed>>,
           \A k \in Node : k # n => held'[k] = held[k]
    PROVE  CallsAlone' /\ NewcomerLearns'
<1>1. n \in synced /\ up = synced /\ \A k \in Node : k # n => call[k] = NoCall
  BY CallingMeans
<1>2. \A k \in Node : call'[k] = NoCall
  BY <1>1 DEF TypeInv, TypeOK
<1>3. CallsAlone'
  BY <1>2, Facts DEF CallsAlone
<1>4. NewcomerLearns'
  BY <1>1 DEF NewcomerLearns, LocksInv
<1> QED BY <1>3, <1>4

LEMMA LockFileLocks ==
    ASSUME TypeInv, LocksInv, NEW n \in Node, LockFile(n)
    PROVE  LocksInv'
<1>0. PICK f : f = call[n].file
  OBVIOUS
<1>1. /\ call[n] # NoCall /\ f \in File /\ call' = [call EXCEPT ![n] = NoCall]
      /\ UNCHANGED <<up, poll, synced, removed>>
  BY <1>0, Facts, CallingMeans DEF LockFile, Return
<1>2. /\ n \in synced /\ n \in up /\ up = synced /\ synced \subseteq Node
      /\ \A g \in File \ removed : ~ Spreading(g)
  BY <1>1, CallingMeans DEF TypeInv, TypeOK
<1>3. CASE owner[n][f] # NoNode
  <2>1. UNCHANGED <<owner, chan, held>>
    BY <1>0, <1>3 DEF LockFile
  <2>2. \A g \in File \ removed : SameFile(g)
    BY <2>1, SameChan DEF SameFile
  <2>3. CallsAlone' /\ NewcomerLearns'
    BY <1>1, <2>1, Returned
  <2> QED BY <1>1, <2>2, <2>3, FileFrame DEF LocksInv, TypeInv
<1>4. CASE owner[n][f] = NoNode
  <2>1. /\ Multicast(n, "lock", f) /\ SetOwner(n, f, n)
        /\ held' = [held EXCEPT ![n] = @ \union {f}]
    BY <1>0, <1>4 DEF LockFile
  <2>2. \A m, k \in Node : \A g, a : Has(chan'[<<m, k>>], g, a) <=>
            Has(chan[<<m, k>>], g, a) \/ (m = n /\ k \in up /\ g = f /\ a = "lock")
    BY <1>1, <2>1, MulticastEffect DEF TypeInv
  <2>3. /\ owner'[n][f] = n
        /\ \A k \in Node : \A g \in File : k # n \/ g # f => owner'[k][g] = owner[k][g]
    BY <1>1, <2>1, SetOwnerTypes DEF TypeInv
  <2>4. /\ held'[n] = held[n] \union {f} /\ \A k \in Node : k # n => held'[k] = held[k]
    BY <2>1 DEF TypeInv, TypeOK
  <2>5. CallsAlone' /\ NewcomerLearns'
    BY <1>1, <2>4, Returned
  <2>6. ASSUME NEW g \in File \ removed, g # f PROVE FileInv(g)'
    <3>1. SameFile(g)
      BY <2>2, <2>3, <2>4, <2>6 DEF SameFile, SamePackets
    <3> QED BY <1>1, <3>1, FileFrame DEF LocksInv, TypeInv
  <2>7. ASSUME f \notin removed PROVE FileInv(f)'
    <3>1. FileInv(f) /\ ~ Spreading(f)
      BY <1>1, <1>2, <2>7 DEF LocksInv
    <3>2. \A k \in Node : ~ Hears(k, f, "lock") /\ ~ Hears(k, f, "unlock")
      BY <3>1 DEF Spreading
    <3>3. \A m \in Node : f \notin held[m]
      BY <1>2, <1>4, <3>1, <3>2, Facts DEF FileInv, HoldersKnown
    <3>4. \A m \in Node : f \in held'[m] <=> m = n
      BY <2>4, <3>3
    <3>5. \A k \in Node : ~ Hears(k, f, "unlock")'
      <4>1. \A m, k \in Node : ~ Has(chan'[<<m, k>>], f, "unlock")
        <5> TAKE m, k \in Node
        <5>1. ~ Has(chan[<<m, k>>], f, "unlock")
          BY <3>2 DEF Hears
        <5>2. Has(chan'[<<m, k>>], f, "unlock") => Has(chan[<<m, k>>], f, "unlock")
          BY <2>2
        <5> QED BY <5>1, <5>2
      <4> QED BY <4>1 DEF Hears
    <3>6. \A k \in up : Hears(k, f, "lock")'
      BY <1>2, <2>2 DEF Hears
    <3>7. \A m, k \in Node : Has(chan'[<<m, k>>], f, "lock") => m = n
      BY <2>2, <3>2 DEF Hears
    <3>8. PacketsTrue(f)'
      BY <3>4, <3>5, <3>7 DEF PacketsTrue
    <3>9. OneHolder(f)'
      BY <3>4 DEF OneHolder
    <3>10. HoldersKnown(f)'
      BY <1>1, <1>2, <3>6 DEF HoldersKnown
    <3> QED BY <3>8, <3>9, <3>10 DEF FileInv
  <2> QED BY <1>1, <2>5, <2>6, <2>7 DEF LocksInv
<1> QED BY <1>3, <1>4

\* Unlocks for files other than the unlocked one.
LEMMA UnlocksOthers ==
    ASSUME TypeInv, NEW n \in Node, NEW f \in File, Unlocks(n, f), NEW g \in File, g # f
    PROVE  SamePackets(g) /\ \A k \in Node : owner'[k][g] = owner[k][g]
<1>1. CASE owner[n][f] = NoNode
  <2>1. owner' = owner /\ chan' = chan
    BY <1>1 DEF Unlocks
  <2> QED BY <2>1, SameChan
<1>2. CASE owner[n][f] # NoNode
  <2>1. Multicast(n, "unlock", f) /\ SetOwner(n, f, NoNode)
    BY <1>2 DEF Unlocks
  <2>2. \A m, k \in Node : \A a : Has(chan'[<<m, k>>], g, a) <=> Has(chan[<<m, k>>], g, a)
    BY <2>1, MulticastEffect DEF TypeInv
  <2>3. \A k \in Node : owner'[k][g] = owner[k][g]
    BY <2>1, SetOwnerTypes DEF TypeInv
  <2> QED BY <2>2, <2>3 DEF SamePackets
<1> QED BY <1>1, <1>2

LEMMA UnlockFileLocks ==
    ASSUME TypeInv, LocksInv, NEW n \in Node, UnlockFile(n)
    PROVE  LocksInv'
<1>0. PICK f : f = call[n].file
  OBVIOUS
<1>1. /\ call[n].op = "unlock" /\ call[n] # NoCall /\ call' = [call EXCEPT ![n] = NoCall]
      /\ Unlocks(n, f) /\ held' = [held EXCEPT ![n] = @ \ {f}]
      /\ UNCHANGED <<up, poll, synced, removed>>
  BY <1>0, Facts DEF UnlockFile, Return
<1>2. /\ f \in File /\ n \in synced /\ n \in up /\ up = synced /\ synced \subseteq Node
      /\ \A g \in File \ removed : ~ Spreading(g)
  BY <1>0, <1>1, CallingMeans DEF TypeInv, TypeOK
<1>3. f \in held[n]
  BY <1>0, <1>1 DEF LocksInv, CallsAlone
<1>4. /\ held'[n] = held[n] \ {f} /\ \A k \in Node : k # n => held'[k] = held[k]
  BY <1>1 DEF TypeInv, TypeOK
<1>5. CallsAlone' /\ NewcomerLearns'
  BY <1>1, <1>4, Returned
<1>6. ASSUME NEW g \in File \ removed, g # f PROVE FileInv(g)'
  <2>1. SameFile(g)
    BY <1>1, <1>2, <1>4, <1>6, UnlocksOthers DEF SameFile
  <2> QED BY <1>1, <2>1, FileFrame DEF LocksInv, TypeInv
<1>7. ASSUME f \notin removed PROVE FileInv(f)'
  <2>1. FileInv(f) /\ ~ Spreading(f)
    BY <1>2, <1>7 DEF LocksInv
  <2>2. \A k \in Node : ~ Hears(k, f, "lock") /\ ~ Hears(k, f, "unlock")
    BY <2>1 DEF Spreading
  <2>3. owner[n][f] = n /\ n # NoNode
    BY <1>2, <1>3, <2>1, <2>2, Facts DEF FileInv, HoldersKnown
  <2>4. Multicast(n, "unlock", f) /\ SetOwner(n, f, NoNode)
    BY <1>1, <2>3 DEF Unlocks
  <2>5. \A m, k \in Node : \A g, a : Has(chan'[<<m, k>>], g, a) <=>
            Has(chan[<<m, k>>], g, a) \/ (m = n /\ k \in up /\ g = f /\ a = "unlock")
    BY <1>2, <2>4, MulticastEffect DEF TypeInv
  <2>6. \A m \in Node : f \notin held'[m]
    BY <1>3, <1>4, <2>1 DEF FileInv, OneHolder
  <2>7. \A m, k \in Node : ~ Has(chan'[<<m, k>>], f, "lock")
    BY <2>2, <2>5 DEF Hears
  <2>8. PacketsTrue(f)'
    BY <2>6, <2>7 DEF PacketsTrue
  <2>9. OneHolder(f)' /\ HoldersKnown(f)'
    BY <1>1, <1>2, <2>6 DEF OneHolder, HoldersKnown
  <2> QED BY <2>8, <2>9 DEF FileInv
<1> QED BY <1>1, <1>2, <1>5, <1>6, <1>7 DEF LocksInv

LEMMA ListenLocks ==
    ASSUME TypeInv, LocksInv, NEW m \in Node, NEW n \in Node, Listen(m, n)
    PROVE  LocksInv'
<1>0. PICK p : p = Head(chan[<<m, n>>])
  OBVIOUS
<1>1. /\ chan[<<m, n>>] # << >> /\ chan' = [chan EXCEPT ![<<m, n>>] = Tail(@)]
      /\ SetOwner(n, p.file, IF p.action = "lock" THEN p.name ELSE NoNode)
      /\ UNCHANGED <<up, call, held, poll, synced, removed>>
  BY <1>0 DEF Listen, users
<1>2. p \in Packet /\ p.name = m /\ Has(chan[<<m, n>>], p.file, p.action)
  BY <1>0, <1>1, ListenEffect
<1>3. \A i, k \in Node : \A f, a :
          /\ Has(chan'[<<i, k>>], f, a) => Has(chan[<<i, k>>], f, a)
          /\ Has(chan[<<i, k>>], f, a) =>
                Has(chan'[<<i, k>>], f, a) \/ (k = n /\ p.file = f)
  <2> TAKE i, k \in Node
  <2> TAKE f, a
  <2> QED BY <1>0, <1>1, ListenPackets DEF TypeInv
<1> DEFINE o == IF p.action = "lock" THEN m ELSE NoNode
<1>4. p.file \in File /\ p.action \in {"lock", "unlock"} /\ o \in Node \union {NoNode}
  BY <1>2 DEF Packet
<1>5. /\ owner'[n][p.file] = o
      /\ \A k \in Node : \A f \in File : k # n \/ f # p.file => owner'[k][f] = owner[k][f]
  BY <1>1, <1>2, <1>4, SetOwnerTypes DEF TypeInv
<1>6. /\ \A k \in Node : \A f, a : Hears(k, f, a)' => Hears(k, f, a)
      /\ \A f : Spreading(f)' => Spreading(f)
  <2>1. \A k \in Node : \A f, a : Hears(k, f, a)' => Hears(k, f, a)
    BY <1>3 DEF Hears
  <2> QED BY <2>1 DEF Spreading
<1>7. CallsAlone'
  BY <1>1, <1>6 DEF LocksInv, CallsAlone
<1>8. NewcomerLearns'
  <2>1. ASSUME NEW u \in up \ synced, NEW f \in File \ removed
        PROVE  owner[u][f] = NoNode /\ (u = n => f # p.file)
    <3>1. ~ Spreading(f) /\ owner[u][f] = NoNode
      BY DEF LocksInv, NewcomerLearns
    <3>2. Spreading(p.file)
      BY <1>2, <1>4 DEF Spreading, Hears
    <3> QED BY <3>1, <3>2
  <2>2. \A u \in up \ synced : \A f \in File \ removed : owner'[u][f] = NoNode
    <3> TAKE u \in up \ synced
    <3> TAKE f \in File \ removed
    <3>1. u \in Node /\ f \in File
      BY DEF TypeInv, TypeOK
    <3> QED BY <1>5, <2>1, <3>1
  <2> QED BY <1>1, <1>6, <2>2 DEF LocksInv, NewcomerLearns
<1>9. ASSUME NEW f \in File \ removed PROVE FileInv(f)'
  <2>1. FileInv(f) /\ synced \subseteq Node
    BY DEF LocksInv, TypeInv, TypeOK
  <2>2. PacketsTrue(f)'
    BY <1>1, <1>3, <1>6, <2>1 DEF FileInv, PacketsTrue
  <2>3. OneHolder(f)'
    BY <1>1, <2>1 DEF FileInv, OneHolder
  <2>4. \A k \in Node : k # n \/ f # p.file =>
            /\ owner'[k][f] = owner[k][f]
            /\ \A a : Hears(k, f, a) => Hears(k, f, a)'
    <3>1. \A k \in Node : k # n \/ f # p.file => \A a : Hears(k, f, a) => Hears(k, f, a)'
      BY <1>3 DEF Hears
    <3> QED BY <1>5, <3>1
  <2>5. f = p.file /\ p.action = "lock" => f \in held[m] /\ o = m
    BY <1>2, <2>1 DEF FileInv, PacketsTrue
  <2>6. f = p.file /\ p.action = "unlock" => o = NoNode /\ \A k \in Node : f \notin held[k]
    BY <1>2, <2>1 DEF FileInv, PacketsTrue, Hears
  <2> HIDE DEF o
  <2>7. HoldersKnown(f)'
    <3>1. ASSUME NEW k \in synced, NEW i \in Node, f \in held[i]
          PROVE  owner'[k][f] = i \/ Hears(k, f, "lock")'
      <4>1. CASE k # n \/ f # p.file
        BY <2>1, <2>4, <3>1, <4>1 DEF FileInv, HoldersKnown
      <4>2. CASE k = n /\ f = p.file
        BY <1>4, <1>5, <2>1, <2>5, <2>6, <3>1, <4>2 DEF FileInv, OneHolder
      <4> QED BY <4>1, <4>2
    <3> QED BY <1>1, <3>1 DEF HoldersKnown
  <2> QED BY <2>2, <2>3, <2>7 DEF FileInv
<1> QED BY <1>1, <1>7, <1>8, <1>9 DEF LocksInv

LEMMA DeleteLocks ==
    ASSUME TypeInv, LocksInv, NEW n \in Node, DeleteLocalFile(n)
    PROVE  LocksInv'
<1>0. PICK f : f = deleting[n]
  OBVIOUS
<1>1. /\ f \in File /\ Unlocks(n, f) /\ removed' = removed \union {f}
      /\ UNCHANGED <<up, call, held, poll, synced>>
  BY <1>0 DEF DeleteLocalFile, users, TypeInv, TypeOK
<1>2. \A g \in File \ removed' : g \in File \ removed /\ SameFile(g)
  BY <1>1, UnlocksOthers DEF SameFile
<1>3. \A g \in File \ removed' : Spreading(g)' <=> Spreading(g)
  BY <1>2, HearsSame DEF SameFile
<1>4. CallsAlone'
  BY <1>1, <1>2, <1>3 DEF LocksInv, CallsAlone
<1>5. NewcomerLearns'
  <2>1. up \subseteq Node
    BY DEF TypeInv, TypeOK
  <2>2. \A u \in up \ synced : \A g \in File \ removed' : owner'[u][g] = NoNode
    BY <1>2, <2>1 DEF LocksInv, NewcomerLearns, SameFile
  <2> QED BY <1>1, <1>2, <1>3, <2>2 DEF LocksInv, NewcomerLearns
<1>6. \A g \in File \ removed' : FileInv(g)'
  BY <1>1, <1>2, FileFrame DEF LocksInv, TypeInv
<1> QED BY <1>4, <1>5, <1>6 DEF LocksInv

LEMMA NextLocks == Serial /\ TypeInv /\ LocksInv /\ [Next]_vars => LocksInv'
<1> SUFFICES ASSUME Serial, TypeInv, LocksInv, [Next]_vars PROVE LocksInv'
  OBVIOUS
<1>1. CASE UNCHANGED vars
  BY <1>1, IdleLocks DEF vars, tables, users, wire, bounds
<1>2. CASE Environment
  <2>1. ASSUME NEW n \in Node, Start(n) PROVE LocksInv'
    BY <2>1, StartLocks
  <2>2. ASSUME NEW n \in Node, NEW f \in File, CallLock(n, f) \/ CallUnlock(n, f) PROVE LocksInv'
    BY <2>2, EnterLocks DEF CallLock, CallUnlock
  <2>3. ASSUME NEW n \in Node, NEW f \in File, AddLocalFile(n, f) PROVE LocksInv'
    BY <2>3, IdleLocks DEF AddLocalFile, users, wire
  <2>4. ASSUME NEW n \in Node, NEW f \in File, CallDelete(n, f) PROVE LocksInv'
    BY <2>4, IdleLocks DEF CallDelete, tables, users, wire
  <2> QED BY <1>2, <2>1, <2>2, <2>3, <2>4 DEF Environment
<1>3. ASSUME NEW n \in Node, LockFile(n) \/ UnlockFile(n) \/ Agent(n) \/ DeleteLocalFile(n)
      PROVE  LocksInv'
  BY <1>3, LockFileLocks, UnlockFileLocks, PollLocks, AnswerLocks, MergeLocks, DeleteLocks DEF Agent
<1>4. ASSUME NEW m \in Node, NEW n \in Node, Listen(m, n) \/ Lose(m, n)
      PROVE  LocksInv'
  BY <1>4, ListenLocks DEF Lose, Serial
<1>5. ASSUME NEW d \in deletes, HandleDelete(d)
      PROVE  LocksInv'
  BY <1>5, IdleLocks DEF HandleDelete, users
<1> QED BY <1>1, <1>2, <1>3, <1>4, <1>5 DEF Next

LEMMA LocksInvariant == Serial => (Spec => [](TypeInv /\ LocksInv))
<1> SUFFICES ASSUME Serial PROVE Spec => [](TypeInv /\ LocksInv)
  OBVIOUS
<1>1. TypeInv /\ LocksInv /\ [Next]_vars => LocksInv'
  BY NextLocks
<1> QED BY <1>1, InitTypes, NextTypes, InitLocks, PTL DEF Spec

(***************************************************************************)
(* With one call at a time, a file's lock is never given to two users.     *)
(***************************************************************************)
THEOREM OneUserHoldsTheLock == Serial => (Spec => []LockIsExclusive)
<1>1. TypeInv /\ LocksInv => LockIsExclusive
  <2> SUFFICES ASSUME TypeInv, LocksInv, NEW m \in Node, NEW n \in Node, m # n
               PROVE  held[m] \cap held[n] \subseteq removed
    BY DEF LockIsExclusive
  <2>1. held[m] \subseteq File
    BY DEF TypeInv, TypeOK
  <2> QED BY <2>1 DEF LocksInv, FileInv, OneHolder
<1> QED BY <1>1, LocksInvariant, PTL

(***************************************************************************)
(* With one call at a time, every agent in the ring knows who holds which  *)
(* lock when everything is settled, whatever the polls that were under way *)
(* during the unlocks before have brought back.                            *)
(***************************************************************************)
THEOREM HoldersBecomeKnown == Serial => (Spec => []HoldersAreKnown)
<1>1. TypeInv /\ LocksInv => HoldersAreKnown
  <2> SUFFICES ASSUME TypeInv, LocksInv, Settled, NEW n \in up, NEW m \in up,
                      NEW f \in held[m] \ removed
               PROVE  owner[n][f] = m
    BY DEF HoldersAreKnown
  <2>1. n \in synced /\ n \in Node /\ m \in Node /\ f \in File
    BY SettledMeans DEF TypeInv, TypeOK
  <2>2. FileInv(f) /\ ~ Hears(n, f, "lock")
    BY <2>1, SettledMeans DEF LocksInv
  <2> QED BY <2>1, <2>2 DEF FileInv, HoldersKnown
<1> QED BY <1>1, LocksInvariant, PTL

================================================================================
