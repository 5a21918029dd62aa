--------------------------- MODULE Server_proofs ---------------------------
(***************************************************************************)
(* Proofs about the server, for any size of its table and any number of    *)
(* connections: first the session table, where the handlers are seen only  *)
(* through what they do to it, then the types of all it keeps and writes.  *)
(***************************************************************************)
EXTENDS Server, TLAPS, SequenceTheorems, FiniteSetTheorems

USE TableAssumption

(* Whatever a handler, a client or the network does, it leaves the poll    *)
(* set and the ids alone and changes no slot's is_valid or id.             *)
SameSessions ==
  /\ polled' = polled
  /\ pidx' = pidx
  /\ client_id' = client_id
  /\ \A p \in Slot :
       pdata'[p].is_valid = pdata[p].is_valid /\ pdata'[p].id = pdata[p].id

(* The empty table satisfies the invariant.                                *)
LEMMA InitIInv == Init => IInv
<1> SUFFICES ASSUME Init PROVE IInv
  OBVIOUS
<1>1. EmptySlot \in PlayerData
  BY DataAssumption DEF EmptySlot, PlayerData
<1>2. 0 \in Slot
  BY DEF Slot
<1>3. TableType
  BY <1>1, <1>2 DEF Init, TableType, Slot, Id
<1>4. IdsInOrder
  BY DEF Init, IdsInOrder
<1>5. SlotOwnership
  BY DEF Init, SlotOwnership, EmptySlot
<1> QED
  BY <1>3, <1>4, <1>5 DEF IInv

(* A step that keeps the sessions and stays in the types keeps the         *)
(* invariant.                                                              *)
LEMMA SameSessionsKeepIInv ==
  ASSUME IInv, SameSessions, pdata' \in [Slot -> PlayerData]
  PROVE  IInv'
<1>1. TableType'
  BY DEF IInv, TableType, SameSessions
<1>2. IdsInOrder'
  BY DEF IInv, IdsInOrder, SameSessions
<1>3. SlotOwnership'
  <2>1. \A i \in polled : pidx[i] \in Slot
    BY DEF IInv, TableType
  <2> QED
    BY <2>1 DEF IInv, SlotOwnership, SameSessions
<1> QED
  BY <1>1, <1>2, <1>3 DEF IInv

(* A record of the table with one of the three fields a handler writes     *)
(* replaced is a record of the table, with the same is_valid and id.       *)
LEMMA FieldWrite ==
  ASSUME NEW d \in PlayerData
  PROVE  /\ \A t \in Nat :
              LET e == [d EXCEPT !.best_time = t]
              IN  e \in PlayerData /\ e.is_valid = d.is_valid /\ e.id = d.id
         /\ \A name \in Names :
              LET e == [d EXCEPT !.name = name]
              IN  e \in PlayerData /\ e.is_valid = d.is_valid /\ e.id = d.id
         /\ \A distance \in Distances :
              LET e == [d EXCEPT !.distance = distance]
              IN  e \in PlayerData /\ e.is_valid = d.is_valid /\ e.id = d.id
BY DEF PlayerData

(* Every handler keeps the sessions.                                       *)
LEMMA HandlersKeepSessions ==
  ASSUME IInv, NEW i \in Id, Handler(i)
  PROVE  SameSessions /\ pdata' \in [Slot -> PlayerData]
<1>1. pdata \in [Slot -> PlayerData] /\ pidx[i] \in Slot
  BY DEF IInv, TableType
<1>2. pdata[pidx[i]] \in PlayerData
  BY <1>1
<1>3. CASE UNCHANGED table /\ client_id' = client_id
  BY <1>1, <1>3 DEF SameSessions, table
<1>4. CASE \E duration \in Durations : BeatGame(i, duration)
  <2>1. PICK duration \in Durations : BeatGame(i, duration)
    BY <1>4
  <2>2. duration \in Nat
    BY DataAssumption
  <2> DEFINE d == [pdata[pidx[i]] EXCEPT !.best_time = duration]
  <2>3. d \in PlayerData /\ d.is_valid = pdata[pidx[i]].is_valid /\ d.id = pdata[pidx[i]].id
    BY <1>2, <2>2, FieldWrite
  <2>4. pdata' = pdata \/ pdata' = [pdata EXCEPT ![pidx[i]] = d]
    BY <2>1 DEF BeatGame
  <2>5. UNCHANGED <<client_id, polled, pidx>>
    BY <2>1 DEF BeatGame
  <2> QED
    BY <1>1, <2>3, <2>4, <2>5 DEF SameSessions
<1>5. CASE \E name \in Names : SetName(i, name)
  <2>1. PICK name \in Names : SetName(i, name)
    BY <1>5
  <2> DEFINE d == [pdata[pidx[i]] EXCEPT !.name = name]
  <2>2. d \in PlayerData /\ d.is_valid = pdata[pidx[i]].is_valid /\ d.id = pdata[pidx[i]].id
    BY <1>2, FieldWrite
  <2>3. pdata' = [pdata EXCEPT ![pidx[i]] = d]
    BY <2>1 DEF SetName
  <2>4. UNCHANGED <<client_id, polled, pidx>>
    BY <2>1 DEF SetName
  <2> QED
    BY <1>1, <2>2, <2>3, <2>4 DEF SameSessions
<1>6. CASE \E distance \in Distances : Update(i, distance)
  <2>1. PICK distance \in Distances : Update(i, distance)
    BY <1>6
  <2> DEFINE d == [pdata[pidx[i]] EXCEPT !.distance = distance]
  <2>2. d \in PlayerData /\ d.is_valid = pdata[pidx[i]].is_valid /\ d.id = pdata[pidx[i]].id
    BY <1>2, FieldWrite
  <2>3. pdata' = [pdata EXCEPT ![pidx[i]] = d]
    BY <2>1 DEF Update
  <2>4. UNCHANGED <<client_id, polled, pidx>>
    BY <2>1 DEF Update
  <2> QED
    BY <1>1, <2>2, <2>3, <2>4 DEF SameSessions
<1>7. CASE \/ Emote(i) \/ ResetBeachballScore(i) \/ UpdateBeachball(i)
           \/ \E who \in {0, 1} : BeachballScored(i, who)
  <2>1. UNCHANGED table /\ client_id' = client_id
    BY <1>7 DEF Emote, ResetBeachballScore, UpdateBeachball, BeachballScored
  <2> QED
    BY <1>3, <2>1
<1> QED
  BY <1>4, <1>5, <1>6, <1>7 DEF Handler

(* accept keeps the invariant: the newcomer gets an id and a slot that     *)
(* nobody has.                                                             *)
LEMMA AcceptKeepsIInv ==
  ASSUME IInv, NEW takes \in BOOLEAN, Accept(takes)
  PROVE  IInv'
<1> DEFINE i == client_id
           new == [EmptySlot EXCEPT !.is_valid = 1, !.id = i]
<1>1. PICK p \in Slot : /\ FirstFree(pdata, p)
                        /\ pdata' = [pdata EXCEPT ![p] = new]
                        /\ pidx' = [pidx EXCEPT ![i] = p]
  BY DEF Accept
<1>2. /\ i < MaxClients
      /\ polled' = polled \cup {i}
      /\ client_id' = client_id + 1
  BY DEF Accept
<1>3. TableType
  BY DEF IInv
<1>4. i \in Id /\ i \in Nat
  BY <1>2, <1>3 DEF TableType, Id
<1>5. new \in PlayerData /\ new.is_valid = 1 /\ new.id = i
  BY <1>4, DataAssumption DEF EmptySlot, PlayerData
<1>6. pdata[p].is_valid = 0
  BY <1>1 DEF FirstFree
<1>7. i \notin polled
  BY <1>4 DEF IInv, IdsInOrder
<1>8. TableType'
  <2>1. pdata' \in [Slot -> PlayerData]
    BY <1>1, <1>3, <1>5 DEF TableType
  <2>2. client_id' \in 0 .. MaxClients
    BY <1>2, <1>4
  <2>3. polled' \subseteq Id
    BY <1>2, <1>3, <1>4 DEF TableType
  <2>4. pidx' \in [Id -> Slot]
    BY <1>1, <1>3 DEF TableType
  <2> QED
    BY <2>1, <2>2, <2>3, <2>4 DEF TableType
<1>9. IdsInOrder'
  <2>1. \A j \in polled : j < i /\ j \in Nat
    BY <1>3 DEF IInv, IdsInOrder, TableType, Id
  <2> QED
    BY <1>2, <1>4, <2>1 DEF IdsInOrder
<1>10. SlotOwnership'
  <2>1. pdata'[p] = new /\ pidx'[i] = p
    BY <1>1, <1>3, <1>4 DEF TableType
  <2>2. \A q \in Slot : q # p => pdata'[q] = pdata[q]
    BY <1>1, <1>3 DEF TableType
  <2>3. \A j \in polled : j # i /\ pidx'[j] = pidx[j] /\ pidx[j] \in Slot
    BY <1>1, <1>3, <1>7 DEF TableType
  <2>4. \A j \in polled : pidx[j] # p
    BY <1>6 DEF IInv, SlotOwnership
  <2>5. \A j \in polled' : pdata'[pidx'[j]].is_valid = 1 /\ pdata'[pidx'[j]].id = j
    <3> SUFFICES ASSUME NEW j \in polled'
                 PROVE  pdata'[pidx'[j]].is_valid = 1 /\ pdata'[pidx'[j]].id = j
      OBVIOUS
    <3>1. CASE j = i
      BY <2>1, <1>5, <3>1
    <3>2. CASE j \in polled
      BY <2>2, <2>3, <2>4, <3>2 DEF IInv, SlotOwnership
    <3> QED
      BY <1>2, <3>1, <3>2
  <2>6. \A q \in Slot : pdata'[q].is_valid = 1 =>
          pdata'[q].id \in polled' /\ pidx'[pdata'[q].id] = q
    <3> SUFFICES ASSUME NEW q \in Slot, pdata'[q].is_valid = 1
                 PROVE  pdata'[q].id \in polled' /\ pidx'[pdata'[q].id] = q
      OBVIOUS
    <3>1. CASE q = p
      BY <1>2, <1>5, <2>1, <3>1
    <3>2. CASE q # p
      BY <1>2, <2>2, <2>3, <3>2 DEF IInv, SlotOwnership
    <3> QED
      BY <3>1, <3>2
  <2> QED
    BY <2>5, <2>6 DEF SlotOwnership
<1> QED
  BY <1>8, <1>9, <1>10 DEF IInv

(* disconnect() keeps the invariant: it frees the one slot of the session  *)
(* it ends.                                                                *)
LEMMA DisconnectKeepsIInv ==
  ASSUME IInv, NEW i \in Id, Disconnect(i)
  PROVE  IInv'
<1>1. /\ i \in polled
      /\ polled' = polled \ {i}
      /\ pdata' = [pdata EXCEPT ![pidx[i]].is_valid = 0]
  BY DEF Disconnect
<1>2. UNCHANGED <<client_id, pidx>>
  BY DEF Disconnect
<1>3. TableType
  BY DEF IInv
<1>4. pdata \in [Slot -> PlayerData] /\ pidx[i] \in Slot
  BY <1>3 DEF TableType
<1> DEFINE d == [pdata[pidx[i]] EXCEPT !.is_valid = 0]
<1>5. d \in PlayerData /\ d.is_valid = 0
  BY <1>4 DEF PlayerData
<1>6. /\ pdata' = [pdata EXCEPT ![pidx[i]] = d]
      /\ pdata'[pidx[i]] = d
      /\ \A q \in Slot : q # pidx[i] => pdata'[q] = pdata[q]
  BY <1>1, <1>4
<1>7. TableType'
  BY <1>1, <1>2, <1>3, <1>4, <1>5, <1>6 DEF TableType
<1>8. IdsInOrder'
  BY <1>1, <1>2 DEF IInv, IdsInOrder
<1>9. SlotOwnership'
  <2>1. \A j \in polled' : pidx[j] \in Slot /\ pidx[j] # pidx[i]
    <3> SUFFICES ASSUME NEW j \in polled' PROVE pidx[j] \in Slot /\ pidx[j] # pidx[i]
      OBVIOUS
    <3>1. j \in polled /\ j # i
      BY <1>1
    <3>2. pdata[pidx[j]].id = j /\ pdata[pidx[i]].id = i
      BY <1>1, <3>1 DEF IInv, SlotOwnership
    <3> QED
      BY <1>3, <3>1, <3>2 DEF TableType
  <2>2. \A j \in polled' : pdata'[pidx'[j]].is_valid = 1 /\ pdata'[pidx'[j]].id = j
    BY <1>1, <1>2, <1>6, <2>1 DEF IInv, SlotOwnership
  <2>3. \A q \in Slot : pdata'[q].is_valid = 1 =>
          pdata'[q].id \in polled' /\ pidx'[pdata'[q].id] = q
    <3> SUFFICES ASSUME NEW q \in Slot, pdata'[q].is_valid = 1
                 PROVE  pdata'[q].id \in polled' /\ pidx'[pdata'[q].id] = q
      OBVIOUS
    <3>0. pdata'[pidx[i]].is_valid = 0
      <4> HIDE DEF d
      <4> QED
        BY <1>5, <1>6
    <3>1. q # pidx[i] /\ pdata'[q] = pdata[q]
      BY <1>6, <3>0, 0 # 1
    <3>2. pdata[q].id \in polled /\ pidx[pdata[q].id] = q
      BY <3>1 DEF IInv, SlotOwnership
    <3> QED
      BY <1>1, <1>2, <3>1, <3>2
  <2> QED
    BY <2>2, <2>3 DEF SlotOwnership
<1> QED
  BY <1>7, <1>8, <1>9 DEF IInv

(* The other steps do not touch the table.                                 *)
LEMMA OthersKeepTable ==
  ASSUME NEW i \in Id,
         AcceptFull \/ ClientReads(i) \/ ClientForgets(i) \/ HangUp(i) \/ UNCHANGED vars
  PROVE  UNCHANGED <<pdata, polled, pidx, client_id>>
BY DEF AcceptFull, ClientReads, ClientForgets, HangUp, vars, table

(* One step of the server.                                                 *)
LEMMA NextIInv == IInv /\ [Next]_vars => IInv'
<1> SUFFICES ASSUME IInv, [Next]_vars PROVE IInv'
  OBVIOUS
<1>0. pdata \in [Slot -> PlayerData]
  BY DEF IInv, TableType
<1>1. CASE \E takes \in BOOLEAN : Accept(takes)
  BY <1>1, AcceptKeepsIInv
<1>2. CASE \E i \in Id : Disconnect(i)
  BY <1>2, DisconnectKeepsIInv
<1>3. CASE \E i \in Id : Handler(i)
  BY <1>3, HandlersKeepSessions, SameSessionsKeepIInv
<1>4. CASE UNCHANGED <<pdata, polled, pidx, client_id>>
  <2>1. SameSessions /\ pdata' \in [Slot -> PlayerData]
    BY <1>0, <1>4 DEF SameSessions
  <2> QED
    BY <2>1, SameSessionsKeepIInv
<1>5. CASE \E i \in Id : ClientReads(i) \/ ClientForgets(i) \/ HangUp(i)
  BY <1>4, <1>5, OthersKeepTable
<1>6. CASE AcceptFull \/ UNCHANGED vars
  BY <1>4, <1>6 DEF AcceptFull, vars, table
<1> QED
  BY <1>1, <1>2, <1>3, <1>5, <1>6 DEF Next

(* The invariant of the session table holds in every reachable state.      *)
THEOREM TableInvariance == Spec => []IInv
<1>1. Init => IInv
  BY InitIInv
<1>2. IInv /\ [Next]_vars => IInv'
  BY NextIInv
<1> QED
  BY <1>1, <1>2, PTL DEF Spec

(* Sessions and valid slots are the same thing, for a table of any size.   *)
THEOREM SlotOwnershipHolds == Spec => []SlotOwnership
<1>1. IInv => SlotOwnership
  BY DEF IInv
<1> QED
  BY <1>1, TableInvariance, PTL

(* A slot changes its owner only while it is free.                         *)
THEOREM OwnerStaysHolds == Spec => OwnerStays
<1> DEFINE Stays == \A p \in Slot : pdata[p].is_valid = 1 /\ pdata'[p].is_valid = 1 =>
                      pdata'[p].id = pdata[p].id
<1>1. ASSUME IInv, Next PROVE Stays
  <2>0. pdata \in [Slot -> PlayerData] /\ pidx \in [Id -> Slot]
    BY <1>1 DEF IInv, TableType
  <2>1. CASE \E takes \in BOOLEAN : Accept(takes)
    <3>1. PICK p \in Slot : /\ FirstFree(pdata, p)
                            /\ \E d : pdata' = [pdata EXCEPT ![p] = d]
      BY <2>1 DEF Accept
    <3>2. pdata[p].is_valid = 0
      BY <3>1 DEF FirstFree
    <3> QED
      BY <2>0, <3>1, <3>2
  <2>2. CASE \E i \in Id : Disconnect(i)
    <3>1. PICK i \in Id : pdata' = [pdata EXCEPT ![pidx[i]].is_valid = 0]
      BY <2>2 DEF Disconnect
    <3> QED
      BY <2>0, <3>1 DEF PlayerData
  <2>3. CASE \E i \in Id : Handler(i)
    BY <1>1, <2>3, HandlersKeepSessions DEF SameSessions
  <2>4. CASE AcceptFull \/ \E i \in Id : ClientReads(i) \/ ClientForgets(i) \/ HangUp(i)
    <3>1. pdata' = pdata
      BY <2>4 DEF AcceptFull, ClientReads, ClientForgets, HangUp, table
    <3> QED
      BY <3>1
  <2> QED
    BY <1>1, <2>1, <2>2, <2>3, <2>4 DEF Next
<1>2. IInv /\ [Next]_vars => [Stays]_vars
  BY <1>1
<1> QED
  BY <1>2, TableInvariance, PTL DEF Spec, OwnerStays

-----------------------------------------------------------------------------
(* The types of what the server keeps and writes.                          *)

RestType ==
  /\ score \in [{0, 1} -> 0 .. MaxScore]
  /\ overrun \in {0, 1}
  /\ reading \subseteq Id
  /\ hungup \subseteq Id
  /\ out \in [Id -> Seq(Msg)]
  /\ won \in [Id -> SUBSET Durations]

(* What is written is a queue of messages, and reaches the sockets given.  *)
LEMMA WriteType ==
  ASSUME NEW queues \in [Id -> Seq(Msg)], NEW sockets, NEW msgs \in Seq(Msg)
  PROVE  /\ Write(queues, sockets, msgs) \in [Id -> Seq(Msg)]
         /\ \A s \in Id : Write(queues, sockets, msgs)[s] =
              IF s \in sockets THEN queues[s] \o msgs ELSE queues[s]
<1>1. \A s \in Id : queues[s] \o msgs \in Seq(Msg)
  BY ConcatProperties
<1> QED
  BY <1>1 DEF Write

(* The messages that carry nothing but an id or a score.                   *)
LEMMA PlainMessages ==
  /\ \A i \in Id : /\ Connected(i) \in Msg /\ Disconnected(i) \in Msg
                   /\ UpdatePlayer(i) \in Msg /\ EmoteBy(i) \in Msg
  /\ \A who \in {0, 1} : Scored(who) \in Msg
  /\ BallUpdate \in Msg
  /\ \A sc \in [{0, 1} -> 0 .. MaxScore] : Meta(sc) \in Msg
BY DEF Msg, Connected, Disconnected, UpdatePlayer, EmoteBy, Scored, BallUpdate, Meta

(* The record of a valid slot is of a session, and can be told of.         *)
LEMMA ValidSlot ==
  ASSUME IInv, NEW p \in Valid(pdata)
  PROVE  /\ p \in Slot /\ pdata[p] \in PlayerData
         /\ pdata[p].id \in polled /\ pdata[p].id \in Id
         /\ pidx[pdata[p].id] = p
BY DEF IInv, TableType, SlotOwnership, Valid

LEMMA PlayerMetaType ==
  ASSUME NEW d \in PlayerData, d.id \in Id
  PROVE  PlayerMeta(d) \in Msg
<1>1. PlayerMeta(d) \in [kind : {"PlayerMeta"}, id : Id, best_time : Nat, name : Names]
  BY DEF PlayerData, PlayerMeta
<1> QED
  BY <1>1 DEF Msg

(* The slot of a session.                                                  *)
LEMMA OwnSlot ==
  ASSUME IInv, NEW i \in polled
  PROVE  /\ i \in Id /\ pidx[i] \in Valid(pdata)
         /\ pdata[pidx[i]] \in PlayerData /\ pdata[pidx[i]].id = i
BY DEF IInv, TableType, SlotOwnership, Valid

(* A handler's table has the ids of the sessions, so its broadcasts go to  *)
(* sessions: to all of them, but for the ignored one.                      *)
LEMMA PeersAreSessions ==
  ASSUME IInv, NEW ignore
  PROVE  Peers(pdata, ignore) = polled \ {ignore}
<1>1. \A p \in Valid(pdata) : pdata[p].id \in polled
  BY ValidSlot
<1>2. \A i \in polled : pidx[i] \in Valid(pdata) /\ pdata[pidx[i]].id = i
  BY OwnSlot
<1> QED
  BY <1>1, <1>2 DEF Peers

(* The order of a loop over some slots.                                    *)
LEMMA LoopOverSlots ==
  ASSUME NEW slots \in SUBSET Slot, NEW others \in InSlotOrder(slots)
  PROVE  /\ IsFiniteSet(slots) /\ Cardinality(slots) \in Nat
         /\ others \in [1 .. Cardinality(slots) -> slots]
         /\ Len(others) = Cardinality(slots)
<1>1. IsFiniteSet(Slot)
  BY FS_Interval DEF Slot
<1>2. IsFiniteSet(slots)
  BY <1>1, FS_Subset
<1>3. Cardinality(slots) \in Nat
  BY <1>2, FS_CardinalityType
<1> QED
  BY <1>2, <1>3 DEF InSlotOrder

(* Such a loop comes to every one of the slots.                            *)
LEMMA LoopIsComplete ==
  ASSUME NEW slots \in SUBSET Slot, NEW others \in InSlotOrder(slots), NEW p \in slots
  PROVE  \E k \in 1 .. Cardinality(slots) : others[k] = p
<1> DEFINE n == Cardinality(slots)
<1>1. IsFiniteSet(slots) /\ n \in Nat /\ others \in [1 .. n -> slots]
  BY LoopOverSlots
<1>2. IsFiniteSet(1 .. n) /\ Cardinality(1 .. n) = n
  BY <1>1, FS_Interval
<1>3. \A j, k \in 1 .. n : others[j] = others[k] => j = k
  <2>1. \A j, k \in 1 .. n : j < k => others[j] < others[k]
    BY <1>1 DEF InSlotOrder
  <2>2. \A q \in slots : q \in Int
    BY DEF Slot
  <2> QED
    BY <1>1, <2>1, <2>2
<1>4. others \in Injection(1 .. n, slots)
  BY <1>1, <1>3 DEF Injection, IsInjective
<1>5. others \in Surjection(1 .. n, slots)
  BY <1>1, <1>2, <1>4, FS_Injection
<1> QED
  BY <1>1, <1>5 DEF Surjection

(* A function on 1 .. n is a sequence.                                     *)
LEMMA FunctionIsSeq ==
  ASSUME NEW S, NEW n \in Nat, NEW f \in [1 .. n -> S]
  PROVE  f \in Seq(S) /\ Len(f) = n
OBVIOUS

(* A message to some sockets.                                              *)
LEMMA BroadcastType ==
  ASSUME NEW queues \in [Id -> Seq(Msg)], NEW tab, NEW msg \in Msg, NEW ignore
  PROVE  Broadcast(queues, tab, msg, ignore) \in [Id -> Seq(Msg)]
<1>1. <<msg>> \in Seq(Msg)
  OBVIOUS
<1> QED
  BY <1>1, WriteType DEF Broadcast

(* The greeting is three messages for each of the other sessions.          *)
LEMMA GreetingType ==
  ASSUME IInv, score \in [{0, 1} -> 0 .. MaxScore],
         NEW others \in InSlotOrder(Valid(pdata))
  PROVE  /\ Greeting(pdata, others) \in Seq(Msg)
         /\ Len(Greeting(pdata, others)) = 3 * Cardinality(Valid(pdata))
<1> DEFINE n == Cardinality(Valid(pdata))
           d(m) == pdata[others[(m + 2) \div 3]]
<1>1. n \in Nat /\ others \in [1 .. n -> Valid(pdata)] /\ Len(others) = n
  BY LoopOverSlots DEF Valid
<1>2. 3 * n \in Nat
  BY <1>1
<1>3. ASSUME NEW m \in 1 .. 3 * n
      PROVE  Greeting(pdata, others)[m] \in Msg
  <2>1. (m + 2) \div 3 \in 1 .. n
    BY <1>1
  <2>2. d(m) \in PlayerData /\ d(m).id \in Id
    BY <1>1, <2>1, ValidSlot
  <2>3. Connected(d(m).id) \in Msg /\ Meta(score) \in Msg /\ PlayerMeta(d(m)) \in Msg
    BY <2>2, PlainMessages, PlayerMetaType
  <2>4. Greeting(pdata, others)[m] \in {Connected(d(m).id), Meta(score), PlayerMeta(d(m))}
    BY <1>1 DEF Greeting
  <2> QED
    BY <2>3, <2>4
<1>4. Greeting(pdata, others) \in [1 .. 3 * n -> Msg]
  BY <1>1, <1>3 DEF Greeting
<1> QED
  BY <1>2, <1>4, FunctionIsSeq

(* accept writes messages.                                                 *)
LEMMA AcceptKeepsTypes ==
  ASSUME IInv, RestType, NEW takes \in BOOLEAN, Accept(takes)
  PROVE  RestType'
<1> DEFINE i     == client_id
           n     == Cardinality(Valid(pdata))
           told  == Broadcast(out, pdata, Connected(i), NoOne)
           metas == [k \in 1 .. n |-> Meta(score)]
<1>1. i \in Id
  BY DEF Accept, IInv, TableType, Id
<1>2. PICK others \in InSlotOrder(Valid(pdata)) :
        out' = [Write(told, Peers(pdata, NoOne) \cap reading, metas)
                  EXCEPT ![i] = IF takes THEN Greeting(pdata, others) ELSE << >>]
  BY DEF Accept
<1>3. n \in Nat /\ Meta(score) \in Msg /\ <<Connected(i)>> \in Seq(Msg)
  BY <1>1, <1>2, LoopOverSlots, PlainMessages DEF Valid, RestType
<1>4. metas \in Seq(Msg)
  BY <1>3, FunctionIsSeq
<1>5. told \in [Id -> Seq(Msg)]
  BY <1>1, PlainMessages, BroadcastType DEF RestType
<1>6. Write(told, Peers(pdata, NoOne) \cap reading, metas) \in [Id -> Seq(Msg)]
  <2> HIDE DEF told, metas
  <2> QED
    BY <1>4, <1>5, WriteType
<1>7. Greeting(pdata, others) \in Seq(Msg) /\ << >> \in Seq(Msg)
  BY GreetingType DEF RestType
<1>8. out' \in [Id -> Seq(Msg)]
  <2> HIDE DEF told, metas
  <2> QED
    BY <1>2, <1>6, <1>7
<1>9. /\ UNCHANGED <<score, overrun, hungup, won>>
      /\ reading' \in {reading, reading \cup {i}}
  BY DEF Accept
<1> QED
  BY <1>1, <1>8, <1>9 DEF RestType

(* disconnect() writes one.                                                *)
LEMMA DisconnectKeepsTypes ==
  ASSUME RestType, NEW i \in Id, Disconnect(i)
  PROVE  RestType'
<1>1. Disconnected(i) \in Msg /\ out \in [Id -> Seq(Msg)]
  BY PlainMessages DEF RestType
<1>2. out' = Broadcast(out, pdata', Disconnected(i), NoOne)
  BY DEF Disconnect
<1>3. out' \in [Id -> Seq(Msg)]
  BY <1>1, <1>2, BroadcastType
<1> QED
  <2>1. /\ UNCHANGED <<score, overrun, won>>
        /\ reading' = reading \ {i} /\ hungup' = hungup \cup {i}
    BY DEF Disconnect
  <2> QED
    BY <1>3, <2>1 DEF RestType

(* The handlers that change the sender's slot.                             *)
LEMMA SlotHandlersKeepTypes ==
  ASSUME IInv, RestType, NEW i \in Id,
         \/ \E duration \in Durations : BeatGame(i, duration)
         \/ \E name \in Names : SetName(i, name)
         \/ \E distance \in Distances : Update(i, distance)
  PROVE  RestType'
<1> DEFINE mine == pdata[pidx[i]]
<1>1. i \in polled
  BY DEF BeatGame, SetName, Update, Handles
<1>2. /\ pidx[i] \in Valid(pdata) /\ pidx[i] \in Slot
      /\ pdata \in [Slot -> PlayerData] /\ mine \in PlayerData /\ mine.id = i
  BY <1>1, OwnSlot, ValidSlot DEF IInv, TableType
<1>3. out \in [Id -> Seq(Msg)]
  BY DEF RestType
<1> HIDE DEF mine
<1>4. CASE \E duration \in Durations : BeatGame(i, duration)
  <2>1. PICK duration \in Durations : BeatGame(i, duration)
    BY <1>4
  <2> DEFINE d   == [mine EXCEPT !.best_time = duration]
             tab == [pdata EXCEPT ![pidx[i]] = d]
  <2>2. d \in PlayerData /\ d.id = i
    BY <1>2, <2>1, DataAssumption, FieldWrite
  <2>3. tab[pidx[i]] = d /\ PlayerMeta(d) \in Msg
    <3> HIDE DEF d
    <3> QED
      BY <1>2, <2>2, PlayerMetaType
  <2>4. out' = out \/ out' = Broadcast(out, tab, PlayerMeta(tab[pidx[i]]), mine.id)
    BY <2>1 DEF BeatGame, mine
  <2>5. out' \in [Id -> Seq(Msg)]
    <3> HIDE DEF tab, d
    <3>1. Broadcast(out, tab, PlayerMeta(tab[pidx[i]]), mine.id) \in [Id -> Seq(Msg)]
      BY <1>3, <2>3, BroadcastType
    <3> QED
      BY <1>3, <2>4, <3>1
  <2>6. /\ UNCHANGED <<score, overrun, reading, hungup>>
        /\ won' = [won EXCEPT ![i] = @ \cup {duration}]
    BY <2>1 DEF BeatGame, network
  <2> QED
    BY <2>1, <2>5, <2>6 DEF RestType
<1>5. CASE \E name \in Names : SetName(i, name)
  <2>1. PICK name \in Names : SetName(i, name)
    BY <1>5
  <2> DEFINE d   == [mine EXCEPT !.name = name]
             tab == [pdata EXCEPT ![pidx[i]] = d]
  <2>2. d \in PlayerData /\ d.id = i
    BY <1>2, <2>1, FieldWrite
  <2>3. tab[pidx[i]] = d /\ PlayerMeta(d) \in Msg
    <3> HIDE DEF d
    <3> QED
      BY <1>2, <2>2, PlayerMetaType
  <2>4. out' = Broadcast(out, tab, PlayerMeta(tab[pidx[i]]), tab[pidx[i]].id)
    BY <2>1 DEF SetName, mine
  <2>5. out' \in [Id -> Seq(Msg)]
    <3> HIDE DEF tab, d
    <3> QED
      BY <1>3, <2>3, <2>4, BroadcastType
  <2>6. UNCHANGED <<score, overrun, reading, hungup, won>>
    BY <2>1 DEF SetName, network
  <2> QED
    BY <2>5, <2>6 DEF RestType
<1>6. CASE \E distance \in Distances : Update(i, distance)
  <2>1. PICK distance \in Distances : Update(i, distance)
    BY <1>6
  <2> DEFINE slots  == {p \in Valid(pdata) : pdata[p].id # i}
             answer(others) == [k \in 1 .. Len(others) |-> UpdatePlayer(pdata[others[k]].id)]
  <2>2. PICK others \in InSlotOrder(slots) : out' = Write(out, {i} \cap reading, answer(others))
    BY <2>1 DEF Update
  <2>3. slots \in SUBSET Slot
    BY DEF Valid
  <2>4. /\ Cardinality(slots) \in Nat /\ Len(others) = Cardinality(slots)
        /\ others \in [1 .. Cardinality(slots) -> slots]
    BY <2>3, LoopOverSlots
  <2>5. \A p \in slots : UpdatePlayer(pdata[p].id) \in Msg
    BY ValidSlot, PlainMessages
  <2>6. answer(others) \in Seq(Msg)
    <3>1. answer(others) \in [1 .. Cardinality(slots) -> Msg]
      <4> HIDE DEF slots
      <4> QED
        BY <2>4, <2>5
    <3> QED
      BY <2>4, <3>1, FunctionIsSeq
  <2>7. out' \in [Id -> Seq(Msg)]
    <3> HIDE DEF slots, answer
    <3> QED
      BY <1>3, <2>2, <2>6, WriteType
  <2>8. UNCHANGED <<score, overrun, reading, hungup, won>>
    BY <2>1 DEF Update, network
  <2> QED
    BY <2>7, <2>8 DEF RestType
<1> QED
  BY <1>4, <1>5, <1>6

(* The handlers that do not.                                               *)
LEMMA OtherHandlersKeepTypes ==
  ASSUME IInv, RestType, NEW i \in Id,
         \/ Emote(i) \/ ResetBeachballScore(i) \/ UpdateBeachball(i)
         \/ \E who \in {0, 1} : BeachballScored(i, who)
  PROVE  RestType'
<1>1. i \in polled
  BY DEF Emote, ResetBeachballScore, UpdateBeachball, BeachballScored, Handles
<1>2. out \in [Id -> Seq(Msg)]
  BY DEF RestType
<1>3. CASE Emote(i)
  <2>1. out' \in [Id -> Seq(Msg)]
    BY <1>2, <1>3, PlainMessages, BroadcastType DEF Emote
  <2> QED
    BY <1>3, <2>1 DEF Emote, RestType, network
<1>4. CASE UpdateBeachball(i)
  <2>1. out' \in [Id -> Seq(Msg)]
    BY <1>2, <1>4, PlainMessages, BroadcastType DEF UpdateBeachball
  <2> QED
    BY <1>4, <2>1 DEF UpdateBeachball, RestType, network
<1>5. CASE ResetBeachballScore(i)
  <2> DEFINE zero  == [side \in {0, 1} |-> 0]
             metas == Broadcast(out, pdata, Meta(zero), NoOne)
  <2>1. zero \in [{0, 1} -> 0 .. MaxScore]
    BY BoundAssumption
  <2>2. metas \in [Id -> Seq(Msg)]
    <3>1. Meta(zero) \in Msg
      BY <2>1, PlainMessages
    <3> QED
      BY <1>2, <3>1, BroadcastType
  <2>3. out' = metas \/ out' = Broadcast(metas, pdata, BallUpdate, pdata[pidx[i]].id)
    BY <1>5 DEF ResetBeachballScore
  <2>4. out' \in [Id -> Seq(Msg)]
    <3> HIDE DEF metas
    <3>1. Broadcast(metas, pdata, BallUpdate, pdata[pidx[i]].id) \in [Id -> Seq(Msg)]
      BY <2>2, PlainMessages, BroadcastType
    <3> QED
      BY <2>2, <2>3, <3>1
  <2>5. score' = zero /\ UNCHANGED <<overrun, reading, hungup, won>>
    BY <1>5 DEF ResetBeachballScore, network
  <2> QED
    BY <2>1, <2>4, <2>5 DEF RestType
<1>6. CASE \E who \in {0, 1} : BeachballScored(i, who)
  <2>1. PICK who \in {0, 1} : BeachballScored(i, who)
    BY <1>6
  <2> DEFINE side    == IF who > 0 THEN 0 ELSE 1
             counted == [score EXCEPT ![side] = @ + 1]
             goal    == <<Scored(who), Meta(counted)>>
  <2>2. UNCHANGED <<overrun, reading, hungup, won>>
    BY <2>1 DEF BeachballScored, network
  <2>3. CASE UNCHANGED <<score, out>>
    BY <2>2, <2>3 DEF RestType
  <2>4. CASE /\ score[side] < MaxScore
             /\ score' = counted
             /\ out' = Write(out, Peers(pdata, NoOne) \cap reading, goal)
    <3>1. counted \in [{0, 1} -> 0 .. MaxScore]
      BY <2>4, BoundAssumption DEF RestType
    <3>2. goal \in Seq(Msg)
      <4>1. Scored(who) \in Msg /\ Meta(counted) \in Msg
        BY <3>1, PlainMessages
      <4> QED
        BY <4>1
    <3>3. out' \in [Id -> Seq(Msg)]
      <4> HIDE DEF goal
      <4> QED
        BY <1>2, <2>4, <3>2, WriteType
    <3> QED
      BY <2>2, <2>4, <3>1, <3>3 DEF RestType
  <2> QED
    BY <2>1, <2>3, <2>4 DEF BeachballScored
<1> QED
  BY <1>3, <1>4, <1>5, <1>6

(* The clients read messages away.                                         *)
LEMMA EndsKeepTypes ==
  ASSUME RestType, NEW i \in Id, ClientReads(i) \/ ClientForgets(i) \/ HangUp(i)
  PROVE  RestType'
<1>1. CASE ClientReads(i)
  <2>1. Tail(out[i]) \in Seq(Msg)
    BY <1>1, HeadTailProperties DEF ClientReads, RestType
  <2> QED
    BY <1>1, <2>1 DEF ClientReads, RestType, network
<1>2. CASE ClientForgets(i)
  <2>1. << >> \in Seq(Msg)
    OBVIOUS
  <2> QED
    BY <1>2, <2>1 DEF ClientForgets, RestType
<1>3. CASE HangUp(i)
  BY <1>3 DEF HangUp, RestType
<1> QED
  BY <1>1, <1>2, <1>3

SInv == IInv /\ RestType

(* One step of the server keeps both.                                      *)
LEMMA NextSInv == SInv /\ [Next]_vars => SInv'
<1> SUFFICES ASSUME SInv, [Next]_vars PROVE RestType'
  BY NextIInv DEF SInv
<1> USE DEF SInv
<1>1. CASE \E takes \in BOOLEAN : Accept(takes)
  BY <1>1, AcceptKeepsTypes
<1>2. CASE \E i \in Id : Disconnect(i)
  BY <1>2, DisconnectKeepsTypes
<1>3. CASE \E i \in Id : Handler(i)
  BY <1>3, SlotHandlersKeepTypes, OtherHandlersKeepTypes DEF Handler
<1>4. CASE \E i \in Id : ClientReads(i) \/ ClientForgets(i) \/ HangUp(i)
  BY <1>4, EndsKeepTypes
<1>5. CASE AcceptFull
  BY <1>5 DEF AcceptFull, RestType, network
<1>6. CASE UNCHANGED vars
  BY <1>6 DEF vars, RestType
<1> QED
  BY <1>1, <1>2, <1>3, <1>4, <1>5, <1>6 DEF Next

LEMMA InitSInv == Init => SInv
<1> SUFFICES ASSUME Init PROVE RestType
  BY InitIInv DEF SInv
<1>1. << >> \in Seq(Msg)
  OBVIOUS
<1> QED
  BY <1>1, BoundAssumption DEF Init, RestType

(* Every variable of the server, and every message it writes, has its type *)
(* in every reachable state.                                               *)
THEOREM TypeCorrect == Spec => []TypeOK
<1>1. SInv => TypeOK
  BY DEF SInv, IInv, TableType, RestType, TypeOK
<1> QED
  BY <1>1, InitSInv, NextSInv, PTL DEF Spec
=============================================================================
