------------------------------- MODULE Server -------------------------------
(***************************************************************************)
(* The session table of net/server.c and what the server writes to its     *)
(* sockets: tcs_accept with its greeting, disconnect(), and one action per *)
(* message handler.  The process has one thread, so each of them runs to   *)
(* its end before the next; what it received from which socket, and when,  *)
(* is the receive path's business (ServerRecv).                            *)
(*                                                                         *)
(* Connections are numbered by the client_id they are accepted with, and a *)
(* socket is identified with that number.  An update is abstracted to its  *)
(* distance_to_beachball, the only field the server reads.  out[i] is what *)
(* has been written to socket i and not yet read by the client.            *)
(***************************************************************************)
EXTENDS Integers, Sequences, FiniteSets, Interop

CONSTANTS
  MaxConnections,  (* MAX_CONNECTIONS, the length of pdata                 *)
  MaxClients,      (* bound: connections made while the server runs        *)
  Names,           (* player names, with NoName for the empty one          *)
  NoName,
  Sendable,        (* bound: the tags of the messages clients send         *)
  Durations,       (* durations a client reports for a won game            *)
  Distances,       (* distances to the beachball, with 0                   *)
  MaxScore,        (* bound: goals on either side                          *)
  MaxLag           (* bound: messages a client may have unread             *)

ASSUME TableAssumption == MaxConnections \in Nat \ {0} /\ MaxClients \in Nat
ASSUME DataAssumption  == /\ Sendable \subseteq ClientTag
                          /\ NoName \in Names
                          /\ Durations \subseteq Nat
                          /\ Distances \subseteq Nat /\ 0 \in Distances
ASSUME BoundAssumption == MaxScore \in Nat /\ MaxLag \in Nat

Slot == 0 .. MaxConnections - 1
Id   == 0 .. MaxClients - 1

(* UINT64_MAX as the id to ignore in a broadcast.                          *)
NoOne == -1

VARIABLES
  pdata,      (* the table: [Slot -> PlayerData]                           *)
  score,      (* meta.score                                                *)
  client_id,  (* the id of the next connection                             *)
  polled,     (* the sockets in the poll set: those with a UserData        *)
  pidx,       (* UserData.pidx of each of them                             *)
  overrun,    (* pdata[MAX_CONNECTIONS] has been written                   *)
  reading,    (* sockets whose other end takes what is written             *)
  hungup,     (* sockets that can not be received from any more            *)
  out,        (* what each client has yet to read                          *)
  won         (* history: the durations each connection reported           *)

table   == <<pdata, polled, pidx>>
network == <<reading, hungup>>
vars    == <<pdata, score, client_id, polled, pidx, overrun, reading, hungup, out, won>>

PlayerData ==
  [ is_valid : {0, 1}, id : Nat, best_time : Nat, name : Names, distance : Distances ]

Msg ==
       [kind : {"Connected", "Disconnected", "UpdatePlayer", "Emote"}, id : Id]
  \cup [kind : {"PlayerMeta"}, id : Id, best_time : Nat, name : Names]
  \cup [kind : {"Meta"}, score : [{0, 1} -> 0 .. MaxScore]]
  \cup [kind : {"BeachballScored"}, who : {0, 1}]
  \cup [kind : {"UpdateBeachball"}]

TypeOK ==
  /\ pdata \in [Slot -> PlayerData]
  /\ score \in [{0, 1} -> 0 .. MaxScore]
  /\ client_id \in 0 .. MaxClients
  /\ polled \subseteq Id
  /\ pidx \in [Id -> Slot]
  /\ overrun \in {0, 1}
  /\ reading \subseteq Id
  /\ hungup \subseteq Id
  /\ out \in [Id -> Seq(Msg)]
  /\ won \in [Id -> SUBSET Durations]

EmptySlot ==
  [is_valid |-> 0, id |-> 0, best_time |-> 0, name |-> NoName, distance |-> 0]

Init ==
  /\ pdata = [p \in Slot |-> EmptySlot]
  /\ score = [side \in {0, 1} |-> 0]
  /\ client_id = 0
  /\ polled = {}
  /\ pidx = [i \in Id |-> 0]
  /\ overrun = 0
  /\ reading = {}
  /\ hungup = {}
  /\ out = [i \in Id |-> << >>]
  /\ won = [i \in Id |-> {}]

-----------------------------------------------------------------------------
(* Messages.                                                               *)

Connected(i)    == [kind |-> "Connected", id |-> i]
Disconnected(i) == [kind |-> "Disconnected", id |-> i]
UpdatePlayer(i) == [kind |-> "UpdatePlayer", id |-> i]
EmoteBy(i)      == [kind |-> "Emote", id |-> i]
Scored(who)     == [kind |-> "BeachballScored", who |-> who]
BallUpdate      == [kind |-> "UpdateBeachball"]
Meta(s)         == [kind |-> "Meta", score |-> s]
PlayerMeta(d)   == [kind |-> "PlayerMeta", id |-> d.id,
                    best_time |-> d.best_time, name |-> d.name]

Valid(tab) == {p \in Slot : tab[p].is_valid = 1}

(* The sockets of a table's valid slots, but for the ignored id.           *)
Peers(tab, ignore) == {tab[p].id : p \in Valid(tab)} \ {ignore}

(* tcs_send to a set of sockets; its result is never looked at.  What is   *)
(* written to a socket that nobody reads any more goes nowhere.            *)
Write(queues, sockets, msgs) ==
  [i \in Id |-> IF i \in sockets THEN queues[i] \o msgs ELSE queues[i]]

Broadcast(queues, tab, msg, ignore) ==
  Write(queues, Peers(tab, ignore) \cap reading, <<msg>>)

(* A handler or accept starts: no client lags too far behind.              *)
Room == overrun = 0 /\ \A i \in Id : Len(out[i]) <= MaxLag

-----------------------------------------------------------------------------
(* tcs_accept: announce the newcomer, take the first free slot, and tell   *)
(* the newcomer of the others.  broadcast_meta() stands inside that loop:  *)
(* everybody is sent the score once per other player, and nobody when the  *)
(* newcomer is alone.                                                      *)

(* Slots in the order in which a loop over the table comes to them.        *)
InSlotOrder(slots) ==
  {s \in [1 .. Cardinality(slots) -> slots] : \A j, k \in DOMAIN s : j < k => s[j] < s[k]}

(* Three messages for each of the others.                                  *)
Greeting(tab, others) ==
  [m \in 1 .. 3 * Len(others) |->
     LET d == tab[others[(m + 2) \div 3]]
     IN  IF m % 3 = 1 THEN Connected(d.id)
         ELSE IF m % 3 = 2 THEN Meta(score)
         ELSE PlayerMeta(d)]

(* Mutant: the search ends at the last slot without looking at it.         *)
LastSlotUnchecked(tab, p) ==
  /\ tab[p].is_valid = 0 \/ p = MaxConnections - 1
  /\ \A q \in Slot : q < p => tab[q].is_valid = 1

FirstFree(tab, p) ==
  /\ tab[p].is_valid = 0
  /\ \A q \in Slot : q < p => tab[q].is_valid = 1

(* Mutant: client_id is incremented before it is used.                     *)
AcceptAfterIncrement(takes) ==
  LET i     == client_id + 1
      told  == Broadcast(out, pdata, Connected(i), NoOne)
      metas == [k \in 1 .. Cardinality(Valid(pdata)) |-> Meta(score)]
  IN  /\ Room
      /\ client_id < MaxClients
      /\ \E p \in Slot :
            /\ FirstFree(pdata, p)
            /\ pdata' = [pdata EXCEPT ![p] = [EmptySlot EXCEPT !.is_valid = 1, !.id = i]]
            /\ pidx' = [pidx EXCEPT ![i] = p]
      /\ polled' = polled \cup {i}
      /\ reading' = IF takes THEN reading \cup {i} ELSE reading
      /\ \E others \in InSlotOrder(Valid(pdata)) :
            out' = [Write(told, Peers(pdata, NoOne) \cap reading, metas)
                      EXCEPT ![i] = IF takes THEN Greeting(pdata, others) ELSE << >>]
      /\ client_id' = client_id + 1
      /\ UNCHANGED <<score, overrun, hungup, won>>

(* `takes': whether the newcomer is still there to take what is written.   *)
Accept(takes) ==
  LET i     == client_id
      told  == Broadcast(out, pdata, Connected(i), NoOne)
      metas == [k \in 1 .. Cardinality(Valid(pdata)) |-> Meta(score)]
  IN  /\ Room
      /\ i < MaxClients
      /\ \E p \in Slot :
            /\ FirstFree(pdata, p)
            /\ pdata' = [pdata EXCEPT ![p] = [EmptySlot EXCEPT !.is_valid = 1, !.id = i]]
            /\ pidx' = [pidx EXCEPT ![i] = p]
      /\ polled' = polled \cup {i}
      /\ reading' = IF takes THEN reading \cup {i} ELSE reading
      /\ \E others \in InSlotOrder(Valid(pdata)) :
            out' = [Write(told, Peers(pdata, NoOne) \cap reading, metas)
                      EXCEPT ![i] = IF takes THEN Greeting(pdata, others) ELSE << >>]
      /\ client_id' = client_id + 1
      /\ UNCHANGED <<score, overrun, hungup, won>>

(* With every slot taken the search leaves p = MAX_CONNECTIONS, and the    *)
(* newcomer is written behind the end of pdata.  The model stops there.    *)
AcceptFull ==
  /\ Room
  /\ client_id < MaxClients
  /\ Valid(pdata) = Slot
  /\ overrun' = 1
  /\ UNCHANGED <<table, score, client_id, network, out, won>>

(* Mutant: the slot stays valid.                                           *)
DisconnectKeepsSlot(i) ==
  /\ Room
  /\ i \in polled
  /\ polled' = polled \ {i}
  /\ out' = Broadcast(out, pdata, Disconnected(i), NoOne)
  /\ reading' = reading \ {i}
  /\ hungup' = hungup \cup {i}
  /\ UNCHANGED <<pdata, score, client_id, pidx, overrun, won>>

(* Mutant: nobody is told.                                                 *)
DisconnectUnannounced(i) ==
  /\ Room
  /\ i \in polled
  /\ polled' = polled \ {i}
  /\ pdata' = [pdata EXCEPT ![pidx[i]].is_valid = 0]
  /\ reading' = reading \ {i}
  /\ hungup' = hungup \cup {i}
  /\ UNCHANGED <<score, client_id, pidx, overrun, out, won>>

(* disconnect(): after a failed receive, or, with the socket still alive,  *)
(* after a garbage tag.                                                    *)
Disconnect(i) ==
  /\ Room
  /\ i \in polled
  /\ polled' = polled \ {i}
  /\ pdata' = [pdata EXCEPT ![pidx[i]].is_valid = 0]
  /\ out' = Broadcast(out, pdata', Disconnected(i), NoOne)
  /\ reading' = reading \ {i}
  /\ hungup' = hungup \cup {i}
  /\ UNCHANGED <<score, client_id, pidx, overrun, won>>

-----------------------------------------------------------------------------
(* The handlers.  `mine' is pdata[user->pidx].                             *)

Handles(i) == Room /\ i \in polled

Emote(i) ==
  /\ Handles(i)
  /\ out' = Broadcast(out, pdata, EmoteBy(i), pdata[pidx[i]].id)
  /\ UNCHANGED <<table, score, client_id, overrun, network, won>>

(* best_time starts as 0 and only a smaller, unsigned duration is taken.   *)
BeatGame(i, duration) ==
  LET mine   == pdata[pidx[i]]
      better == duration < mine.best_time
      tab    == [pdata EXCEPT ![pidx[i]].best_time = duration]
  IN  /\ Handles(i)
      /\ won' = [won EXCEPT ![i] = @ \cup {duration}]
      /\ pdata' = IF better THEN tab ELSE pdata
      /\ out' = IF better
                THEN Broadcast(out, tab, PlayerMeta(tab[pidx[i]]), mine.id)
                ELSE out
      /\ UNCHANGED <<score, client_id, polled, pidx, overrun, network>>

SetName(i, name) ==
  LET tab == [pdata EXCEPT ![pidx[i]].name = name]
  IN  /\ Handles(i)
      /\ pdata' = tab
      /\ out' = Broadcast(out, tab, PlayerMeta(tab[pidx[i]]), tab[pidx[i]].id)
      /\ UNCHANGED <<score, client_id, polled, pidx, overrun, network, won>>

(* A goal counts when no other player is strictly closer to the ball.      *)
BeachballScored(i, who) ==
  LET mine    == pdata[pidx[i]]
      closer  == {p \in Valid(pdata) : pdata[p].id # i /\ pdata[p].distance < mine.distance}
      side    == IF who > 0 THEN 0 ELSE 1
      counted == [score EXCEPT ![side] = @ + 1]
  IN  /\ Handles(i)
      /\ IF closer = {}
         THEN /\ score[side] < MaxScore
              /\ score' = counted
              /\ out' = Write(out, Peers(pdata, NoOne) \cap reading,
                              <<Scored(who), Meta(counted)>>)
         ELSE UNCHANGED <<score, out>>
      /\ UNCHANGED <<table, client_id, overrun, network, won>>

(* Mutant: nobody is told of the reset.                                    *)
ResetUnannounced(i) ==
  /\ Handles(i)
  /\ score' = [side \in {0, 1} |-> 0]
  /\ UNCHANGED <<table, client_id, overrun, network, out, won>>

(* The reset falls through to UpdateBeachball: when at least 72 more bytes *)
(* of this client are in the buffer, they are passed on as a ball update.  *)
ResetBeachballScore(i) ==
  LET zero  == [side \in {0, 1} |-> 0]
      metas == Broadcast(out, pdata, Meta(zero), NoOne)
  IN  /\ Handles(i)
      /\ score' = zero
      /\ \/ out' = metas
         \/ out' = Broadcast(metas, pdata, BallUpdate, pdata[pidx[i]].id)
      /\ UNCHANGED <<table, client_id, overrun, network, won>>

UpdateBeachball(i) ==
  /\ Handles(i)
  /\ out' = Broadcast(out, pdata, BallUpdate, pdata[pidx[i]].id)
  /\ UNCHANGED <<table, score, client_id, overrun, network, won>>

(* Store the update and answer with the last one of every other player.    *)
Update(i, distance) ==
  /\ Handles(i)
  /\ pdata' = [pdata EXCEPT ![pidx[i]].distance = distance]
  /\ \E others \in InSlotOrder({p \in Valid(pdata) : pdata[p].id # i}) :
        out' = Write(out, {i} \cap reading,
                     [k \in 1 .. Len(others) |-> UpdatePlayer(pdata[others[k]].id)])
  /\ UNCHANGED <<score, client_id, polled, pidx, overrun, network, won>>

Handler(i) ==
  \/ "Emote" \in Sendable /\ Emote(i)
  \/ "BeatGame" \in Sendable /\ \E duration \in Durations : BeatGame(i, duration)
  \/ "SetName" \in Sendable /\ \E name \in Names : SetName(i, name)
  \/ "BeachballScored" \in Sendable /\ \E who \in {0, 1} : BeachballScored(i, who)
  \/ "ResetBeachballScore" \in Sendable /\ ResetBeachballScore(i)
  \/ "UpdateBeachball" \in Sendable /\ UpdateBeachball(i)
  \/ "Update" \in Sendable /\ \E distance \in Distances : Update(i, distance)

-----------------------------------------------------------------------------
(* The other ends of the sockets.                                          *)

(* The client reads its next message.                                      *)
ClientReads(i) ==
  /\ out[i] # << >>
  /\ out' = [out EXCEPT ![i] = Tail(@)]
  /\ UNCHANGED <<table, score, client_id, overrun, network, won>>

(* The client turns away from a socket without closing it: the server may  *)
(* never notice.                                                           *)
ClientForgets(i) ==
  /\ i \in reading \/ out[i] # << >>
  /\ reading' = reading \ {i}
  /\ out' = [out EXCEPT ![i] = << >>]
  /\ UNCHANGED <<table, score, client_id, overrun, hungup, won>>

(* The client's process ends or the network breaks the connection.  What   *)
(* the client sent before may still be handled, what it was sent be read.  *)
HangUp(i) ==
  /\ i \in polled \ hungup
  /\ hungup' = hungup \cup {i}
  /\ reading' = reading \ {i}
  /\ UNCHANGED <<table, score, client_id, overrun, out, won>>

Next ==
  \/ \E takes \in BOOLEAN : Accept(takes)
  \/ AcceptFull
  \/ \E i \in Id :
       \/ Disconnect(i)
       \/ Handler(i)
       \/ ClientReads(i)
       \/ ClientForgets(i)
       \/ HangUp(i)

Spec == Init /\ [][Next]_vars

-----------------------------------------------------------------------------
(* Properties.                                                             *)

(* The sessions and the valid slots are the same thing: each socket in the *)
(* poll set has, through UserData.pidx, a slot of its own that carries its *)
(* id, and each valid slot belongs to a socket in the poll set.  A slot    *)
(* that outlived its session would be broadcast to, and counted among the  *)
(* players near the ball, for ever (accept, lines 126-141; disconnect,     *)
(* lines 60-73).                                                           *)
SlotOwnership ==
  /\ \A i \in polled : pdata[pidx[i]].is_valid = 1 /\ pdata[pidx[i]].id = i
  /\ \A p \in Slot : pdata[p].is_valid = 1 =>
        pdata[p].id \in polled /\ pidx[pdata[p].id] = p

(* A slot changes its owner only while it is free: no handler that still   *)
(* holds the index of its slot finds another player there.                 *)
OwnerStays ==
  [][\A p \in Slot : pdata[p].is_valid = 1 /\ pdata'[p].is_valid = 1 =>
       pdata'[p].id = pdata[p].id]_vars

(* When a client reports a better duration than all it reported before,    *)
(* the server will "send a world update to other players" (line 233): each *)
(* of them is sent the new best_time.                                      *)
WinIsAnnounced ==
  [][\A i \in Id : \A duration \in won'[i] \ won[i] :
       (\A earlier \in won[i] : duration < earlier) =>
         \A j \in Peers(pdata, i) \cap reading :
           \E k \in DOMAIN out'[j] :
              /\ out'[j][k].kind = "PlayerMeta"
              /\ out'[j][k].id = i
              /\ out'[j][k].best_time = duration]_vars

-----------------------------------------------------------------------------
(* The inductive invariant behind SlotOwnership.                           *)

TableType ==
  /\ pdata \in [Slot -> PlayerData]
  /\ client_id \in 0 .. MaxClients
  /\ polled \subseteq Id
  /\ pidx \in [Id -> Slot]

(* Ids are handed out in order and never again.                            *)
IdsInOrder == \A i \in polled : i < client_id

IInv == TableType /\ IdsInOrder /\ SlotOwnership
=============================================================================
