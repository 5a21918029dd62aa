------------------------------ MODULE PollSet ------------------------------
(***************************************************************************)
(* What a poll set of tinycsocket.h promises to the program that owns it:  *)
(* a set of sockets, each with the user data it was registered with, and   *)
(* waits whose events are of sockets that are ready, each once and with    *)
(* its user data, as many as there is room for.                            *)
(***************************************************************************)
EXTENDS Integers, Sequences, FiniteSets

CONSTANTS
  Socket,        (* the sockets                                            *)
  User,          (* the user data                                          *)
  EventsLength   (* the room for events                                    *)

VARIABLES
  registered,    (* what is in the set: <<socket, user data>>              *)
  ready,         (* the sockets that the last wait found ready             *)
  events         (* the events not handled yet                             *)

vars == <<registered, ready, events>>

Sockets(set) == {r[1] : r \in set}

Init == registered = {} /\ ready = {} /\ events = <<>>

(* Of a socket that is not in the set.                                     *)
Register(s, u) ==
  /\ s \notin Sockets(registered)
  /\ registered' = registered \cup {<<s, u>>}
  /\ UNCHANGED <<ready, events>>

Unregister(s) == registered' = {r \in registered : r[1] # s}

(* Ready sockets are told of as far as there is room.                      *)
Told(es, set) ==
  /\ Len(es) = IF Cardinality(set) > EventsLength THEN EventsLength ELSE Cardinality(set)
  /\ \A i, j \in 1 .. Len(es) : i # j => es[i].socket # es[j].socket
  /\ \A i \in 1 .. Len(es) : es[i].socket \in set /\ <<es[i].socket, es[i].user>> \in registered

Wait ==
  /\ events = <<>>
  /\ ready' \subseteq Sockets(registered)
  /\ Told(events', ready')
  /\ UNCHANGED registered

(* The next event is handled; its socket may leave the set.                *)
Handle ==
  /\ events # <<>>
  /\ events' = Tail(events)
  /\ UNCHANGED registered \/ Unregister(Head(events).socket)
  /\ ready' = IF events' = <<>> THEN {} ELSE ready

(* The owner gives a socket up of its own accord.                          *)
GiveUp ==
  /\ events = <<>>
  /\ \E s \in Socket : Unregister(s)
  /\ UNCHANGED <<ready, events>>

Next ==
  \/ \E s \in Socket, u \in User : Register(s, u)
  \/ Wait \/ Handle \/ GiveUp

Spec == Init /\ [][Next]_vars
=============================================================================
