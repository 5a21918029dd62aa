-------------------------------- MODULE Mmo --------------------------------
(***************************************************************************)
(* The multiplayer session as a whole: the server (Server) with game       *)
(* clients at its sockets.  A client is handle_mmo of src/main.ks, run     *)
(* once per frame: it samples badcop.is_connected(), forgets the other     *)
(* players when the connection is new, and then polls messages until it is *)
(* given none.  The library under it (ClientRecv) hands out the messages   *)
(* of one socket in order, may say "none" while there are some, clears its *)
(* flag on errors and reconnects from inside a poll.                       *)
(*                                                                         *)
(* The server's writes are taken to be whole (ClientRecv says what happens *)
(* otherwise).  The time between two polls of one frame is less than       *)
(* RECONNECT_AFTER, so a reconnect is due only in a later frame.           *)
(***************************************************************************)
EXTENDS Server

CONSTANTS
  Client,    (* the game clients                                           *)
  NoSocket,  (* sock when the library has no connection                    *)
  Waiting    (* sock when the connection is not yet accepted               *)

ASSUME SockAssumption == NoSocket \notin Id /\ Waiting \notin Id /\ NoSocket # Waiting

VARIABLES
  sock,      (* the id under which the server knows the client's socket    *)
  connected, (* the library's flag                                         *)
  due,       (* RECONNECT_AFTER seconds have passed since it was cleared   *)
  phase,     (* "update" or, in the loop of handle_mmo, "drain"            *)
  sampled,   (* self.connected                                             *)
  others,    (* the keys of self.other_players                             *)
  shown,     (* self.server_meta.score                                     *)
  told       (* history: the score was sent on this socket and is shown    *)

library == <<sock, connected, due>>
game    == <<phase, sampled, others, shown, told>>
mvars   == <<vars, library, game>>

MmoTypeOK ==
  /\ TypeOK
  /\ sock \in [Client -> Id \cup {NoSocket, Waiting}]
  /\ connected \in [Client -> {0, 1}]
  /\ due \in [Client -> {0, 1}]
  /\ phase \in [Client -> {"update", "drain"}]
  /\ sampled \in [Client -> {0, 1}]
  /\ others \in [Client -> SUBSET Id]
  /\ shown \in [Client -> [{0, 1} -> 0 .. MaxScore]]
  /\ told \in [Client -> {0, 1}]

(* badcop.init runs before the game starts, and may fail.                  *)
MmoInit ==
  /\ Init
  /\ connected \in [Client -> {0, 1}]
  /\ sock = [c \in Client |-> IF connected[c] = 1 THEN Waiting ELSE NoSocket]
  /\ due = [c \in Client |-> 0]
  /\ phase = [c \in Client |-> "update"]
  /\ sampled = [c \in Client |-> 0]
  /\ others = [c \in Client |-> {}]
  /\ shown = [c \in Client |-> [side \in {0, 1} |-> 0]]
  /\ told = [c \in Client |-> 0]

-----------------------------------------------------------------------------
(* The server.  A socket it accepts belongs to a waiting client, or to one *)
(* that gave up meanwhile or plays another game.                           *)

ServerAccepts ==
  \/ \E c \in Client :
        /\ sock[c] = Waiting
        /\ Accept(TRUE)
        /\ sock' = [sock EXCEPT ![c] = client_id]
        /\ UNCHANGED <<connected, due, game>>
  \/ /\ Accept(FALSE)
     /\ UNCHANGED <<library, game>>

ServerStep ==
  /\ AcceptFull \/ \E i \in Id : Disconnect(i) \/ Handler(i) \/ HangUp(i)
  /\ UNCHANGED <<library, game>>

-----------------------------------------------------------------------------
(* The library under one client.                                           *)

(* _set_connected(0): the socket is never read again, nor closed.          *)
LosesConnection(c) ==
  /\ connected' = [connected EXCEPT ![c] = 0]
  /\ due' = [due EXCEPT ![c] = 0]
  /\ sock' = [sock EXCEPT ![c] = NoSocket]
  /\ reading' = reading \ {sock[c]}
  /\ out' = [i \in Id |-> IF i = sock[c] THEN << >> ELSE out[i]]
  /\ UNCHANGED <<table, score, client_id, overrun, hungup, won>>

(* Time passes between two frames.                                         *)
ReconnectGetsDue(c) ==
  /\ phase[c] = "update"
  /\ connected[c] = 0
  /\ due[c] = 0
  /\ due' = [due EXCEPT ![c] = 1]
  /\ UNCHANGED <<vars, sock, connected, game>>

(* One of the sends of a frame fails.                                      *)
SendFails(c) ==
  /\ phase[c] = "update"
  /\ connected[c] = 1
  /\ LosesConnection(c)
  /\ UNCHANGED game

-----------------------------------------------------------------------------
(* handle_mmo.                                                             *)

Sample(c) ==
  /\ phase[c] = "update"
  /\ phase' = [phase EXCEPT ![c] = "drain"]
  /\ sampled' = [sampled EXCEPT ![c] = connected[c]]
  /\ others' = IF connected[c] = 1 /\ sampled[c] = 0
               THEN [others EXCEPT ![c] = {}]
               ELSE others
  /\ UNCHANGED <<vars, library, shown, told>>

(* What the other players are after one more message.  PlayerMeta,         *)
(* UpdateBeachball and BeachballScored change nothing.                     *)
Roster(known, msg) ==
  CASE msg.kind = "Connected"    -> known \cup {msg.id}
    [] msg.kind = "Disconnected" -> known \ {msg.id}
    [] OTHER                     -> known

(* poll_message gives :Some msg.                                           *)
PollMessage(c) ==
  /\ phase[c] = "drain"
  /\ connected[c] = 1
  /\ sock[c] \in Id
  /\ out[sock[c]] # << >>
  /\ LET msg == Head(out[sock[c]])
     IN  /\ others' = [others EXCEPT ![c] = Roster(@, msg)]
         /\ IF msg.kind = "Meta"
            THEN /\ shown' = [shown EXCEPT ![c] = msg.score]
                 /\ told' = [told EXCEPT ![c] = 1]
            ELSE UNCHANGED <<shown, told>>
  /\ \/ ClientReads(sock[c]) /\ UNCHANGED library
     \/ sock[c] \in hungup /\ LosesConnection(c)
  /\ UNCHANGED <<phase, sampled>>

(* It gives :None and the loop ends.                                       *)
GivesNone(c) ==
  /\ phase[c] = "drain"
  /\ phase' = [phase EXCEPT ![c] = "update"]
  /\ UNCHANGED <<sampled, others, shown>>

(* Nothing was received, or it is not yet time to reconnect.               *)
PollNothing(c) ==
  /\ GivesNone(c)
  /\ UNCHANGED <<vars, library, told>>

(* The socket turns out to be dead.                                        *)
PollFails(c) ==
  /\ GivesNone(c)
  /\ connected[c] = 1
  /\ sock[c] \in hungup
  /\ LosesConnection(c)
  /\ UNCHANGED told

(* Mutant: the library reconnects at once, between two samples.            *)
PollReconnectAtOnce(c) ==
  /\ GivesNone(c)
  /\ connected[c] = 0
  /\ due' = [due EXCEPT ![c] = 0]
  /\ connected' = [connected EXCEPT ![c] = 1]
  /\ sock' = [sock EXCEPT ![c] = Waiting]
  /\ told' = [told EXCEPT ![c] = 0]
  /\ UNCHANGED vars

(* The library reconnects, or tries to.                                    *)
PollReconnect(c) ==
  /\ GivesNone(c)
  /\ connected[c] = 0
  /\ due[c] = 1
  /\ due' = [due EXCEPT ![c] = 0]
  /\ connected' = [connected EXCEPT ![c] = 1]
  /\ sock' = [sock EXCEPT ![c] = Waiting]
  /\ told' = [told EXCEPT ![c] = 0]
  /\ UNCHANGED vars

PollReconnectFails(c) ==
  /\ GivesNone(c)
  /\ connected[c] = 0
  /\ due[c] = 1
  /\ due' = [due EXCEPT ![c] = 0]
  /\ UNCHANGED <<vars, sock, connected, told>>

MmoNext ==
  \/ ServerAccepts
  \/ ServerStep
  \/ \E c \in Client :
       \/ ReconnectGetsDue(c)
       \/ SendFails(c)
       \/ Sample(c)
       \/ PollMessage(c)
       \/ PollNothing(c)
       \/ PollFails(c)
       \/ PollReconnect(c)
       \/ PollReconnectFails(c)

MmoSpec == MmoInit /\ [][MmoNext]_mvars

(* The server receives from every socket in turn and so finds the dead     *)
(* ones (strong, because the bound MaxLag can hold it up); the game runs   *)
(* frame after frame; the library delivers what has arrived and notices    *)
(* that its socket is dead (ClientRecv).                                   *)
ExpelsDead(i) == i \in hungup /\ Disconnect(i) /\ UNCHANGED <<library, game>>

MmoFairSpec ==
  /\ MmoSpec
  /\ \A i \in Id : SF_mvars(ExpelsDead(i))
  /\ \A c \in Client :
       /\ WF_mvars(Sample(c))
       /\ WF_mvars(PollNothing(c))
       /\ SF_mvars(PollMessage(c))
       /\ SF_mvars(PollFails(c))

-----------------------------------------------------------------------------
(* Properties.                                                             *)

(* The client has its present session with the server.                     *)
InSession(c) == sock[c] \in polled \cap reading

(* handle_mmo unwraps the player an UpdatePlayer is about (lines 885-888): *)
(* the game would panic on a player it does not know.                      *)
UpdatesAreOfKnownPlayers ==
  \A c \in Client :
    /\ phase[c] = "drain"
    /\ connected[c] = 1
    /\ sock[c] \in Id
    /\ out[sock[c]] # << >>
    /\ Head(out[sock[c]]).kind = "UpdatePlayer"
    => Head(out[sock[c]]).id \in others[c]

(* Whether player i is among the other players of a client that had `known' *)
(* and has handled the first n messages of the queue.                      *)
About(msg, kind, i) == msg.kind = kind /\ msg.id = i

Listed(i, known, queue, n) ==
  \/ \E k \in 1 .. n : /\ About(queue[k], "Connected", i)
                       /\ \A j \in k + 1 .. n : ~ About(queue[j], "Disconnected", i)
  \/ i \in known /\ \A j \in 1 .. n : ~ About(queue[j], "Disconnected", i)

(* The other players from which the messages on their way start: none on a *)
(* connection that is yet to be sampled.                                   *)
Base(c) == IF sampled[c] = 1 THEN others[c] ELSE {}

(* Once the messages on their way are handled, the other players of a      *)
(* client are the other sessions of the server: nobody is missing, no one  *)
(* who left is still shown.                                                *)
RosterAgrees ==
  \A c \in Client : InSession(c) =>
    LET queue == out[sock[c]]
    IN  \A i \in Id : Listed(i, Base(c), queue, Len(queue)) <=> i \in polled \ {sock[c]}

(* A client that was told the score on its present socket shows, once the  *)
(* messages on their way are handled, the score the server counts.         *)
NoMetaFrom(queue, n) == \A k \in n .. Len(queue) : queue[k].kind # "Meta"

ScoreAgrees ==
  \A c \in Client : InSession(c) =>
    LET queue == out[sock[c]]
    IN  /\ \A k \in 1 .. Len(queue) :
             queue[k].kind = "Meta" /\ NoMetaFrom(queue, k + 1) => queue[k].score = score
        /\ told[c] = 1 /\ NoMetaFrom(queue, 1) => shown[c] = score

(* When a player's connection is gone, every client that stays connected   *)
(* learns that the player left.                                            *)
DepartureIsSeen ==
  \A i \in Id, c \in Client :
    i \in hungup ~> (i \notin others[c] \/ connected[c] = 0)
=============================================================================
