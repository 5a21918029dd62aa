-------------------------------- MODULE Tcs --------------------------------
(***************************************************************************)
(* The sockets of one process: how the server (net/server.c) and the       *)
(* client library (net/client.h) open, poll and close them through         *)
(* tinycsocket.h, when the system refuses a call or has no memory left.    *)
(* The role of the process and the system it runs on are chosen at the     *)
(* start.  What is received and sent is the business of ServerRecv,        *)
(* ClientRecv and Server.                                                  *)
(*                                                                         *)
(* A new descriptor is the lowest that is free, as POSIX has it: a closed  *)
(* one is used again at once, which is when it matters that nothing refers *)
(* to it.                                                                  *)
(*                                                                         *)
(* sock is the socket that tcs_socket_tcp_str opens: listen_socket of the  *)
(* server, client_socket of the client.  A UserData block is in use as     *)
(* long as its slot of pdata is valid: sessions has both.  Closing an open *)
(* descriptor succeeds.                                                    *)
(***************************************************************************)
EXTENDS TcsPoll, TcsNative

CONSTANTS
  Socket,          (* the descriptors a process can have                   *)
  User,            (* the addresses of UserData blocks                     *)
  MaxConnections,  (* MAX_CONNECTIONS                                      *)
  MaxFaults        (* bound: calls that fail                               *)

ASSUME SocketAssumption ==
  /\ Socket \subseteq Nat /\ User \subseteq Nat
  /\ InvalidSocket \notin Socket /\ NoUser \notin User
  /\ MaxConnections \in Nat \ {0} /\ MaxFaults \in Nat

(* What the arrays of a poll set may hold.                                 *)
Cell == Socket \cup User \cup {NoUser, Zero} \cup [fd : Socket, events : SUBSET {"in", "out", "err"}]

(* The null pointer is not the address of a poll set.                      *)
ASSUME NoPollAssumption == NoPoll \notin PollSets(Cell)

VARIABLES
  role,       (* "server" or "client"                                      *)
  backend,    (* "posix" or "win32"                                        *)
  pc,         (* where the process is                                      *)
  open,       (* the open descriptors                                      *)
  sock,       (* listen_socket or client_socket                            *)
  poll,       (* the server's poll, the client's tcs_poll                  *)
  attempt,    (* the poll set tcs_socket_tcp connects with                 *)
  known,      (* the client has a saved_conn_str                           *)
  connected,  (* the client's flag                                         *)
  sessions,   (* the server's valid slots: <<socket, UserData>>            *)
  events,     (* the events of the last wait that are not handled yet      *)
  ready,      (* history: the sockets the wait at hand found ready         *)
  made,       (* history: the connections the client has made              *)
  faults,     (* how many calls have failed                                *)
  starved,    (* history: an allocation has failed                         *)
  corrupt     (* history: an entry could not be removed from the poll set  *)

(* What an attempt to open a socket leaves alone.                          *)
settled == <<role, backend, poll, known, connected, sessions, events, ready, corrupt>>
history == <<ready, made, faults, starved, corrupt>>
vars    == <<settled, pc, open, sock, attempt, made, faults, starved>>

(* What a call that makes a descriptor returns: the lowest one that is not *)
(* open, if there is any.                                                  *)
NewDescriptor == {s \in Socket \ open : \A t \in Socket \ open : s <= t}

(* What calloc may return: a free block that an entry of the poll set still *)
(* names or, as one stands for all of them, the first of the others.       *)
NewUser ==
  LET free  == User \ {r[2] : r \in sessions}
      named == free \cap {r[2] : r \in Registered(poll)}
      other == free \ named
  IN  named \cup {u \in other : \A v \in other : u <= v}

Length == IF role = "client" THEN 1 ELSE MaxConnections

TcsTypeOK ==
  /\ role \in {"server", "client"} /\ backend \in {"posix", "win32"}
  /\ open \subseteq Socket
  /\ sock \in open \cup {InvalidSocket}
  /\ sessions \subseteq Socket \X User
  /\ ready \subseteq Socket /\ made \subseteq Socket
  /\ {known, connected, starved, corrupt} \subseteq {0, 1}
  /\ faults \in 0 .. MaxFaults
  /\ Len(events) <= Length
  /\ \A p \in {poll, attempt} \ {NoPoll} :
        corrupt = 0 =>
          /\ p.map.count <= p.map.capacity
          /\ p.map.capacity <= Len(p.map.keys) /\ p.map.capacity <= Len(p.map.values)
          /\ Registered(p) \subseteq Socket \X (User \cup {NoUser})

Init ==
  /\ role \in {"server", "client"}
  /\ backend \in {"posix", "win32"}
  /\ pc = "start"
  /\ open = {} /\ sock = InvalidSocket
  /\ poll = NoPoll /\ attempt = NoPoll
  /\ known = 0 /\ connected = 0
  /\ sessions = {} /\ events = <<>>
  /\ ready = {} /\ made = {}
  /\ faults = 0 /\ starved = 0 /\ corrupt = 0

-----------------------------------------------------------------------------
(* What may fail.                                                          *)

Fault   == faults < MaxFaults /\ faults' = faults + 1 /\ UNCHANGED starved
NoFault == UNCHANGED <<faults, starved>>

(* Which of a call's allocations may fail, and what is left of a call in   *)
(* which some did to a purpose.                                            *)
FailingAllocations(of) == IF faults < MaxFaults THEN SUBSET of ELSE {{}}

Starves(some) == IF some THEN faults' = faults + 1 /\ starved' = 1 ELSE NoFault

(* What creating a poll set may give, and adding to one.                   *)
Created == {PollCreate(backend, bad).poll : bad \in FailingAllocations(Allocation(backend))}

Added(p, s, user, flags) ==
  {PollAdd(p, s, user, flags, bad) : bad \in FailingAllocations(Arrays(backend))}

(* Behaviour that the language does not define.                            *)
Undefined ==
  /\ pc' = "undefined"
  /\ UNCHANGED <<role, backend, open, sock, poll, attempt, known, connected, sessions, events,
                 ready, made, corrupt>>

(* tcs_socket_tcp_str gives up: the client goes on without a connection,   *)
(* the server's main returns.                                              *)
GivesUp == pc' = IF role = "client" THEN "idle" ELSE "stopped"

(* tcs_close of the socket being opened.                                   *)
CloseOut == open' = open \ {sock} /\ sock' = InvalidSocket

(* tcs_lib_init: WSAStartup may fail, sysconf may not.                     *)
LibInitFails == backend = "win32" /\ Fault

-----------------------------------------------------------------------------
(* Opening a socket: tcs_socket_tcp_str.                                   *)

(* tcs_address_resolve of the argument or of the saved address.            *)
Resolve ==
  /\ pc = "resolve"
  /\ \E says \in {"number", "addresses", "EAI_AGAIN", "EAI_NONAME", "EAI_MEMORY", "nothing"} :
       LET res == IF backend = "posix" THEN PosixResolve(says) ELSE Win32Resolve(says) IN
       IF res = "SUCCESS" THEN pc' = "socket" /\ NoFault ELSE GivesUp /\ Fault
  /\ UNCHANGED <<settled, open, sock, attempt, made>>

(* tcs_socket, which fails without a free descriptor, or for other reasons.*)
OpenSocket ==
  /\ pc = "socket"
  /\ \/ \E s \in NewDescriptor :
          /\ open' = open \cup {s}
          /\ sock' = s
          /\ pc' = IF role = "server" THEN "bind" ELSE "connect"
          /\ NoFault
     \/ /\ IF open = Socket THEN NoFault ELSE Fault
        /\ GivesUp
        /\ UNCHANGED <<open, sock>>
  /\ UNCHANGED <<settled, attempt, made>>

(* tcs_opt_reuse_address_set and tcs_bind.                                 *)
Bind ==
  /\ pc = "bind"
  /\ \/ pc' = "listen" /\ NoFault /\ UNCHANGED <<open, sock>>
     \/ GivesUp /\ Fault /\ CloseOut
  /\ UNCHANGED <<settled, attempt, made>>

(* tcs_opt_nonblocking_set and tcs_connect.  A connection that is refused  *)
(* is a fault, one that is pending is not.                                 *)
Connect ==
  /\ pc = "connect"
  /\ \/ GivesUp /\ Fault /\ CloseOut
     \/ \E says \in {"ok", Pending(backend), "ECONNREFUSED"} :
          LET res == IF backend = "posix" THEN PosixConnect(says) ELSE Win32Connect(says) IN
          /\ IF says = "ECONNREFUSED" THEN Fault ELSE NoFault
          /\ IF res = "SUCCESS" THEN pc' = "unblock" /\ UNCHANGED <<open, sock>>
             ELSE IF res = "IN_PROGRESS" THEN pc' = "poll" /\ UNCHANGED <<open, sock>>
             ELSE GivesUp /\ CloseOut
  /\ UNCHANGED <<settled, attempt, made>>

(* A poll set for this one connection.                                     *)
PollConnect ==
  /\ pc = "poll"
  /\ \E c \in Created : \E a \in Added(c, sock, NoUser, {"out"}) :
       LET fails == a.res # "SUCCESS" IN
           /\ Starves(fails)
           /\ IF fails THEN GivesUp /\ CloseOut /\ UNCHANGED attempt
              ELSE pc' = "await" /\ attempt' = a.poll /\ UNCHANGED <<open, sock>>
  /\ UNCHANGED <<settled, made>>

(* Mutant: a connection that is not made in time is left open.             *)
AwaitConnectLeft ==
  /\ pc = "await"
  /\ \E cond \in {{}, {"out"}, {"out", "err", "hup"}, {"err"}}, interrupted \in {TRUE, FALSE} :
       LET w == PollWait(attempt, [s \in {sock} |-> cond], 1, interrupted) IN
       IF w.res = "SUCCESS" /\ w.events[1].error = 0
       THEN pc' = "unblock" /\ NoFault /\ UNCHANGED <<open, sock>>
       ELSE IF w.res = "TIMED_OUT" THEN GivesUp /\ Fault /\ UNCHANGED <<open, sock>>
       ELSE GivesUp /\ Fault /\ CloseOut
  /\ attempt' = PollDestroy(attempt)
  /\ UNCHANGED <<settled, made>>

(* tcs_poll_wait for at most timeout_ms, and tcs_poll_destroy: without the *)
(* event in time, or with an error in it, there is no connection.          *)
AwaitConnect ==
  /\ pc = "await"
  /\ \E cond \in {{}, {"out"}, {"out", "err", "hup"}, {"err"}}, interrupted \in {TRUE, FALSE} :
       LET w == PollWait(attempt, [s \in {sock} |-> cond], 1, interrupted) IN
       IF w.res = "SUCCESS" /\ w.events[1].error = 0
       THEN pc' = "unblock" /\ NoFault /\ UNCHANGED <<open, sock>>
       ELSE GivesUp /\ Fault /\ CloseOut
  /\ attempt' = PollDestroy(attempt)
  /\ UNCHANGED <<settled, made>>

(* tcs_opt_nonblocking_set(false), the end of tcs_socket_tcp: badcop_init  *)
(* sets the flag and adds the socket to its poll set, and does not look at *)
(* whether that succeeds.                                                  *)
Joins ==
  /\ pc = "unblock"
  /\ \/ /\ GivesUp /\ Fault /\ CloseOut
        /\ UNCHANGED <<poll, connected, made>>
     \/ /\ pc' = "idle"
        /\ connected' = 1
        /\ made' = made \cup {sock}
        /\ \E a \in Added(poll, sock, NoUser, {"in"}) :
             poll' = a.poll /\ Starves(a.res = "MEMORY")
        /\ UNCHANGED <<open, sock>>
  /\ UNCHANGED <<role, backend, known, sessions, events, ready, corrupt, attempt>>

(* What tcs_receive may return for a socket that was ready.                *)
ReceiveResults ==
  {IF backend = "posix" THEN PosixReceive(says) ELSE Win32Receive(says) :
     says \in {"bytes", "end", "ECONNRESET"}}

-----------------------------------------------------------------------------
(* The client (net/client.h).                                              *)

(* Mutant: the old socket stays in the poll set.                           *)
BadcopInitStillPolled ==
  /\ role = "client"
  /\ pc = "start" \/ (pc = "idle" /\ connected = 0)
  /\ known' = 1 /\ connected' = 0 /\ sock' = InvalidSocket
  /\ IF known = 0 THEN poll' = PollCreate(backend, {}).poll ELSE UNCHANGED poll
  /\ pc' = "resolve"
  /\ UNCHANGED <<role, backend, open, attempt, sessions, events, history>>

(* badcop_init, first by the game and then by badcop_poll_msg, when        *)
(* RECONNECT_AFTER seconds have passed.  client_socket is forgotten, not   *)
(* closed.                                                                 *)
BadcopInit ==
  /\ role = "client"
  /\ pc = "start" \/ (pc = "idle" /\ connected = 0)
  /\ known' = 1 /\ connected' = 0 /\ sock' = InvalidSocket
  /\ LET Poll(b) == IF known = 0 THEN PollCreate(backend, b) ELSE PollRemove(poll, sock, b)
         all     == Poll({}).poll
     IN  \E bad \in FailingAllocations(Allocation(backend)) :
           /\ poll' = Poll(bad).poll
           /\ corrupt' = IF known = 1 /\ StillThere(poll, poll', sock) THEN 1 ELSE corrupt
           /\ \/ pc' = "resolve" /\ Starves(poll' # all)
              \/ pc' = "idle" /\ poll' = all /\ LibInitFails
  /\ UNCHANGED <<role, backend, open, attempt, sessions, events, ready, made>>

(* A message can not be sent.                                              *)
SendFails ==
  /\ role = "client" /\ pc = "idle" /\ connected = 1
  /\ connected' = 0
  /\ UNCHANGED <<role, backend, pc, open, sock, poll, attempt, known, sessions, events, history>>

(* _recv_next: tcs_receive from client_socket, whatever the event is of.   *)
(* Anything but bytes - the end of the connection too - is taken for its   *)
(* loss, and so is an error in the event.                                  *)
ClientHandles ==
  /\ role = "client" /\ pc = "handle"
  /\ \E res \in ReceiveResults :
       LET e == Head(events) IN
       connected' = IF e.error = 1 \/ (e.can_read = 1 /\ res # "SUCCESS") THEN 0 ELSE connected
  /\ events' = Tail(events)
  /\ ready' = {}
  /\ pc' = "idle"
  /\ UNCHANGED <<role, backend, open, sock, poll, attempt, known, sessions, made, faults, starved,
                 corrupt>>

-----------------------------------------------------------------------------
(* The server (net/server.c).                                              *)

ServerStarts ==
  /\ role = "server" /\ pc = "start"
  /\ \/ pc' = "resolve" /\ NoFault
     \/ pc' = "stopped" /\ LibInitFails
  /\ UNCHANGED <<settled, open, sock, attempt, made>>

(* tcs_listen, and tcs_poll_create, whose result is not looked at.         *)
Listens ==
  /\ pc = "listen"
  /\ \/ pc' = "stopped" /\ Fault /\ UNCHANGED poll
     \/ /\ pc' = "accept"
        /\ \E p \in Created : poll' = p /\ Starves(p = NoPoll)
  /\ UNCHANGED <<role, backend, open, sock, attempt, known, connected, sessions, events, ready,
                 made, corrupt>>

(* tcs_accept finds nobody, or fails.                                      *)
AcceptsNobody ==
  /\ role = "server" /\ pc = "accept"
  /\ pc' = "wait"
  /\ UNCHANGED <<settled, open, sock, attempt, made, faults, starved>>

(* A new connection gets a UserData and a slot, and is polled: what        *)
(* tcs_poll_add says is not looked at.  Bound: once an entry is left in the *)
(* poll set that could not be removed, no more connections are accepted.   *)
Accept ==
  /\ role = "server" /\ pc = "accept"
  /\ Cardinality(sessions) < MaxConnections /\ corrupt = 0
  /\ ~ Broken(poll)
  /\ \E s \in NewDescriptor, u \in NewUser :
     \E a \in Added(poll, s, u, {"in"}) :
       /\ open' = open \cup {s}
       /\ sessions' = sessions \cup {<<s, u>>}
       /\ poll' = a.poll
       /\ Starves(a.res = "MEMORY")
  /\ pc' = "wait"
  /\ UNCHANGED <<role, backend, sock, attempt, known, connected, events, ready, made, corrupt>>

(* calloc fails, and the id is written to the null pointer; or every slot  *)
(* is taken, and the connection is written behind pdata; or the poll set   *)
(* that it is added to holds less than it counts.                          *)
AcceptsUndefined ==
  /\ role = "server" /\ pc = "accept" /\ open # Socket
  /\ \/ faults < MaxFaults /\ faults' = faults + 1 /\ starved' = 1
     \/ Cardinality(sessions) = MaxConnections /\ NoFault
     \/ Broken(poll) /\ NoFault
  /\ Undefined

(* Mutant: the socket is closed and its UserData freed, but still polled.  *)
DisconnectStillPolled(e) ==
  /\ open' = open \ {e.socket}
  /\ sessions' = {r \in sessions : r[2] # e.user}
  /\ UNCHANGED <<poll, corrupt, faults, starved>>

(* disconnect(): tcs_poll_remove, whose result is not looked at, and       *)
(* tcs_close; the slot is given up and the UserData freed.                 *)
Disconnect(e) ==
  /\ open' = open \ {e.socket}
  /\ sessions' = {r \in sessions : r[2] # e.user}
  /\ LET all == PollRemove(poll, e.socket, {}).poll IN
     \E bad \in FailingAllocations(Arrays(backend)) :
        /\ poll' = PollRemove(poll, e.socket, bad).poll
        /\ corrupt' = IF StillThere(poll, poll', e.socket) THEN 1 ELSE corrupt
        /\ Starves(poll' # all)

EventHandled ==
  /\ events' = Tail(events)
  /\ ready' = IF events' = <<>> THEN {} ELSE ready
  /\ UNCHANGED <<role, backend, sock, attempt, known, connected, made>>

(* There are bytes to read for a session.                                  *)
FromSession(e) == e.can_read = 1 /\ \E r \in sessions : r[2] = e.user

(* An event that is not readable is passed over; a receive that gives no   *)
(* bytes - the end of the connection too - is a disconnect.                *)
ServerHandles ==
  /\ role = "server" /\ pc = "handle"
  /\ LET e == Head(events) IN
     \/ FromSession(e) /\ ~ Broken(poll) /\ Disconnect(e)
     \/ /\ e.can_read = 1 => FromSession(e)
        /\ UNCHANGED <<open, sessions, poll, corrupt, faults, starved>>
  /\ EventHandled
  /\ pc' = IF events' = <<>> THEN "accept" ELSE "handle"

(* What has been received is no message: the default branch disconnects,   *)
(* and what follows the loop uses the UserData that is freed (line 360).   *)
(* That it goes well is in ServerHandles.                                  *)
ServerExpels ==
  /\ role = "server" /\ pc = "handle"
  /\ LET e == Head(events) IN FromSession(e) /\ ~ Broken(poll) /\ Disconnect(e)
  /\ EventHandled
  /\ pc' = "undefined"

(* The UserData of the event has been freed, or the poll set is broken.    *)
ServerUsesFreed ==
  /\ role = "server" /\ pc = "handle"
  /\ LET e == Head(events) IN
     e.can_read = 1 /\ (Broken(poll) \/ \A r \in sessions : r[2] # e.user)
  /\ Undefined /\ NoFault

-----------------------------------------------------------------------------
(* tcs_poll_wait(poll, ev, ...) of either.                                 *)

(* What may have happened to a socket that is polled for reading.          *)
Conditions == {{}, {"in"}, {"in", "err", "hup"}, {"err"}}

(* The registered sockets the kernel has something to say of.              *)
ReadyOf(cond) ==
  {s \in {r[1] : r \in Registered(poll)} : s \in DOMAIN cond => cond[s] # {}}

Waits ==
  /\ pc = "wait" \/ (role = "client" /\ pc = "idle" /\ connected = 1)
  /\ poll # NoPoll /\ ~ Broken(poll)
  /\ \E interrupted \in {TRUE, FALSE} :
     \E c \in [open \cap {r[1] : r \in Registered(poll)} -> IF interrupted THEN {{}} ELSE Conditions] :
       LET cond == [s \in open |-> IF s \in DOMAIN c THEN c[s] ELSE {}]
           w    == PollWait(poll, cond, Length, interrupted)
       IN  /\ events' = w.events
           /\ ready' = IF w.res = "UNKNOWN" THEN {} ELSE ReadyOf(cond)
           /\ pc' = IF w.events # <<>> THEN "handle" ELSE IF role = "client" THEN "idle" ELSE "accept"
  /\ UNCHANGED <<role, backend, open, sock, poll, attempt, known, connected, sessions, made, faults,
                 starved, corrupt>>

(* Without a poll set, or without the memory for the sets of select(),     *)
(* `events` keeps what was on the stack.                                   *)
EventsUnset ==
  IF poll = NoPoll THEN NoFault
  ELSE CopiesToHeap(poll) /\ faults < MaxFaults /\ faults' = faults + 1 /\ starved' = 1

(* If that is 0, nothing happens.  (The client has a single socket, and    *)
(* without a poll set its ev is 0 everywhere: nothing happens either.)     *)
WaitsForNothing ==
  /\ pc = "wait" /\ EventsUnset
  /\ pc' = "accept"
  /\ UNCHANGED <<settled, open, sock, attempt, made>>

WaitsUndefined ==
  /\ pc = "wait"
  /\ EventsUnset \/ (Broken(poll) /\ NoFault)
  /\ Undefined

-----------------------------------------------------------------------------
Next ==
  \/ Resolve \/ OpenSocket \/ Bind \/ Connect \/ PollConnect \/ AwaitConnect \/ Joins
  \/ BadcopInit \/ SendFails \/ ClientHandles
  \/ ServerStarts \/ Listens \/ AcceptsNobody \/ Accept \/ AcceptsUndefined
  \/ ServerHandles \/ ServerExpels \/ ServerUsesFreed
  \/ Waits \/ WaitsForNothing \/ WaitsUndefined

Spec == Init /\ [][Next]_vars

(* The process goes on: the game draws frames, and the server's loop has   *)
(* no end.                                                                 *)
FairSpec == Spec /\ WF_vars(Next)

-----------------------------------------------------------------------------
(* The process does what the language does not define only after a failed  *)
(* allocation (lines 104, 126, 177 and 184 of server.c use results they do *)
(* not look at), with a connection too many (lines 131-141), or when it    *)
(* goes on with the very session that it is throwing out (lines 353-371):  *)
(* no event is handled for a UserData that an earlier step has freed.      *)
UndefinedHasReason ==
  [][ pc' = "undefined" =>
        \/ starved' = 1
        \/ pc = "accept" /\ Cardinality(sessions) = MaxConnections
        \/ pc = "handle" /\ \E r \in sessions \ sessions' : r[2] = Head(events).user ]_vars

(* In the client every open descriptor is that of a connection that was    *)
(* made: an attempt that fails leaves nothing open, and no poll set.       *)
ClientAccountedFor ==
  role = "client" =>
    /\ attempt # NoPoll => pc = "await"
    /\ pc = "idle" =>
         /\ open = made
         /\ connected = 1 => sock \in made

(* In the server it is the listening socket or that of a session.  An      *)
(* entry that could not be removed may end the wrong session, when its     *)
(* UserData is used again.                                                 *)
ServerAccountedFor ==
  role = "server" =>
    /\ pc = "stopped" => open = {sock} \ {InvalidSocket}
    /\ pc \in {"accept", "wait", "handle"} /\ corrupt = 0 =>
         open = {sock} \cup {r[1] : r \in sessions}

(* Between two steps of the program every open descriptor has an owner     *)
(* (tinycsocket.h:6287, net/client.h:285, net/server.c:60).                *)
DescriptorsAccountedFor == ClientAccountedFor /\ ServerAccountedFor

(* As long as there is memory, what is polled is what is served: each      *)
(* session with its UserData, or the client's connection and none of those *)
(* before it.                                                              *)
SessionsArePolled ==
  starved = 0 =>
    /\ pc \in {"accept", "wait", "handle"} /\ role = "server" => Registered(poll) = sessions
    /\ pc = "idle" /\ connected = 1 => Registered(poll) = {<<sock, NoUser>>}

(* Both systems' poll sets do what PollSet promises, whatever allocations  *)
(* fail, as long as no entry is left that could not be removed.            *)
Set == INSTANCE PollSet WITH
  registered <- Registered(poll), EventsLength <- MaxConnections, User <- User \cup {NoUser}

ImplementsPollSet == Set!Init /\ [][corrupt' = 0 => Set!Next]_(Set!vars)

(* A client without a connection tries again until it has one, or has no   *)
(* descriptors left: it does not close the sockets it replaces             *)
(* (client.h:296).                                                         *)
ConnectsOrRunsOut ==
  (role = "client" /\ connected = 0) ~> (connected = 1 \/ open = Socket)
=============================================================================
