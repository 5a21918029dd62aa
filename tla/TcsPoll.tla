------------------------------ MODULE TcsPoll -------------------------------
(***************************************************************************)
(* The poll sets of tinycsocket.h, on its two systems: "posix" calls       *)
(* poll() on the keys of one map, "win32" calls select() on three lists    *)
(* and looks the user data up in a map.                                    *)
(*                                                                         *)
(* bad is the set of the allocations that fail.  What the kernel finds is  *)
(* a condition for every socket: a subset of in, out, err, hup and, for a  *)
(* descriptor that is not open, nval.                                      *)
(***************************************************************************)
EXTENDS TdsMap, FiniteSets, Functions

CONSTANTS
  NoPoll,          (* the null pointer to a poll set                       *)
  InvalidSocket,   (* TCS_SOCKET_INVALID                                   *)
  NoUser,          (* the null pointer as user_data                        *)
  FdSetSize        (* FD_SETSIZE                                           *)

Lists == {"read", "write", "error"}

(* The poll sets whose arrays have elements of a set: a map, and on Windows *)
(* the three lists.                                                        *)
PollSets(cells) ==
  LET lists == [data : Seq(cells), count : Nat, capacity : Nat]
      maps  == [keys : Seq(cells), values : Seq(cells), count : Nat, capacity : Nat]
  IN  [backend : {"posix"}, map : maps]
        \cup [backend : {"win32"}, map : maps, read : lists, write : lists, error : lists]

(* What is allocated for a poll set: itself and its arrays.                *)
Arrays(backend)     == {"keys", "values"} \cup (IF backend = "posix" THEN {} ELSE Lists)
Allocation(backend) == {"poll"} \cup Arrays(backend)

Socks(l) == SubSeq(l.data, 1, l.count)

(* The descriptor of an entry: a pollfd has its events beside it.          *)
KeyFd(p, i) == IF p.backend = "posix" THEN p.map.keys[i].fd ELSE p.map.keys[i]

(* Where the socket is first in a list of sockets, or 0.                   *)
FirstOf(socks, socket) ==
  LET at == {i \in DOMAIN socks : socks[i] = socket} IN
  IF at = {} THEN 0 ELSE CHOOSE i \in at : \A j \in at : i <= j

PlaceOf(p, socket) == FirstOf([i \in 1 .. p.map.count |-> KeyFd(p, i)], socket)

(* The positions in a set, in their order.                                 *)
InOrder(set) ==
  CHOOSE f \in [1 .. Cardinality(set) -> set] :
    \A i, j \in 1 .. Cardinality(set) : i < j => f[i] < f[j]

(* What is registered: the sockets with their user data.                   *)
Registered(p) ==
  IF p = NoPoll THEN {} ELSE {<<KeyFd(p, i), p.map.values[i]>> : i \in 1 .. p.map.count}

Broken(p) == p # NoPoll /\ Damaged(p.map)

-----------------------------------------------------------------------------
(* Two results: the poll set that is left, and a TcsResult.                *)
Gives(p, res) == [poll |-> p, res |-> res]

(* tcs_poll_destroy of a set that is there, which can not fail.            *)
PosixDestroy(p) == NoPoll
Win32Destroy(p) == NoPoll

PollDestroy(p) == IF p.backend = "posix" THEN PosixDestroy(p) ELSE Win32Destroy(p)

PosixCreate(bad) ==
  LET m == MapCreate(bad) IN
  IF "poll" \in bad \/ m.sts # 0 THEN Gives(NoPoll, "MEMORY")
  ELSE Gives([backend |-> "posix", map |-> m.map], "SUCCESS")

Win32Create(bad) ==
  LET m == MapCreate(bad)
      l == [a \in Lists |-> UListCreate(a \notin bad)]
      p == [backend |-> "win32", map |-> m.map,
            read |-> l["read"].list, write |-> l["write"].list, error |-> l["error"].list]
  IN  IF "poll" \in bad THEN Gives(NoPoll, "MEMORY")
      ELSE IF m.sts # 0 \/ \E a \in Lists : l[a].sts # 0 THEN Gives(Win32Destroy(p), "MEMORY")
      ELSE Gives(p, "SUCCESS")

PollCreate(backend, bad) ==
  IF backend = "posix" THEN PosixCreate(bad) ELSE Win32Create(bad)

-----------------------------------------------------------------------------
(* flags is a subset of in and out; errors are always asked for.           *)
PosixAdd(p, socket, user, flags, bad) ==
  LET m == MapAdd(p.map, [fd |-> socket, events |-> flags \cup {"err"}], user, bad) IN
  Gives([p EXCEPT !.map = m.map], IF m.sts = 0 THEN "SUCCESS" ELSE "MEMORY")

(* An entry whose lists can not be completed is taken back, whether that   *)
(* succeeds or not.                                                        *)
Win32Add(p, socket, user, flags, bad) ==
  LET m     == MapAdd(p.map, socket, user, bad)
      asked == {"error"} \cup {a \in {"read"} : "in" \in flags} \cup {a \in {"write"} : "out" \in flags}
      l     == [a \in Lists |-> IF a \in asked THEN UListAdd(p[a], socket, a \notin bad) ELSE Done(p[a])]
      undo  == MapRemove(m.map, m.map.count, bad)
      Back(a) == IF l[a].list.count > p[a].count
                 THEN UListRemove(l[a].list, l[a].list.count, a \notin bad).list ELSE p[a]
  IN  IF m.sts # 0 THEN Gives([p EXCEPT !.map = m.map], "MEMORY")
      ELSE IF \E a \in Lists : l[a].sts # 0
      THEN Gives([p EXCEPT !.map = undo.map,
                           !.error = Back("error"),
                           !.read = IF l["error"].sts = 0 THEN Back("read") ELSE @], "MEMORY")
      ELSE Gives([p EXCEPT !.map = m.map, !.read = l["read"].list,
                           !.write = l["write"].list, !.error = l["error"].list], "SUCCESS")

PollAdd(p, socket, user, flags, bad) ==
  IF p = NoPoll \/ socket = InvalidSocket THEN Gives(p, "INVALID_ARGUMENT")
  ELSE IF p.backend = "posix" THEN PosixAdd(p, socket, user, flags, bad)
  ELSE Win32Add(p, socket, user, flags, bad)

-----------------------------------------------------------------------------
PosixRemove(p, socket, bad) ==
  LET i == PlaceOf(p, socket)
      m == MapRemove(p.map, i, bad)
  IN  IF i = 0 THEN Gives(p, "INVALID_ARGUMENT")
      ELSE Gives([p EXCEPT !.map = m.map], IF m.sts = 0 THEN "SUCCESS" ELSE "MEMORY")

(* Each list and the map by itself; what their removals return is ignored. *)
Win32Remove(p, socket, bad) ==
  LET at    == [a \in Lists |-> FirstOf(Socks(p[a]), socket)]
      l(a)  == IF at[a] = 0 THEN p[a] ELSE UListRemove(p[a], at[a], a \notin bad).list
      i     == PlaceOf(p, socket)
      m     == IF i = 0 THEN p.map ELSE MapRemove(p.map, i, bad).map
  IN  Gives([p EXCEPT !.map = m, !.read = l("read"), !.write = l("write"), !.error = l("error")],
            IF i = 0 /\ \A a \in Lists : at[a] = 0 THEN "INVALID_ARGUMENT" ELSE "SUCCESS")

PollRemove(p, socket, bad) ==
  IF p = NoPoll \/ socket = InvalidSocket THEN Gives(p, "INVALID_ARGUMENT")
  ELSE IF p.backend = "posix" THEN PosixRemove(p, socket, bad)
  ELSE Win32Remove(p, socket, bad)

(* The socket was registered and its entry could not be removed.           *)
StillThere(p, q, socket) ==
  /\ \E r \in Registered(p) : r[1] = socket
  /\ q.map.count = p.map.count

-----------------------------------------------------------------------------
(* tcs_poll_wait.                                                          *)

NoEvent == [socket |-> InvalidSocket, user |-> NoUser, can_read |-> 0, can_write |-> 0, error |-> 0]

Has(x, set) == IF x \in set THEN 1 ELSE 0

(* The condition of a descriptor: that of a closed one is nval.            *)
CondOf(cond, socket) == IF socket \in DOMAIN cond THEN cond[socket] ELSE {"nval"}

(* poll() reports what was asked for and, asked or not, err, hup and nval. *)
Revents(key, cond) == CondOf(cond, key.fd) \cap (key.events \cup {"err", "hup", "nval"})

PosixEvent(p, i, cond) ==
  LET r == Revents(p.map.keys[i], cond) IN
  [ socket    |-> p.map.keys[i].fd,
    user      |-> p.map.values[i],
    can_read  |-> Has("in", r),
    can_write |-> Has("out", r),
    error     |-> IF r \cap {"err", "hup"} # {} THEN 1 ELSE 0 ]

(* The first of the reported entries, in the order of the map.             *)
PosixEvents(p, cond, length) ==
  LET hit == InOrder({i \in 1 .. p.map.count : Revents(p.map.keys[i], cond) # {}})
      n   == IF Len(hit) > length THEN length ELSE Len(hit)
  IN  [j \in 1 .. n |-> PosixEvent(p, hit[j], cond)]

(* select() finds the sockets of a list that have the condition; it fails  *)
(* without a socket, or with one that is not open.                         *)
SelectFails(p, cond) ==
  LET asked == UNION {Range(Socks(p[a])) : a \in Lists} IN
  asked = {} \/ ~ asked \subseteq DOMAIN cond

Selected(p, a, cond) ==
  LET of    == [read |-> {"in", "hup"}, write |-> {"out"}, error |-> {"err"}]
      socks == Socks(p[a])
      hit   == InOrder({i \in DOMAIN socks : cond[socks[i]] \cap of[a] # {}})
  IN  [j \in DOMAIN hit |-> socks[hit[j]]]

UserOf(p, socket) ==
  LET i == PlaceOf(p, socket) IN
  IF i = 0 THEN NoUser ELSE p.map.values[i]

EventFor(p, socket) == [NoEvent EXCEPT !.socket = socket, !.user = UserOf(p, socket)]

ReadPass(p, cond, length) ==
  LET found == Selected(p, "read", cond)
      n     == IF Len(found) > length THEN length ELSE Len(found)
  IN  [j \in 1 .. n |-> [EventFor(p, found[j]) EXCEPT !.can_read = 1]]

(* Mutant: what else is found of a socket is an event of its own.          *)
MarkApart(p, events, socket, length, what) ==
  IF Len(events) >= length THEN events
  ELSE Append(events, [EventFor(p, socket) EXCEPT ![what] = 1])

(* The field is set in the socket's event, or in a new one; once there are *)
(* enough events, in none.                                                 *)
Mark(p, events, socket, length, what) ==
  LET m == FirstOf([i \in DOMAIN events |-> events[i].socket], socket) IN
  IF Len(events) >= length THEN events
  ELSE IF m # 0 THEN [events EXCEPT ![m] = [@ EXCEPT ![what] = 1]]
  ELSE Append(events, [EventFor(p, socket) EXCEPT ![what] = 1])

(* One after the other.                                                    *)
MarkAll(p, events, socks, length, what) ==
  LET upTo[n \in Nat] ==
        IF n = 0 THEN events ELSE Mark(p, upTo[n - 1], socks[n], length, what)
  IN  upTo[Len(socks)]

WritePass(p, cond, length, events) ==
  MarkAll(p, events, Selected(p, "write", cond), length, "can_write")

ErrorPass(p, cond, length, events) ==
  MarkAll(p, events, Selected(p, "error", cond), length, "error")

Win32Events(p, cond, length) ==
  ErrorPass(p, cond, length, WritePass(p, cond, length, ReadPass(p, cond, length)))

(* A list that does not fit in an fd_set is copied to the heap: if that    *)
(* fails, the number of events is not set.                                 *)
CopiesToHeap(p) == p.backend = "win32" /\ \E a \in Lists : p[a].count > FdSetSize

(* cond is a function of the open sockets; a wait that is interrupted, or  *)
(* that fails, has no events.                                              *)
PollWait(p, cond, length, interrupted) ==
  LET es == IF p.backend = "posix" THEN PosixEvents(p, cond, length) ELSE Win32Events(p, cond, length)
      fails == interrupted \/ (p.backend = "win32" /\ SelectFails(p, cond))
  IN  IF fails THEN [events |-> <<>>, res |-> "UNKNOWN"]
      ELSE [events |-> es, res |-> IF es = <<>> THEN "TIMED_OUT" ELSE "SUCCESS"]
=============================================================================
