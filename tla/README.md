# Scale to Space: a TLA+ verification project

Scale to Space is a 3D platform game: a ball rolls up a mountain to the finish,
on its own or in a session with other players, who see each other, exchange
emotes and play beach volleyball. The game is written in Kast (`src/src/*.ks`);
its network library (`src/net/client.h`) and its server (`src/net/server.c`)
are C. This directory holds TLA+ modules translated from that source, TLC
configurations that check them on small instances, and proofs checked by TLAPS.

Line numbers here and in the modules refer to the source at this commit.

## The system

| Component | State | Operations | Interacts with |
|---|---|---|---|
| Server receive path (`server.c` 183-372) | per session: `UserData.buf`, `start`, `end` | poll, receive, take whole messages, compact the buffer, drop the session | client library (bytes), handlers (calls) |
| Server sessions (`server.c` 27-181, 206-349) | `pdata`, `meta.score`, `client_id`, the poll set with `UserData.pidx` | accept and greet, disconnect, seven message handlers, broadcasts | all clients |
| Client library (`client.h`) | `connected`, `disconnected_at`, the static `user` buffer, the socket | `badcop_poll_msg`, the sends, `badcop_init` | server, game |
| Multiplayer session (`main.ks` 843-918) | `connected`, `other_players`, `server_meta` | `send_update`, `handle_mmo` | client library through `bindings.ks` |
| Run of the game (`main.ks` 624-636, 1440-1721, 1722-1840) | `timer`, `dead`, `dead_timer`, `cheated`, `jetpack_enabled`, `dragon_scales`, `player.power`, `power_index` | a frame (`update`), key presses, `restart` | physics, server (`beat_game`) |
| Physics (`main.ks` 104-335, 642-842; `collisions.ks`) | position, velocity, rotation, shell radius; `Mesh.chunks`; `next_physics` | input, sub-steps, collision search and response | level meshes |
| Beachball (`main.ks` 545-568, 1638-1720) | `old`, `current`, `new`, `lerp`, `scoring` | touch, cross the net, score | server |
| Other players (`other_player.ks`) | `Interpolated` values | `update_net`, `update` | multiplayer session |
| Assets, models, JSON, configuration | loaded once | load, parse | everything, read-only |
| Rendering, audio, user interface | GPU and mixer state | draw, play | output only |
| tinycsocket (`tinycsocket.h`) | sockets, poll sets, the arrays and maps under them | open with a deadline, poll, send, receive, close | vendored; server and client library (calls), two operating systems |
| blend-parser (`blend.c`, `main.c`) | blocks and DNA of a Blender file, the path of an object, the configuration of the bindings | load, find blocks, navigate, dump, generate bindings, free | a tool of its own, not part of the running game |

There are three kinds of process: one server, single-threaded, that polls its
listening socket and its sessions in turn; a game per player, single-threaded,
that runs frame after frame and polls the network once a frame; and the
network between them, which cuts the byte streams where it likes and breaks
them when it likes. What is hard about it:

* **Framing.** A message is a 4-byte tag and a packed body whose length only the
  tag says. Both receivers keep a byte buffer across receives, shift it, and
  must never lose the boundary. There is no way to find it again.
* **Writes that are cut.** All sockets are nonblocking and both sides send with
  `TCS_MSG_SENDALL`, which gives up in the middle of a message when the kernel's
  buffer is full. The server ignores the result (`server.c` 43).
* **Slots and sessions.** A session holds an index into `pdata`; slots are
  reused; broadcasts go by slot.
* **Reconnects.** The library clears a flag on any error, deep inside a send or
  a poll, and connects again from inside a later poll. The game notices by
  sampling the flag once a frame, and unwraps players it believes to know.
* **Frames against events.** Keys are handled between frames, checks are made
  once a frame, motion in sub-steps. What a run's result says depends on the
  order of eight checks in `update`.
* **Space cut into chunks.** Collision search must not lose a face.
* **Calls that fail.** Opening a socket takes eight calls, each with something
  to undo; poll sets allocate as they grow and shrink; server and client ignore
  most of what the calls say.
* **Events of a batch.** The events of one wait are handled in turn, while each
  may close a descriptor and free a session that the system hands out again.
* **Files as they come.** blend-parser reads tables of sizes and indices from
  its input and computes offsets, pointers and array elements from them.

The list of hazards in `PROJECT.json` puts each of these at its lines, with the
properties that would catch it going wrong, or the reason why none does yet.

## Modules

| Module | Models | Role |
|---|---|---|
| `Interop` | `interop.h` | tags and sizes of the messages, shared by both receivers |
| `FrameFifo` | - | abstract: a FIFO of whole messages on one connection after another |
| `ServerRecv` | `server.c` 183-372 | one session's receive path at byte granularity |
| `ClientRecv` | `client.h` | the client library's receive path, flag and reconnect |
| `Server` | `server.c` 27-181, 206-349 | session table, handlers, broadcasts |
| `Mmo` | `main.ks` 843-918 over `Server` | game clients and the server together |
| `SpeedRun` | - | abstract: a run, its result, and whether it was flown |
| `GameRun` | `main.ks` 624-636, 1440-1840 | timer, death, collectables, cheat mark |
| `CollisionChunks` | `collisions.ks` 60-209 | filing faces in chunks and finding them again |
| `TdsMap` | `tinycsocket.h` 1955-2296 | the growing arrays and maps under a poll set |
| `TcsPoll` | `tinycsocket.h` 3250-3421, 5062-5442 | poll sets over `poll()` and over `select()` |
| `TcsNative` | `tinycsocket.h`, the two systems' calls | what errors of connect, receive and resolve become |
| `PollSet` | - | abstract: a set of sockets with their user data, and waits on it |
| `Tcs` | `tinycsocket.h` 6287-6436, `client.h` 173-313, `server.c` 60-202 | one process, server or client: open, poll and close sockets, with calls that fail |
| `BlendDna` | `blend.c` 110-317, 415-423, 625-648, 756-765 | names, types, structs and sizes of a Blender file |
| `BlendFile` | `blend.c` 30-190, 319-413 | loading a file block by block, and freeing it |
| `BlendObj` | `blend.c` 567-582, 650-879 | objects: fields, elements, pointers, dumps |
| `BlendBindings` | `blend.c` 903-1430 | the configuration and the Kast bindings made from it |
| `BlendTool` | `main.c`, `blend.c` 495-565, 741-754 | the program: one command on one file |
| `*_proofs` | | theorems and proofs about the module of that name |
| `MC*` | | instances for TLC |

`Mmo` extends `Server` and conjoins its actions with those of the clients.
`ServerRecv` and `ClientRecv` are shown to implement `FrameFifo`, which is what
lets `Server` and `Mmo` treat a connection as a queue of messages. `GameRun` is
shown to implement `SpeedRun`. `Tcs` composes `TcsPoll` (over `TdsMap`) and
`TcsNative` with their two users and is shown to implement `PollSet`, the
interface `ServerRecv` and `ClientRecv` rest on when they say that a session
with bytes is served. `BlendTool` composes the four `Blend*` modules under it.

### ServerRecv

A stream is the sequence of frames the client wrote, each with its tag and its
offset; `base` is the stream offset of `buf[0]`, so that the buffer's contents
are never copied: what stands at `start` is the tag of the frame that begins
there, or, if none does, some byte of a payload, which is any tag at all. So
`HandleOne`, `HandleReset` and `HandleGarbage` are enabled by `TagsAt`, a set:
a singleton while the receiver is aligned, every tag and `Garbage` when it is
not. `Receive` takes any number of the available bytes up to
`BufSize - end`; the loop `while (start + 4 <= end)` is the condition `InLoop`,
and `Compact` is the code behind it, with its two branches.

`HandleReset` is lines 298-319 as compiled: the case has no `break`, so it goes
on into `ClientUpdateBeachball`, which consumes another body when the buffer
holds one. `SendCut` is a client write that stops in the middle and is followed
by another one.

* `RoomToReceive`: whenever the server receives, there is room in the buffer. With a
  full one it would ask for 0 bytes, for which `tcs_receive` answers `TCS_SHUTDOWN`
  (`tinycsocket.h` 3169-3175), and drop a session that is alive; the third case of
  `NoBytes` is that answer. Proved, not run: a run in which the longest
  message fills the buffer and messages are cut is too large.
* `InOrderWhileIntact`: as long as nothing was cut and no reset handled, the
  handlers ran for exactly the frames sent, in order.
* `ExpelledForCause`: only a session with a cut or a handled reset reaches
  `default`.
* `OrderlyCloseDeliversAll` (liveness): after an orderly close everything sent is
  handled, although the close may be seen in the same poll as the bytes.
* `ImplementsFifo`: refinement of `FrameFifo`, up to the first cut or handled
  reset; what follows one is nobody's promise.
* `NoWeirdState` is violated: see the findings.

### ClientRecv

The same representation for the client. `Poll` is one call of
`badcop_poll_msg`, split by outcome: `PollBuffered`, `PollReceive` (one receive,
then parse), `PollFails` (error or end of file), `PollReconnect` and
`PollReconnectFails`. `SendFails` is any of the seven sends clearing the flag.
Time is seconds since `disconnected_at`, up to `RECONNECT_AFTER`. A reconnect
starts a new stream, while `buf`, `start`, `end` and `looping` are what
`badcop_init` makes of them.

* `ImplementsFifo`, `RoomToReceive` (a full buffer would be taken for a lost
  connection), `InOrderUntilCut`, `GarbageOnlyAfterCut` as on the server; the client has
  no way out of garbage (`default` returns `NULL` with the tag still in the buffer and
  `looping` set).
* `NoticesClose`, `Reconnects` (liveness).
* `NullMeansDrained` is violated: see the findings.

### Server

One action per handler and one each for accept and `disconnect()`; the process
is single-threaded, so each is atomic. A socket is identified with the
`client_id` it was accepted with. `out[i]` is what was written to socket `i` and
not yet read. `Update` is reduced to `distance_to_beachball`, the only field the
server reads. `ResetBeachballScore` includes the fall-through: it may also
broadcast a ball update. `AcceptFull` is the search for a slot running off the
table; the model stops there.

* `SlotOwnership`: the sessions in the poll set and the valid slots are in
  one-to-one correspondence through `pidx` and `id`.
* `OwnerStays`: a slot changes its owner only while it is free.
* `WinIsAnnounced` is violated: see the findings.

### Mmo

Adds, per game client, the library's socket, flag and reconnect timer, and
`handle_mmo`: `Sample` (the comparison of `is_connected()` with
`self.connected`, and the clearing of `other_players`), then `PollMessage` until
a poll gives none. Each poll is a step, so that server steps, failures and other
clients come in between. A reconnect leaves the old socket unread and unclosed,
as the code does: the server's session for it lives on as a ghost until
`HangUp`.

* `UpdatesAreOfKnownPlayers`: the `Option.unwrap` of line 888 never fails.
* `RosterAgrees`: the other players a client will have when it has handled what is
  on its way to it are exactly the server's other sessions.
* `ScoreAgrees`: likewise for the score, once it was told on this socket.

What a client will have is stated by positions: another player is `Listed` when the
last message about it says so (`ListedFrom` a position in the queue), and the score
is the one of the last message that carries it.
* `DepartureIsSeen` (liveness): a broken connection is seen by everybody else.

### GameRun

`run` is the record of what `restart()` resets; a frame takes it through
`Respawn`, `Collect`, `Count`, `Finish`, `MarkCheat`, `StartTimer` and `Moved`,
in the order of `update`. Space is abstracted to places: the spawn, the lava,
the finish, each dragon scale, and the field; a frame moves the living player
from any to any (but from rest at the spawn not straight into the lava or the
finish). Two facts of the level's data are used: nothing is both in touch with
lava and within the player's radius of the finish (the nearest lava is 6.26
units from it, the largest radius is 2), and no scale is at the finish (60
units). Every frame has a physics step: `min_physics_delta_time` is 0 and frames
are longer than 0.1 ms.

`flown` is a history variable: the free flight of the F key moved the player before the
win. It does not move the dead, since `update_step` returns at once (line 648); but
`cheated` is set for them too (lines 1570-1577). The jetpack that the P key selects is a
power like the parachute; the code does not count it as a cheat, and neither do the
properties.

* `CheatedIffFlown`: who flew is marked; who is alive or has won is marked only for
  having flown. The mark that the dead get while the key is on is unjust, and is gone with
  the restart of the respawn, before they can win.
* `DeadDoNotWin`, `Respawns`.
* `ImplementsSpeedRun`: the result is decided once and then fixed.

### CollisionChunks

Mesh.new as a loop over the faces in any order; `Collide(e)` is what `collide`
yields for an entity in the finished mesh, each hit with the chunk it was found
in. Space is a lattice of any fineness (`Half` lattice steps are half a chunk);
a face is three corners, the lattice points it covers, and its normal.
`distance_to_face` is the distance to the nearest point of the face, negative
when the foot of the perpendicular lies on the face and the point behind it.

* `FindsAllButFlat`: what is found through the chunks is exactly what a search
  of all faces would find, except faces that lie in a plane between two chunks
  (all three corners with the same coordinate, a multiple of `CHUNK_SIZE`). The
  range from `floor` to `ceil` is empty for these and they are in no chunk.
  Such faces exist: in the level's meshes 73 of the 625 faces of the road (at
  z = 30), and a few of metal, paint and rock_02. The property states what the code
  does, since no document says what it should do; a player falls through those
  parts unless another mesh lies under them.

### TdsMap, TcsPoll, TcsNative and Tcs

`TdsMap` has the two containers of `tinycsocket.h` as records: `data` is the
memory there is, `capacity` what the container believes. Each operation gives
the container and a status and takes the set of allocations that fail in it.
A map is two arrays with one count and one capacity, so that growing or
shrinking one and not the other is a state of the model, as it is of the code:
`MapAdd` then leaves a map that is as usable as before, `MapRemove` may leave one
that counts more than it holds (`Damaged`).

`TcsPoll` is `tcs_poll_create`, `_add`, `_remove`, `_wait` and `_destroy` on both
systems. On POSIX the map's keys are handed to `poll()`. On Windows there are
three lists beside the map, of which `select()` leaves the sockets that are
ready; `ReadPass`, `WritePass` and `ErrorPass` merge them into events in the
order of the code, while there is room. A list longer than `FD_SETSIZE` is copied to the
heap. `TcsNative` is what errors become: `WSAEWOULDBLOCK` of a connect is
`IN_PROGRESS`, as `EINPROGRESS` is on POSIX.

`Tcs` is one process. `role` and `backend` are chosen at the start. The actions
`Resolve`, `OpenSocket`, `Bind`, `Connect`, `PollConnect`, `AwaitConnect` and
`Joins` are `tcs_socket_tcp_str`, call by call, for either role; each has the
outcomes the system may give it, and what the code undoes. `BadcopInit`,
`SendFails`, `ClientHandles` are the client library; `ServerStarts`, `Listens`,
`Accept`, `ServerHandles` with `Disconnect` are `main`; `Waits` is the wait of both.
A failed call counts as a fault, up to `MaxFaults`; `starved` records that an
allocation failed, `corrupt` that an entry could not be removed. What C does not
define - a null `UserData`, `events` never set, a map that holds less than it
counts, an event of a freed session, a newcomer written behind `pdata` when all slots
are taken (`AcceptsUndefined`), the session that the default branch frees and goes on
using (`ServerExpels`) - leads to `"undefined"`, or to the harmless
outcome where the build may have one. A new descriptor is the lowest free one,
as POSIX has it, and a new `UserData` a free block that an entry of the poll set still
names, or any one of the others: reuse comes early.

* `UndefinedHasReason` (action property): a step to undefined behaviour follows a
  failed allocation, or accepts a connection for which there is no slot, or goes on with
  the session that it is itself throwing out. No interleaving of events and disconnects
  makes the server handle a session that an earlier step has freed.
* What none of these promises is what happens after a removal that failed (`corrupt`). It
  "should not be able to happen, with current implementation" (`tinycsocket.h` 2224), but
  removing shrinks the arrays, and a `realloc` that fails (2026-2028) is passed on: the map
  goes on counting an entry that it has overwritten, and `disconnect()` does not look.
* `DescriptorsAccountedFor`: between two steps, every open descriptor is the
  listening socket, a session's, or a connection the client made.
* `SessionsArePolled`: while no allocation has failed, the poll set is the session
  table. (After a failed `tcs_poll_add`, whose result is not looked at, it is not.)
* `ImplementsPollSet`: refinement of `PollSet` on both systems, with whatever
  allocations fail, as long as no removal has.
* `ConnectsOrRunsOut` (liveness): a client without a connection gets one, or has
  used all its descriptors - which it does, as it closes none it replaces.

### BlendDna, BlendFile, BlendObj, BlendBindings and BlendTool

A file is its header and its blocks, the DNA block with the image of its tables:
names (parenthesis, stars, identifier, lengths), types, structs, and where each
section begins. `BlendFile` is `Blend_load`, a step for each block read and each
type resolved, and `Blend_drop`; `live` is what is allocated. `ResolveType` has both
uses of `sdna_index`: it is compared with the number of types, and indexes the structs.
`WellFormed` is a file as Blender writes it, arrays with no length 0, every struct the
only definition of its type, with sizes and offsets by Blender's rules
(`Written...`, external) and not by the reader's.

`BlendObj` is an object as a block, an offset and a type. `GetField` and `Index` are the
two ways to a part; following a pointer looks for a block with exactly that old address.
`ReadOf` is what a dump reads of an object, by the names of the types, and `Outcome`
what it comes to: the string behind a `char *` is printed with `%s`, which C does not
define for NULL or for a block without a zero byte (`nul`). (That `isprint` is given a
`char`, line 869, is defined for the negative ones by glibc.) `BlendBindings` is the
configuration, line by line (`ConfigLine`), and the declaration and initialization of
each field (`Declared`, `Initialized`), Kast types as what is around a base type. The
name of a length field is read after its text was freed (line 1079), which is undefined:
the step goes to `"undefined"`, or finds the name or anything else. The message about a
missing type gives a struct to `%s` (line 422), a misspelt line may be read past its end
(lines 1058-1066): undefined, or a panic. `BlendTool` is `main`: load, one command,
drop.

* `WellFormedLoads`: what Blender writes is loaded, every block with its type.
* `OffsetsUpToFunctions`: offsets are Blender's, up to the first pointer to a function.
* `PartsAreInside` (action property): each step of a path that follows no pointer
  stays within the object it starts from.
* `UndefinedForCause`: on such a file, if its numbers have this compiler's sizes
  (`NumbersAreTheSame`), undefined behaviour needs a command without its address or with
  a type that is not there, an index or star, a block shorter than its type, a
  string that is NULL or has no end, a line of the configuration that is misspelt or names a
  missing type, or a field configured with a length. Names and elements of arrays, to
  any depth, numbers, and everything else that is generated are safe.
* `DeclaredAsInitialized`: the two recursions over a field's type agree exactly where
  the field is not `Disputed`: arrays of strings and configured `char`s.
* `BindingsAreClosed`: what the bindings refer to is among them.
* `NothingLeaks`: at the end of `main` nothing is allocated but the configuration
  of a type that was configured twice.

## Runs

| Run | Instance | Shows |
|---|---|---|
| `server_recv` | 3 frames of 8 and 4 bytes (`ShortFrames`), one of them cut at any byte; resets; buffer of 72 | types, order up to a cut or reset, FIFO until then, nothing lost at an orderly close, expulsion only for cause |
| `server_recv_weird` | 4 frames with resets, none cut | **violation**: honest clients reach `WEIRD STATE` |
| `client_recv_fifo` | 3 frames of 80 and 8 bytes per connection; buffer of 84; reconnects after 2 s | types, room, FIFO, the close is noticed, the client reconnects |
| `client_recv_cut` | 3 frames of 12 and 8 bytes, one cut | order until the cut, garbage only after it |
| `client_recv_null` | the same, none cut | **violation**: `NULL` does not mean drained |
| `server_slots` | 2 slots, 3 connections, all handlers | slots and sessions in step, owners stay |
| `server_best_time` | 2 slots, 2 connections | **violation**: a win is announced to nobody |
| `mmo` | one game client among 3 connections, updates, goals and resets; 1 message unread at a handler's start | no unknown player, rosters and scores agree, departures are seen |
| `game_run` | 2 scales, frames of 2 and 4, death of 3, timer up to 6 | all properties of a run |
| `collision_chunks` | 7 triangles, chunks of 4, entities of radius 2 at 1331 points | nothing but flat faces is lost |
| `blend_tool` | 20 files (4 paddings, 4 with bad strings, 12 that Blender did not write), 7 configurations, 38 commands | all properties of the tool |
| `tcs` | both roles on both systems; 5 descriptors, 3 sessions; arrays from 1, `FD_SETSIZE` 2; 2 faults | all properties of the sockets |

Why the bounds are enough: the buffers are real code constants (1024) shrunk to little
more than the longest message, which is the hard case - with more room fewer compactions
happen. In `client_recv_fifo` it is filled to the last byte, by a longest frame with what
follows it and by the beginning of one behind a shorter frame.
Three frames suffice for one being handled, one half-received and one behind it. Two
slots and three connections give reuse and overflow of the table; in `mmo` the client
and two other sessions, or the client's own ghosts after reconnects. Bodies keep their
true sizes. In `tcs` arrays start at 1 so that three sessions make them grow twice and
shrink again, a fourth connection finds no slot, and `FD_SETSIZE` is 2 so that the third
goes to the heap; a second fault can hit what cleans up after the first. In `blend_tool`
the mesh has every kind of field: nested arrays, arrays of pointers, pointers to
pointers, a pointer to a function, lists, and a struct within. Unbounded quantities have
named bounds: `MaxFrames`, `MaxCut`, `MaxClients`, `MaxScore`, `MaxLag`, `MaxTime`,
`MaxFaults`, `Files`, `Configs`, `Commands`. Once an entry was left in a poll set, `Tcs`
accepts no more connections. Runs that allow the model to stop say why in their
configuration.

Fairness. The server's loop never blocks (`tcs_poll_wait` with timeout 0), so a
session with bytes, an end of file or an error is served: weak fairness of the
server's receive path, and strong fairness of `ExpelsDead` in `Mmo`, because
the bound on unread messages, which the code does not have, may disable it now
and then. The game loop calls `update` for ever: weak fairness of `Frame`,
`Sample` and the poll that ends a drain, strong fairness of `PollMessage` and
`PollFails`, because `recv` delivers what has arrived though any single poll may
say otherwise. Whether an attempt to reconnect succeeds is up to the
server: `Reconnects` assumes strong fairness of `PollReconnect`, that is, a server
that is within reach again and again is reached in the end, and what it shows is
that the library keeps trying. `Poll` and `Tick` are weakly fair there, since the
game polls every frame and time passes. In `Tcs` only `Next` is weakly fair: the
process goes on, and calls stop failing when `MaxFaults` have. No fairness is
assumed of players, of clients writing, or of connections breaking.

Every property of a passing run has a mutant in `PROJECT.json`: a plausible bug
in a modelled operation under which the same run fails.

## Findings

1. `server_recv_weird`: the missing `break` at `server.c` 303. A reset that is
   followed by 72 more bytes in the buffer swallows them as a ball update, broadcasts
   them, and leaves the receiver in the middle of a message; the session then
   usually ends at the default branch, `WEIRD STATE DETECTED`.
2. `client_recv_null`: `badcop_poll_msg` "Returns NULL if there are no more
   messages available" (`client.h` 205), but it also does so after any receive
   that brings no whole message and after each pass through its buffer, while
   messages wait in the socket.
3. `server_best_time`: `best_time` starts at 0 and only a smaller unsigned
   duration replaces it, so `// send a world update to other players` (line 233)
   never happens.

## Proofs

All theorems hold for every value of the constants under the assumptions named in the
modules (`BufSizeAssumption`: the buffer holds the longest message; `TableAssumption`:
at least one slot; `SockAssumption`: no socket at all and a socket to come are no
sockets; `TimeAssumption`: frame times are positive integers; `FacesAssumption`: a face
lies within the box of its corners; `CapacityAssumption`: arrays do not start empty;
`SocketAssumption`: descriptors and addresses are numbers other than the invalid socket
and the null pointer, and there is at least one slot; `NoPollAssumption`: the null
pointer is no poll set; `SizeModAssumption`: the width of a `size_t` is a multiple of 4;
`PtrSizeAssumption`: a pointer has bytes; `PrimSizeAssumption`: a `char` is one byte,
and the sizes of the other numbers are natural; `FilesAssumption`: a file fits into
memory, its blocks are a sequence, a block with a zero byte is not empty, and the
numbers in it are no less than 0; `CommandsAssumption`: a segment of a path is a name, a
star or an index; `ConfigsAssumption`: the argument of a configuration's line, even if
empty, is not NULL).

* `ServerRecv_proofs`. None of the safety properties is inductive. `IInv`
  adds the layout of the stream (`Layout`, `Extent`: frames lie one behind the
  other and the buffer is a window on them), `Aligned` (while intact,
  `base + start` is the offset of the first unhandled frame) and `Drained` (when the
  server receives, what is left in the buffer is less than one message). From it
  follow `RoomToReceive`, `InOrderWhileIntact`, `ExpelledForCause` and `TypeOK`,
  and the refinement of `FrameFifo` up to the first cut or handled reset.
* `ClientRecv_proofs`. The same argument for the client, where `Extent` and `Aligned`
  are only claimed while connected: a reconnect that fails empties the buffer of a
  socket that is not read again. One lemma (`ParseIInv`) serves the buffered and the
  receiving poll. `RoomToReceive`, `InOrderUntilCut`, `GarbageOnlyAfterCut` and
  `TypeOK` follow for any cuts, and, if no write is cut (`MaxCut = 0`), the
  refinement of `FrameFifo`, with a socket that is given up at any time and any number of
  new ones.
* `Server_proofs`. `SlotOwnership` becomes inductive with the types and
  `IdsInOrder` (ids in use are below `client_id`), which is why a new session's id
  collides with no slot. `OwnerStays` follows step by step, and so does `TypeCorrect`:
  whatever a handler writes to whichever sockets is a sequence of messages.
* `Mmo_proofs`. `MmoIsServer`: the session is an implementation of the server, since a
  client's step is a read, a hang up or nothing to it; so the server's theorems hold in
  it. The other theorems rest on `MmoInv`, which says of each client what is on its way
  to it (`OnTheWay`): updates are about a player that is listed just before them
  (`UpdatesFit`), what is listed behind the last message are the other sessions
  (`EndsWith`), the last score told is the server's (`ScoreFits`). Each action of the
  server is described once by what it appends to a client's queue (`Tells`) and each
  such description keeps the three facts; a greeting makes them true from nothing; a
  client's step takes a message off the front, and the rest stays as it was. What is
  proved is for every number of clients, sockets, slots and unread messages.
* `GameRun_proofs`. One lemma per part of the frame's pipeline, composed in
  `FrameStep`: a frame restarts the run, keeps its result, finishes it, or goes
  on playing. `RunInv` says that the dead are in the lava - which is why the
  check of the finish, which ignores `dead`, never finds them - and that mark and
  flight agree. `CheatedIffFlown`, `DeadDoNotWin`, `TypeOK` and the refinement
  of `SpeedRun` follow.
* `CollisionChunks_proofs`. Floor and ceiling are characterised by
  inequalities; `CommonChunk` finds, one axis at a time, a chunk that both the
  face and the entity look at (the one below when the point is on the upper end
  of the face), `ChunkIsNear` shows that the filter on the centre's distance
  never drops it, `NoChunk` that flat faces have none.
* `Blend_proofs`. `Shape` is what every state of the tool has: the list holds the blocks
  read so far, newest first, and the DNA is `ParseDna` of one of them. `AlignIsNext`:
  `Reader_align(4)` leads to the first multiple of 4 that is not behind, although its
  difference wraps around; the width of a `size_t` enters only as a multiple of 4. With
  it `WrittenDnaParses` finds every section where Blender's padding has put it, so that
  parsing reads exactly the block. `WrittenLoads` adds `LoadInv`: the reader stands
  where the blocks read so far end, which is in the file and is its end only behind the
  last block; the DNA is taken once, when its block is read; and the types are resolved
  up to the cursor. `OffsetsAreBlenders` compares the two sums of sizes field by field
  (`OffsetsCompare`; a field takes in memory what Blender gives it, unless it is a
  pointer to a function). `FreesAll` rests on `MapInv` (the map of the configured types
  gives for a name the line that was read last) and `HeapInv`, which says at each place
  of the program what is allocated. What adds up a sequence is a recursive function;
  that it is one, and that sums grow, is shown with the least counterexample
  (`LeastElement`). `ElementLiesInArray`: what `Blend_Obj_index` gives of an array, for
  all sizes and (up to three) lengths, lies within the array; the product of the lengths
  is monotonous in each. `PathsStayInside` rests on `WalkInv`, which types the object a
  path has reached, and on two facts: a field ends within its struct (`FieldsFit`, by
  comparing the sums of sizes again) and an element within its array.
  `UndefinedHasCause` adds `UndefInv`: until a path has an index or a star, or set out
  from a short block, its object lies in its block; printing such an object reads
  nothing else (`DumpInside`), but for the strings that its `char *` lead to. `InitIs`
  gives `init_kast_from_obj` without its recursion (the function is `CHOSE`n: one is
  given, and another agrees with it from the inside out), so that `SameKast` can say
  when it writes the type that `write_as_kast_type` does: unless a string is nested.
  `BindingsInv` holds this of every binding written (`BindingOk`), for a DNA that
  parses, whoever wrote it (`DnaTyped`), and that the types written are the configured
  ones before the cursor (`WrittenUpTo`). From it follow `BindingsAgree` and
  `BindingsClosed`.
* `Tcs_proofs`, from the bottom up. *Containers*: an array has the memory its capacity
  says (`Whole`), or is a column of a map that was made smaller when its sibling could
  not be (`Holds`). Add, remove and reallocation keep that with any allocation failing;
  from a `Settled` array, as one that has never grown is, an element is removed without
  a reallocation, so without failing. *Poll sets*: `PollOK` says that a set has each
  socket once, asks for reading, and on Windows has the same sockets in its lists as in
  its map; adding gives one entry more or the set as it was, removing gives one less or
  shows in `StillThere`. What is left after such a removal is `PollHolds`. *Waits*:
  `Tells` - as many events as there are sockets ready, or as there is room, of different
  ready sockets, with the user data of their entries - holds of the events of `poll()`
  in the order of the map, and is kept by every mark of the three passes over
  `select()`. *The process*: `TcsInv` is inductive. Its parts: `Polls` (the sets can be
  relied on until `corrupt`), `ClientPolls` (a client polls at most the socket it has,
  in arrays that never grew, which is why its reconnect cannot corrupt the set),
  `Serving` (what is open is what is served, what is polled is part of it, and the
  unhandled events are of different sessions - which is why a disconnect never frees the
  session of a later event), `Listening` (even a set that is corrupt never names the
  listening socket, so `disconnect` never closes it) and, for each place of `main`, what
  there is by then (`ServerStages`). `ClientInv` is the client's descriptors alone. From
  these follow `TcsTypeOK`, `UndefinedHasReason`, `DescriptorsAccountedFor`,
  `SessionsArePolled` and, step by step, `ImplementsPollSet`. The order of events is a
  `CHOOSE`: that there is one, and that doubling reaches every capacity, is shown with
  the least counterexample, as induction over data is not to be had. The invariant was
  model-checked before it was proved.

Only model-checked: the liveness properties (`OrderlyCloseDeliversAll`,
`NoticesClose`, `Reconnects`, `DepartureIsSeen`, `Respawns`,
`ConnectsOrRunsOut`), which need fairness and ENABLED. All other properties
of the passing runs are theorems.

## Not modelled

Of tinycsocket what the program does not call: `tcs_poll_modify`, UDP, packet and
multicast sockets, netstrings and lines, the conversion of addresses, the other
socket options. The results of the options the program sets are not looked at by
it and have no effect in the models, but for the nonblocking mode of a connect.
Of blend-parser the text it prints. Of a file, `WellFormed` is what its reader
relies on; an arbitrary file only in the ways `MCBlendTool` lists.

Rendering, audio, user interface, asset loading, configuration and the command line
change nothing the properties could see. Floating-point dynamics (forces, collision
response, interpolation) are abstracted to where they can lead. The server's write
behind `pdata` and its use of a freed session (lines 353-371) are steps to undefined
behaviour in `Tcs`; what they destroy depends on the build, and every model stops there.
The host's TCP is trusted to deliver bytes in order.

## Plan

Done: `Interop`, `FrameFifo`, `ServerRecv`, `ClientRecv`, `Server`, `Mmo`,
`SpeedRun`, `GameRun`, `CollisionChunks`, in this order: the receive paths first,
because everything else rests on whole messages in order. Then the two C parts
that were missing: the `Blend*` modules, and `TdsMap` to `Tcs` with their faults.

Next, in this order:

1. `Beachball`: the client's scoring automaton (`CanScore`,
   `WaitingToCrossTheNet`, sides -1, 0 and 1) with the server's closest-player rule:
   who may report a goal, and how often one is counted.
2. `PhysicsStep`: the accumulator `next_physics`, the sub-steps and what is
   integrated with the whole frame's time in each; that the loop ends and the time
   simulated is the time passed.
3. `Interpolation`: the target is reached when `PREDICTION_T` has passed without
   an update, whatever the frames.
4. `SocketSend`: the loop of `tcs_send` with `SENDALL`, to replace the assumption
   `SendCut` makes of it.
5. Proofs about these.
