----------------------------- MODULE Mmo_proofs -----------------------------
(***************************************************************************)
(* Proofs about the multiplayer session, for any number of game clients,   *)
(* slots and connections.  The server of the session is a Server, so that  *)
(* what Server_proofs shows of it holds here too.  What a client will know *)
(* when it has handled the messages on their way is worked out from the    *)
(* positions of the messages in its queue (Listed).                        *)
(***************************************************************************)
EXTENDS Mmo, Server_proofs

USE TableAssumption, SockAssumption

MmoRestType ==
  /\ sock \in [Client -> Id \cup {NoSocket, Waiting}]
  /\ connected \in [Client -> {0, 1}]
  /\ due \in [Client -> {0, 1}]
  /\ phase \in [Client -> {"update", "drain"}]
  /\ sampled \in [Client -> {0, 1}]
  /\ others \in [Client -> SUBSET Id]
  /\ shown \in [Client -> [{0, 1} -> 0 .. MaxScore]]
  /\ told \in [Client -> {0, 1}]

(* What the library and the game agree on: a socket waiting for its accept *)
(* has nothing of an earlier session to show, a drain is of a connection   *)
(* that was sampled, and a reconnect is due only to a frame that sampled   *)
(* the loss before.                                                        *)
Sampling(c) ==
  /\ connected[c] = 1 <=> sock[c] # NoSocket
  /\ sock[c] = Waiting => told[c] = 0 /\ Base(c) = {}
  /\ phase[c] = "drain" /\ connected[c] = 1 => sampled[c] = 1
  /\ due[c] = 1 => connected[c] = 0 /\ (phase[c] = "drain" => sampled[c] = 0)

(* No two clients have the same socket, and the server has accepted each.  *)
OwnSockets ==
  \A c \in Client : sock[c] \in Id =>
    /\ sock[c] < client_id
    /\ \A d \in Client : sock[d] = sock[c] => d = c

(* What is on its way to a client on its present socket: no update is of a *)
(* player who is not listed when it arrives, and in a session the queue    *)
(* ends with the roster and the score of the server.                       *)
UpdatesFit(queue, known) ==
  \A k \in 1 .. Len(queue) :
    queue[k].kind = "UpdatePlayer" => Listed(queue[k].id, known, queue, k - 1)

EndsWith(queue, known, roster) ==
  \A i \in Id : Listed(i, known, queue, Len(queue)) <=> i \in roster

ScoreFits(queue, sc, isTold, isShown) ==
  /\ \A k \in 1 .. Len(queue) :
       queue[k].kind = "Meta" /\ NoMetaFrom(queue, k + 1) => queue[k].score = sc
  /\ isTold = 1 /\ NoMetaFrom(queue, 1) => isShown = sc

OnTheWay(c) ==
  sock[c] \in Id =>
    /\ UpdatesFit(out[sock[c]], Base(c))
    /\ InSession(c) => /\ EndsWith(out[sock[c]], Base(c), polled \ {sock[c]})
                       /\ ScoreFits(out[sock[c]], score, told[c], shown[c])

MmoInv ==
  /\ SInv
  /\ MmoRestType
  /\ OwnSockets
  /\ \A c \in Client : Sampling(c) /\ OnTheWay(c)

-----------------------------------------------------------------------------
(* Queues.                                                                 *)

(* What is behind the first part of a queue does not matter for it.        *)
LEMMA ListedPrefix ==
  ASSUME NEW q \in Seq(Msg), NEW m \in Seq(Msg), NEW known, NEW i,
         NEW n \in 0 .. Len(q)
  PROVE  Listed(i, known, q \o m, n) <=> Listed(i, known, q, n)
<1>1. \A k \in 1 .. n : (q \o m)[k] = q[k]
  BY ConcatProperties
<1>2. \A k \in 1 .. n : \A j \in k + 1 .. n : j \in 1 .. n
  OBVIOUS
<1> HIDE DEF Listed
<1> QED
  BY <1>1, <1>2 DEF Listed

(* Two queues one after the other: the second starts from what the first   *)
(* ends with.                                                              *)
LEMMA ListedConcat ==
  ASSUME NEW q \in Seq(Msg), NEW m \in Seq(Msg), NEW known, NEW i, NEW between,
         i \in between <=> Listed(i, known, q, Len(q)),
         NEW n \in 0 .. Len(m)
  PROVE  Listed(i, known, q \o m, Len(q) + n) <=> Listed(i, between, m, n)
<1> DEFINE N == Len(q)
           C(k) == About((q \o m)[k], "Connected", i)
           D(k) == About((q \o m)[k], "Disconnected", i)
<1>0. N \in Nat /\ n \in Nat
  OBVIOUS
<1>1. \A k \in 1 .. N : (q \o m)[k] = q[k]
  BY ConcatProperties
<1>2. \A k \in 1 .. n : (q \o m)[N + k] = m[k]
  BY ConcatProperties
<1>3. Listed(i, known, q, N) <=>
        \/ \E k \in 1 .. N : C(k) /\ \A j \in k + 1 .. N : ~ D(j)
        \/ i \in known /\ \A j \in 1 .. N : ~ D(j)
  BY <1>0, <1>1 DEF Listed
<1>4. Listed(i, between, m, n) <=>
        \/ \E k \in 1 .. n : C(N + k) /\ \A j \in k + 1 .. n : ~ D(N + j)
        \/ i \in between /\ \A j \in 1 .. n : ~ D(N + j)
  <2>1. \A k \in 1 .. n : About(m[k], "Connected", i) <=> C(N + k)
    BY <1>2
  <2>2. \A k \in 1 .. n : About(m[k], "Disconnected", i) <=> D(N + k)
    BY <1>2
  <2>3. \A k \in 1 .. n : \A j \in k + 1 .. n : j \in 1 .. n
    BY <1>0
  <2> HIDE DEF C, D, N
  <2> QED
    BY <2>1, <2>2, <2>3 DEF Listed
<1>5. Listed(i, known, q \o m, N + n) <=>
        \/ \E k \in 1 .. N + n : C(k) /\ \A j \in k + 1 .. N + n : ~ D(j)
        \/ i \in known /\ \A j \in 1 .. N + n : ~ D(j)
  BY DEF Listed
<1>6. \A k \in Nat : (\A j \in k + 1 .. n : ~ D(N + j)) <=> (\A j \in N + k + 1 .. N + n : ~ D(j))
  <2> HIDE DEF D, N
  <2> SUFFICES ASSUME NEW k \in Nat
               PROVE  (\A j \in k + 1 .. n : ~ D(N + j)) <=> (\A j \in N + k + 1 .. N + n : ~ D(j))
    OBVIOUS
  <2>1. ASSUME \A j \in k + 1 .. n : ~ D(N + j), NEW j \in N + k + 1 .. N + n PROVE ~ D(j)
    <3>1. j - N \in k + 1 .. n /\ N + (j - N) = j
      BY <1>0
    <3> QED
      BY <2>1, <3>1
  <2>2. ASSUME \A j \in N + k + 1 .. N + n : ~ D(j), NEW j \in k + 1 .. n PROVE ~ D(N + j)
    BY <1>0, <2>2
  <2> QED
    BY <2>1, <2>2
<1>9. (\A j \in 1 .. n : ~ D(N + j)) <=> (\A j \in N + 1 .. N + n : ~ D(j))
  <2> HIDE DEF D
  <2>1. 0 + 1 = 1 /\ N + 0 + 1 = N + 1 /\ 0 \in Nat
    BY <1>0
  <2> QED
    BY <1>6, <2>1
<1> HIDE DEF C, D, N
<1>7. ASSUME Listed(i, known, q \o m, N + n) PROVE Listed(i, between, m, n)
  <2>1. CASE \E k \in 1 .. N + n : C(k) /\ \A j \in k + 1 .. N + n : ~ D(j)
    <3>1. PICK k \in 1 .. N + n : C(k) /\ \A j \in k + 1 .. N + n : ~ D(j)
      BY <2>1
    <3>2. CASE k <= N
      <4>1. Listed(i, known, q, N)
        BY <1>0, <1>3, <3>1, <3>2
      <4>2. \A j \in N + 1 .. N + n : ~ D(j)
        BY <1>0, <3>1, <3>2
      <4> QED
        BY <1>4, <1>9, <4>1, <4>2 DEF N
    <3>3. CASE k > N
      <4>1. k - N \in 1 .. n /\ N + (k - N) = k /\ k - N \in Nat
        BY <1>0, <3>3
      <4>2. \A j \in (k - N) + 1 .. n : ~ D(N + j)
        BY <1>0, <3>1, <3>3
      <4> QED
        BY <1>4, <3>1, <4>1, <4>2
    <3> QED
      BY <1>0, <3>2, <3>3
  <2>2. CASE i \in known /\ \A j \in 1 .. N + n : ~ D(j)
    <3>1. Listed(i, known, q, N)
      BY <1>0, <1>3, <2>2
    <3>2. \A j \in 1 .. n : ~ D(N + j)
      BY <1>0, <2>2
    <3> QED
      BY <1>4, <3>1, <3>2 DEF N
  <2> QED
    BY <1>5, <1>7, <2>1, <2>2
<1>8. ASSUME Listed(i, between, m, n) PROVE Listed(i, known, q \o m, N + n)
  <2>1. CASE \E k \in 1 .. n : C(N + k) /\ \A j \in k + 1 .. n : ~ D(N + j)
    <3>1. PICK k \in 1 .. n : C(N + k) /\ \A j \in k + 1 .. n : ~ D(N + j)
      BY <2>1
    <3>2. k \in Nat /\ N + k \in 1 .. N + n
      BY <1>0
    <3>3. \A j \in N + k + 1 .. N + n : ~ D(j)
      BY <1>6, <3>1, <3>2
    <3> QED
      BY <1>5, <3>1, <3>2, <3>3
  <2>2. CASE i \in between /\ \A j \in 1 .. n : ~ D(N + j)
    <3>1. Listed(i, known, q, N)
      BY <2>2 DEF N
    <3>2. \A j \in N + 1 .. N + n : ~ D(j)
      BY <1>9, <2>2
    <3>3. CASE \E k \in 1 .. N : C(k) /\ \A j \in k + 1 .. N : ~ D(j)
      <4>1. PICK k \in 1 .. N : C(k) /\ \A j \in k + 1 .. N : ~ D(j)
        BY <3>3
      <4>2. k \in 1 .. N + n /\ \A j \in k + 1 .. N + n : ~ D(j)
        BY <1>0, <3>2, <4>1
      <4> QED
        BY <1>5, <4>1, <4>2
    <3>4. CASE i \in known /\ \A j \in 1 .. N : ~ D(j)
      BY <1>0, <1>5, <3>2, <3>4
    <3> QED
      BY <1>3, <3>1, <3>3, <3>4
  <2> QED
    BY <1>4, <1>8, <2>1, <2>2
<1> QED
  BY <1>7, <1>8 DEF N

(* The first message of a queue is the one poll_message hands out.         *)
LEMMA ListedPop ==
  ASSUME NEW q \in Seq(Msg), q # << >>, NEW known, NEW i \in Id, NEW n \in 0 .. Len(Tail(q))
  PROVE  Listed(i, known, q, n + 1) <=> Listed(i, Roster(known, Head(q)), Tail(q), n)
<1> DEFINE h == Head(q)
           first == <<h>>
<1>1. /\ h \in Msg /\ Tail(q) \in Seq(Msg)
      /\ Len(Tail(q)) = Len(q) - 1 /\ h = q[1]
      /\ \A k \in 1 .. Len(q) - 1 : Tail(q)[k] = q[k + 1]
  BY HeadTailProperties
<1>2. first \in Seq(Msg) /\ Len(first) = 1 /\ first[1] = h
  BY <1>1
<1>3. q = first \o Tail(q)
  <2>1. Len(first \o Tail(q)) = Len(q)
    BY <1>1, <1>2, ConcatProperties
  <2>2. \A k \in 1 .. Len(q) : (first \o Tail(q))[k] = q[k]
    BY <1>1, <1>2, ConcatProperties
  <2>3. first \o Tail(q) \in Seq(Msg)
    BY <1>1, <1>2, ConcatProperties
  <2> QED
    BY <2>1, <2>2, <2>3, SeqEqual
<1>4. i \in Roster(known, h) <=> Listed(i, known, first, Len(first))
  <2>1. Listed(i, known, first, 1) <=>
          \/ About(h, "Connected", i)
          \/ i \in known /\ ~ About(h, "Disconnected", i)
    BY <1>2 DEF Listed
  <2> QED
    BY <1>2, <2>1 DEF Roster, About
<1> HIDE DEF h, first
<1>5. Listed(i, known, first \o Tail(q), Len(first) + n) <=> Listed(i, Roster(known, h), Tail(q), n)
  BY <1>1, <1>2, <1>4, ListedConcat
<1>6. Len(first) + n = n + 1
  BY <1>2
<1>7. Listed(i, known, q, n + 1) <=> Listed(i, Roster(known, h), Tail(q), n)
  BY <1>3, <1>5, <1>6
<1> QED
  BY <1>7 DEF h

(* A queue in which nobody comes or goes.                                  *)
LEMMA NobodyComesOrGoes ==
  ASSUME NEW q, NEW known, NEW i, NEW n \in Nat,
         \A k \in 1 .. n : q[k].kind # "Connected" /\ q[k].kind # "Disconnected"
  PROVE  Listed(i, known, q, n) <=> i \in known
BY DEF Listed, About

LEMMA MsgFields ==
  ASSUME NEW msg \in Msg
  PROVE  /\ msg.kind \in {"Connected", "Disconnected", "UpdatePlayer"} => msg.id \in Id
         /\ msg.kind = "Meta" => msg.score \in [{0, 1} -> 0 .. MaxScore]
BY DEF Msg

(* The server writes behind a queue.                                       *)
LEMMA AppendUpdates ==
  ASSUME NEW q \in Seq(Msg), NEW m \in Seq(Msg), NEW known, NEW between,
         UpdatesFit(q, known), UpdatesFit(m, between), EndsWith(q, known, between)
  PROVE  UpdatesFit(q \o m, known)
<1>1. /\ Len(q) \in Nat /\ Len(m) \in Nat /\ Len(q \o m) = Len(q) + Len(m)
      /\ \A k \in 1 .. Len(q) : (q \o m)[k] = q[k]
      /\ \A k \in 1 .. Len(m) : (q \o m)[Len(q) + k] = m[k]
  BY ConcatProperties, LenProperties
<1>2. SUFFICES ASSUME NEW k \in 1 .. Len(q) + Len(m), (q \o m)[k].kind = "UpdatePlayer"
               PROVE  Listed((q \o m)[k].id, known, q \o m, k - 1)
  BY <1>1 DEF UpdatesFit
<1>3. CASE k <= Len(q)
  <2>1. k \in 1 .. Len(q) /\ k - 1 \in 0 .. Len(q) /\ (q \o m)[k] = q[k]
    BY <1>1, <1>3
  <2>2. Listed(q[k].id, known, q, k - 1)
    BY <1>2, <2>1 DEF UpdatesFit
  <2> QED
    BY <2>1, <2>2, ListedPrefix
<1>4. CASE k > Len(q)
  <2> DEFINE j == k - Len(q)
  <2>1. /\ j \in 1 .. Len(m) /\ j - 1 \in 0 .. Len(m)
        /\ Len(q) + j = k /\ Len(q) + (j - 1) = k - 1
    BY <1>1, <1>4
  <2>2. (q \o m)[k] = m[j]
    BY <1>1, <2>1
  <2> HIDE DEF j
  <2>3. m[j] \in Msg /\ m[j].id \in Id
    BY <1>2, <2>1, <2>2, ElementOfSeq, MsgFields
  <2>4. Listed(m[j].id, between, m, j - 1)
    BY <1>2, <2>1, <2>2 DEF UpdatesFit
  <2>5. m[j].id \in between <=> Listed(m[j].id, known, q, Len(q))
    BY <2>3 DEF EndsWith
  <2>6. Listed(m[j].id, known, q \o m, Len(q) + (j - 1))
    BY <2>1, <2>4, <2>5, ListedConcat
  <2> QED
    BY <2>1, <2>2, <2>6
<1> QED
  BY <1>1, <1>3, <1>4

LEMMA AppendRoster ==
  ASSUME NEW q \in Seq(Msg), NEW m \in Seq(Msg), NEW known, NEW between, NEW roster,
         EndsWith(q, known, between), EndsWith(m, between, roster)
  PROVE  EndsWith(q \o m, known, roster)
<1>1. Len(q) \in Nat /\ Len(m) \in 0 .. Len(m) /\ Len(q \o m) = Len(q) + Len(m)
  BY ConcatProperties, LenProperties
<1>2. ASSUME NEW i \in Id PROVE Listed(i, known, q \o m, Len(q) + Len(m)) <=> i \in roster
  <2>1. i \in between <=> Listed(i, known, q, Len(q))
    BY DEF EndsWith
  <2>2. Listed(i, known, q \o m, Len(q) + Len(m)) <=> Listed(i, between, m, Len(m))
    BY <1>1, <2>1, ListedConcat
  <2> QED
    BY <2>2 DEF EndsWith
<1> QED
  BY <1>1, <1>2 DEF EndsWith

LEMMA AppendScore ==
  ASSUME NEW q \in Seq(Msg), NEW m \in Seq(Msg), NEW sc, NEW new, NEW isTold, NEW isShown,
         ScoreFits(q, sc, isTold, isShown),
         \A k \in 1 .. Len(m) : m[k].kind = "Meta" => m[k].score = new,
         new = sc \/ \E k \in 1 .. Len(m) : m[k].kind = "Meta"
  PROVE  ScoreFits(q \o m, new, isTold, isShown)
<1>1. /\ Len(q) \in Nat /\ Len(m) \in Nat /\ Len(q \o m) = Len(q) + Len(m)
      /\ \A k \in 1 .. Len(q) : (q \o m)[k] = q[k]
      /\ \A k \in 1 .. Len(m) : (q \o m)[Len(q) + k] = m[k]
  BY ConcatProperties, LenProperties
<1>2. ASSUME NEW n \in 1 .. Len(q) + 1, NoMetaFrom(q \o m, n)
      PROVE  new = sc /\ NoMetaFrom(q, n)
  <2>1. \A k \in n .. Len(q) + Len(m) : (q \o m)[k].kind # "Meta"
    BY <1>1, <1>2 DEF NoMetaFrom
  <2>2. \A k \in 1 .. Len(m) : Len(q) + k \in n .. Len(q) + Len(m)
    BY <1>1
  <2>3. \A k \in 1 .. Len(m) : m[k].kind # "Meta"
    BY <1>1, <2>1, <2>2
  <2>4. \A k \in n .. Len(q) : k \in 1 .. Len(q) /\ k \in n .. Len(q) + Len(m)
    BY <1>1
  <2>5. \A k \in n .. Len(q) : q[k].kind # "Meta"
    BY <1>1, <2>1, <2>4
  <2> QED
    BY <2>3, <2>5 DEF NoMetaFrom
<1>3. ASSUME NEW k \in 1 .. Len(q) + Len(m),
             (q \o m)[k].kind = "Meta", NoMetaFrom(q \o m, k + 1)
      PROVE  (q \o m)[k].score = new
  <2>1. CASE k <= Len(q)
    <3>1. k \in 1 .. Len(q) /\ k + 1 \in 1 .. Len(q) + 1
      BY <1>1, <2>1
    <3>2. new = sc /\ NoMetaFrom(q, k + 1)
      BY <1>2, <1>3, <3>1
    <3> QED
      BY <1>1, <1>3, <3>1, <3>2 DEF ScoreFits
  <2>2. CASE k > Len(q)
    <3>1. k - Len(q) \in 1 .. Len(m) /\ Len(q) + (k - Len(q)) = k
      BY <1>1, <2>2
    <3> QED
      BY <1>1, <1>3, <3>1
  <2> QED
    BY <1>1, <2>1, <2>2
<1>4. ASSUME isTold = 1, NoMetaFrom(q \o m, 1) PROVE isShown = new
  <2>1. 1 \in 1 .. Len(q) + 1
    BY <1>1
  <2>2. new = sc /\ NoMetaFrom(q, 1)
    BY <1>2, <1>4, <2>1
  <2> QED
    BY <1>4, <2>2 DEF ScoreFits
<1> QED
  BY <1>1, <1>3, <1>4 DEF ScoreFits

(* The client handles the first message of its queue.                      *)
LEMMA PopUpdates ==
  ASSUME NEW q \in Seq(Msg), q # << >>, NEW known, UpdatesFit(q, known)
  PROVE  UpdatesFit(Tail(q), Roster(known, Head(q)))
<1>1. /\ Tail(q) \in Seq(Msg) /\ Len(q) \in Nat /\ Len(Tail(q)) = Len(q) - 1
      /\ \A k \in 1 .. Len(q) - 1 : Tail(q)[k] = q[k + 1] /\ Tail(q)[k] \in Msg
  BY HeadTailProperties, ElementOfSeq, LenProperties
<1>2. ASSUME NEW k \in 1 .. Len(q) - 1, Tail(q)[k].kind = "UpdatePlayer"
      PROVE  Listed(Tail(q)[k].id, Roster(known, Head(q)), Tail(q), k - 1)
  <2>1. Tail(q)[k].id \in Id
    BY <1>1, <1>2, MsgFields
  <2>2. k + 1 \in 1 .. Len(q) /\ k - 1 \in 0 .. Len(Tail(q)) /\ (k + 1) - 1 = (k - 1) + 1
    BY <1>1
  <2>3. Listed(Tail(q)[k].id, known, q, (k - 1) + 1)
    BY <1>1, <1>2, <2>2 DEF UpdatesFit
  <2> QED
    BY <2>1, <2>2, <2>3, ListedPop
<1> QED
  BY <1>1, <1>2 DEF UpdatesFit

LEMMA PopRoster ==
  ASSUME NEW q \in Seq(Msg), q # << >>, NEW known, NEW roster, EndsWith(q, known, roster)
  PROVE  EndsWith(Tail(q), Roster(known, Head(q)), roster)
<1>1. Len(Tail(q)) \in 0 .. Len(Tail(q)) /\ Len(Tail(q)) + 1 = Len(q)
  BY HeadTailProperties, LenProperties
<1> QED
  BY <1>1, ListedPop DEF EndsWith

LEMMA PopScore ==
  ASSUME NEW q \in Seq(Msg), q # << >>, NEW sc, NEW isTold, NEW isShown,
         ScoreFits(q, sc, isTold, isShown)
  PROVE  IF Head(q).kind = "Meta"
         THEN ScoreFits(Tail(q), sc, 1, Head(q).score)
         ELSE ScoreFits(Tail(q), sc, isTold, isShown)
<1>1. /\ Len(q) \in Nat /\ Len(q) # 0 /\ Len(Tail(q)) = Len(q) - 1 /\ Head(q) = q[1]
      /\ \A k \in 1 .. Len(q) - 1 : Tail(q)[k] = q[k + 1]
  BY HeadTailProperties, LenProperties, EmptySeq
<1>2. ASSUME NEW n \in Nat \ {0}, NoMetaFrom(Tail(q), n) PROVE NoMetaFrom(q, n + 1)
  <2>1. ASSUME NEW k \in n + 1 .. Len(q) PROVE q[k].kind # "Meta"
    <3>1. k - 1 \in n .. Len(q) - 1 /\ k - 1 \in 1 .. Len(q) - 1 /\ (k - 1) + 1 = k
      BY <1>1
    <3> QED
      BY <1>1, <1>2, <3>1 DEF NoMetaFrom
  <2> QED
    BY <2>1 DEF NoMetaFrom
<1>3. ASSUME NEW k \in 1 .. Len(Tail(q)), Tail(q)[k].kind = "Meta", NoMetaFrom(Tail(q), k + 1)
      PROVE  Tail(q)[k].score = sc
  <2>1. k + 1 \in 1 .. Len(q) /\ k + 1 \in Nat \ {0} /\ Tail(q)[k] = q[k + 1]
    BY <1>1
  <2>2. NoMetaFrom(q, (k + 1) + 1)
    BY <1>2, <1>3, <2>1
  <2> QED
    BY <1>3, <2>1, <2>2 DEF ScoreFits
<1>4. ASSUME NoMetaFrom(Tail(q), 1) PROVE NoMetaFrom(q, 2)
  BY <1>2, <1>4, 1 + 1 = 2
<1>5. CASE Head(q).kind = "Meta"
  <2>1. ASSUME NoMetaFrom(Tail(q), 1) PROVE Head(q).score = sc
    <3>1. 1 \in 1 .. Len(q) /\ NoMetaFrom(q, 1 + 1)
      BY <1>1, <1>4, <2>1
    <3> QED
      BY <1>1, <1>5, <3>1 DEF ScoreFits
  <2> QED
    BY <1>3, <1>5, <2>1 DEF ScoreFits
<1>6. CASE Head(q).kind # "Meta"
  <2>1. ASSUME NoMetaFrom(Tail(q), 1) PROVE NoMetaFrom(q, 1)
    <3>1. \A k \in 1 .. Len(q) : k = 1 \/ k \in 2 .. Len(q)
      BY <1>1
    <3> QED
      BY <1>1, <1>4, <1>6, <2>1, <3>1 DEF NoMetaFrom
  <2> QED
    BY <1>3, <1>6, <2>1 DEF ScoreFits
<1> QED
  BY <1>5, <1>6

-----------------------------------------------------------------------------
(* What a step of the server writes to a socket that exists.               *)

(* m is added to the queue of socket s: only a session is written to; m    *)
(* takes the roster it had to the one it has now, and the score likewise.  *)
Tells(s, m) ==
  /\ m \in Seq(Msg)
  /\ out'[s] = out[s] \o m
  /\ m # << >> => s \in polled \cap reading
  /\ UpdatesFit(m, polled \ {s})
  /\ \A k \in 1 .. Len(m) : m[k].kind = "Meta" => m[k].score = score'
  /\ s \in polled' \cap reading' =>
       /\ s \in polled \cap reading
       /\ EndsWith(m, polled \ {s}, polled' \ {s})
       /\ score' = score \/ \E k \in 1 .. Len(m) : m[k].kind = "Meta"

(* Messages that name nobody who comes or goes, to sessions that stay.     *)
LEMMA QuietTells ==
  ASSUME NEW s \in Id, NEW m \in Seq(Msg),
         out'[s] = out[s] \o m,
         m # << >> => s \in polled \cap reading,
         polled' = polled, reading' \subseteq reading,
         \A k \in 1 .. Len(m) :
           /\ m[k].kind # "Connected" /\ m[k].kind # "Disconnected"
           /\ m[k].kind = "UpdatePlayer" => m[k].id \in polled \ {s}
           /\ m[k].kind = "Meta" => m[k].score = score',
         s \in polled' \cap reading' =>
           score' = score \/ \E k \in 1 .. Len(m) : m[k].kind = "Meta"
  PROVE  Tells(s, m)
<1>1. Len(m) \in Nat
  BY LenProperties
<1>2. ASSUME NEW i, NEW n \in 0 .. Len(m)
      PROVE  Listed(i, polled \ {s}, m, n) <=> i \in polled \ {s}
  BY <1>1, NobodyComesOrGoes
<1>3. UpdatesFit(m, polled \ {s})
  <2>1. \A k \in 1 .. Len(m) : k - 1 \in 0 .. Len(m)
    BY <1>1
  <2> QED
    BY <1>2, <2>1 DEF UpdatesFit
<1>4. EndsWith(m, polled \ {s}, polled' \ {s})
  <2>1. Len(m) \in 0 .. Len(m)
    BY <1>1
  <2> QED
    BY <1>2, <2>1 DEF EndsWith
<1> QED
  BY <1>3, <1>4 DEF Tells

(* Nothing is written to this socket.                                      *)
LEMMA SilentTells ==
  ASSUME RestType, NEW s \in Id, out'[s] = out[s],
         s \in polled' \cap reading' =>
           s \in polled \cap reading /\ polled' = polled /\ score' = score
  PROVE  \E m : Tells(s, m)
<1> DEFINE m == << >>
<1>1. m \in Seq(Msg) /\ out[s] \o m = out[s] /\ ~ (m # << >>) /\ Len(m) = 0
  BY ConcatEmptySeq DEF RestType
<1>2. \A k \in 1 .. 0 : FALSE
  OBVIOUS
<1> HIDE DEF m
<1>3. UpdatesFit(m, polled \ {s})
  BY <1>1, <1>2 DEF UpdatesFit
<1>4. EndsWith(m, polled \ {s}, polled \ {s})
  <2>1. \A j \in Id : Listed(j, polled \ {s}, m, 0) <=> j \in polled \ {s}
    BY <1>2, NobodyComesOrGoes
  <2> QED
    BY <1>1, <2>1 DEF EndsWith
<1>5. out'[s] = out[s] \o m
  BY <1>1
<1>6. s \in polled' \cap reading' => EndsWith(m, polled \ {s}, polled' \ {s})
  BY <1>4
<1>7. Tells(s, m)
  BY <1>1, <1>2, <1>3, <1>5, <1>6 DEF Tells
<1> QED
  BY <1>7

(* One message without a score.                                            *)
LEMMA OneQuietMessage ==
  ASSUME RestType, NEW s \in Id, NEW msg \in Msg, NEW sockets,
         msg.kind \in {"Emote", "PlayerMeta", "UpdateBeachball"},
         sockets \subseteq polled \cap reading,
         out' = Write(out, sockets, <<msg>>),
         polled' = polled, reading' = reading, score' = score
  PROVE  \E m : Tells(s, m)
<1> DEFINE msgs == <<msg>>
<1>1. /\ msgs \in Seq(Msg) /\ \A k \in 1 .. Len(msgs) : msgs[k] = msg
      /\ out' = Write(out, sockets, msgs)
  OBVIOUS
<1> HIDE DEF msgs
<1>2. out'[s] = IF s \in sockets THEN out[s] \o msgs ELSE out[s]
  BY <1>1 DEF RestType, Write
<1>3. CASE s \in sockets
  <2>1. out'[s] = out[s] \o msgs /\ s \in polled \cap reading
    BY <1>2, <1>3
  <2>2. Tells(s, msgs)
    BY <1>1, <2>1, QuietTells
  <2> QED
    BY <2>2
<1>4. CASE s \notin sockets
  BY <1>2, <1>4, SilentTells
<1> QED
  BY <1>3, <1>4

(* The sessions a handler's broadcasts go to.                              *)
LEMMA PeersOfHandler ==
  ASSUME IInv, NEW i \in Id, Handler(i), NEW ignore
  PROVE  /\ Peers(pdata, ignore) = polled \ {ignore}
         /\ Peers(pdata', ignore) = polled \ {ignore}
         /\ i \in polled /\ pdata[pidx[i]].id = i
         /\ UNCHANGED <<polled, reading>>
<1>1. SameSessions
  BY HandlersKeepSessions
<1>2. Valid(pdata') = Valid(pdata) /\ \A p \in Valid(pdata) : pdata'[p].id = pdata[p].id
  BY <1>1 DEF SameSessions, Valid
<1>3. Peers(pdata', ignore) = Peers(pdata, ignore)
  BY <1>2 DEF Peers
<1>4. i \in polled /\ UNCHANGED reading
  BY DEF Handler, Emote, BeatGame, SetName, BeachballScored, ResetBeachballScore,
         UpdateBeachball, Update, Handles, network
<1> QED
  BY <1>1, <1>3, <1>4, PeersAreSessions, OwnSlot DEF SameSessions

(* A handler that passes one message on.                                   *)
LEMMA PassingOnTells ==
  ASSUME SInv, NEW i \in Id, Handler(i), NEW s \in Id,
         \/ Emote(i) \/ UpdateBeachball(i)
         \/ \E duration \in Durations : BeatGame(i, duration)
         \/ \E name \in Names : SetName(i, name)
  PROVE  \E m : Tells(s, m)
<1>1. IInv /\ RestType
  BY DEF SInv
<1>2. /\ i \in polled /\ pidx[i] \in Slot /\ SameSessions
      /\ pdata' \in [Slot -> PlayerData] /\ pdata[pidx[i]].id = i
  BY <1>1, PeersOfHandler, HandlersKeepSessions DEF IInv, TableType
<1>3. PlayerMeta(pdata'[pidx[i]]) \in Msg /\ PlayerMeta(pdata'[pidx[i]]).kind = "PlayerMeta"
  <2>1. pdata'[pidx[i]] \in PlayerData /\ pdata'[pidx[i]].id \in Id
    BY <1>2 DEF SameSessions
  <2> QED
    BY <2>1, PlayerMetaType DEF PlayerMeta
<1>4. /\ EmoteBy(i) \in Msg /\ EmoteBy(i).kind = "Emote"
      /\ BallUpdate \in Msg /\ BallUpdate.kind = "UpdateBeachball"
  BY PlainMessages DEF EmoteBy, BallUpdate
<1>5. ASSUME NEW tab \in {pdata, pdata'}, NEW msg \in Msg, NEW ignore,
             msg.kind \in {"Emote", "PlayerMeta", "UpdateBeachball"},
             out' = Broadcast(out, tab, msg, ignore), score' = score
      PROVE  \E m : Tells(s, m)
  <2>1. /\ Peers(tab, ignore) \cap reading \subseteq polled \cap reading
        /\ polled' = polled /\ reading' = reading
    BY <1>1, <1>5, PeersOfHandler
  <2>2. out' = Write(out, Peers(tab, ignore) \cap reading, <<msg>>)
    BY <1>5 DEF Broadcast
  <2> QED
    BY <1>1, <1>5, <2>1, <2>2, OneQuietMessage
<1>6. CASE Emote(i)
  BY <1>4, <1>5, <1>6 DEF Emote
<1>7. CASE UpdateBeachball(i)
  BY <1>4, <1>5, <1>7 DEF UpdateBeachball
<1>8. CASE \E duration \in Durations : BeatGame(i, duration)
  <2>1. PICK duration \in Durations : BeatGame(i, duration)
    BY <1>8
  <2>2. score' = score /\ polled' = polled /\ reading' = reading
    BY <2>1 DEF BeatGame, network
  <2>3. \/ out' = out
        \/ out' = Broadcast(out, pdata', PlayerMeta(pdata'[pidx[i]]), pdata[pidx[i]].id)
    BY <2>1 DEF BeatGame
  <2>4. CASE out' = out
    BY <1>1, <2>2, <2>4, SilentTells
  <2> QED
    BY <1>3, <1>5, <2>2, <2>3, <2>4
<1>9. CASE \E name \in Names : SetName(i, name)
  <2>1. PICK name \in Names : SetName(i, name)
    BY <1>9
  <2>2. /\ score' = score
        /\ out' = Broadcast(out, pdata', PlayerMeta(pdata'[pidx[i]]), pdata'[pidx[i]].id)
    BY <2>1 DEF SetName
  <2> QED
    BY <1>3, <1>5, <2>2
<1> QED
  BY <1>6, <1>7, <1>8, <1>9

(* A goal that counts, or not, and a reset: the new score is the last one  *)
(* each session is sent.                                                   *)
LEMMA ScoreTells ==
  ASSUME SInv, NEW i \in Id, Handler(i), NEW s \in Id,
         ResetBeachballScore(i) \/ \E who \in {0, 1} : BeachballScored(i, who)
  PROVE  \E m : Tells(s, m)
<1>1. IInv /\ RestType
  BY DEF SInv
<1>2. /\ UNCHANGED <<polled, reading>>
      /\ \A ignore : Peers(pdata, ignore) \cap reading = (polled \cap reading) \ {ignore}
  BY <1>1, PeersOfHandler
<1>3. out \in [Id -> Seq(Msg)]
  BY <1>1 DEF RestType
<1>4. score' \in [{0, 1} -> 0 .. MaxScore]
  BY <1>1, OtherHandlersKeepTypes DEF RestType
<1>5. Meta(score') \in Msg /\ Meta(score').kind = "Meta" /\ Meta(score').score = score'
  BY <1>4, PlainMessages DEF Meta
<1>6. NoOne \notin Id
  BY DEF NoOne, Id
<1>7. /\ Peers(pdata, NoOne) \cap reading = polled \cap reading
  BY <1>1, <1>2, <1>6 DEF IInv, TableType
<1> DEFINE sessions == polled \cap reading
           metas == <<Meta(score')>>
           ball  == <<BallUpdate>>
<1>8. /\ metas \in Seq(Msg) /\ Len(metas) = 1 /\ metas[1] = Meta(score')
      /\ ball \in Seq(Msg) /\ Len(ball) = 1 /\ ball[1] = BallUpdate
      /\ BallUpdate.kind = "UpdateBeachball"
  BY <1>5, PlainMessages DEF BallUpdate
<1>9. s \in sessions <=> s \in polled \cap reading
  OBVIOUS
<1> HIDE DEF sessions, metas, ball
<1>10. ASSUME s \notin sessions, out'[s] = out[s] PROVE \E m : Tells(s, m)
  BY <1>1, <1>2, <1>9, <1>10, SilentTells
<1>13. ASSUME NEW w \in Seq(Msg), s \in sessions, out'[s] = out[s] \o w,
              \A k \in 1 .. Len(w) : \/ w[k] = Meta(score') \/ w[k] = BallUpdate
                                     \/ w[k].kind = "BeachballScored",
              \E k \in 1 .. Len(w) : w[k] = Meta(score')
       PROVE  Tells(s, w)
  <2>1. \A k \in 1 .. Len(w) :
          /\ w[k].kind # "Connected" /\ w[k].kind # "Disconnected" /\ w[k].kind # "UpdatePlayer"
          /\ w[k].kind = "Meta" => w[k].score = score'
    BY <1>5, <1>8, <1>13
  <2>2. \E k \in 1 .. Len(w) : w[k].kind = "Meta"
    BY <1>5, <1>13
  <2> QED
    BY <1>2, <1>9, <1>13, <2>1, <2>2, QuietTells
<1>11. CASE ResetBeachballScore(i)
  <2> DEFINE first  == Write(out, sessions, metas)
             second == Write(first, sessions \ {pdata[pidx[i]].id}, ball)
  <2>1. out' = first \/ out' = second
    BY <1>2, <1>7, <1>11 DEF ResetBeachballScore, Broadcast, metas, ball, sessions
  <2>2. first[s] = IF s \in sessions THEN out[s] \o metas ELSE out[s]
    BY <1>3 DEF Write
  <2>3. second[s] = IF s \in sessions \ {pdata[pidx[i]].id} THEN first[s] \o ball ELSE first[s]
    BY DEF Write
  <2> HIDE DEF first, second
  <2>4. CASE s \notin sessions
    BY <1>10, <2>1, <2>2, <2>3, <2>4
  <2>5. CASE s \in sessions /\ out'[s] = first[s]
    <3>1. out'[s] = out[s] \o metas
      BY <2>2, <2>5
    <3>2. /\ \A k \in 1 .. Len(metas) : metas[k] = Meta(score')
          /\ \E k \in 1 .. Len(metas) : metas[k] = Meta(score')
      BY <1>8
    <3>3. Tells(s, metas)
      BY <1>8, <1>13, <2>5, <3>1, <3>2
    <3> QED
      BY <3>3
  <2>6. CASE s \in sessions /\ out'[s] = first[s] \o ball
    <3> DEFINE both == metas \o ball
    <3>1. /\ both \in Seq(Msg) /\ Len(both) = 2
          /\ both[1] = Meta(score') /\ both[2] = BallUpdate
      <4>0. metas \in Seq(Msg) /\ ball \in Seq(Msg)
        BY <1>8
      <4>1. both \in Seq(Msg) /\ Len(both) = Len(metas) + Len(ball)
        BY <4>0, ConcatProperties
      <4>2. both[1] = metas[1] /\ both[2] = ball[2 - 1]
        BY <1>8, ConcatProperties
      <4> QED
        BY <1>8, <4>1, <4>2
    <3>2. out'[s] = out[s] \o both
      <4>1. out[s] \in Seq(Msg) /\ metas \in Seq(Msg) /\ ball \in Seq(Msg)
        BY <1>3, <1>8
      <4>2. \A q, r, u \in Seq(Msg) : (q \o r) \o u = q \o (r \o u)
        BY ConcatAssociative
      <4>3. (out[s] \o metas) \o ball = out[s] \o both
        BY <4>1, <4>2
      <4> QED
        BY <2>2, <2>6, <4>3
    <3> HIDE DEF both
    <3>3. /\ \A k \in 1 .. Len(both) : both[k] = Meta(score') \/ both[k] = BallUpdate
          /\ \E k \in 1 .. Len(both) : both[k] = Meta(score')
      BY <3>1
    <3>4. Tells(s, both)
      BY <1>13, <2>6, <3>1, <3>2, <3>3
    <3> QED
      BY <3>4
  <2> QED
    BY <2>1, <2>3, <2>4, <2>5, <2>6
<1>12. CASE \E who \in {0, 1} : BeachballScored(i, who)
  <2>1. PICK who \in {0, 1} : BeachballScored(i, who)
    BY <1>12
  <2> DEFINE goal == <<Scored(who), Meta(score')>>
  <2>2. \/ UNCHANGED <<score, out>>
        \/ out' = Write(out, sessions, goal)
    BY <1>7, <2>1 DEF BeachballScored, sessions
  <2>3. /\ goal \in Seq(Msg) /\ Len(goal) = 2 /\ goal[1] = Scored(who) /\ goal[2] = Meta(score')
        /\ Scored(who).kind = "BeachballScored"
    BY <1>5, PlainMessages DEF Scored
  <2> HIDE DEF goal
  <2>4. CASE UNCHANGED <<score, out>>
    BY <1>1, <1>2, <2>4, SilentTells
  <2>5. CASE out' = Write(out, sessions, goal)
    <3>1. out'[s] = IF s \in sessions THEN out[s] \o goal ELSE out[s]
      BY <1>3, <2>5 DEF Write
    <3>2. CASE s \in sessions
      <4>1. out'[s] = out[s] \o goal
        BY <3>1, <3>2
      <4>2. /\ \A k \in 1 .. Len(goal) : \/ goal[k] = Meta(score')
                                         \/ goal[k].kind = "BeachballScored"
            /\ \E k \in 1 .. Len(goal) : goal[k] = Meta(score')
        BY <2>3
      <4>3. Tells(s, goal)
        BY <1>13, <2>3, <3>2, <4>1, <4>2
      <4> QED
        BY <4>3
    <3> QED
      BY <1>10, <3>1, <3>2
  <2> QED
    BY <2>2, <2>4, <2>5
<1> QED
  BY <1>11, <1>12

(* The answer to an update: every player in it is a session.               *)
LEMMA UpdateTells ==
  ASSUME SInv, NEW i \in Id, NEW distance \in Distances, Update(i, distance), NEW s \in Id
  PROVE  \E m : Tells(s, m)
<1> DEFINE slots == {p \in Valid(pdata) : pdata[p].id # i}
           answer(list) == [k \in 1 .. Len(list) |-> UpdatePlayer(pdata[list[k]].id)]
<1>1. /\ IInv /\ RestType /\ out \in [Id -> Seq(Msg)]
      /\ i \in polled /\ polled' = polled /\ reading' = reading /\ score' = score
  BY DEF SInv, RestType, Update, Handles, network
<1>2. PICK list \in InSlotOrder(slots) : out' = Write(out, {i} \cap reading, answer(list))
  BY DEF Update
<1> DEFINE m == answer(list)
<1>3. slots \in SUBSET Slot
  BY DEF Valid
<1>4. /\ Cardinality(slots) \in Nat /\ Len(list) = Cardinality(slots)
      /\ list \in [1 .. Cardinality(slots) -> slots]
  BY <1>3, LoopOverSlots
<1>5. \A p \in slots : /\ UpdatePlayer(pdata[p].id) \in Msg
                       /\ UpdatePlayer(pdata[p].id).kind = "UpdatePlayer"
                       /\ UpdatePlayer(pdata[p].id).id \in polled \ {i}
  <2>1. \A p \in slots : pdata[p].id \in polled \ {i} /\ pdata[p].id \in Id
    BY <1>1, ValidSlot
  <2> QED
    BY <2>1, PlainMessages DEF UpdatePlayer
<1>6. m \in [1 .. Cardinality(slots) -> Msg]
  <2> HIDE DEF slots
  <2> QED
    BY <1>4, <1>5
<1>7. m \in Seq(Msg) /\ Len(m) = Cardinality(slots)
  BY <1>4, <1>6, FunctionIsSeq
<1>8. \A k \in 1 .. Len(m) : m[k].kind = "UpdatePlayer" /\ m[k].id \in polled \ {i}
  <2> HIDE DEF slots
  <2> QED
    BY <1>4, <1>5, <1>7
<1>9. out'[s] = IF s \in {i} \cap reading THEN out[s] \o m ELSE out[s]
  <2> HIDE DEF answer
  <2> QED
    BY <1>1, <1>2 DEF Write
<1> HIDE DEF m
<1>10. CASE s = i /\ i \in reading
  <2>1. out'[s] = out[s] \o m
    BY <1>9, <1>10
  <2>2. Tells(s, m)
    BY <1>1, <1>7, <1>8, <1>10, <2>1, QuietTells
  <2> QED
    BY <2>2
<1>11. CASE ~ (s = i /\ i \in reading)
  BY <1>1, <1>9, <1>11, SilentTells
<1> QED
  BY <1>10, <1>11

(* Whatever a handler writes.                                              *)
LEMMA HandlerTells ==
  ASSUME SInv, NEW i \in Id, Handler(i), NEW s \in Id
  PROVE  \E m : Tells(s, m)
BY PassingOnTells, ScoreTells, UpdateTells DEF Handler

(* Every session that stays is told who left.                              *)
LEMMA DisconnectTells ==
  ASSUME SInv, NEW i \in Id, Disconnect(i), NEW s \in Id
  PROVE  \E m : Tells(s, m)
<1> DEFINE msg == Disconnected(i)
           m == <<msg>>
<1>1. /\ IInv /\ RestType /\ out \in [Id -> Seq(Msg)]
      /\ i \in polled /\ polled \subseteq Id
      /\ polled' = polled \ {i} /\ reading' = reading \ {i} /\ score' = score
      /\ out' = Write(out, Peers(pdata', NoOne) \cap reading, m)
  BY DEF SInv, IInv, TableType, RestType, Disconnect, Broadcast
<1>2. Peers(pdata', NoOne) = polled \ {i}
  <2>1. IInv'
    BY <1>1, DisconnectKeepsIInv
  <2>2. \A p \in Valid(pdata') : pdata'[p].id \in polled'
    BY <2>1 DEF IInv, SlotOwnership, Valid
  <2>3. \A j \in polled' : pidx'[j] \in Valid(pdata') /\ pdata'[pidx'[j]].id = j
    BY <2>1 DEF IInv, SlotOwnership, TableType, Valid
  <2>4. NoOne \notin polled
    BY <1>1 DEF NoOne, Id
  <2> QED
    BY SMTT(25), <1>1, <2>2, <2>3, <2>4 DEF Peers
<1>3. /\ msg \in Msg /\ msg.kind = "Disconnected" /\ msg.id = i
  BY PlainMessages DEF Disconnected
<1> HIDE DEF msg
<1>4. m \in Seq(Msg) /\ Len(m) = 1 /\ m[1] = msg
  BY <1>3
<1>5. out'[s] = IF s \in (polled \ {i}) \cap reading THEN out[s] \o m ELSE out[s]
  <2> HIDE DEF m
  <2> QED
    BY <1>1, <1>2 DEF Write
<1> HIDE DEF m
<1>6. CASE s \in (polled \ {i}) \cap reading
  <2>1. \A k \in 1 .. Len(m) : m[k].kind # "UpdatePlayer" /\ m[k].kind # "Meta"
    BY <1>3, <1>4
  <2>2. \A j \in Id : Listed(j, polled \ {s}, m, 1) <=> j \in polled' \ {s}
    <3>1. \A j \in Id : ~ About(m[1], "Connected", j) /\ (About(m[1], "Disconnected", j) <=> j = i)
      BY <1>3, <1>4 DEF About
    <3>2. \A j \in Id : Listed(j, polled \ {s}, m, 1) <=>
                          j \in polled \ {s} /\ ~ About(m[1], "Disconnected", j)
      BY <3>1 DEF Listed
    <3> QED
      BY <1>1, <3>1, <3>2
  <2>3. UpdatesFit(m, polled \ {s}) /\ EndsWith(m, polled \ {s}, polled' \ {s})
    BY <1>4, <2>1, <2>2 DEF UpdatesFit, EndsWith
  <2>4. Tells(s, m)
    BY <1>1, <1>4, <1>5, <1>6, <2>1, <2>3 DEF Tells
  <2> QED
    BY <2>4
<1>7. CASE s \notin (polled \ {i}) \cap reading
  BY <1>1, <1>5, <1>7, SilentTells
<1> QED
  BY <1>6, <1>7

(* Every session is told who came, and the score.                          *)
LEMMA AcceptTells ==
  ASSUME SInv, NEW takes \in BOOLEAN, Accept(takes), NEW s \in Id, s # client_id
  PROVE  \E m : Tells(s, m)
<1> DEFINE i     == client_id
           msg   == Connected(i)
           first == <<msg>>
           n     == Cardinality(Valid(pdata))
           metas == [k \in 1 .. n |-> Meta(score)]
           sessions == polled \cap reading
           written == Write(out, sessions, first)
           m     == first \o metas
<1>1. /\ IInv /\ RestType /\ out \in [Id -> Seq(Msg)] /\ polled \subseteq Id
      /\ score \in [{0, 1} -> 0 .. MaxScore]
      /\ polled' = polled \cup {i} /\ score' = score
      /\ reading' = reading \cup {i} \/ reading' = reading
  BY DEF SInv, IInv, TableType, RestType, Accept
<1>2. i \in Id
  BY <1>1 DEF Accept, IInv, TableType, Id
<1>3. Peers(pdata, NoOne) \cap reading = sessions
  <2>1. NoOne \notin polled
    BY <1>1 DEF NoOne, Id
  <2> QED
    BY <1>1, <2>1, PeersAreSessions
<1>4. PICK list \in InSlotOrder(Valid(pdata)) :
        \E g : out' = [Write(written, sessions, metas) EXCEPT ![i] = g]
  BY <1>3 DEF Accept, Broadcast
<1>5. msg \in Msg /\ msg.kind = "Connected" /\ msg.id = i
  BY <1>2, PlainMessages DEF Connected
<1>6. n \in Nat /\ Meta(score) \in Msg /\ Meta(score).kind = "Meta" /\ Meta(score).score = score
  <2>1. n \in Nat
    BY LoopOverSlots DEF Valid
  <2>2. Meta(score) \in Msg
    BY <1>1, PlainMessages
  <2>3. Meta(score).kind = "Meta" /\ Meta(score).score = score
    BY DEF Meta
  <2> QED
    BY <2>1, <2>2, <2>3
<1>7. metas \in Seq(Msg) /\ Len(metas) = n /\ \A k \in 1 .. n : metas[k] = Meta(score)
  <2>1. metas \in [1 .. n -> Msg]
    BY <1>6
  <2> QED
    BY <1>6, <2>1, FunctionIsSeq
<1> HIDE DEF msg, n
<1>8. first \in Seq(Msg) /\ Len(first) = 1 /\ first[1] = msg
  BY <1>5
<1> HIDE DEF first, metas
<1>9. written \in [Id -> Seq(Msg)] /\ written[s] = IF s \in sessions THEN out[s] \o first ELSE out[s]
  <2> HIDE DEF sessions
  <2> QED
    BY <1>1, <1>8, WriteType
<1>10. out'[s] = IF s \in sessions THEN written[s] \o metas ELSE written[s]
  <2> HIDE DEF sessions, written
  <2> QED
    BY <1>4 DEF Write
<1> HIDE DEF written
<1>11. /\ m \in Seq(Msg) /\ Len(m) = 1 + n /\ m[1] = msg
       /\ \A k \in 2 .. 1 + n : m[k] = Meta(score)
  <2>1. m \in Seq(Msg) /\ Len(m) = Len(first) + Len(metas)
    BY <1>7, <1>8, ConcatProperties
  <2>2. \A k \in 1 .. Len(first) + Len(metas) :
          m[k] = IF k <= Len(first) THEN first[k] ELSE metas[k - Len(first)]
    BY <1>7, <1>8, ConcatProperties
  <2>3. m[1] = msg
    <3>1. 1 \in 1 .. Len(first) + Len(metas) /\ 1 <= Len(first)
      BY <1>6, <1>7, <1>8
    <3> QED
      BY <1>8, <2>2, <3>1
  <2>4. ASSUME NEW k \in 2 .. 1 + n PROVE m[k] = Meta(score)
    <3>1. k \in 1 .. Len(first) + Len(metas) /\ ~ (k <= Len(first)) /\ k - Len(first) \in 1 .. n
      BY <1>6, <1>7, <1>8
    <3> QED
      BY <1>7, <2>2, <3>1
  <2> QED
    BY <1>7, <1>8, <2>1, <2>3, <2>4
<1>12. CASE s \in sessions
  <2>1. out'[s] = out[s] \o m
    <3>1. out[s] \in Seq(Msg) /\ first \in Seq(Msg) /\ metas \in Seq(Msg)
      BY <1>1, <1>7, <1>8
    <3>2. \A q, r, u \in Seq(Msg) : (q \o r) \o u = q \o (r \o u)
      BY ConcatAssociative
    <3>3. (out[s] \o first) \o metas = out[s] \o m
      BY <3>1, <3>2
    <3> QED
      BY <1>9, <1>10, <1>12, <3>3
  <2> HIDE DEF m
  <2>2. \A k \in 1 .. Len(m) : k = 1 \/ k \in 2 .. 1 + n
    BY <1>6, <1>11
  <2>3. \A k \in 1 .. Len(m) : /\ m[k].kind # "UpdatePlayer" /\ m[k].kind # "Disconnected"
                               /\ m[k].kind = "Meta" => m[k].score = score
                               /\ m[k].kind = "Connected" => k = 1
    BY <1>5, <1>6, <1>11, <2>2
  <2>4. ASSUME NEW j \in Id
        PROVE  Listed(j, polled \ {s}, m, Len(m)) <=> j \in polled' \ {s}
    <3>1. \A k \in 1 .. Len(m) : ~ About(m[k], "Disconnected", j)
      BY <2>3 DEF About
    <3>2. \A k \in 1 .. Len(m) : About(m[k], "Connected", j) => j = i
      BY <1>5, <1>11, <2>3 DEF About
    <3>3. 1 \in 1 .. Len(m) /\ (j = i => About(m[1], "Connected", j))
      BY <1>5, <1>6, <1>11 DEF About
    <3>4. \A k \in 1 .. Len(m) : \A l \in k + 1 .. Len(m) : l \in 1 .. Len(m)
      OBVIOUS
    <3>5. Listed(j, polled \ {s}, m, Len(m)) <=> j = i \/ j \in polled \ {s}
      BY <3>1, <3>2, <3>3, <3>4 DEF Listed
    <3> QED
      BY <1>1, <3>5
  <2>5. UpdatesFit(m, polled \ {s}) /\ EndsWith(m, polled \ {s}, polled' \ {s})
    BY <2>3, <2>4 DEF UpdatesFit, EndsWith
  <2>6. Tells(s, m)
    BY <1>1, <1>11, <1>12, <2>1, <2>3, <2>5 DEF Tells
  <2> QED
    BY <2>6
<1>13. CASE s \notin sessions
  BY <1>1, <1>9, <1>10, <1>13, SilentTells
<1> QED
  BY <1>12, <1>13

(* The greeting names every other session, and the score, and nothing else *)
(* that matters here.                                                      *)
LEMMA GreetingFits ==
  ASSUME SInv, NEW list \in InSlotOrder(Valid(pdata)), NEW isShown
  PROVE  /\ UpdatesFit(Greeting(pdata, list), {})
         /\ EndsWith(Greeting(pdata, list), {}, polled)
         /\ ScoreFits(Greeting(pdata, list), score, 0, isShown)
<1> DEFINE g == Greeting(pdata, list)
           n == Cardinality(Valid(pdata))
           d(m) == pdata[list[(m + 2) \div 3]]
<1>1. IInv /\ polled \subseteq Id
  BY DEF SInv, IInv, TableType
<1>2. n \in Nat /\ list \in [1 .. n -> Valid(pdata)] /\ Len(list) = n
  BY LoopOverSlots DEF Valid
<1>3. Len(g) = 3 * n
  BY <1>1, GreetingType DEF SInv, RestType
<1>4. ASSUME NEW m \in 1 .. 3 * n
      PROVE  g[m] = IF m % 3 = 1 THEN Connected(d(m).id)
                    ELSE IF m % 3 = 2 THEN Meta(score) ELSE PlayerMeta(d(m))
  BY <1>2 DEF Greeting
<1>5. ASSUME NEW m \in 1 .. 3 * n
      PROVE  (m + 2) \div 3 \in 1 .. n /\ d(m).id \in polled
  <2>1. (m + 2) \div 3 \in 1 .. n
    BY <1>2
  <2>2. list[(m + 2) \div 3] \in Valid(pdata)
    BY <1>2, <2>1
  <2> QED
    BY <1>1, <2>1, <2>2, ValidSlot
<1>6. ASSUME NEW m \in 1 .. 3 * n
      PROVE  /\ g[m].kind # "UpdatePlayer" /\ g[m].kind # "Disconnected"
             /\ g[m].kind = "Meta" => g[m].score = score
             /\ g[m].kind = "Connected" => g[m].id \in polled
  <2>1. g[m] = Connected(d(m).id) \/ g[m] = Meta(score) \/ g[m] = PlayerMeta(d(m))
    BY <1>4
  <2>2. d(m).id \in polled
    BY <1>5
  <2> HIDE DEF g, d
  <2>3. CASE g[m] = Connected(d(m).id)
    BY <2>2, <2>3 DEF Connected
  <2>4. CASE g[m] = Meta(score)
    BY <2>4 DEF Meta
  <2>5. CASE g[m] = PlayerMeta(d(m))
    BY <2>5 DEF PlayerMeta
  <2> QED
    BY <2>1, <2>3, <2>4, <2>5
<1>7. ASSUME NEW j \in polled PROVE \E m \in 1 .. 3 * n : About(g[m], "Connected", j)
  <2>1. pidx[j] \in Valid(pdata) /\ pdata[pidx[j]].id = j
    BY <1>1, OwnSlot
  <2>2. PICK k \in 1 .. n : list[k] = pidx[j]
    <3>1. Valid(pdata) \in SUBSET Slot
      BY DEF Valid
    <3> QED
      BY <2>1, <3>1, LoopIsComplete
  <2> DEFINE m == 3 * k - 2
  <2>3. m \in 1 .. 3 * n /\ (m + 2) \div 3 = k /\ m % 3 = 1
    BY <1>2
  <2>4. g[m] = Connected(j)
    <3> HIDE DEF m, g
    <3> QED
      BY <1>4, <2>1, <2>2, <2>3
  <2> QED
    BY <2>3, <2>4 DEF About, Connected
<1> HIDE DEF g, n, d
<1>8. UpdatesFit(g, {}) /\ ScoreFits(g, score, 0, isShown)
  BY <1>3, <1>6 DEF UpdatesFit, ScoreFits
<1>9. ASSUME NEW j \in Id PROVE Listed(j, {}, g, 3 * n) <=> j \in polled
  <2>1. \A m \in 1 .. 3 * n : ~ About(g[m], "Disconnected", j)
    BY <1>6 DEF About
  <2>2. \A m \in 1 .. 3 * n : \A l \in m + 1 .. 3 * n : l \in 1 .. 3 * n
    OBVIOUS
  <2>3. Listed(j, {}, g, 3 * n) <=> \E m \in 1 .. 3 * n : About(g[m], "Connected", j)
    BY <2>1, <2>2 DEF Listed
  <2>4. (\E m \in 1 .. 3 * n : About(g[m], "Connected", j)) => j \in polled
    BY <1>6 DEF About
  <2> QED
    BY <1>7, <2>3, <2>4
<1>10. EndsWith(g, {}, polled)
  BY <1>3, <1>9 DEF EndsWith
<1> QED
  BY <1>8, <1>10 DEF g

(* Whatever else the server does, it writes to no socket.                  *)
LEMMA ServerStepTells ==
  ASSUME SInv, ServerStep, NEW s \in Id
  PROVE  \E m : Tells(s, m)
<1>1. RestType
  BY DEF SInv
<1>2. CASE AcceptFull
  BY <1>1, <1>2, SilentTells DEF AcceptFull, table, network
<1>3. CASE \E i \in Id : HangUp(i)
  BY <1>1, <1>3, SilentTells DEF HangUp, table
<1> QED
  BY <1>2, <1>3, DisconnectTells, HandlerTells DEF ServerStep

-----------------------------------------------------------------------------
(* The clients' side.                                                      *)

(* What the server writes to a client fits to what was on its way.         *)
LEMMA ToldClient ==
  ASSUME SInv, NEW c \in Client, OnTheWay(c),
         sock'[c] = sock[c], UNCHANGED game,
         sock[c] \in Id => \E m : Tells(sock[c], m)
  PROVE  OnTheWay(c)'
<1> SUFFICES ASSUME sock[c] \in Id PROVE OnTheWay(c)'
  BY DEF OnTheWay
<1> DEFINE s == sock[c]
           q == out[s]
<1>1. PICK m : Tells(s, m)
  OBVIOUS
<1>2. /\ q \in Seq(Msg) /\ m \in Seq(Msg)
      /\ out'[s] = q \o m /\ s \in Id /\ sock'[c] = s
      /\ Base(c)' = Base(c) /\ told' = told /\ shown' = shown
  BY <1>1 DEF Tells, SInv, RestType, Base, game
<1>3. UpdatesFit(q, Base(c)) /\ (s \in polled \cap reading =>
        /\ EndsWith(q, Base(c), polled \ {s})
        /\ ScoreFits(q, score, told[c], shown[c]))
  BY DEF OnTheWay, InSession
<1>4. UpdatesFit(q \o m, Base(c))
  <2>1. CASE s \in polled \cap reading
    BY <1>1, <1>2, <1>3, <2>1, AppendUpdates DEF Tells
  <2>2. CASE s \notin polled \cap reading
    <3>1. m = << >>
      BY <1>1, <2>2 DEF Tells
    <3>2. q \o m = q
      BY <1>2, <3>1, ConcatEmptySeq
    <3> QED
      BY <1>3, <3>2
  <2> QED
    BY <2>1, <2>2
<1>5. ASSUME s \in polled' \cap reading'
      PROVE  /\ EndsWith(q \o m, Base(c), polled' \ {s})
             /\ ScoreFits(q \o m, score', told[c], shown[c])
  <2>1. /\ s \in polled \cap reading
        /\ EndsWith(m, polled \ {s}, polled' \ {s})
        /\ score' = score \/ \E k \in 1 .. Len(m) : m[k].kind = "Meta"
        /\ \A k \in 1 .. Len(m) : m[k].kind = "Meta" => m[k].score = score'
    BY <1>1, <1>5 DEF Tells
  <2>2. EndsWith(q \o m, Base(c), polled' \ {s})
    BY <1>2, <1>3, <2>1, AppendRoster
  <2>3. ScoreFits(q \o m, score', told[c], shown[c])
    BY <1>2, <1>3, <2>1, AppendScore
  <2> QED
    BY <2>2, <2>3
<1> QED
  BY <1>2, <1>4, <1>5 DEF OnTheWay, InSession

(* Steps of which a client sees nothing.                                   *)
LEMMA UndisturbedClient ==
  ASSUME NEW c \in Client, OnTheWay(c),
         sock'[c] = sock[c], Base(c)' = Base(c), told'[c] = told[c], shown'[c] = shown[c],
         polled' = polled, score' = score, reading' \subseteq reading,
         sock[c] \in Id => out'[sock[c]] = out[sock[c]]
  PROVE  OnTheWay(c)'
BY DEF OnTheWay, InSession

(* A step of one client leaves what is on its way to the others alone.     *)
LEMMA OtherClients ==
  ASSUME MmoInv, NEW c \in Client, NEW d \in Client, d # c,
         sock'[d] = sock[d], sampled'[d] = sampled[d], others'[d] = others[d],
         told'[d] = told[d], shown'[d] = shown[d],
         polled' = polled, score' = score, reading' \subseteq reading,
         \A s \in Id : s # sock[c] => out'[s] = out[s]
  PROVE  OnTheWay(d)'
<1>1. OnTheWay(d) /\ (sock[d] \in Id => sock[d] # sock[c])
  BY DEF MmoInv, OwnSockets
<1>2. Base(d)' = Base(d)
  BY DEF Base
<1> QED
  BY <1>1, <1>2, UndisturbedClient

(* A lost connection, as the server sees it: a client turns away, or       *)
(* nothing happens.                                                        *)
LEMMA LossIsForgotten ==
  ASSUME RestType, NEW c \in Client, LosesConnection(c)
  PROVE  /\ [Next]_vars
         /\ polled' = polled /\ score' = score /\ client_id' = client_id
         /\ reading' \subseteq reading
         /\ \A s \in Id : s # sock[c] => out'[s] = out[s]
<1> DEFINE s == sock[c]
<1>1. /\ reading' = reading \ {s} /\ out' = [i \in Id |-> IF i = s THEN << >> ELSE out[i]]
      /\ UNCHANGED <<pdata, polled, pidx, score, client_id, overrun, hungup, won>>
  BY DEF LosesConnection, table
<1>2. out \in [Id -> Seq(Msg)] /\ reading \subseteq Id
  BY DEF RestType
<1> HIDE DEF s
<1>3. CASE s \in Id /\ (s \in reading \/ out[s] # << >>)
  <2>1. out' = [out EXCEPT ![s] = << >>]
    BY <1>1, <1>2
  <2>2. ClientForgets(s)
    BY <1>1, <1>3, <2>1 DEF ClientForgets, table
  <2> QED
    BY <1>1, <1>3, <2>2 DEF Next, s
<1>4. CASE ~ (s \in Id /\ (s \in reading \/ out[s] # << >>))
  <2>1. reading' = reading
    BY <1>1, <1>2, <1>4
  <2>2. \A i \in Id : (IF i = s THEN << >> ELSE out[i]) = out[i]
    BY <1>4
  <2>3. out' = out
    BY <1>1, <1>2, <2>2
  <2>4. UNCHANGED vars
    BY <1>1, <2>1, <2>3 DEF vars
  <2> QED
    BY <1>1, <2>1, <2>3, <2>4 DEF s
<1> QED
  BY <1>3, <1>4

(* Every step of the session is a step of the server or none at all.       *)
LEMMA StepIsServers ==
  ASSUME RestType, [MmoNext]_mvars
  PROVE  [Next]_vars
<1>1. CASE ServerAccepts
  BY <1>1 DEF ServerAccepts, Next
<1>2. CASE ServerStep
  BY <1>2 DEF ServerStep, Next
<1>3. CASE UNCHANGED mvars
  BY <1>3 DEF mvars
<1>4. ASSUME NEW c \in Client,
             \/ ReconnectGetsDue(c) \/ Sample(c) \/ PollNothing(c)
             \/ PollReconnect(c) \/ PollReconnectFails(c)
      PROVE  UNCHANGED vars
  BY <1>4 DEF ReconnectGetsDue, Sample, PollNothing, PollReconnect, PollReconnectFails
<1>5. ASSUME NEW c \in Client, SendFails(c) \/ PollFails(c)
      PROVE  [Next]_vars
  BY <1>5, LossIsForgotten DEF SendFails, PollFails
<1>6. ASSUME NEW c \in Client, PollMessage(c)
      PROVE  [Next]_vars
  <2>1. sock[c] \in Id /\ (ClientReads(sock[c]) \/ LosesConnection(c))
    BY <1>6 DEF PollMessage
  <2> QED
    BY <2>1, LossIsForgotten DEF Next
<1> QED
  BY <1>1, <1>2, <1>3, <1>4, <1>5, <1>6 DEF MmoNext

LEMMA InitMmoInv == MmoInit => MmoInv
<1> SUFFICES ASSUME MmoInit PROVE MmoInv
  OBVIOUS
<1>1. SInv
  BY InitSInv DEF MmoInit
<1>2. \A c \in Client : sock[c] \in {Waiting, NoSocket}
  BY DEF MmoInit
<1>3. MmoRestType
  <2>1. [side \in {0, 1} |-> 0] \in [{0, 1} -> 0 .. MaxScore]
    BY BoundAssumption
  <2>2. {} \in SUBSET Id
    OBVIOUS
  <2> QED
    BY <2>1, <2>2 DEF MmoInit, MmoRestType
<1>4. OwnSockets
  BY <1>2 DEF OwnSockets
<1>5. \A c \in Client : Sampling(c) /\ OnTheWay(c)
  BY <1>2 DEF MmoInit, Sampling, OnTheWay, Base
<1> QED
  BY <1>1, <1>3, <1>4, <1>5 DEF MmoInv

(* The server's steps.                                                     *)
LEMMA ServerKeepsMmoInv ==
  ASSUME MmoInv, SInv', ServerAccepts \/ ServerStep
  PROVE  MmoInv'
<1>1. SInv /\ MmoRestType /\ client_id \in Nat /\ client_id' \in Nat /\ client_id <= client_id'
  <2>1. SInv /\ MmoRestType /\ client_id \in Nat
    BY DEF MmoInv, SInv, IInv, TableType
  <2>2. CASE ServerAccepts
    BY <2>1, <2>2 DEF ServerAccepts, Accept
  <2>3. CASE ServerStep
    <3>1. client_id' = client_id
      BY <2>3 DEF ServerStep, AcceptFull, Disconnect, HangUp, Handler, Emote, BeatGame, SetName,
                  BeachballScored, ResetBeachballScore, UpdateBeachball, Update
    <3> QED
      BY <2>1, <3>1
  <2> QED
    BY <2>1, <2>2, <2>3
<1>2. CASE /\ UNCHANGED <<library, game>>
           /\ \A d \in Client : sock[d] \in Id => \E m : Tells(sock[d], m)
  <2>1. MmoRestType'
    BY <1>1, <1>2 DEF MmoRestType, library, game
  <2>2. OwnSockets'
    <3>1. \A s \in Id : s < client_id => s < client_id'
      BY <1>1 DEF Id
    <3> QED
      BY <1>2, <3>1 DEF MmoInv, OwnSockets, library
  <2>3. ASSUME NEW d \in Client PROVE Sampling(d)' /\ OnTheWay(d)'
    <3>1. Sampling(d)'
      BY <1>2 DEF MmoInv, Sampling, Base, library, game
    <3>2. OnTheWay(d)'
      BY <1>1, <1>2, ToldClient DEF MmoInv, library
    <3> QED
      BY <3>1, <3>2
  <2> QED
    BY <2>1, <2>2, <2>3 DEF MmoInv
<1>3. CASE ServerStep
  <2>1. UNCHANGED <<library, game>>
    BY <1>3 DEF ServerStep
  <2> QED
    BY <1>1, <1>2, <1>3, <2>1, ServerStepTells
<1>4. \A d \in Client : sock[d] \in Id => sock[d] # client_id
  BY <1>1 DEF MmoInv, OwnSockets
<1>5. CASE Accept(FALSE) /\ UNCHANGED <<library, game>>
  BY <1>1, <1>2, <1>4, <1>5, AcceptTells
<1>6. ASSUME NEW c \in Client, sock[c] = Waiting, Accept(TRUE),
             sock' = [sock EXCEPT ![c] = client_id], UNCHANGED <<connected, due, game>>
      PROVE  MmoInv'
  <2> DEFINE i == client_id
  <2>1. /\ i \in Id /\ client_id' = i + 1 /\ polled' = polled \cup {i} /\ score' = score
    BY <1>1, <1>6 DEF Accept, Id
  <2>2. sock'[c] = i /\ \A d \in Client : d # c => sock'[d] = sock[d]
    BY <1>1, <1>6 DEF MmoRestType
  <2>3. MmoRestType'
    BY <1>1, <1>6, <2>1 DEF MmoRestType, game
  <2>4. OwnSockets'
    <3>1. \A d \in Client : d # c /\ sock[d] \in Id => sock[d] < i /\ sock[d] < i + 1 /\ sock[d] # i
      BY <1>1 DEF MmoInv, OwnSockets, Id
    <3>2. i < i + 1
      BY <1>1
    <3> QED
      BY <2>1, <2>2, <3>1, <3>2 DEF MmoInv, OwnSockets
  <2>5. ASSUME NEW d \in Client PROVE Sampling(d)'
    <3>1. Sampling(d) /\ sock[c] # NoSocket /\ i # NoSocket /\ i # Waiting
      BY <1>6, <2>1 DEF MmoInv
    <3>2. CASE d = c
      BY <1>6, <2>2, <3>1, <3>2 DEF Sampling, Base, game
    <3>3. CASE d # c
      BY <1>6, <2>2, <3>1, <3>3 DEF Sampling, Base, game
    <3> QED
      BY <3>2, <3>3
  <2>6. ASSUME NEW d \in Client, d # c PROVE OnTheWay(d)'
    <3>1. OnTheWay(d) /\ sock'[d] = sock[d] /\ UNCHANGED game
      BY <1>6, <2>2, <2>6 DEF MmoInv
    <3>2. sock[d] \in Id => \E m : Tells(sock[d], m)
      BY <1>1, <1>4, <1>6, AcceptTells
    <3> QED
      BY <1>1, <3>1, <3>2, ToldClient
  <2>7. OnTheWay(c)'
    <3>1. PICK others_of \in InSlotOrder(Valid(pdata)), queues \in [Id -> Seq(Msg)] :
            out' = [queues EXCEPT ![i] = Greeting(pdata, others_of)]
      <4> DEFINE Told(others_of, sockets, metas, msg) ==
                   /\ out' = [Write(Write(out, sockets, <<msg>>), sockets, metas)
                                EXCEPT ![i] = Greeting(pdata, others_of)]
                   /\ metas = [k \in 1 .. Cardinality(Valid(pdata)) |-> Meta(score)]
                   /\ msg = Connected(i)
      <4>0. PICK others_of \in InSlotOrder(Valid(pdata)) :
              \E sockets, metas, msg : Told(others_of, sockets, metas, msg)
        BY <1>6 DEF Accept, Broadcast
      <4>1. PICK sockets, metas, msg : Told(others_of, sockets, metas, msg)
        BY <4>0
      <4>2. Cardinality(Valid(pdata)) \in Nat
        BY LoopOverSlots DEF Valid
      <4>3. msg \in Msg /\ Meta(score) \in Msg
        BY <1>1, <2>1, <4>1, PlainMessages DEF SInv, RestType
      <4>4. metas \in [1 .. Cardinality(Valid(pdata)) -> Msg]
        BY <4>1, <4>3
      <4>5. metas \in Seq(Msg) /\ <<msg>> \in Seq(Msg)
        BY <4>2, <4>3, <4>4, FunctionIsSeq
      <4>6. out \in [Id -> Seq(Msg)]
        BY <1>1 DEF SInv, RestType
      <4>7. Write(Write(out, sockets, <<msg>>), sockets, metas) \in [Id -> Seq(Msg)]
        BY <4>5, <4>6, WriteType
      <4> QED
        BY <4>1, <4>7
    <3>2. out'[i] = Greeting(pdata, others_of)
      BY <2>1, <3>1
    <3>3. Base(c)' = {} /\ told'[c] = 0
      BY <1>6 DEF MmoInv, Sampling, Base, game
    <3>4. polled' \ {i} = polled
      BY <1>1, <2>1 DEF SInv, IInv, IdsInOrder, TableType, Id
    <3>5. /\ UpdatesFit(Greeting(pdata, others_of), {})
          /\ EndsWith(Greeting(pdata, others_of), {}, polled)
          /\ ScoreFits(Greeting(pdata, others_of), score, 0, shown'[c])
      BY <1>1, GreetingFits
    <3> QED
      BY <2>1, <2>2, <3>2, <3>3, <3>4, <3>5 DEF OnTheWay, InSession
  <2> QED
    BY <2>3, <2>4, <2>5, <2>6, <2>7 DEF MmoInv
<1> QED
  BY <1>3, <1>5, <1>6 DEF ServerAccepts

(* A client that only notes that time has passed, or that nothing came.    *)
LEMMA IdlingKeepsMmoInv ==
  ASSUME MmoInv, SInv', NEW c \in Client,
         ReconnectGetsDue(c) \/ PollNothing(c) \/ PollReconnectFails(c)
  PROVE  MmoInv'
<1>1. SInv /\ MmoRestType
  BY DEF MmoInv
<1>2. /\ UNCHANGED <<vars, sock, connected, sampled, others, shown, told>>
      /\ \A d \in Client : d # c => due'[d] = due[d] /\ phase'[d] = phase[d]
  BY <1>1 DEF ReconnectGetsDue, PollNothing, PollReconnectFails, GivesNone, library, game,
              MmoRestType
<1>3. /\ due' \in [Client -> {0, 1}] /\ phase' \in [Client -> {"update", "drain"}]
      /\ due'[c] = 1 => connected[c] = 0
      /\ phase'[c] = "update"
  <2>1. Sampling(c)
    BY DEF MmoInv
  <2>2. CASE ReconnectGetsDue(c)
    BY <1>1, <2>2 DEF ReconnectGetsDue, game, MmoRestType
  <2>3. CASE PollNothing(c)
    BY <1>1, <2>1, <2>3 DEF PollNothing, GivesNone, library, Sampling, MmoRestType
  <2>4. CASE PollReconnectFails(c)
    BY <1>1, <2>4 DEF PollReconnectFails, GivesNone, MmoRestType
  <2> QED
    BY <2>2, <2>3, <2>4
<1>4. MmoRestType'
  BY <1>1, <1>2, <1>3 DEF MmoRestType
<1>5. OwnSockets'
  BY <1>2 DEF MmoInv, OwnSockets, vars
<1>6. ASSUME NEW d \in Client PROVE Sampling(d)'
  <2>1. Sampling(d)
    BY DEF MmoInv
  <2>2. Base(d)' = Base(d)
    BY <1>2 DEF Base
  <2> QED
    BY <1>2, <1>3, <2>1, <2>2 DEF Sampling
<1>7. ASSUME NEW d \in Client PROVE OnTheWay(d)'
  <2>1. Base(d)' = Base(d)
    BY <1>2 DEF Base
  <2> QED
    BY <1>2, <2>1, UndisturbedClient DEF MmoInv, vars
<1> QED
  BY <1>4, <1>5, <1>6, <1>7 DEF MmoInv

(* The library loses the connection, whatever the game does of it.         *)
LEMMA LossKeepsMmoInv ==
  ASSUME MmoInv, SInv', MmoRestType', NEW c \in Client, LosesConnection(c),
         \A d \in Client : d # c =>
           /\ phase'[d] = phase[d] /\ sampled'[d] = sampled[d] /\ others'[d] = others[d]
           /\ shown'[d] = shown[d] /\ told'[d] = told[d]
  PROVE  MmoInv'
<1>1. SInv /\ MmoRestType
  BY DEF MmoInv
<1>2. /\ sock'[c] = NoSocket /\ connected'[c] = 0 /\ due'[c] = 0
      /\ \A d \in Client : d # c =>
           sock'[d] = sock[d] /\ connected'[d] = connected[d] /\ due'[d] = due[d]
  BY <1>1 DEF LosesConnection, MmoRestType
<1>3. /\ polled' = polled /\ score' = score /\ client_id' = client_id
      /\ reading' \subseteq reading
      /\ \A s \in Id : s # sock[c] => out'[s] = out[s]
  BY <1>1, LossIsForgotten DEF SInv
<1>4. OwnSockets'
  BY <1>2, <1>3 DEF MmoInv, OwnSockets
<1>5. ASSUME NEW d \in Client PROVE Sampling(d)'
  <2>1. Sampling(d)
    BY DEF MmoInv
  <2>2. CASE d = c
    BY <1>2, <2>2 DEF Sampling
  <2>3. CASE d # c
    <3>1. Base(d)' = Base(d)
      BY <2>3 DEF Base
    <3> QED
      BY <1>2, <2>1, <2>3, <3>1 DEF Sampling
  <2> QED
    BY <2>2, <2>3
<1>6. ASSUME NEW d \in Client PROVE OnTheWay(d)'
  <2>1. CASE d = c
    BY <1>2, <2>1 DEF OnTheWay
  <2>2. CASE d # c
    BY <1>2, <1>3, <2>2, OtherClients
  <2> QED
    BY <2>1, <2>2
<1> QED
  BY <1>4, <1>5, <1>6 DEF MmoInv

(* handle_mmo starts: the players of an earlier connection are forgotten.  *)
LEMMA SampleKeepsMmoInv ==
  ASSUME MmoInv, SInv', NEW c \in Client, Sample(c)
  PROVE  MmoInv'
<1>1. SInv /\ MmoRestType
  BY DEF MmoInv
<1>2. /\ UNCHANGED <<vars, library, shown, told>>
      /\ phase'[c] = "drain" /\ sampled'[c] = connected[c]
      /\ others'[c] = IF connected[c] = 1 /\ sampled[c] = 0 THEN {} ELSE others[c]
      /\ \A d \in Client : d # c =>
           phase'[d] = phase[d] /\ sampled'[d] = sampled[d] /\ others'[d] = others[d]
  BY <1>1 DEF Sample, MmoRestType
<1>3. MmoRestType'
  BY <1>1 DEF Sample, MmoRestType, library
<1>4. OwnSockets'
  BY <1>2 DEF MmoInv, OwnSockets, vars, library
<1>5. connected[c] = 1 => Base(c)' = Base(c)
  <2>1. sampled[c] \in {0, 1}
    BY <1>1 DEF MmoRestType
  <2> QED
    BY <1>2, <2>1 DEF Base
<1>6. \A d \in Client : d # c => Base(d)' = Base(d)
  BY <1>2 DEF Base
<1>7. ASSUME NEW d \in Client PROVE Sampling(d)'
  <2>1. Sampling(d)
    BY DEF MmoInv
  <2>2. CASE d = c
    <3>1. connected[c] \in {0, 1}
      BY <1>1 DEF MmoRestType
    <3> QED
      BY <1>2, <1>5, <2>1, <2>2, <3>1 DEF Sampling, library
  <2>3. CASE d # c
    BY <1>2, <1>6, <2>1, <2>3 DEF Sampling, library
  <2> QED
    BY <2>2, <2>3
<1>8. ASSUME NEW d \in Client PROVE OnTheWay(d)'
  <2>1. CASE sock[d] \in Id
    <3>1. sock[c] \in Id => connected[c] = 1
      BY DEF MmoInv, Sampling
    <3>2. Base(d)' = Base(d)
      BY <1>5, <1>6, <2>1, <3>1
    <3> QED
      BY <1>2, <3>2, UndisturbedClient DEF MmoInv, vars, library
  <2>2. CASE sock[d] \notin Id
    BY <1>2, <2>2 DEF OnTheWay, library
  <2> QED
    BY <2>1, <2>2
<1> QED
  BY <1>3, <1>4, <1>7, <1>8 DEF MmoInv

(* A new connection: nothing is on its way, and nothing is shown of it.    *)
LEMMA ReconnectKeepsMmoInv ==
  ASSUME MmoInv, SInv', NEW c \in Client, PollReconnect(c)
  PROVE  MmoInv'
<1>1. SInv /\ MmoRestType
  BY DEF MmoInv
<1>2. /\ UNCHANGED <<vars, sampled, others, shown>>
      /\ phase[c] = "drain" /\ due[c] = 1
      /\ phase'[c] = "update" /\ due'[c] = 0 /\ connected'[c] = 1
      /\ sock'[c] = Waiting /\ told'[c] = 0
      /\ \A d \in Client : d # c =>
           /\ phase'[d] = phase[d] /\ due'[d] = due[d] /\ connected'[d] = connected[d]
           /\ sock'[d] = sock[d] /\ told'[d] = told[d]
  BY <1>1 DEF PollReconnect, GivesNone, MmoRestType
<1>3. MmoRestType'
  BY <1>1 DEF PollReconnect, GivesNone, MmoRestType
<1>4. OwnSockets'
  BY <1>2 DEF MmoInv, OwnSockets, vars
<1>5. \A d \in Client : Base(d)' = Base(d)
  BY <1>2 DEF Base
<1>6. ASSUME NEW d \in Client PROVE Sampling(d)'
  <2>1. Sampling(d)
    BY DEF MmoInv
  <2>2. CASE d = c
    <3>1. sampled[c] = 0
      BY <1>2, <2>1, <2>2 DEF Sampling
    <3>2. Base(c)' = {}
      BY <1>5, <3>1 DEF Base
    <3> QED
      BY <1>2, <2>2, <3>2 DEF Sampling
  <2>3. CASE d # c
    BY <1>2, <1>5, <2>1, <2>3 DEF Sampling
  <2> QED
    BY <2>2, <2>3
<1>7. ASSUME NEW d \in Client PROVE OnTheWay(d)'
  <2>1. CASE d = c
    BY <1>2, <2>1 DEF OnTheWay
  <2>2. CASE d # c
    BY <1>2, <1>5, <2>2, UndisturbedClient DEF MmoInv, vars
  <2> QED
    BY <2>1, <2>2
<1> QED
  BY <1>3, <1>4, <1>6, <1>7 DEF MmoInv

(* One more message is handled.                                            *)
LEMMA MessageKeepsMmoInv ==
  ASSUME MmoInv, SInv', NEW c \in Client, PollMessage(c)
  PROVE  MmoInv'
<1> DEFINE s   == sock[c]
           q   == out[s]
           msg == Head(q)
<1>1. SInv /\ MmoRestType /\ out \in [Id -> Seq(Msg)]
  BY DEF MmoInv, SInv, RestType
<1>2. /\ s \in Id /\ q \in Seq(Msg) /\ q # << >> /\ phase[c] = "drain" /\ connected[c] = 1
      /\ phase' = phase /\ sampled' = sampled
      /\ others' = [others EXCEPT ![c] = Roster(@, msg)]
      /\ \/ ClientReads(s) /\ UNCHANGED library
         \/ LosesConnection(c)
  BY <1>1 DEF PollMessage
<1>3. \/ /\ msg.kind = "Meta"
         /\ shown' = [shown EXCEPT ![c] = msg.score]
         /\ told' = [told EXCEPT ![c] = 1]
      \/ /\ msg.kind # "Meta"
         /\ UNCHANGED <<shown, told>>
  BY DEF PollMessage
<1>4. msg \in Msg
  BY <1>2, HeadTailProperties
<1> HIDE DEF msg, q, s
<1>5. Roster(others[c], msg) \in SUBSET Id
  <2>1. others[c] \in SUBSET Id
    BY <1>1 DEF MmoRestType
  <2> QED
    BY <1>4, <2>1, MsgFields DEF Roster
<1>6. /\ others'[c] = Roster(others[c], msg)
      /\ \A d \in Client : d # c =>
           others'[d] = others[d] /\ shown'[d] = shown[d] /\ told'[d] = told[d]
      /\ msg.kind = "Meta" => shown'[c] = msg.score /\ told'[c] = 1
      /\ msg.kind # "Meta" => shown'[c] = shown[c] /\ told'[c] = told[c]
  BY <1>1, <1>2, <1>3 DEF MmoRestType
<1>7. others' \in [Client -> SUBSET Id]
  BY <1>1, <1>2, <1>5 DEF MmoRestType
<1>8. shown' \in [Client -> [{0, 1} -> 0 .. MaxScore]] /\ told' \in [Client -> {0, 1}]
  <2>1. msg.kind = "Meta" => msg.score \in [{0, 1} -> 0 .. MaxScore]
    BY <1>4, MsgFields
  <2> QED
    BY <1>1, <1>3, <2>1 DEF MmoRestType
<1>9. phase' \in [Client -> {"update", "drain"}] /\ sampled' \in [Client -> {0, 1}]
  BY <1>1, <1>2 DEF MmoRestType
<1>10. CASE LosesConnection(c)
  <2>1. /\ sock' \in [Client -> Id \cup {NoSocket, Waiting}]
        /\ connected' \in [Client -> {0, 1}] /\ due' \in [Client -> {0, 1}]
    BY <1>1, <1>10 DEF LosesConnection, MmoRestType
  <2>2. MmoRestType'
    BY <1>7, <1>8, <1>9, <2>1 DEF MmoRestType
  <2> QED
    BY <1>2, <1>6, <1>10, <2>2, LossKeepsMmoInv
<1>11. CASE ClientReads(s) /\ UNCHANGED library
  <2>1. /\ out' = [out EXCEPT ![s] = Tail(@)] /\ UNCHANGED <<sock, connected, due>>
        /\ polled' = polled /\ reading' = reading /\ score' = score /\ client_id' = client_id
    BY <1>11 DEF ClientReads, library, table, network
  <2>2. out'[s] = Tail(q) /\ \A i \in Id : i # s => out'[i] = out[i]
    BY <1>1, <1>2, <2>1 DEF q
  <2>3. MmoRestType'
    BY <1>1, <1>7, <1>8, <1>9, <2>1 DEF MmoRestType
  <2>4. OwnSockets'
    BY <2>1 DEF MmoInv, OwnSockets
  <2>5. sampled[c] = 1 /\ Base(c) = others[c] /\ Base(c)' = Roster(Base(c), msg)
    <3>1. sampled[c] = 1
      BY <1>2 DEF MmoInv, Sampling
    <3> QED
      BY <1>2, <1>6, <3>1 DEF Base
  <2>6. ASSUME NEW d \in Client PROVE Sampling(d)'
    <3>1. Sampling(d) /\ (d = c => sock[d] # Waiting)
      BY <1>2 DEF MmoInv, s
    <3>2. CASE d = c
      BY <1>2, <2>1, <3>1, <3>2 DEF Sampling
    <3>3. CASE d # c
      <4>1. Base(d)' = Base(d)
        BY <1>2, <1>6, <3>3 DEF Base
      <4> QED
        BY <1>2, <1>6, <2>1, <3>1, <3>3, <4>1 DEF Sampling
    <3> QED
      BY <3>2, <3>3
  <2>7. ASSUME NEW d \in Client, d # c PROVE OnTheWay(d)'
    BY <1>2, <1>6, <2>1, <2>2, <2>7, OtherClients DEF s
  <2>8. OnTheWay(c)'
    <3>1. /\ UpdatesFit(q, Base(c))
          /\ s \in polled \cap reading => /\ EndsWith(q, Base(c), polled \ {s})
                                          /\ ScoreFits(q, score, told[c], shown[c])
      BY <1>2 DEF MmoInv, OnTheWay, InSession, s, q
    <3>2. UpdatesFit(Tail(q), Roster(Base(c), msg))
      BY <1>2, <3>1, PopUpdates DEF msg
    <3>3. ASSUME s \in polled \cap reading
          PROVE  /\ EndsWith(Tail(q), Roster(Base(c), msg), polled \ {s})
                 /\ ScoreFits(Tail(q), score, told'[c], shown'[c])
      <4>1. EndsWith(Tail(q), Roster(Base(c), msg), polled \ {s})
        BY <1>2, <3>1, <3>3, PopRoster DEF msg
      <4>2. IF msg.kind = "Meta"
            THEN ScoreFits(Tail(q), score, 1, msg.score)
            ELSE ScoreFits(Tail(q), score, told[c], shown[c])
        BY <1>2, <3>1, <3>3, PopScore DEF msg
      <4>3. ScoreFits(Tail(q), score, told'[c], shown'[c])
        BY <1>6, <4>2
      <4> QED
        BY <4>1, <4>3
    <3> QED
      BY <2>1, <2>2, <2>5, <3>2, <3>3 DEF OnTheWay, InSession, s
  <2> QED
    BY <2>3, <2>4, <2>6, <2>7, <2>8 DEF MmoInv
<1> QED
  BY <1>2, <1>10, <1>11

LEMMA NextMmoInv == MmoInv /\ [MmoNext]_mvars => MmoInv'
<1> SUFFICES ASSUME MmoInv, [MmoNext]_mvars PROVE MmoInv'
  OBVIOUS
<1>1. SInv'
  BY StepIsServers, NextSInv DEF MmoInv, SInv
<1>2. CASE ServerAccepts \/ ServerStep
  BY <1>1, <1>2, ServerKeepsMmoInv
<1>3. ASSUME NEW c \in Client, SendFails(c) \/ PollFails(c) PROVE MmoInv'
  <2>1. LosesConnection(c) /\ UNCHANGED <<sampled, others, shown, told>>
    BY <1>3 DEF SendFails, PollFails, GivesNone, game
  <2>2. /\ phase' \in [Client -> {"update", "drain"}]
        /\ \A d \in Client : d # c => phase'[d] = phase[d]
    BY <1>3 DEF SendFails, PollFails, GivesNone, game, MmoInv, MmoRestType
  <2>3. MmoRestType'
    BY <2>1, <2>2 DEF LosesConnection, MmoInv, MmoRestType
  <2> QED
    BY <1>1, <2>1, <2>2, <2>3, LossKeepsMmoInv
<1>4. CASE UNCHANGED mvars
  <2>1. UNCHANGED <<vars, library, game>>
    BY <1>4 DEF mvars
  <2>2. MmoRestType' /\ OwnSockets'
    BY <2>1 DEF MmoInv, MmoRestType, OwnSockets, vars, library, game
  <2>3. ASSUME NEW d \in Client PROVE Sampling(d)' /\ OnTheWay(d)'
    <3>1. Base(d)' = Base(d)
      BY <2>1 DEF Base, game
    <3>2. Sampling(d)'
      BY <2>1, <3>1 DEF MmoInv, Sampling, library, game
    <3>3. OnTheWay(d)'
      BY <2>1, <3>1, UndisturbedClient DEF MmoInv, vars, library, game
    <3> QED
      BY <3>2, <3>3
  <2> QED
    BY <1>1, <2>2, <2>3 DEF MmoInv
<1> QED
  BY <1>1, <1>2, <1>3, <1>4, IdlingKeepsMmoInv, SampleKeepsMmoInv, ReconnectKeepsMmoInv,
     MessageKeepsMmoInv DEF MmoNext

-----------------------------------------------------------------------------
(* What follows.                                                           *)

THEOREM MmoInvariance == MmoSpec => []MmoInv
BY InitMmoInv, NextMmoInv, PTL DEF MmoSpec

(* The server of the session is the server of Server, whatever the clients *)
(* do at its sockets: all that holds of Server holds here.                 *)
THEOREM MmoIsServer == MmoSpec => Spec
<1>1. MmoInit => Init
  BY DEF MmoInit
<1>2. MmoInv /\ [MmoNext]_mvars => [Next]_vars
  BY StepIsServers DEF MmoInv, SInv
<1> QED
  BY <1>1, <1>2, MmoInvariance, PTL DEF MmoSpec, Spec

(* Every variable of the session has its type.                             *)
THEOREM MmoTypeCorrect == MmoSpec => []MmoTypeOK
<1>1. MmoInv => MmoTypeOK
  BY DEF MmoInv, SInv, IInv, TableType, RestType, TypeOK, MmoRestType, MmoTypeOK
<1> QED
  BY <1>1, MmoInvariance, PTL

(* The game is never given an update of a player it does not know.         *)
THEOREM UpdatesAreOfKnownPlayersHolds == MmoSpec => []UpdatesAreOfKnownPlayers
<1>1. MmoInv => UpdatesAreOfKnownPlayers
  <2> SUFFICES ASSUME MmoInv, NEW c \in Client,
                      phase[c] = "drain", connected[c] = 1, sock[c] \in Id,
                      out[sock[c]] # << >>, Head(out[sock[c]]).kind = "UpdatePlayer"
               PROVE  Head(out[sock[c]]).id \in others[c]
    BY DEF UpdatesAreOfKnownPlayers
  <2> DEFINE q == out[sock[c]]
  <2>1. q \in Seq(Msg) /\ q # << >>
    BY DEF MmoInv, SInv, RestType
  <2>2. UpdatesFit(q, Base(c)) /\ Base(c) = others[c]
    BY DEF MmoInv, OnTheWay, Sampling, Base
  <2> HIDE DEF q
  <2>3. 1 \in 1 .. Len(q) /\ Head(q) = q[1]
    BY <2>1
  <2>4. q[1].kind = "UpdatePlayer"
    BY <2>3 DEF q
  <2>5. Listed(q[1].id, others[c], q, 1 - 1)
    BY <2>2, <2>3, <2>4 DEF UpdatesFit
  <2>6. q[1].id \in others[c]
    BY <2>5 DEF Listed
  <2> QED
    BY <2>3, <2>6 DEF q
<1> QED
  BY <1>1, MmoInvariance, PTL

(* Once its messages are handled, a client's other players are the other   *)
(* sessions of the server.                                                 *)
THEOREM RosterAgreesHolds == MmoSpec => []RosterAgrees
<1>1. MmoInv => RosterAgrees
  <2>1. ASSUME MmoInv, NEW c \in Client, InSession(c)
        PROVE  sock[c] \in Id /\ EndsWith(out[sock[c]], Base(c), polled \ {sock[c]})
    BY <2>1 DEF MmoInv, SInv, IInv, TableType, OnTheWay, InSession
  <2> QED
    BY <2>1 DEF RosterAgrees, EndsWith
<1> QED
  BY <1>1, MmoInvariance, PTL

(* Once its messages are handled, a client shows the server's score.       *)
THEOREM ScoreAgreesHolds == MmoSpec => []ScoreAgrees
<1>1. MmoInv => ScoreAgrees
  <2>1. ASSUME MmoInv, NEW c \in Client, InSession(c)
        PROVE  ScoreFits(out[sock[c]], score, told[c], shown[c])
    BY <2>1 DEF MmoInv, SInv, IInv, TableType, OnTheWay, InSession
  <2> QED
    BY <2>1 DEF ScoreAgrees, ScoreFits
<1> QED
  BY <1>1, MmoInvariance, PTL
=============================================================================
