----------------------- MODULE WorkerConnectionProofs -----------------------
(***************************************************************************)
(* Proofs about WorkerConnection: its types, and that on a clean           *)
(* connection no message is in the dark, for any number of chats, messages *)
(* and lost connections and with every failure the module knows.           *)
(***************************************************************************)
EXTENDS WorkerConnection, SequenceTheorems, NaturalsInduction, WellFoundedInduction, TLAPS

(* Where the loop is, and what holds of the connection there.              *)
LoopOK ==
  /\ pc \in {"connect", "closing"} => ~sock
  /\ ~sock \/ pc = "join" => subs = {} /\ joining = {}
  /\ clean => joining = {}
  /\ pc \in {"list", "backfill", "read", "closing"} => once

(* Only a chat that has the agent gets messages for it, and a message that *)
(* was claimed has left the inbox of the posted ones.                      *)
MessagesOK ==
  /\ \A m \in Msgs : msg[m] # "none" => m[1] \in members
  /\ \A m \in handled : msg[m] \notin {"none", "posted"}

(* An event about a message follows its creation.                          *)
EventsOK == \A m \in Msgs : Created(m) \in ToSet(wire) => msg[m] # "none"

(* Before the first connection is set up, every chat was there before it,  *)
(* or has been announced.                                                  *)
FirstConnection ==
  ~once => \A k \in members : k \in leftover \/ Announced(k)

(* A chat that was joined is about to be rejoined, or its topic is joined  *)
(* and its messages come by the socket or by a drain; another chat is in   *)
(* the backfill's list, or was announced, or is left alone.                *)
JoinedServed(k)  == k \in subs /\ \A m \in Msgs : m[1] = k /\ msg[m] = "posted" => Delivered(m)
UnknownServed(k) == k \in leftover \/ Announced(k)

Served ==
  sock /\ clean =>
    /\ pc \in {"rejoin", "list", "backfill", "read"} =>
         /\ Agent \in subs
         /\ \A k \in joined : (pc = "rejoin" /\ k \in todo) \/ JoinedServed(k)
    /\ pc \in {"backfill", "read"} =>
         \A k \in members \ joined : (pc = "backfill" /\ k \in todo) \/ UnknownServed(k)

Inv == TypeOK /\ LoopOK /\ MessagesOK /\ EventsOK /\ FirstConnection /\ Served

-----------------------------------------------------------------------------
Events == ({"room_added"} \X Rooms) \union ({"message_created"} \X Msgs)

LEMMA MsgParts ==
  /\ \A m \in Msgs : m[1] \in Rooms /\ m[2] \in 1 .. MaxMsgs /\ m = <<m[1], m[2]>>
  /\ \A k \in Rooms, i \in 1 .. MaxMsgs :
       <<k, i>> \in Msgs /\ <<k, i>>[1] = k /\ <<k, i>>[2] = i
BY DEF Msgs

LEMMA EventTypes ==
  /\ \A k \in Rooms : RoomAdded(k) \in Events
  /\ \A m \in Msgs : Created(m) \in Events
  /\ \A k \in Rooms, m \in Msgs : RoomAdded(k) # Created(m)
  /\ \A k, l \in Rooms : RoomAdded(k) = RoomAdded(l) => k = l
  /\ \A m, n \in Msgs : Created(m) = Created(n) => m = n
BY DEF Events, RoomAdded, Created

(* The message Band offers is a pending one.                               *)
LEMMA OldestIsPending ==
  ASSUME NEW k \in Rooms, Pending(k) # {}
  PROVE  Oldest(k) \in Pending(k) /\ Oldest(k) \in 1 .. MaxMsgs
<1> DEFINE pending == Pending(k)
<1>1. pending # {} /\ pending \subseteq Nat /\ pending \subseteq 1 .. MaxMsgs
  BY ConstantsAssumption DEF Pending
<1>2. \E x \in pending : \A y \in pending : ~(<<y, x>> \in OpToRel(<, Nat))
  <2> HIDE DEF pending
  <2> QED  BY <1>1, NatLessThanWellFounded, WFMin
<1>3. \E x \in pending : \A y \in pending : x <= y
  <2>1. PICK x \in pending : \A y \in pending : ~(<<y, x>> \in OpToRel(<, Nat))
    BY <1>2
  <2>2. ASSUME NEW y \in pending  PROVE x <= y
    <3> HIDE DEF pending
    <3>1. x \in Nat /\ y \in Nat
      BY <1>1
    <3>2. ~(y < x)
      BY <2>1, <3>1, Zenon DEF OpToRel
    <3> QED  BY <3>1, <3>2
  <2> QED  BY <2>2
<1> QED  BY <1>1, <1>3 DEF Oldest

(* What the events on the wire are when it grows at its end or shrinks at its head.    *)
LEMMA AppendKeeps ==
  ASSUME NEW S, NEW s \in Seq(S), NEW e \in S
  PROVE  ToSet(Append(s, e)) = ToSet(s) \union {e}
<1>1. /\ Append(s, e) \in Seq(S)
      /\ Len(Append(s, e)) = Len(s) + 1
      /\ \A i \in 1 .. Len(s) : Append(s, e)[i] = s[i]
      /\ Append(s, e)[Len(s) + 1] = e
  BY AppendProperties
<1>2. /\ Len(s) \in Nat /\ DOMAIN s = 1 .. Len(s)
      /\ DOMAIN Append(s, e) = 1 .. Len(s) + 1
  BY <1>1, LenProperties
<1> QED  BY <1>1, <1>2 DEF ToSet

LEMMA TailKeeps ==
  ASSUME NEW S, NEW s \in Seq(S), s # <<>>
  PROVE  ToSet(s) = ToSet(Tail(s)) \union {Head(s)}
<1>1. /\ Tail(s) \in Seq(S)
      /\ Len(Tail(s)) = Len(s) - 1
      /\ \A i \in 1 .. Len(Tail(s)) : Tail(s)[i] = s[i + 1]
      /\ Head(s) = s[1]
  BY HeadTailProperties
<1>2. /\ Len(s) \in Nat \ {0} /\ DOMAIN s = 1 .. Len(s)
      /\ DOMAIN Tail(s) = 1 .. Len(s) - 1
  BY <1>1, LenProperties, EmptySeq
<1>3. ASSUME NEW i \in 1 .. Len(s)  PROVE s[i] \in ToSet(Tail(s)) \union {Head(s)}
  <2>1. CASE i = 1
    BY <1>1, <2>1
  <2>2. CASE i # 1
    <3>1. i - 1 \in 1 .. Len(s) - 1 /\ (i - 1) + 1 = i
      BY <1>2, <2>2
    <3>2. Tail(s)[i - 1] = s[i]
      BY <1>1, <3>1
    <3> QED  BY <1>2, <3>1, <3>2 DEF ToSet
  <2> QED  BY <2>1, <2>2
<1>4. ASSUME NEW i \in 1 .. Len(s) - 1  PROVE Tail(s)[i] \in ToSet(s)
  <2>1. i + 1 \in 1 .. Len(s) /\ Tail(s)[i] = s[i + 1]
    BY <1>1, <1>2
  <2> QED  BY <1>2, <2>1 DEF ToSet
<1>5. Head(s) \in ToSet(s)
  BY <1>1, <1>2 DEF ToSet
<1> QED  BY <1>2, <1>3, <1>4, <1>5 DEF ToSet


(* The steps of the specification, one by one.                             *)
LEMMA NextCases ==
  ASSUME [Next]_vars
  PROVE  \/ \E k \in Rooms : \/ AddToRoom(k) \/ Rejoin(k) \/ Backfill(k)
                              \/ DispatchRoomAdded(k) \/ DrainEnds(k) \/ DrainMessage(k)
         \/ \E m \in Msgs : Post(m) \/ DispatchMessage(m) \/ HandlerEnds(m)
         \/ \E topic \in joining : ServerJoins(topic)
         \/ Drop \/ Connect \/ JoinAgentRooms \/ EndRejoin \/ ListChats \/ EndBackfill
         \/ ReadFails \/ Closed \/ Restart
         \/ UNCHANGED vars
BY DEF Next, LoopStep

-----------------------------------------------------------------------------
(* The types are preserved by every step.                                  *)
LEMMA TypeInit == Init => TypeOK
<1> SUFFICES ASSUME Init  PROVE TypeOK
  OBVIOUS
<1>1. msg \in [Msgs -> MsgStates]
  BY DEF Init, MsgStates
<1>2. drain \in [Rooms -> {Off, Ask} \union 1 .. MaxMsgs]
  BY DEF Init
<1>3. wire \in Seq(({"room_added"} \X Rooms) \union ({"message_created"} \X Msgs))
  BY DEF Init
<1>4. /\ drops \in 0 .. MaxDrops /\ busy \in Msgs \union {NoMsg}
      /\ attempted \in [Rooms -> SUBSET (1 .. MaxMsgs)]
  BY ConstantsAssumption DEF Init
<1> QED  BY <1>1, <1>2, <1>3, <1>4 DEF Init, TypeOK

LEMMA TypeStep ==
  ASSUME TypeOK, [Next]_vars
  PROVE  TypeOK'
<1> USE ConstantsAssumption, MsgParts DEF band, socket, memory, drains
<1>1. ASSUME NEW k \in Rooms, AddToRoom(k)  PROVE TypeOK'
  BY <1>1, EventTypes, AppendProperties, SMT DEF AddToRoom, Events, TypeOK
<1>2. ASSUME NEW k \in Rooms, Rejoin(k)  PROVE TypeOK'
  <2>1. drain' \in [Rooms -> {Off, Ask} \union 1 .. MaxMsgs]
    BY <1>2 DEF Rejoin, StartDrain, TypeOK
  <2>2. attempted' \in [Rooms -> SUBSET (1 .. MaxMsgs)]
    BY <1>2 DEF Rejoin, StartDrain, TypeOK
  <2>3. clean' \in BOOLEAN
    BY <1>2 DEF Rejoin, Join, TypeOK
  <2>4. subs' \subseteq Rooms \union {Agent} /\ joining' \subseteq Rooms \union {Agent}
    BY <1>2 DEF Rejoin, Join, TypeOK
  <2>5. sock' \in BOOLEAN
    BY <1>2 DEF Rejoin, Join, TypeOK
  <2> QED  BY <1>2, <2>1, <2>2, <2>3, <2>4, <2>5, SMT DEF Rejoin, TypeOK
<1>3. ASSUME NEW k \in Rooms, Backfill(k)  PROVE TypeOK'
  <2>1. drain' \in [Rooms -> {Off, Ask} \union 1 .. MaxMsgs]
    BY <1>3 DEF Backfill, StartDrain, TypeOK
  <2>2. attempted' \in [Rooms -> SUBSET (1 .. MaxMsgs)]
    BY <1>3 DEF Backfill, StartDrain, TypeOK
  <2>3. clean' \in BOOLEAN
    BY <1>3 DEF Backfill, Join, TypeOK
  <2>4. subs' \subseteq Rooms \union {Agent} /\ joining' \subseteq Rooms \union {Agent}
    BY <1>3 DEF Backfill, Join, TypeOK
  <2>5. sock' \in BOOLEAN
    BY <1>3 DEF Backfill, Join, TypeOK
  <2> QED  BY <1>3, <2>1, <2>2, <2>3, <2>4, <2>5, SMT DEF Backfill, TypeOK
<1>4. ASSUME NEW k \in Rooms, DispatchRoomAdded(k)  PROVE TypeOK'
  <2>1. drain' \in [Rooms -> {Off, Ask} \union 1 .. MaxMsgs]
    BY <1>4 DEF DispatchRoomAdded, StartDrain, TypeOK
  <2>2. attempted' \in [Rooms -> SUBSET (1 .. MaxMsgs)]
    BY <1>4 DEF DispatchRoomAdded, StartDrain, TypeOK
  <2>3. clean' \in BOOLEAN
    BY <1>4 DEF DispatchRoomAdded, Join, TypeOK
  <2>4. subs' \subseteq Rooms \union {Agent} /\ joining' \subseteq Rooms \union {Agent}
    BY <1>4 DEF DispatchRoomAdded, Join, TypeOK
  <2>5. sock' \in BOOLEAN
    BY <1>4 DEF DispatchRoomAdded, Join, TypeOK
  <2>6. wire' \in Seq(({"room_added"} \X Rooms) \union ({"message_created"} \X Msgs))
    BY <1>4, HeadTailProperties DEF DispatchRoomAdded, Dispatching, TypeOK
  <2>7. pc' = pc
    BY <1>4 DEF DispatchRoomAdded, Dispatching, TypeOK
  <2> QED  BY <1>4, <2>1, <2>2, <2>3, <2>4, <2>5, <2>6, <2>7, SMT DEF DispatchRoomAdded, TypeOK
<1>5. ASSUME NEW k \in Rooms, DrainEnds(k)  PROVE TypeOK'
  <2>1. drain' \in [Rooms -> {Off, Ask} \union 1 .. MaxMsgs]
    BY <1>5 DEF DrainEnds, TypeOK
  <2>2. clean' \in BOOLEAN
    BY <1>5 DEF DrainEnds, TypeOK
  <2> QED  BY <1>5, <2>1, <2>2, SMT DEF DrainEnds, TypeOK
<1>6. ASSUME NEW k \in Rooms, DrainMessage(k)  PROVE TypeOK'
  <2>1. Oldest(k) \in 1 .. MaxMsgs /\ <<k, Oldest(k)>> \in Msgs
    BY <1>6, OldestIsPending DEF DrainMessage, TypeOK
  <2>2. drain' \in [Rooms -> {Off, Ask} \union 1 .. MaxMsgs]
    BY <1>6, <2>1 DEF DrainMessage, TypeOK
  <2>3. attempted' \in [Rooms -> SUBSET (1 .. MaxMsgs)]
    BY <1>6, <2>1 DEF DrainMessage, TypeOK
  <2>4. msg' \in [Msgs -> MsgStates]
    <3>1. msg' = msg \/ msg' = [msg EXCEPT ![<<k, Oldest(k)>>] = "working"]
      BY <1>6 DEF DrainMessage
    <3>2. msg \in [Msgs -> MsgStates] /\ "working" \in MsgStates
      BY DEF MsgStates, TypeOK
    <3> QED  BY <2>1, <3>1, <3>2
  <2>5. handled' \subseteq Msgs
    BY <1>6, <2>1 DEF DrainMessage, TypeOK
  <2> QED  BY <1>6, <2>1, <2>2, <2>3, <2>4, <2>5, SMT DEF DrainMessage, TypeOK
<1>7. ASSUME NEW m \in Msgs, Post(m)  PROVE TypeOK'
  BY <1>7, EventTypes, AppendProperties, SMT DEF Post, Events, MsgStates, TypeOK
<1>8. ASSUME NEW m \in Msgs, DispatchMessage(m)  PROVE TypeOK'
  BY <1>8, HeadTailProperties, SMT DEF DispatchMessage, Dispatching, MsgStates, TypeOK
<1>9. ASSUME NEW m \in Msgs, HandlerEnds(m)  PROVE TypeOK'
  <2>1. drain' \in [Rooms -> {Off, Ask} \union 1 .. MaxMsgs]
    BY <1>9 DEF HandlerEnds, TypeOK
  <2>2. msg' \in [Msgs -> MsgStates]
    BY <1>9 DEF HandlerEnds, MsgStates, TypeOK
  <2>3. busy' \in Msgs \union {NoMsg}
    BY <1>9 DEF HandlerEnds, TypeOK
  <2> QED  BY <1>9, <2>1, <2>2, <2>3, SMT DEF HandlerEnds, TypeOK
<1>10. ASSUME NEW topic \in joining, ServerJoins(topic)  PROVE TypeOK'
  BY <1>10, SMT DEF ServerJoins, TypeOK
<1>11. ASSUME Drop  PROVE TypeOK'
  <2>1. drops' \in 0 .. MaxDrops
    BY <1>11 DEF Drop, TypeOK
  <2>2. sock' \in BOOLEAN /\ subs' = {} /\ joining' = {}
    BY <1>11, Zenon DEF Drop
  <2>3. UNCHANGED <<members, msg, wire, pc, todo, once, joined, handled, busy, drain,
                    attempted, leftover, clean>>
    BY <1>11, Zenon DEF Drop
  <2> QED  BY <2>1, <2>2, <2>3, SMT DEF TypeOK
<1>12. ASSUME Connect  PROVE TypeOK'
  BY <1>12, SMT DEF Connect, TypeOK
<1>13. ASSUME JoinAgentRooms  PROVE TypeOK'
  <2>1. clean' \in BOOLEAN
    BY <1>13 DEF JoinAgentRooms, Join, TypeOK
  <2>2. subs' \subseteq Rooms \union {Agent} /\ joining' \subseteq Rooms \union {Agent}
    BY <1>13 DEF JoinAgentRooms, Join, TypeOK
  <2>3. sock' \in BOOLEAN
    BY <1>13 DEF JoinAgentRooms, Join, TypeOK
  <2>4. todo' \subseteq Rooms
    BY <1>13 DEF JoinAgentRooms, TypeOK
  <2> QED  BY <1>13, <2>1, <2>2, <2>3, <2>4, SMT DEF JoinAgentRooms, TypeOK
<1>14. ASSUME EndRejoin  PROVE TypeOK'
  BY <1>14, SMT DEF EndRejoin, TypeOK
<1>15. ASSUME ListChats  PROVE TypeOK'
  <2>1. clean' \in BOOLEAN
    BY <1>15 DEF ListChats, TypeOK
  <2>2. todo' \subseteq Rooms /\ leftover' \subseteq Rooms
    BY <1>15 DEF ListChats, TypeOK
  <2> QED  BY <1>15, <2>1, <2>2, SMT DEF ListChats, TypeOK
<1>16. ASSUME EndBackfill  PROVE TypeOK'
  BY <1>16, SMT DEF EndBackfill, TypeOK
<1>17. ASSUME ReadFails  PROVE TypeOK'
  BY <1>17, SMT DEF ReadFails, TypeOK
<1>18. ASSUME Closed  PROVE TypeOK'
  BY <1>18, SMT DEF Closed, NoMsg, TypeOK
<1>19. ASSUME Restart  PROVE TypeOK'
  <2>1. drain' \in [Rooms -> {Off, Ask} \union 1 .. MaxMsgs]
    BY <1>19 DEF Restart, TypeOK
  <2>2. msg' \in [Msgs -> MsgStates]
    BY <1>19 DEF Restart, MsgStates, TypeOK
  <2>3. wire' \in Seq(({"room_added"} \X Rooms) \union ({"message_created"} \X Msgs))
    BY <1>19 DEF Restart, TypeOK
  <2>4. drops' \in 0 .. MaxDrops
    BY <1>19 DEF Restart, TypeOK
  <2>5. UNCHANGED <<members, attempted, clean>>
    BY <1>19 DEF Restart
  <2>6. /\ subs' = {} /\ joining' = {} /\ todo' = {} /\ joined' = {} /\ handled' = {}
        /\ leftover' = members /\ busy' = NoMsg /\ pc' = "connect"
        /\ sock' \in BOOLEAN /\ once' \in BOOLEAN
    BY <1>19, Zenon DEF Restart
  <2> QED  BY <2>1, <2>2, <2>3, <2>4, <2>5, <2>6, SMT DEF TypeOK
<1>20. ASSUME UNCHANGED vars  PROVE TypeOK'
  BY <1>20, SMT DEF vars, TypeOK
<1> QED
  BY <1>1, <1>2, <1>3, <1>4, <1>5, <1>6, <1>7, <1>8, <1>9, <1>10, <1>11, <1>12, <1>13, <1>14, <1>15, <1>16, <1>17, <1>18, <1>19, <1>20, NextCases

(* Every variable keeps its type, whatever fails.                          *)
THEOREM TypeCorrect == Spec => []TypeOK
BY TypeInit, TypeStep, PTL DEF Spec

-----------------------------------------------------------------------------
(* Where the loop is, the messages, and the first connection.              *)
LEMMA InvInit == Init => Inv
<1> SUFFICES ASSUME Init  PROVE Inv
  OBVIOUS
<1>1. TypeOK
  BY TypeInit
<1>2. LoopOK
  BY Zenon DEF Init, LoopOK
<1>3. MessagesOK /\ EventsOK /\ FirstConnection
  BY DEF Init, MessagesOK, EventsOK, FirstConnection, ToSet
<1>4. Served
  BY DEF Init, Served
<1> QED  BY <1>1, <1>2, <1>3, <1>4 DEF Inv

LEMMA JoinFrame ==
  ASSUME NEW topic, NEW ok \in BOOLEAN, Join(topic, ok)
  PROVE  /\ sock' = sock
         /\ sock => ok
         /\ ~sock => subs' = subs /\ joining' = joining /\ clean' = clean
         /\ subs \subseteq subs'
         /\ clean' => clean /\ joining' = joining /\ (sock => topic \in subs')
<1>1. sock' = sock /\ (sock => ok) /\ subs \subseteq subs'
  BY DEF Join
<1>2. ~sock => subs' = subs /\ joining' = joining /\ clean' = clean
  BY Zenon DEF Join
<1>3. clean' => clean /\ joining' = joining
  BY Zenon DEF Join
<1>4. clean' /\ sock => subs' = subs \union {topic}
  BY Zenon DEF Join
<1> QED  BY <1>1, <1>2, <1>3, <1>4

LEMMA LoopOKStep ==
  ASSUME TypeOK, LoopOK, [Next]_vars
  PROVE  LoopOK'
<1> USE DEF LoopOK, band, socket, memory, drains
<1>0. ASSUME NEW topic, NEW ok \in BOOLEAN, Join(topic, ok), pc # "join" \/ ~sock,
             UNCHANGED <<pc, once>>
      PROVE  LoopOK'
  <2>1. /\ sock' = sock /\ pc' = pc /\ once' = once
        /\ ~sock => subs' = subs /\ joining' = joining
        /\ clean' => clean /\ joining' = joining
    BY <1>0, JoinFrame
  <2>2. pc' \in {"connect", "closing"} => ~sock'
    BY <2>1, Zenon
  <2>3. ~sock' \/ pc' = "join" => subs' = {} /\ joining' = {}
    BY <1>0, <2>1, Zenon
  <2>4. clean' => joining' = {}
    BY <2>1, Zenon
  <2>5. pc' \in {"list", "backfill", "read", "closing"} => once'
    BY <2>1, Zenon
  <2> QED  BY <2>2, <2>3, <2>4, <2>5, Zenon
<1>1. ASSUME NEW k \in Rooms, AddToRoom(k)  PROVE LoopOK'
  BY <1>1, Zenon DEF AddToRoom
<1>2. ASSUME NEW k \in Rooms, Rejoin(k)  PROVE LoopOK'
  <2>1. PICK ok \in BOOLEAN : Join(k, ok)
    BY <1>2, Zenon DEF Rejoin
  <2>2. pc # "join" /\ UNCHANGED <<pc, once>>
    BY <1>2 DEF Rejoin
  <2> QED  BY <1>0, <2>1, <2>2
<1>3. ASSUME NEW k \in Rooms, Backfill(k)  PROVE LoopOK'
  <2>1. PICK ok \in BOOLEAN : Join(k, ok)
    BY <1>3, Zenon DEF Backfill
  <2>2. pc # "join" /\ UNCHANGED <<pc, once>>
    BY <1>3 DEF Backfill
  <2> QED  BY <1>0, <2>1, <2>2
<1>4. ASSUME NEW k \in Rooms, DispatchRoomAdded(k)  PROVE LoopOK'
  <2>1. pc # "join" /\ UNCHANGED <<pc, once>>
    BY <1>4 DEF DispatchRoomAdded, Dispatching
  <2>2. CASE k \in joined
    <3>1. UNCHANGED socket
      BY <1>4, <2>2 DEF DispatchRoomAdded
    <3> QED  BY <2>1, <3>1, Zenon
  <2>3. CASE k \notin joined
    <3>1. PICK ok \in BOOLEAN : Join(k, ok)
      BY <1>4, <2>3, Zenon DEF DispatchRoomAdded
    <3> QED  BY <1>0, <2>1, <3>1
  <2> QED  BY <2>2, <2>3
<1>5. ASSUME NEW k \in Rooms, DrainEnds(k)  PROVE LoopOK'
  <2>1. UNCHANGED <<sock, subs, joining, pc, once>>
    BY <1>5 DEF DrainEnds
  <2>2. clean' => clean
    BY <1>5, Zenon DEF DrainEnds
  <2> QED  BY <2>1, <2>2, Zenon
<1>6. ASSUME NEW k \in Rooms, DrainMessage(k)  PROVE LoopOK'
  BY <1>6, Zenon DEF DrainMessage
<1>7. ASSUME NEW m \in Msgs, Post(m)  PROVE LoopOK'
  BY <1>7, Zenon DEF Post
<1>8. ASSUME NEW m \in Msgs, DispatchMessage(m)  PROVE LoopOK'
  BY <1>8, Zenon DEF DispatchMessage, Dispatching
<1>9. ASSUME NEW m \in Msgs, HandlerEnds(m)  PROVE LoopOK'
  BY <1>9, Zenon DEF HandlerEnds
<1>10. ASSUME NEW topic \in joining, ServerJoins(topic)  PROVE LoopOK'
  BY <1>10, Zenon DEF ServerJoins
<1>11. ASSUME Drop  PROVE LoopOK'
  BY <1>11, Zenon DEF Drop
<1>12. ASSUME Connect  PROVE LoopOK'
  BY <1>12, Zenon DEF Connect
<1>13. ASSUME JoinAgentRooms  PROVE LoopOK'
  <2>1. pc = "join" /\ once' = once
    BY <1>13 DEF JoinAgentRooms
  <2>2. PICK ok \in BOOLEAN :
          Join(Agent, ok) /\ pc' = IF ok THEN "rejoin" ELSE "connect"
    BY <1>13, Zenon DEF JoinAgentRooms
  <2>3. pc' \in {"rejoin", "connect"} /\ (pc' = "connect" => ~sock)
    BY <2>2, JoinFrame
  <2>4. /\ sock' = sock
        /\ ~sock => subs' = subs /\ joining' = joining
        /\ clean' => clean /\ joining' = joining
    BY <2>2, JoinFrame
  <2> QED  BY <2>1, <2>3, <2>4, Zenon
<1>14. ASSUME EndRejoin  PROVE LoopOK'
  BY <1>14, Zenon DEF EndRejoin
<1>15. ASSUME ListChats  PROVE LoopOK'
  <2>1. pc = "list" /\ pc' = "backfill" /\ UNCHANGED <<sock, subs, joining, once>>
    BY <1>15 DEF ListChats
  <2>2. clean' => clean
    BY <1>15, Zenon DEF ListChats
  <2> QED  BY <2>1, <2>2, Zenon
<1>16. ASSUME EndBackfill  PROVE LoopOK'
  BY <1>16, Zenon DEF EndBackfill
<1>17. ASSUME ReadFails  PROVE LoopOK'
  BY <1>17, Zenon DEF ReadFails
<1>18. ASSUME Closed  PROVE LoopOK'
  BY <1>18, Zenon DEF Closed
<1>19. ASSUME Restart  PROVE LoopOK'
  BY <1>19, Zenon DEF Restart
<1>20. ASSUME UNCHANGED vars  PROVE LoopOK'
  BY <1>20, Zenon DEF vars
<1> QED
  BY <1>1, <1>2, <1>3, <1>4, <1>5, <1>6, <1>7, <1>8, <1>9, <1>10, <1>11, <1>12, <1>13, <1>14, <1>15, <1>16, <1>17, <1>18, <1>19, <1>20, NextCases

LEMMA MessagesOKStep ==
  ASSUME TypeOK, MessagesOK, EventsOK, [Next]_vars
  PROVE  MessagesOK'
<1> USE MsgParts DEF MessagesOK, band, socket, memory, drains
<1>1. ASSUME NEW k \in Rooms, AddToRoom(k)  PROVE MessagesOK'
  BY <1>1 DEF AddToRoom
<1>2. ASSUME NEW k \in Rooms, Rejoin(k)  PROVE MessagesOK'
  BY <1>2 DEF Rejoin, Join
<1>3. ASSUME NEW k \in Rooms, Backfill(k)  PROVE MessagesOK'
  BY <1>3 DEF Backfill, Join
<1>4. ASSUME NEW k \in Rooms, DispatchRoomAdded(k)  PROVE MessagesOK'
  BY <1>4 DEF DispatchRoomAdded, Dispatching, Join
<1>5. ASSUME NEW k \in Rooms, DrainEnds(k)  PROVE MessagesOK'
  BY <1>5 DEF DrainEnds
<1>6. ASSUME NEW k \in Rooms, DrainMessage(k)  PROVE MessagesOK'
  <2>1. <<k, Oldest(k)>> \in Msgs /\ msg[<<k, Oldest(k)>>] # "none"
    BY <1>6, OldestIsPending DEF DrainMessage, Pending
  <2>2. \/ msg' = msg /\ handled' = handled
        \/ /\ msg' = [msg EXCEPT ![<<k, Oldest(k)>>] = "working"]
           /\ handled' = handled \union {<<k, Oldest(k)>>}
    BY <1>6 DEF DrainMessage
  <2>3. members' = members
    BY <1>6 DEF DrainMessage
  <2>4. "working" \notin {"none", "posted"}
    OBVIOUS
  <2>5. <<k, Oldest(k)>>[1] \in members
    BY <2>1
  <2>6. \A m \in Msgs : msg'[m] # "none" => m[1] \in members'
    BY <2>1, <2>2, <2>3, <2>5 DEF TypeOK
  <2>7. \A m \in handled' : msg'[m] \notin {"none", "posted"}
    <3> SUFFICES ASSUME NEW m \in handled'  PROVE msg'[m] \notin {"none", "posted"}
      OBVIOUS
    <3>1. DOMAIN msg = Msgs /\ handled \subseteq Msgs
      BY DEF TypeOK
    <3>2. CASE m \in handled
      <4>1. msg'[m] = msg[m] \/ msg'[m] = "working"
        BY <2>2, <3>1, <3>2, Zenon
      <4>2. msg[m] \notin {"none", "posted"}
        BY <3>2
      <4> QED  BY <4>1, <4>2, <2>4
    <3>3. CASE m \notin handled
      <4>1. m = <<k, Oldest(k)>> /\ msg' = [msg EXCEPT ![<<k, Oldest(k)>>] = "working"]
        <5>1. handled' # handled
          BY <3>3
        <5>2. handled' = handled \union {<<k, Oldest(k)>>}
          BY <2>2, <5>1
        <5> QED  BY <2>2, <3>3, <5>1, <5>2
      <4>2. msg'[m] = "working"
        BY <2>1, <3>1, <4>1, Zenon
      <4> QED  BY <4>2, <2>4
    <3> QED  BY <3>2, <3>3
  <2> QED  BY <2>6, <2>7
<1>7. ASSUME NEW m \in Msgs, Post(m)  PROVE MessagesOK'
  BY <1>7 DEF Post
<1>8. ASSUME NEW m \in Msgs, DispatchMessage(m)  PROVE MessagesOK'
  <2>1. \/ msg' = msg /\ handled' = handled
        \/ msg' = [msg EXCEPT ![m] = "working"] /\ handled' = handled \union {m}
    BY <1>8 DEF DispatchMessage
  <2>2. msg[m] # "none"
    <3>1. wire # <<>> /\ Head(wire) = Created(m)
      BY <1>8 DEF DispatchMessage, Dispatching
    <3>2. wire \in Seq(Events)
      BY DEF TypeOK, Events
    <3> QED  BY <3>1, <3>2, TailKeeps DEF EventsOK
  <2>3. members' = members
    BY <1>8 DEF DispatchMessage
  <2> QED  BY <2>1, <2>2, <2>3 DEF TypeOK
<1>9. ASSUME NEW m \in Msgs, HandlerEnds(m)  PROVE MessagesOK'
  <2>1. PICK s \in {"processed", "unmarked", "failed"} : msg' = [msg EXCEPT ![m] = s]
    BY <1>9 DEF HandlerEnds
  <2>2. msg[m] = "working" /\ members' = members /\ handled' = handled
    BY <1>9 DEF HandlerEnds
  <2> QED  BY <2>1, <2>2 DEF TypeOK
<1>10. ASSUME NEW topic \in joining, ServerJoins(topic)  PROVE MessagesOK'
  BY <1>10 DEF ServerJoins
<1>11. ASSUME Drop  PROVE MessagesOK'
  BY <1>11 DEF Drop
<1>12. ASSUME Connect  PROVE MessagesOK'
  BY <1>12 DEF Connect
<1>13. ASSUME JoinAgentRooms  PROVE MessagesOK'
  BY <1>13 DEF JoinAgentRooms, Join
<1>14. ASSUME EndRejoin  PROVE MessagesOK'
  BY <1>14 DEF EndRejoin
<1>15. ASSUME ListChats  PROVE MessagesOK'
  BY <1>15 DEF ListChats
<1>16. ASSUME EndBackfill  PROVE MessagesOK'
  BY <1>16 DEF EndBackfill
<1>17. ASSUME ReadFails  PROVE MessagesOK'
  BY <1>17 DEF ReadFails
<1>18. ASSUME Closed  PROVE MessagesOK'
  BY <1>18 DEF Closed
<1>19. ASSUME Restart  PROVE MessagesOK'
  BY <1>19 DEF Restart
<1>20. ASSUME UNCHANGED vars  PROVE MessagesOK'
  BY <1>20 DEF vars
<1> QED
  BY <1>1, <1>2, <1>3, <1>4, <1>5, <1>6, <1>7, <1>8, <1>9, <1>10, <1>11, <1>12, <1>13, <1>14, <1>15, <1>16, <1>17, <1>18, <1>19, <1>20, NextCases

(* The events on the wire: one is sent, one is dispatched, or all are lost *)
(* with the connection.                                                    *)
LEMMA WireStep ==
  ASSUME TypeOK, [Next]_vars
  PROVE  \/ wire' = wire
         \/ \E k \in Rooms : AddToRoom(k) /\ ToSet(wire') = ToSet(wire) \union {RoomAdded(k)}
         \/ \E m \in Msgs : Post(m) /\ ToSet(wire') = ToSet(wire) \union {Created(m)}
         \/ \E k \in Rooms : /\ DispatchRoomAdded(k)
                             /\ ToSet(wire) = ToSet(wire') \union {RoomAdded(k)}
         \/ \E m \in Msgs : /\ DispatchMessage(m)
                            /\ ToSet(wire) = ToSet(wire') \union {Created(m)}
         \/ Closed \/ Restart
<1> USE DEF band, socket, memory, drains
<1>1. wire \in Seq(Events)
  BY DEF TypeOK, Events
<1>2. ASSUME NEW k \in Rooms, AddToRoom(k)
      PROVE  wire' = wire \/ ToSet(wire') = ToSet(wire) \union {RoomAdded(k)}
  <2>1. wire' = wire \/ wire' = Append(wire, RoomAdded(k))
    BY <1>2 DEF AddToRoom
  <2> QED  BY <1>1, <2>1, AppendKeeps, EventTypes
<1>3. ASSUME NEW m \in Msgs, Post(m)
      PROVE  wire' = wire \/ ToSet(wire') = ToSet(wire) \union {Created(m)}
  <2>1. wire' = wire \/ wire' = Append(wire, Created(m))
    BY <1>3 DEF Post
  <2> QED  BY <1>1, <2>1, AppendKeeps, EventTypes
<1>4. ASSUME NEW k \in Rooms, DispatchRoomAdded(k)
      PROVE  ToSet(wire) = ToSet(wire') \union {RoomAdded(k)}
  <2>1. wire # <<>> /\ Head(wire) = RoomAdded(k) /\ wire' = Tail(wire)
    BY <1>4 DEF DispatchRoomAdded, Dispatching
  <2> QED  BY <1>1, <2>1, TailKeeps
<1>5. ASSUME NEW m \in Msgs, DispatchMessage(m)
      PROVE  ToSet(wire) = ToSet(wire') \union {Created(m)}
  <2>1. wire # <<>> /\ Head(wire) = Created(m) /\ wire' = Tail(wire)
    BY <1>5 DEF DispatchMessage, Dispatching
  <2> QED  BY <1>1, <2>1, TailKeeps
<1>6. ASSUME NEW k \in Rooms, Rejoin(k) \/ Backfill(k) \/ DrainEnds(k) \/ DrainMessage(k)
      PROVE  wire' = wire
  BY <1>6 DEF Rejoin, Backfill, DrainEnds, DrainMessage
<1>7. ASSUME NEW m \in Msgs, HandlerEnds(m)
      PROVE  wire' = wire
  BY <1>7 DEF HandlerEnds
<1>8. ASSUME NEW topic \in joining, ServerJoins(topic)
      PROVE  wire' = wire
  BY <1>8 DEF ServerJoins
<1>9. ASSUME Drop \/ Connect \/ JoinAgentRooms \/ EndRejoin \/ ListChats \/ EndBackfill
             \/ ReadFails \/ UNCHANGED vars
      PROVE  wire' = wire
  BY <1>9 DEF Drop, Connect, JoinAgentRooms, EndRejoin, ListChats, EndBackfill, ReadFails, vars
<1> QED  BY <1>2, <1>3, <1>4, <1>5, <1>6, <1>7, <1>8, <1>9, NextCases

LEMMA EventsOKStep ==
  ASSUME TypeOK, EventsOK, [Next]_vars
  PROVE  EventsOK'
<1> USE MsgParts DEF band, socket, memory, drains
<1>1. ASSUME NEW m \in Msgs, msg[m] # "none"  PROVE msg'[m] # "none"
  <2>1. \/ msg' = msg
        \/ \E n \in Msgs, s \in MsgStates \ {"none"} : msg' = [msg EXCEPT ![n] = s]
        \/ msg' = [n \in Msgs |-> IF msg[n] = "working" THEN "posted" ELSE msg[n]]
    <3> DEFINE becomes(n, s) == msg' = [msg EXCEPT ![n] = s]
    <3>1. {"posted", "working", "processed", "unmarked", "failed"} \subseteq MsgStates \ {"none"}
      BY DEF MsgStates
    <3>2. ASSUME NEW k \in Rooms, DrainMessage(k)
          PROVE  msg' = msg \/ \E n \in Msgs, s \in MsgStates \ {"none"} : becomes(n, s)
      <4>1. <<k, Oldest(k)>> \in Msgs
        BY <3>2, OldestIsPending DEF DrainMessage
      <4>2. msg' = msg \/ becomes(<<k, Oldest(k)>>, "working")
        BY <3>2 DEF DrainMessage
      <4> QED  BY <3>1, <4>1, <4>2
    <3>3. ASSUME NEW n \in Msgs, Post(n)
          PROVE  \E s \in MsgStates \ {"none"} : becomes(n, s)
      BY <3>1, <3>3 DEF Post
    <3>4. ASSUME NEW n \in Msgs, DispatchMessage(n)
          PROVE  msg' = msg \/ \E s \in MsgStates \ {"none"} : becomes(n, s)
      BY <3>1, <3>4 DEF DispatchMessage
    <3>5. ASSUME NEW n \in Msgs, HandlerEnds(n)
          PROVE  \E s \in MsgStates \ {"none"} : becomes(n, s)
      BY <3>1, <3>5 DEF HandlerEnds
    <3>6. ASSUME NEW k \in Rooms,
                 AddToRoom(k) \/ Rejoin(k) \/ Backfill(k) \/ DispatchRoomAdded(k) \/ DrainEnds(k)
          PROVE  msg' = msg
      BY <3>6 DEF AddToRoom, Rejoin, Backfill, DispatchRoomAdded, DrainEnds
    <3>7. ASSUME NEW topic \in joining, ServerJoins(topic)
          PROVE  msg' = msg
      BY <3>7 DEF ServerJoins
    <3>8. ASSUME Drop \/ Connect \/ JoinAgentRooms \/ EndRejoin \/ ListChats \/ EndBackfill
                 \/ ReadFails \/ Closed \/ UNCHANGED vars
          PROVE  msg' = msg
      BY <3>8 DEF Drop, Connect, JoinAgentRooms, EndRejoin, ListChats, EndBackfill, ReadFails,
                  Closed, vars
    <3>9. Restart => msg' = [n \in Msgs |-> IF msg[n] = "working" THEN "posted" ELSE msg[n]]
      BY DEF Restart
    <3> HIDE DEF becomes
    <3>10. msg' = msg \/ (\E n \in Msgs, s \in MsgStates \ {"none"} : becomes(n, s)) \/ Restart
      BY <3>2, <3>3, <3>4, <3>5, <3>6, <3>7, <3>8, NextCases
    <3> QED  BY <3>9, <3>10 DEF becomes
  <2>2. DOMAIN msg = Msgs
    BY DEF TypeOK
  <2>3. CASE \E n \in Msgs, s \in MsgStates \ {"none"} : msg' = [msg EXCEPT ![n] = s]
    BY <1>1, <2>2, <2>3
  <2> QED  BY <1>1, <2>1, <2>2, <2>3
<1>2. ASSUME NEW m \in Msgs, Created(m) \in ToSet(wire'), Created(m) \notin ToSet(wire)
      PROVE  msg'[m] # "none"
  <2>1. Closed \/ Restart => ToSet(wire') = {}
    BY DEF Closed, Restart, ToSet
  <2>2. PICK n \in Msgs : Post(n) /\ ToSet(wire') = ToSet(wire) \union {Created(n)}
    BY <1>2, <2>1, WireStep, EventTypes
  <2>3. m = n
    BY <1>2, <2>2, EventTypes
  <2> QED  BY <2>2, <2>3 DEF Post, TypeOK
<1> QED  BY <1>1, <1>2 DEF EventsOK

LEMMA FirstConnectionStep ==
  ASSUME TypeOK, LoopOK, FirstConnection, [Next]_vars
  PROVE  FirstConnection'
<1> USE DEF band, socket, memory, drains
<1> SUFFICES ASSUME ~once', NEW k \in members'
             PROVE  k \in leftover' \/ RoomAdded(k) \in ToSet(wire')
  BY DEF FirstConnection, Announced
<1>1. CASE Restart
  BY <1>1 DEF Restart
<1>2. CASE ~Restart
  <2>1. once' = once
    BY NextCases, <1>2
    DEF AddToRoom, Rejoin, Backfill, DispatchRoomAdded, DrainEnds, DrainMessage, Post,
        DispatchMessage, HandlerEnds, ServerJoins, Drop, Connect, JoinAgentRooms, EndRejoin,
        ListChats, EndBackfill, ReadFails, Closed, vars
  <2>2. pc \notin {"list", "backfill", "read", "closing"}
    BY <2>1 DEF LoopOK
  <2>3. ~ListChats /\ ~Closed /\ \A l \in Rooms : ~DispatchRoomAdded(l)
    BY <2>2 DEF ListChats, Closed, DispatchRoomAdded, Dispatching
  <2>4. \A m \in Msgs : ~DispatchMessage(m)
    BY <2>2 DEF DispatchMessage, Dispatching
  <2>5. ToSet(wire) \subseteq ToSet(wire')
    BY <1>2, <2>3, <2>4, WireStep
  <2>6. leftover \subseteq leftover'
    BY NextCases, <1>2, <2>3
    DEF AddToRoom, Rejoin, Backfill, DrainEnds, DrainMessage, Post,
        DispatchMessage, HandlerEnds, ServerJoins, Drop, Connect, JoinAgentRooms, EndRejoin,
        EndBackfill, ReadFails, vars
  <2>7. CASE k \in members
    BY <2>1, <2>5, <2>6, <2>7 DEF FirstConnection, Announced
  <2>8. CASE k \notin members
    <3>1. k \in Rooms /\ AddToRoom(k)
      BY NextCases, <1>2, <2>3, <2>8
      DEF AddToRoom, Rejoin, Backfill, DrainEnds, DrainMessage, Post,
          DispatchMessage, HandlerEnds, ServerJoins, Drop, Connect, JoinAgentRooms, EndRejoin,
          EndBackfill, ReadFails, vars
    <3>2. Agent \in subs => wire' = Append(wire, RoomAdded(k))
      BY <3>1 DEF AddToRoom
    <3>3. Agent \notin subs => k \in leftover'
      BY <2>1, <3>1 DEF AddToRoom
    <3>4. wire \in Seq(Events)
      BY DEF TypeOK, Events
    <3>5. RoomAdded(k) \in Events
      BY <3>1, EventTypes
    <3>6. ToSet(Append(wire, RoomAdded(k))) = ToSet(wire) \union {RoomAdded(k)}
      BY <3>4, <3>5, AppendKeeps
    <3> QED  BY <3>2, <3>3, <3>6
  <2> QED  BY <2>7, <2>8
<1> QED  BY <1>1, <1>2

-----------------------------------------------------------------------------
(* While the connection is up, what was joined stays joined, what was      *)
(* delivered stays delivered, and a call that failed is not forgotten.     *)
LEMMA LiveStep ==
  ASSUME TypeOK, LoopOK, [Next]_vars, sock, sock'
  PROVE  /\ ~Drop /\ ~Connect /\ ~ReadFails /\ ~Closed /\ ~Restart
         /\ subs \subseteq subs'
         /\ clean' => clean
<1> USE DEF band, socket, memory, drains
<1>1. ~Drop /\ ~ReadFails /\ ~Restart
  BY Zenon DEF Drop, ReadFails, Restart
<1>2. ~Connect /\ ~Closed
  BY DEF Connect, Closed, LoopOK
<1>3. ASSUME NEW topic, \E ok \in BOOLEAN : Join(topic, ok)
      PROVE  subs \subseteq subs' /\ (clean' => clean)
  BY <1>3, JoinFrame, Zenon
<1>4. ASSUME NEW k \in Rooms, Rejoin(k) \/ Backfill(k) \/ DispatchRoomAdded(k)
      PROVE  subs \subseteq subs' /\ (clean' => clean)
  <2>1. (\E ok \in BOOLEAN : Join(k, ok)) \/ UNCHANGED <<subs, clean>>
    BY <1>4, Zenon DEF Rejoin, Backfill, DispatchRoomAdded
  <2>2. ASSUME UNCHANGED <<subs, clean>>  PROVE subs \subseteq subs' /\ (clean' => clean)
    BY <2>2, Zenon
  <2> QED  BY <1>3, <2>1, <2>2
<1>5. ASSUME JoinAgentRooms
      PROVE  subs \subseteq subs' /\ (clean' => clean)
  <2>1. \E ok \in BOOLEAN : Join(Agent, ok)
    BY <1>5, Zenon DEF JoinAgentRooms
  <2> QED  BY <1>3, <2>1
<1>6. ASSUME NEW k \in Rooms, DrainEnds(k)
      PROVE  subs \subseteq subs' /\ (clean' => clean)
  <2>1. subs' = subs
    BY <1>6 DEF DrainEnds
  <2>2. clean' => clean
    BY <1>6, Zenon DEF DrainEnds
  <2> QED  BY <2>1, <2>2
<1>7. ASSUME ListChats
      PROVE  subs \subseteq subs' /\ (clean' => clean)
  <2>1. subs' = subs
    BY <1>7 DEF ListChats
  <2>2. clean' => clean
    BY <1>7, Zenon DEF ListChats
  <2> QED  BY <2>1, <2>2
<1>8. ASSUME NEW k \in Rooms, AddToRoom(k) \/ DrainMessage(k)
      PROVE  UNCHANGED <<subs, clean>>
  BY <1>8, Zenon DEF AddToRoom, DrainMessage
<1>9. ASSUME NEW m \in Msgs, Post(m) \/ DispatchMessage(m) \/ HandlerEnds(m)
      PROVE  UNCHANGED <<subs, clean>>
  BY <1>9, Zenon DEF Post, DispatchMessage, HandlerEnds
<1>10. ASSUME NEW topic \in joining, ServerJoins(topic)
       PROVE  subs \subseteq subs' /\ clean' = clean
  BY <1>10 DEF ServerJoins
<1>11. ASSUME EndRejoin \/ EndBackfill \/ UNCHANGED vars
       PROVE  UNCHANGED <<subs, clean>>
  BY <1>11, Zenon DEF EndRejoin, EndBackfill, vars
<1>12. ASSUME UNCHANGED <<subs, clean>>  PROVE subs \subseteq subs' /\ (clean' => clean)
  BY <1>12, Zenon
<1> QED
  BY <1>1, <1>2, <1>4, <1>5, <1>6, <1>7, <1>8, <1>9, <1>10, <1>11, <1>12, NextCases, Zenon

(* A drain ends only when nothing that was posted is left in its chat.     *)
LEMMA DrainGoesOn ==
  ASSUME TypeOK, LoopOK, [Next]_vars, sock, sock', clean',
         NEW m \in Msgs, msg[m] = "posted", drain[m[1]] # Off
  PROVE  drain'[m[1]] # Off
<1> USE ConstantsAssumption, MsgParts DEF band, socket, memory, drains
<1>1. ~Drop /\ ~Connect /\ ~ReadFails /\ ~Closed /\ ~Restart
  BY LiveStep
<1>2. drain \in [Rooms -> {Off, Ask} \union 1 .. MaxMsgs] /\ Ask # Off
  BY DEF TypeOK, Ask, Off
<1>3. \A i \in 1 .. MaxMsgs : i # Off
  BY DEF Off
<1>4. ASSUME NEW k \in Rooms, NEW ok, StartDrain(k, ok)  PROVE drain'[m[1]] # Off
  BY <1>2, <1>4 DEF StartDrain
<1>5. ASSUME NEW k \in Rooms, Rejoin(k) \/ Backfill(k) \/ DispatchRoomAdded(k)
      PROVE  drain'[m[1]] # Off
  <2>1. drain' = drain \/ \E ok : StartDrain(k, ok)
    BY <1>5 DEF Rejoin, Backfill, DispatchRoomAdded
  <2> QED  BY <1>2, <1>4, <2>1
<1>6. ASSUME NEW k \in Rooms, DrainEnds(k)  PROVE drain'[m[1]] # Off
  <2>1. CASE k = m[1]
    <3>1. m[2] \in Pending(k) /\ msg[<<k, m[2]>>] = "posted"
      BY <2>1 DEF Pending
    <3>2. Pending(k) = {} \/ (\A i \in Pending(k) : msg[<<k, i>>] # "posted")
      BY <1>6, Zenon DEF DrainEnds
    <3> QED  BY <3>1, <3>2
  <2>2. CASE k # m[1]
    BY <1>2, <1>6, <2>2 DEF DrainEnds
  <2> QED  BY <2>1, <2>2
<1>7. ASSUME NEW k \in Rooms, DrainMessage(k)  PROVE drain'[m[1]] # Off
  <2>1. Oldest(k) \in 1 .. MaxMsgs
    BY <1>7, OldestIsPending DEF DrainMessage
  <2>2. drain' = drain \/ drain' = [drain EXCEPT ![k] = Oldest(k)]
    BY <1>7 DEF DrainMessage
  <2> QED  BY <1>2, <1>3, <2>1, <2>2
<1>8. ASSUME NEW n \in Msgs, HandlerEnds(n)  PROVE drain'[m[1]] # Off
  BY <1>2, <1>8 DEF HandlerEnds
<1>9. ASSUME NEW k \in Rooms, AddToRoom(k)  PROVE drain' = drain
  BY <1>9 DEF AddToRoom
<1>10. ASSUME NEW n \in Msgs, Post(n) \/ DispatchMessage(n)  PROVE drain' = drain
  BY <1>10 DEF Post, DispatchMessage
<1>11. ASSUME NEW topic \in joining, ServerJoins(topic)  PROVE drain' = drain
  BY <1>11 DEF ServerJoins
<1>12. ASSUME JoinAgentRooms \/ EndRejoin \/ ListChats \/ EndBackfill \/ UNCHANGED vars
       PROVE  drain' = drain
  BY <1>12 DEF JoinAgentRooms, EndRejoin, ListChats, EndBackfill, vars
<1> QED
  BY <1>1, <1>5, <1>6, <1>7, <1>8, <1>9, <1>10, <1>11, <1>12, NextCases

(* A posted message was posted already, or is being posted.                *)
LEMMA PostedBefore ==
  ASSUME TypeOK, [Next]_vars, ~Restart, NEW m \in Msgs, msg'[m] = "posted"
  PROVE  msg[m] = "posted" \/ Post(m)
<1> USE MsgParts DEF band, socket, memory, drains
<1>1. DOMAIN msg = Msgs
  BY DEF TypeOK
<1>2. ASSUME NEW k \in Rooms, DrainMessage(k)  PROVE msg[m] = "posted"
  <2>1. <<k, Oldest(k)>> \in Msgs
    BY <1>2, OldestIsPending DEF DrainMessage
  <2>2. msg' = msg \/ msg' = [msg EXCEPT ![<<k, Oldest(k)>>] = "working"]
    BY <1>2 DEF DrainMessage
  <2> QED  BY <1>1, <2>1, <2>2
<1>3. ASSUME NEW n \in Msgs, Post(n)  PROVE msg[m] = "posted" \/ Post(m)
  BY <1>1, <1>3 DEF Post
<1>4. ASSUME NEW n \in Msgs, DispatchMessage(n)  PROVE msg[m] = "posted"
  BY <1>1, <1>4 DEF DispatchMessage
<1>5. ASSUME NEW n \in Msgs, HandlerEnds(n)  PROVE msg[m] = "posted"
  BY <1>1, <1>5 DEF HandlerEnds
<1>6. ASSUME NEW k \in Rooms,
             AddToRoom(k) \/ Rejoin(k) \/ Backfill(k) \/ DispatchRoomAdded(k) \/ DrainEnds(k)
      PROVE  msg' = msg
  BY <1>6 DEF AddToRoom, Rejoin, Backfill, DispatchRoomAdded, DrainEnds
<1>7. ASSUME NEW topic \in joining, ServerJoins(topic)  PROVE msg' = msg
  BY <1>7 DEF ServerJoins
<1>8. ASSUME Drop \/ Connect \/ JoinAgentRooms \/ EndRejoin \/ ListChats \/ EndBackfill
             \/ ReadFails \/ Closed \/ UNCHANGED vars
      PROVE  msg' = msg
  BY <1>8 DEF Drop, Connect, JoinAgentRooms, EndRejoin, ListChats, EndBackfill, ReadFails,
              Closed, vars
<1> QED  BY <1>2, <1>3, <1>4, <1>5, <1>6, <1>7, <1>8, NextCases

LEMMA DeliveredStays ==
  ASSUME TypeOK, LoopOK, MessagesOK, [Next]_vars, sock, sock', clean',
         NEW m \in Msgs, msg[m] = "posted", msg'[m] = "posted", Delivered(m)
  PROVE  Delivered(m)'
<1> USE DEF Delivered
<1>1. CASE drain[m[1]] # Off
  BY <1>1, DrainGoesOn
<1>2. CASE Created(m) \in ToSet(wire)
  <2>1. ~DispatchMessage(m)
    <3> SUFFICES ASSUME DispatchMessage(m)  PROVE FALSE
      OBVIOUS
    <3>1. m \notin handled
      BY DEF MessagesOK
    <3>2. msg' = [msg EXCEPT ![m] = "working"]
      BY <3>1 DEF DispatchMessage
    <3> QED  BY <3>2 DEF TypeOK
  <2>2. ~Closed /\ ~Restart
    BY LiveStep
  <2>3. Created(m) \in ToSet(wire')
    BY <1>2, <2>1, <2>2, WireStep, EventTypes
  <2> QED  BY <2>3
<1> QED  BY <1>1, <1>2

LEMMA JoinedStays ==
  ASSUME TypeOK, LoopOK, MessagesOK, [Next]_vars, sock, sock', clean',
         NEW k \in Rooms, JoinedServed(k)
  PROVE  JoinedServed(k)'
<1>1. k \in subs'
  BY LiveStep DEF JoinedServed
<1>2. ASSUME NEW m \in Msgs, m[1] = k, msg'[m] = "posted"
      PROVE  Delivered(m)'
  <2>1. CASE msg[m] = "posted"
    BY <1>2, <2>1, DeliveredStays DEF JoinedServed
  <2>2. CASE Post(m)
    <3>1. wire' = Append(wire, Created(m)) /\ wire \in Seq(Events)
      BY <1>2, <2>2 DEF Post, JoinedServed, TypeOK, Events
    <3> QED  BY <3>1, AppendKeeps, EventTypes DEF Delivered
  <2> QED  BY <1>2, <2>1, <2>2, PostedBefore, LiveStep
<1> QED  BY <1>1, <1>2 DEF JoinedServed

LEMMA UnknownStays ==
  ASSUME TypeOK, LoopOK, [Next]_vars, sock, sock', ~ListChats,
         NEW k \in Rooms, k \notin joined', UnknownServed(k)
  PROVE  UnknownServed(k)'
<1> USE DEF band, socket, memory, drains, UnknownServed, Announced
<1>1. ~Drop /\ ~Connect /\ ~ReadFails /\ ~Closed /\ ~Restart
  BY LiveStep
<1>2. CASE k \in leftover
  <2>1. leftover \subseteq leftover'
    BY NextCases, <1>1
    DEF AddToRoom, Rejoin, Backfill, DispatchRoomAdded, DrainEnds, DrainMessage, Post,
        DispatchMessage, HandlerEnds, ServerJoins, JoinAgentRooms, EndRejoin, EndBackfill, vars
  <2> QED  BY <1>2, <2>1
<1>3. CASE RoomAdded(k) \in ToSet(wire)
  <2>1. ~DispatchRoomAdded(k)
    BY DEF DispatchRoomAdded
  <2>2. RoomAdded(k) \in ToSet(wire')
    BY <1>1, <1>3, <2>1, WireStep, EventTypes
  <2> QED  BY <2>2
<1> QED  BY <1>2, <1>3

(* A topic that was joined and a drain that was started serve a chat,      *)
(* whatever happened to it before.                                         *)
LEMMA JoinServes ==
  ASSUME TypeOK, sock, clean', NEW k \in Rooms, NEW ok \in BOOLEAN,
         Join(k, ok), StartDrain(k, ok)
  PROVE  JoinedServed(k)'
<1>1. k \in subs' /\ ok
  BY JoinFrame
<1>2. drain'[k] = Ask /\ Ask # Off
  BY <1>1 DEF StartDrain, TypeOK, Ask, Off
<1> QED  BY <1>1, <1>2 DEF JoinedServed, Delivered

LEMMA ServedStep ==
  ASSUME Inv, [Next]_vars
  PROVE  Served'
<1> USE DEF Inv, band, socket, memory, drains
<1> DEFINE B1 == pc \in {"rejoin", "list", "backfill", "read"} =>
                   /\ Agent \in subs
                   /\ \A k \in joined : (pc = "rejoin" /\ k \in todo) \/ JoinedServed(k)
           B2 == pc \in {"backfill", "read"} =>
                   \A k \in members \ joined :
                     (pc = "backfill" /\ k \in todo) \/ UnknownServed(k)
<1> SUFFICES ASSUME sock', clean'  PROVE B1' /\ B2'
  BY DEF Served
<1>0. joined \subseteq Rooms /\ joined' \subseteq Rooms /\ members \subseteq Rooms
      /\ members' \subseteq Rooms
  <2>1. TypeOK'
    BY TypeStep
  <2> QED  BY <2>1 DEF TypeOK
<1>1. CASE ~sock
  <2>1. Connect
    <3>1. ASSUME NEW topic, NEW ok \in BOOLEAN, Join(topic, ok)  PROVE FALSE
      BY <1>1, <3>1, JoinFrame
    <3>2. ASSUME NEW k \in Rooms, Rejoin(k) \/ Backfill(k) \/ DispatchRoomAdded(k)
          PROVE  sock' = sock
      BY <3>1, <3>2, Zenon DEF Rejoin, Backfill, DispatchRoomAdded
    <3>3. ~JoinAgentRooms
      BY <3>1, Zenon DEF JoinAgentRooms
    <3>4. ASSUME NEW k \in Rooms, AddToRoom(k) \/ DrainEnds(k) \/ DrainMessage(k)
          PROVE  sock' = sock
      BY <3>4, Zenon DEF AddToRoom, DrainEnds, DrainMessage
    <3>5. ASSUME NEW m \in Msgs, Post(m) \/ DispatchMessage(m) \/ HandlerEnds(m)
          PROVE  sock' = sock
      BY <3>5, Zenon DEF Post, DispatchMessage, HandlerEnds
    <3>6. ASSUME NEW topic \in joining, ServerJoins(topic)  PROVE sock' = sock
      BY <3>6, Zenon DEF ServerJoins
    <3>7. ASSUME EndRejoin \/ ListChats \/ EndBackfill \/ ReadFails \/ Closed \/ UNCHANGED vars
          PROVE  sock' = sock
      BY <3>7, Zenon DEF EndRejoin, ListChats, EndBackfill, ReadFails, Closed, vars
    <3>8. ~Drop /\ ~Restart
      BY Zenon DEF Drop, Restart
    <3> QED  BY <1>1, <3>2, <3>3, <3>4, <3>5, <3>6, <3>7, <3>8, NextCases, Zenon
  <2> QED  BY <2>1 DEF Connect
<1>2. CASE sock
  <2>1. /\ ~Drop /\ ~Connect /\ ~ReadFails /\ ~Closed /\ ~Restart
        /\ subs \subseteq subs' /\ clean
    BY <1>2, LiveStep
  <2>2. B1 /\ B2
    BY <1>2, <2>1 DEF Served
  <2>3. \A k \in Rooms : JoinedServed(k) => JoinedServed(k)'
    BY <1>2, JoinedStays
  <2>4. ~ListChats => \A k \in Rooms \ joined' : UnknownServed(k) => UnknownServed(k)'
    BY <1>2, UnknownStays
  <2>5. ASSUME UNCHANGED <<pc, todo, joined, members>>, ~ListChats  PROVE B1' /\ B2'
    BY <1>0, <2>1, <2>2, <2>3, <2>4, <2>5
  <2>6. ASSUME NEW k \in Rooms, DrainEnds(k) \/ DrainMessage(k)
        PROVE  UNCHANGED <<pc, todo, joined, members>>
    BY <2>6 DEF DrainEnds, DrainMessage
  <2>7. ASSUME NEW m \in Msgs, Post(m) \/ DispatchMessage(m) \/ HandlerEnds(m)
        PROVE  UNCHANGED <<pc, todo, joined, members>>
    BY <2>7 DEF Post, DispatchMessage, HandlerEnds
  <2>8. ASSUME NEW topic \in joining, ServerJoins(topic)
        PROVE  UNCHANGED <<pc, todo, joined, members>>
    BY <2>8 DEF ServerJoins
  <2>9. ASSUME NEW k \in Rooms, AddToRoom(k)  PROVE B1' /\ B2'
    <3>1. UNCHANGED <<pc, todo, joined>> /\ members' = members \union {k} /\ ~ListChats
      BY <2>9 DEF AddToRoom, ListChats
    <3>2. ASSUME Agent \in subs  PROVE UnknownServed(k)'
      <4>1. wire' = Append(wire, RoomAdded(k)) /\ wire \in Seq(Events)
        BY <2>9, <3>2 DEF AddToRoom, TypeOK, Events
      <4> QED  BY <4>1, AppendKeeps, EventTypes DEF UnknownServed, Announced
    <3> QED  BY <1>0, <2>1, <2>2, <2>3, <2>4, <3>1, <3>2
  <2>10. ASSUME JoinAgentRooms  PROVE B1' /\ B2'
    <3>1. PICK ok \in BOOLEAN : /\ Join(Agent, ok)
                                /\ pc'   = IF ok THEN "rejoin" ELSE "connect"
                                /\ todo' = IF ok THEN joined ELSE {}
      BY <2>10, Zenon DEF JoinAgentRooms
    <3>2. joined' = joined
      BY <2>10 DEF JoinAgentRooms
    <3>3. Agent \in subs' /\ ok
      BY <1>2, <3>1, JoinFrame
    <3> QED  BY <3>1, <3>2, <3>3
  <2>11. ASSUME NEW k \in Rooms, Rejoin(k)  PROVE B1' /\ B2'
    <3>1. PICK ok \in BOOLEAN : Join(k, ok) /\ StartDrain(k, ok)
      BY <2>11, Zenon DEF Rejoin
    <3>2. JoinedServed(k)'
      BY <1>2, <3>1, JoinServes
    <3>3. pc = "rejoin" /\ todo' = todo \ {k} /\ UNCHANGED <<pc, joined>>
      BY <2>11 DEF Rejoin
    <3> QED  BY <1>0, <2>1, <2>2, <2>3, <3>2, <3>3
  <2>12. ASSUME EndRejoin  PROVE B1' /\ B2'
    <3>1. /\ pc = "rejoin" /\ todo = {} /\ UNCHANGED <<joined, members, leftover, wire>>
          /\ pc' = IF once THEN "list" ELSE "read"
      BY <2>12 DEF EndRejoin
    <3>2. B1'
      BY <1>0, <2>1, <2>2, <2>3, <3>1
    <3>3. ~once => \A k \in members : UnknownServed(k)'
      BY <3>1 DEF FirstConnection, UnknownServed, Announced
    <3> QED  BY <3>1, <3>2, <3>3
  <2>13. ASSUME ListChats  PROVE B1' /\ B2'
    <3>1. todo' = members \ joined
      <4>1. todo' = members \ joined \/ ~clean'
        BY <2>13, Zenon DEF ListChats
      <4> QED  BY <4>1
    <3>2. pc = "list" /\ pc' = "backfill" /\ UNCHANGED <<joined, members>>
      BY <2>13 DEF ListChats
    <3> QED  BY <1>0, <2>1, <2>2, <2>3, <3>1, <3>2
  <2>14. ASSUME NEW k \in Rooms, Backfill(k)  PROVE B1' /\ B2'
    <3>1. PICK ok \in BOOLEAN : Join(k, ok) /\ StartDrain(k, ok)
      BY <2>14, Zenon DEF Backfill
    <3>2. JoinedServed(k)'
      BY <1>2, <3>1, JoinServes
    <3>3. /\ pc = "backfill" /\ todo' = todo \ {k} /\ joined' = joined \union {k}
          /\ UNCHANGED <<pc, members>>
      BY <2>14 DEF Backfill
    <3>4. ~ListChats
      BY <3>3 DEF ListChats
    <3> QED  BY <1>0, <2>1, <2>2, <2>3, <2>4, <3>2, <3>3, <3>4
  <2>15. ASSUME EndBackfill  PROVE B1' /\ B2'
    <3>1. /\ pc = "backfill" /\ todo = {} /\ pc' = "read"
          /\ UNCHANGED <<joined, members>>
      BY <2>15 DEF EndBackfill
    <3>2. ~ListChats
      BY <3>1 DEF ListChats
    <3> QED  BY <1>0, <2>1, <2>2, <2>3, <2>4, <3>1, <3>2
  <2>16. ASSUME NEW k \in Rooms, DispatchRoomAdded(k)  PROVE B1' /\ B2'
    <3>1. /\ pc = "read" /\ joined' = joined \union {k} /\ UNCHANGED <<pc, members>>
      BY <1>2, <2>16 DEF DispatchRoomAdded, Dispatching, LoopOK
    <3>2. JoinedServed(k)'
      <4>1. CASE k \in joined
        BY <2>2, <2>3, <3>1, <4>1
      <4>2. CASE k \notin joined
        <5>1. PICK ok \in BOOLEAN : Join(k, ok) /\ StartDrain(k, ok /\ pc = "read")
          BY <2>16, <4>2, Zenon DEF DispatchRoomAdded
        <5>2. ok
          BY <1>2, <5>1, JoinFrame
        <5>3. StartDrain(k, TRUE) /\ Join(k, TRUE)
          BY <3>1, <5>1, <5>2 DEF StartDrain, Join
        <5> QED  BY <1>2, <5>3, JoinServes
      <4> QED  BY <4>1, <4>2
    <3>3. ~ListChats
      BY <3>1 DEF ListChats
    <3> QED  BY <1>0, <2>1, <2>2, <2>3, <2>4, <3>1, <3>2, <3>3
  <2>17. UNCHANGED vars => UNCHANGED <<pc, todo, joined, members>>
    BY DEF vars
  <2>18. ASSUME UNCHANGED pc  PROVE ~ListChats
    BY <2>18 DEF ListChats
  <2> HIDE DEF B1, B2
  <2> QED
    BY <2>1, <2>5, <2>6, <2>7, <2>8, <2>9, <2>10, <2>11, <2>12, <2>13, <2>14, <2>15, <2>16,
       <2>17, <2>18, NextCases
<1> QED  BY <1>1, <1>2

LEMMA Invariant == Spec => []Inv
<1>1. ASSUME Inv, [Next]_vars  PROVE Inv'
  BY <1>1, TypeStep, LoopOKStep, MessagesOKStep, EventsOKStep, FirstConnectionStep, ServedStep
  DEF Inv
<1> QED  BY InvInit, <1>1, PTL DEF Spec

(* On a connection on which no call has failed or lagged behind, a message *)
(* no handler has taken is on the wire or within a drain, or its chat is   *)
(* announced or was there before the worker: with any number of chats,     *)
(* messages, lost connections and restarts, and every failure of the list. *)
THEOREM NothingIsDark == Spec => []NothingDark
<1>1. Inv => NothingDark
  <2> SUFFICES ASSUME Inv, sock, clean, pc = "read", NEW m \in Msgs, msg[m] = "posted"
               PROVE  m[1] \in leftover \/ Announced(m[1]) \/ Delivered(m)
    BY DEF NothingDark
  <2>1. m[1] \in members
    BY DEF Inv, MessagesOK
  <2>2. CASE m[1] \in joined
    BY <2>2 DEF Inv, Served, JoinedServed
  <2>3. CASE m[1] \notin joined
    BY <2>1, <2>3 DEF Inv, Served, UnknownServed
  <2> QED  BY <2>2, <2>3
<1> QED  BY Invariant, <1>1, PTL

=============================================================================
