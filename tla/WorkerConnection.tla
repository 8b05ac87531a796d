-------------------------- MODULE WorkerConnection --------------------------
(***************************************************************************)
(* How one agent worker hears of its messages: the connection loop Run,    *)
(* backfillMissedRooms, dispatch and drain of                              *)
(* backend/internal/worker/worker.go over the socket of phoenix.go.        *)
(*                                                                         *)
(* Band pushes room_added and message_created events to the topics joined  *)
(* on the current connection and keeps a pending inbox per chat, which a   *)
(* drain polls over HTTP. What a handler does is BandPipeline's subject;   *)
(* here it claims a message, takes a while and ends.                       *)
(***************************************************************************)
EXTENDS Integers, Sequences, FiniteSets, SequencesExt

CONSTANTS
  Rooms,    \* chats the agent is added to
  MaxMsgs,  \* bound of the model: messages for this agent in one chat
  MaxDrops, \* bound of the model: lost connections and restarts
  Faults    \* which failures may happen, see FaultKinds

(* latejoin: a phx_join is still under way when Join returns; next, list:  *)
(* the HTTP call fails; mark: MarkProcessed fails; stage: the handler      *)
(* fails; restart: the process restarts.                                   *)
FaultKinds == {"latejoin", "next", "list", "mark", "stage", "restart"}

ASSUME ConstantsAssumption ==
  /\ MaxMsgs \in Nat \ {0}
  /\ MaxDrops \in Nat
  /\ Faults \subseteq FaultKinds

VARIABLES
  members,   \* Band: the chats that have the agent as a participant
  msg,       \* Band and handlers: what has become of each message
  sock,      \* the socket is up
  subs,      \* Band: topics joined on this connection
  joining,   \* Band: phx_join frames not yet acted upon
  wire,      \* events sent on this connection and not yet dispatched
  pc,        \* where Run is
  todo,      \* rooms the loop of rejoins or of the backfill has left
  once,      \* connectedOnce
  joined,    \* Worker.joined
  handled,   \* Worker.handled
  busy,      \* the message dispatch is handling
  drain,     \* per chat: what the drain of this connection is doing
  attempted, \* per chat: what that drain was offered
  leftover,  \* chats this process was never told of, see NothingDark
  drops,     \* lost connections and restarts so far
  clean      \* on this connection no call has failed or lagged behind, and
             \* no drain has given up in front of a message

band   == <<members, msg>>
socket == <<sock, subs, joining, clean>>
memory == <<once, joined, handled>>
drains == <<drain, attempted>>
vars   == <<band, socket, wire, pc, todo, memory, busy, drains, leftover, drops>>

Msgs   == Rooms \X (1 .. MaxMsgs)
NoMsg  == <<>>
Off == -1     \* drain[k]: not running
Ask == 0      \* about to poll; otherwise the message it is handling
Agent  == "agent_rooms"   \* the topic of the agent; a chat is its own topic
RoomAdded(k) == <<"room_added", k>>
Created(m)   == <<"message_created", m>>

MsgStates == {"none", "posted", "working", "unmarked", "failed", "processed"}

(* GET messages/next offers the oldest message that is not processed.      *)
Pending(k) ==
  {i \in 1 .. MaxMsgs : msg[<<k, i>>] \in {"posted", "working", "unmarked", "failed"}}
Oldest(k) == CHOOSE i \in Pending(k) : \A j \in Pending(k) : i <= j

-----------------------------------------------------------------------------
Init ==
  /\ members   = {}
  /\ msg       = [m \in Msgs |-> "none"]
  /\ sock      = FALSE
  /\ subs      = {}
  /\ joining   = {}
  /\ wire      = <<>>
  /\ pc        = "connect"
  /\ todo      = {}
  /\ once      = FALSE
  /\ joined    = {}
  /\ handled   = {}
  /\ busy      = NoMsg
  /\ drain     = [k \in Rooms |-> Off]
  /\ attempted = [k \in Rooms |-> {}]
  /\ leftover  = {}
  /\ drops     = 0
  /\ clean     = TRUE

-----------------------------------------------------------------------------
(* Band.                                                                   *)
AddToRoom(k) ==
  /\ k \notin members
  /\ members' = members \union {k}
  /\ wire' = IF Agent \in subs THEN Append(wire, RoomAdded(k)) ELSE wire
  /\ leftover' = IF Agent \notin subs /\ ~once THEN leftover \union {k} ELSE leftover
  /\ UNCHANGED <<msg, socket, pc, todo, memory, busy, drains, drops>>

(* The pipeline addresses an agent again in the same chat only after the   *)
(* agent has handed off (a rework).                                        *)
Post(m) ==
  /\ m[1] \in members
  /\ msg[m] = "none"
  /\ \A i \in 1 .. m[2] - 1 : msg[<<m[1], i>>] \in {"unmarked", "processed"}
  /\ msg' = [msg EXCEPT ![m] = "posted"]
  /\ wire' = IF m[1] \in subs THEN Append(wire, Created(m)) ELSE wire
  /\ UNCHANGED <<members, socket, pc, todo, memory, busy, drains, leftover, drops>>

ServerJoins(topic) ==
  /\ topic \in joining
  /\ joining' = joining \ {topic}
  /\ subs'    = subs \union {topic}
  /\ UNCHANGED <<band, sock, wire, pc, todo, memory, busy, drains, leftover, drops, clean>>

(* The connection is lost: proxy, network, or superseded by Band.          *)
Drop ==
  /\ sock
  /\ drops < MaxDrops
  /\ drops'   = drops + 1
  /\ sock'    = FALSE
  /\ subs'    = {}
  /\ joining' = {}
  /\ UNCHANGED <<band, wire, pc, todo, memory, busy, drains, leftover, clean>>

-----------------------------------------------------------------------------
(* Join only writes a frame; the phx_reply is never awaited. On a lost     *)
(* connection the write fails, or is buffered and lost.                    *)
Join(topic, ok) ==
  /\ sock => ok
  /\ \/ ~sock /\ UNCHANGED <<subs, joining, clean>>
     \/ sock /\ subs' = subs \union {topic} /\ UNCHANGED <<joining, clean>>
     \/ /\ sock /\ "latejoin" \in Faults
        /\ joining' = joining \union {topic}
        /\ clean' = FALSE
        /\ UNCHANGED subs
  /\ UNCHANGED sock

(* A drain is started with what it was offered so far: nothing.            *)
StartDrain(k, ok) ==
  /\ drain' = IF ok THEN [drain EXCEPT ![k] = Ask] ELSE drain
  /\ attempted' = IF ok THEN [attempted EXCEPT ![k] = {}] ELSE attempted

Connect ==
  /\ pc = "connect"
  /\ sock' = TRUE
  /\ clean' = TRUE
  /\ pc' = "join"
  /\ UNCHANGED <<band, subs, joining, wire, todo, memory, busy, drains, leftover, drops>>

(* Mutant of JoinAgentRooms: the agent's own topic is rejoined as a chat.  *)
JoinAgentRoomsTwice ==
  /\ pc = "join"
  /\ \E ok \in BOOLEAN :
       /\ Join(Agent, ok)
       /\ pc'   = IF ok THEN "rejoin" ELSE "connect"
       /\ todo' = IF ok THEN joined \union {Agent} ELSE {}
  /\ UNCHANGED <<band, wire, memory, busy, drains, leftover, drops>>

JoinAgentRooms ==
  /\ pc = "join"
  /\ \E ok \in BOOLEAN :
       /\ Join(Agent, ok)
       /\ pc'   = IF ok THEN "rejoin" ELSE "connect"
       /\ todo' = IF ok THEN joined ELSE {}
  /\ UNCHANGED <<band, wire, memory, busy, drains, leftover, drops>>

Rejoin(k) ==
  /\ pc = "rejoin"
  /\ k \in todo
  /\ todo' = todo \ {k}
  /\ \E ok \in BOOLEAN : Join(k, ok) /\ StartDrain(k, ok)
  /\ UNCHANGED <<band, wire, pc, memory, busy, leftover, drops>>

EndRejoin ==
  /\ pc = "rejoin"
  /\ todo = {}
  /\ pc' = IF once THEN "list" ELSE "read"
  /\ once' = TRUE
  /\ UNCHANGED <<band, socket, wire, todo, joined, handled, busy, drains, leftover, drops>>

(* Mutant of ListChats: the rooms found are taken for known.               *)
ListChatsNothing ==
  /\ pc = "list"
  /\ todo' = {} /\ leftover' = {}
  /\ pc' = "backfill"
  /\ UNCHANGED <<band, socket, wire, memory, busy, drains, drops>>

(* backfillMissedRooms; the chats found are all the agent is in.           *)
ListChats ==
  /\ pc = "list"
  /\ \/ todo' = members \ joined /\ leftover' = {} /\ UNCHANGED clean
     \/ "list" \in Faults /\ todo' = {} /\ clean' = FALSE /\ UNCHANGED leftover
  /\ pc' = "backfill"
  /\ UNCHANGED <<band, sock, subs, joining, wire, memory, busy, drains, drops>>

Backfill(k) ==
  /\ pc = "backfill"
  /\ k \in todo
  /\ todo'   = todo \ {k}
  /\ joined' = joined \union {k}
  /\ \E ok \in BOOLEAN : Join(k, ok) /\ StartDrain(k, ok)
  /\ UNCHANGED <<band, wire, pc, once, handled, busy, leftover, drops>>

EndBackfill ==
  /\ pc = "backfill"
  /\ todo = {}
  /\ pc' = "read"
  /\ UNCHANGED <<band, socket, wire, todo, memory, busy, drains, leftover, drops>>

(* px.Run returns and connCtx is cancelled: the drains stop, a message     *)
(* being handled is not interrupted.                                       *)
ReadFails ==
  /\ pc = "read"
  /\ ~sock
  /\ pc' = "closing"
  /\ drain' = [k \in Rooms |-> Off]
  /\ UNCHANGED <<band, socket, wire, todo, memory, busy, attempted, leftover, drops>>

(* dispatchWG.Wait; then the loop waits and connects again, with a new     *)
(* client and an empty channel of events.                                  *)
Closed ==
  /\ pc = "closing"
  /\ busy = NoMsg
  /\ pc' = "connect"
  /\ wire' = <<>>
  /\ UNCHANGED <<band, socket, todo, memory, busy, drains, leftover, drops>>

LoopStep ==
  \/ Connect
  \/ JoinAgentRooms
  \/ \E k \in Rooms : Rejoin(k) \/ Backfill(k)
  \/ EndRejoin
  \/ ListChats
  \/ EndBackfill
  \/ ReadFails
  \/ Closed

-----------------------------------------------------------------------------
(* dispatch: one event at a time. It is still running while Run waits for  *)
(* it, and select may prefer an event to the cancelled context.            *)
Dispatching(event) ==
  /\ pc \in {"read", "closing"}
  /\ busy = NoMsg
  /\ wire # <<>>
  /\ Head(wire) = event
  /\ wire' = Tail(wire)

DispatchMessage(m) ==
  /\ Dispatching(Created(m))
  /\ IF m \in handled THEN UNCHANGED <<msg, handled, busy>>
     ELSE /\ handled' = handled \union {m}
          /\ busy' = m
          /\ msg' = [msg EXCEPT ![m] = "working"]
  /\ UNCHANGED <<members, socket, pc, todo, once, joined, drains, leftover, drops>>

(* Mutant of DispatchRoomAdded: the room is joined and not drained.        *)
DispatchRoomAddedNoDrain(k) ==
  /\ Dispatching(RoomAdded(k))
  /\ joined' = joined \union {k}
  /\ IF k \in joined THEN UNCHANGED <<socket, drains>>
     ELSE \E ok \in BOOLEAN : Join(k, ok) /\ UNCHANGED drains
  /\ UNCHANGED <<band, pc, todo, once, handled, busy, leftover, drops>>

DispatchRoomAdded(k) ==
  /\ Dispatching(RoomAdded(k))
  /\ joined' = joined \union {k}
  /\ IF k \in joined THEN UNCHANGED <<socket, drains>>
     ELSE \E ok \in BOOLEAN : Join(k, ok) /\ StartDrain(k, ok /\ pc = "read")
  /\ UNCHANGED <<band, pc, todo, once, handled, busy, leftover, drops>>

(* drain: what is offered a second time ends it.                           *)
DrainEnds(k) ==
  /\ drain[k] = Ask
  /\ \/ Pending(k) = {} /\ UNCHANGED clean
     \/ /\ Pending(k) # {}
        /\ Oldest(k) \in attempted[k]
        /\ clean' = (clean /\ \A i \in Pending(k) : msg[<<k, i>>] # "posted")
     \/ "next" \in Faults /\ clean' = FALSE
  /\ drain' = [drain EXCEPT ![k] = Off]
  /\ UNCHANGED <<band, sock, subs, joining, wire, pc, todo, memory, busy,
                 attempted, leftover, drops>>

DrainMessage(k) ==
  /\ drain[k] = Ask
  /\ Pending(k) # {}
  /\ Oldest(k) \notin attempted[k]
  /\ attempted' = [attempted EXCEPT ![k] = @ \union {Oldest(k)}]
  /\ LET m == <<k, Oldest(k)>> IN
     IF m \in handled THEN UNCHANGED <<msg, handled, drain>>
     ELSE /\ handled' = handled \union {m}
          /\ msg'   = [msg EXCEPT ![m] = "working"]
          /\ drain' = [drain EXCEPT ![k] = Oldest(k)]
  /\ UNCHANGED <<members, socket, wire, pc, todo, once, joined, busy, leftover, drops>>

(* A handler returns to dispatch, to a drain, or to nobody.                *)
HandlerEnds(m) ==
  /\ msg[m] = "working"
  /\ \/ msg' = [msg EXCEPT ![m] = "processed"]
     \/ "mark" \in Faults /\ msg' = [msg EXCEPT ![m] = "unmarked"]
     \/ "stage" \in Faults /\ msg' = [msg EXCEPT ![m] = "failed"]
  /\ busy' = IF busy = m THEN NoMsg ELSE busy
  /\ drain' = [drain EXCEPT ![m[1]] = IF @ = m[2] THEN Ask ELSE @]
  /\ UNCHANGED <<members, socket, wire, pc, todo, memory, attempted, leftover, drops>>

(* The process restarts: chats that exist already are not looked for.      *)
Restart ==
  /\ "restart" \in Faults
  /\ drops < MaxDrops
  /\ drops'     = drops + 1
  /\ msg'       = [m \in Msgs |-> IF msg[m] = "working" THEN "posted" ELSE msg[m]]
  /\ sock'      = FALSE
  /\ subs'      = {}
  /\ joining'   = {}
  /\ wire'      = <<>>
  /\ pc'        = "connect"
  /\ todo'      = {}
  /\ once'      = FALSE
  /\ joined'    = {}
  /\ handled'   = {}
  /\ busy'      = NoMsg
  /\ drain'     = [k \in Rooms |-> Off]
  /\ leftover'  = members
  /\ UNCHANGED <<members, attempted, clean>>

-----------------------------------------------------------------------------
Next ==
  \/ \E k \in Rooms : AddToRoom(k)
  \/ \E m \in Msgs : Post(m)
  \/ \E topic \in joining : ServerJoins(topic)
  \/ Drop
  \/ LoopStep
  \/ \E m \in Msgs : DispatchMessage(m) \/ HandlerEnds(m)
  \/ \E k \in Rooms : DispatchRoomAdded(k) \/ DrainEnds(k) \/ DrainMessage(k)
  \/ Restart

Spec == Init /\ [][Next]_vars

(* The loop, the dispatcher, the drains and the handlers are goroutines    *)
(* that run when they can; a connection attempt succeeds in the end, Band  *)
(* acts on the frames it gets. Nobody owes a message or a failure.         *)
Fairness ==
  /\ WF_vars(LoopStep)
  /\ \A topic \in Rooms \union {Agent} : WF_vars(ServerJoins(topic))
  /\ \A m \in Msgs : WF_vars(DispatchMessage(m)) /\ WF_vars(HandlerEnds(m))
  /\ \A k \in Rooms : WF_vars(DispatchRoomAdded(k)) /\ WF_vars(DrainEnds(k) \/ DrainMessage(k))

FairSpec == Spec /\ Fairness

-----------------------------------------------------------------------------
(* The types of the variables: in particular drains and rejoins are about  *)
(* chats, a handler runs for one message, and no state of a message but    *)
(* the named ones arises.                                                  *)
TypeOK ==
  /\ members \subseteq Rooms
  /\ msg \in [Msgs -> MsgStates]
  /\ sock \in BOOLEAN
  /\ subs \subseteq Rooms \union {Agent}
  /\ joining \subseteq Rooms \union {Agent}
  /\ wire \in Seq(({"room_added"} \X Rooms) \union ({"message_created"} \X Msgs))
  /\ pc \in {"connect", "join", "rejoin", "list", "backfill", "read", "closing"}
  /\ todo \subseteq Rooms
  /\ once \in BOOLEAN
  /\ joined \subseteq Rooms
  /\ handled \subseteq Msgs
  /\ busy \in Msgs \union {NoMsg}
  /\ drain \in [Rooms -> {Off, Ask} \union 1 .. MaxMsgs]
  /\ attempted \in [Rooms -> SUBSET (1 .. MaxMsgs)]
  /\ leftover \subseteq Rooms
  /\ drops \in 0 .. MaxDrops
  /\ clean \in BOOLEAN

(* Whatever was lost on earlier connections, on a clean one nothing is in  *)
(* the dark: a message that no handler has taken is on its way as an       *)
(* event, or a drain of its chat is running, or the chat is about to be    *)
(* announced. Joining a topic before polling what it announces leaves no   *)
(* gap between the two. Chats that existed before the process first joined *)
(* its topic are left alone on purpose.                                    *)
Announced(k) == RoomAdded(k) \in ToSet(wire)
Delivered(m) == Created(m) \in ToSet(wire) \/ drain[m[1]] # Off

NothingDark ==
  sock /\ clean /\ pc = "read" =>
    \A m \in Msgs : msg[m] = "posted" =>
      m[1] \in leftover \/ Announced(m[1]) \/ Delivered(m)

(* If the last connection stays clean, every message posted in a chat the  *)
(* process was told of is taken by a handler, however many connections     *)
(* were lost before.                                                       *)
EveryMessageHandled ==
  <>[]clean =>
    \A m \in Msgs :
      msg[m] = "posted" ~> (msg[m] # "posted" \/ m[1] \in leftover)

=============================================================================
