-------------------------------- MODULE LiveRun --------------------------------
(***************************************************************************)
(* How the page of a run keeps up with it: the poll of the run document    *)
(* (RunView in routes/run.tsx, GetRun in internal/runs/handler.go), the    *)
(* event stream of its messages (StreamMessages), and useLiveRun           *)
(* (lib/hooks.ts), which merges the two.                                   *)
(*                                                                         *)
(* Messages are numbered in the order in which the mirror stores them. It  *)
(* inserts a row and then publishes the message, which reaches the streams *)
(* open at that moment and no other.                                       *)
(***************************************************************************)
EXTENDS Integers, Sequences, FiniteSets, SequencesExt

CONSTANTS
  Agents,     \* the members of the band
  Sender,     \* Sender[m]: who wrote message m
  Words,      \* Words[m]: type, phase and summary of message m
  Generators, \* the members whose message brings files
  Second,     \* Second[m]: createdAt of message m, which has whole seconds
  Faults,     \* what else may happen, see FaultKinds
  MaxTrouble, \* bound of the model: how often, see Click of RunPage too
  MaxFiles    \* bound of the model: artifacts of the run

NumMsgs == Len(Sender)
Msgs    == 1 .. NumMsgs

(* poll: a fetch of the run fails, its retry too; drop: the stream breaks; *)
(* rows: GetRun cannot read the messages and answers without them;         *)
(* chat: GetRun has no rows and answers with the chat's transcript;        *)
(* shiki and chips: see RunPage.                                           *)
FaultKinds == {"poll", "drop", "rows", "chat", "shiki", "chips"}

ASSUME ConstantsAssumption ==
  /\ Sender \in Seq(Agents) /\ Generators \subseteq Agents
  /\ Len(Words) = Len(Sender)
  /\ Second \in Seq(Nat) /\ Len(Second) = Len(Sender)
  /\ Faults \subseteq FaultKinds
  /\ MaxTrouble \in Nat /\ MaxFiles \in Nat

VARIABLES
  db,        \* the run in the database
  published, \* how many of its messages were published
  ended,     \* how many messages were stored when the run ended
  fetch,     \* the request for the run that is under way
  doc,       \* RunView: data, the page's copy of the run
  page,      \* RunView: what it renders
  conns,     \* useLiveRun: the connect loops, one per run of the effect
  wire,      \* messages on the way to the open stream
  feed,      \* useLiveRun: messages
  agents,    \* useLiveRun: the agents' statuses
  everShown, \* messages the page has listed since it was loaded
  trouble    \* faults so far, and what the user has done

list     == <<feed, agents, everShown>>
liveVars == <<db, published, ended, fetch, doc, page, conns, wire, list, trouble>>

(* No code sets the statuses between "planning" and the outcome; "queued"  *)
(* stands for "pending" too, the page tells them apart only in words.      *)
Statuses == {"queued", "planning", "failed", "completed"}
IsLive(status)     == status = "planning"
IsTerminal(status) == status \in {"failed", "completed"}

(* An entry of the list: the message, whose id it carries, and whether its *)
(* createdAt is the chat's, which is not cut to seconds. The id of a row   *)
(* is a new UUID, the stream and the transcript carry Band's.              *)
Entry(m, from, raw) == [msg |-> m, id |-> <<from, m>>, raw |-> raw]
Entries == {Entry(m, from, raw) : m \in Msgs, from \in {"db", "band"}, raw \in BOOLEAN}

Ids == {"db", "band"} \X Msgs

(* What a message and its copies have in common. Two messages of one       *)
(* second may say the same.                                                *)
Says(m) == <<Sender[m], Words[m], Second[m]>>

(* messageSig: the createdAt of a transcript is not the one of the row.    *)
MessageSig(e) == <<Says(e.msg), e.raw>>

(* The order of the list. Ids of one second compare as they happen to be:  *)
(* here Band's come first.                                                 *)
Before(x, y) ==
  \/ Second[x.msg] < Second[y.msg]
  \/ /\ Second[x.msg] = Second[y.msg]
     /\ \/ x.id[1] = "band" /\ y.id[1] = "db"
        \/ x.id[1] = y.id[1] /\ x.msg < y.msg

Sorted(S) ==
  CHOOSE s \in [1 .. Cardinality(S) -> S] :
    \A i, j \in DOMAIN s : i < j => Before(s[i], s[j])

(* The entry that an incoming message is merged onto.                      *)
Counterparts(current, e) ==
  LET sameId  == {x \in current : x.id = e.id}
      sameSig == {x \in current : MessageSig(x) = MessageSig(e)}
  IN IF sameId # {} THEN sameId ELSE sameSig

(* What is added: of messages that say the same, the first.                *)
New(current, incoming) ==
  LET added == {e \in incoming : Counterparts(current, e) = {}}
  IN {e \in added : \A x \in added : MessageSig(x) = MessageSig(e) => e.msg <= x.msg}

(* The entries after a merge: an entry keeps its id, so its React key, and *)
(* takes what the incoming message says.                                   *)
Merged(current, incoming) ==
  (UNION {{[x EXCEPT !.raw = e.raw] : x \in Counterparts(current, e)} : e \in incoming})
  \cup {x \in current : \A e \in incoming : x \notin Counterparts(current, e)}
  \cup New(current, incoming)

MergeMessages(current, incoming) ==
  IF incoming = {} THEN current
  ELSE Sorted(Merged(ToSet(current), incoming))

(* mergeAgents: an agent that is active stays so, whatever the poll says.  *)
MergeAgents(current, incoming) ==
  [a \in Agents |-> IF current[a] = "active" THEN "active" ELSE incoming[a]]

-----------------------------------------------------------------------------
(* The run document, as GetRun composes it.                                *)

Rows(d) ==
  IF d.stored = 0 THEN {Entry(m, "band", TRUE) : m \in 1 .. d.chat}
  ELSE {Entry(m, "db", FALSE) : m \in 1 .. d.stored}

(* buildAgents: an agent that has written is done.                         *)
BuildAgents(d) ==
  [a \in Agents |-> IF \E e \in Rows(d) : Sender[e.msg] = a THEN "done" ELSE "idle"]

(* stored: the rows it has; chat: the messages of a transcript; read: the  *)
(* rows could be read, which the page cannot tell.                         *)
NoDoc ==
  [status |-> "none", stored |-> 0, chat |-> 0, read |-> FALSE, files |-> 0, cycle |-> 1]

Docs ==
  [status : Statuses \cup {"none"}, stored : 0 .. NumMsgs, chat : 0 .. NumMsgs,
   read : BOOLEAN, files : 0 .. MaxFiles, cycle : 1 .. 2]

-----------------------------------------------------------------------------
(* The effect of useLiveRun that owns the stream. Each run of the effect   *)
(* has a connect loop of its own, in the first free slot of conns: it      *)
(* waits for a token, has a stream open, or waits for its reconnect timer. *)

Slots == DOMAIN conns
NoConn == [closed |-> FALSE, at |-> "off"]

(* The cleanup of the effect.                                              *)
CleanUp(cs) ==
  [g \in DOMAIN cs |->
     IF cs[g].at = "off" THEN cs[g]
     ELSE IF cs[g].at = "token" THEN [cs[g] EXCEPT !.closed = TRUE]
     ELSE NoConn]

FreeSlot(cs) == CHOOSE g \in DOMAIN cs : cs[g].at = "off"

Connect(cs, status) ==
  IF IsLive(status)
    THEN [cs EXCEPT ![FreeSlot(cs)] = [closed |-> FALSE, at |-> "token"]]
    ELSE cs

(* The effect runs anew when the run's status changes.                     *)
Restart(cs, status) == Connect(CleanUp(cs), status)

(* A page that starts with its copy d of the run.                          *)
MountList(d) ==
  /\ feed' = Sorted(Rows(d))
  /\ agents' = BuildAgents(d)

Shown == {feed[i].msg : i \in DOMAIN feed}
Note  == everShown' = everShown \cup {feed'[i].msg : i \in DOMAIN feed'}

Init ==
  /\ db = [status |-> "queued", stored |-> 0, files |-> 0, cycle |-> 1]
  /\ published = 0 /\ ended = 0
  /\ fetch = [at |-> "idle", got |-> NoDoc]
  /\ doc = NoDoc
  /\ page = "skeleton"
  /\ conns = [g \in 1 .. MaxTrouble + 1 |-> NoConn]
  /\ wire = <<>>
  /\ feed = <<>> /\ agents = [a \in Agents |-> "idle"]
  /\ everShown = {}
  /\ trouble = 0

-----------------------------------------------------------------------------
(* The server.                                                             *)

RunMoves ==
  /\ db.status = "queued" /\ db' = [db EXCEPT !.status = "planning"]
  /\ UNCHANGED <<published, ended, fetch, doc, page, conns, wire, list, trouble>>

(* The run completes once its last message is stored, see finalizePRRun;   *)
(* it fails or is cancelled at any time.                                   *)
RunEnds ==
  /\ ~IsTerminal(db.status)
  /\ \/ db' = [db EXCEPT !.status = "failed"]
     \/ db.status = "planning" /\ db.stored = NumMsgs /\ db' = [db EXCEPT !.status = "completed"]
  /\ ended' = db.stored
  /\ UNCHANGED <<published, fetch, doc, page, conns, wire, list, trouble>>

(* Mirror.store inserts the row of the next message. The agents go on for  *)
(* a while after a run has failed.                                         *)
StoreMessage ==
  /\ db.status \in {"planning", "failed"}
  /\ db.stored < NumMsgs
  /\ published = db.stored
  /\ db' = [db EXCEPT !.stored = @ + 1]
  /\ UNCHANGED <<published, ended, fetch, doc, page, conns, wire, list, trouble>>

(* Mirror.store publishes it to the streams that are open.                 *)
PublishMessage ==
  /\ published < db.stored
  /\ published' = published + 1
  /\ wire' = IF \E g \in Slots : conns[g].at = "open" THEN Append(wire, published') ELSE wire
  /\ UNCHANGED <<db, ended, fetch, doc, page, conns, list, trouble>>

(* Mirror.syncArtifacts, once the message of a stage that writes files is  *)
(* stored: a file is added, or their text replaced by that of a rework.    *)
StoreOutputs ==
  /\ db.status \in {"planning", "failed"}
  /\ \E m \in 1 .. db.stored : Sender[m] \in Generators
  /\ \/ db.files < MaxFiles /\ db' = [db EXCEPT !.files = @ + 1]
     \/ db.files = MaxFiles /\ db.cycle = 1 /\ db' = [db EXCEPT !.cycle = 2]
  /\ UNCHANGED <<published, ended, fetch, doc, page, conns, wire, list, trouble>>

-----------------------------------------------------------------------------
(* The poll.                                                               *)

(* refetchInterval: the run is polled while it waits or is live.           *)
Polls == doc.status \in {"none", "queued"} \/ IsLive(doc.status)

(* The page asks for the run, one request at a time; a page without a copy *)
(* of it asks once. GetRun reads the row of the run first, then the        *)
(* messages, then the rest.                                                *)
ReadRow ==
  /\ fetch.at = "idle" /\ Polls
  /\ page = "missing" => doc # NoDoc
  /\ fetch' = [at |-> "row", got |-> [NoDoc EXCEPT !.status = db.status]]
  /\ UNCHANGED <<db, published, ended, doc, page, conns, wire, list, trouble>>

(* The error of the query is dropped: the answer has no messages then.     *)
(* Without rows GetRun asks Band for the transcript of the chat, which may *)
(* be ahead of the rows, or empty if Band does not answer.                 *)
ReadMessages ==
  /\ fetch.at = "row"
  /\ \E read \in BOOLEAN, chat \in 0 .. NumMsgs :
       /\ ~read => "rows" \in Faults /\ trouble < MaxTrouble
       /\ trouble' = IF read THEN trouble ELSE trouble + 1
       /\ chat > 0 => /\ "chat" \in Faults /\ (read => db.stored = 0)
                      /\ chat >= db.stored /\ db.status # "queued"
       /\ fetch' = [at  |-> "rest",
                    got |-> [fetch.got EXCEPT !.stored = IF read THEN db.stored ELSE 0,
                                              !.chat = chat, !.read = read]]
  /\ UNCHANGED <<db, published, ended, doc, page, conns, wire, list>>

(* Mutant of ReadRest: the row of the run is read last.                    *)
ReadRestAndRow(got) ==
  [got EXCEPT !.status = db.status, !.files = db.files, !.cycle = db.cycle]

ReadRest(got) == [got EXCEPT !.files = db.files, !.cycle = db.cycle]

(* The answer arrives. React Query keeps the parts of the old copy that    *)
(* are equal, so the effects run for what has changed.                     *)
AnswerRun ==
  /\ fetch.at = "rest"
  /\ LET d == ReadRest(fetch.got) IN
       /\ doc' = d
       /\ fetch' = [at |-> "idle", got |-> NoDoc]
       /\ page' = "ready"
       /\ IF page = "ready"
            THEN /\ feed' = IF Rows(d) = Rows(doc) THEN feed ELSE MergeMessages(feed, Rows(d))
                 /\ agents' = MergeAgents(agents, BuildAgents(d))
                 /\ conns' = IF d.status = doc.status THEN conns ELSE Restart(conns, d.status)
                 /\ wire' = IF d.status = doc.status THEN wire ELSE <<>>
            ELSE /\ MountList(d)
                 /\ conns' = Connect(conns, d.status)
                 /\ wire' = <<>>
  /\ Note
  /\ UNCHANGED <<db, published, ended, trouble>>

(* The fetch fails, its retry too: the query is in error and RunView shows *)
(* RunNotFound in place of the page until a later poll succeeds.           *)
PollFails ==
  /\ "poll" \in Faults /\ trouble < MaxTrouble
  /\ fetch.at # "idle"
  /\ fetch' = [at |-> "idle", got |-> NoDoc]
  /\ page' = "missing"
  /\ conns' = CleanUp(conns)
  /\ wire' = <<>>
  /\ feed' = <<>> /\ agents' = [a \in Agents |-> "idle"]
  /\ trouble' = trouble + 1
  /\ UNCHANGED <<db, published, ended, doc, everShown>>

-----------------------------------------------------------------------------
(* The stream.                                                             *)

(* Mutant of TokenReady: the flag is not read again after the await.       *)
TokenReadyUnchecked(g) ==
  /\ conns[g].at = "token"
  /\ conns' = [conns EXCEPT ![g].at = "open"]
  /\ UNCHANGED <<db, published, ended, fetch, doc, page, wire, list, trouble>>

(* connect after ensureFreshToken, which never rejects: the effect may     *)
(* have been cleaned up in between.                                        *)
TokenReady(g) ==
  /\ conns[g].at = "token"
  /\ conns' = [conns EXCEPT ![g] = IF @.closed THEN NoConn ELSE [@ EXCEPT !.at = "open"]]
  /\ UNCHANGED <<db, published, ended, fetch, doc, page, wire, list, trouble>>

(* es.onerror: the stream is closed and opened again in three seconds.     *)
StreamBreaks(g) ==
  /\ "drop" \in Faults /\ trouble < MaxTrouble
  /\ conns[g].at = "open"
  /\ conns' = [conns EXCEPT ![g].at = "timer"]
  /\ wire' = <<>>
  /\ trouble' = trouble + 1
  /\ UNCHANGED <<db, published, ended, fetch, doc, page, list>>

Reconnect(g) ==
  /\ conns[g].at = "timer"
  /\ conns' = [conns EXCEPT ![g].at = "token"]
  /\ UNCHANGED <<db, published, ended, fetch, doc, page, wire, list, trouble>>

(* Mutant of Known: ids only.                                              *)
KnownById(current, e) == \E i \in DOMAIN current : current[i].id = e.id

(* The list has the message under its id or its signature.                 *)
Known(current, e) ==
  \E i \in DOMAIN current :
    current[i].id = e.id \/ MessageSig(current[i]) = MessageSig(e)

(* handleMessage. Which messages are shown as new, streamedIds, is left    *)
(* out.                                                                    *)
HandleMessage ==
  /\ wire # <<>>
  /\ wire' = Tail(wire)
  /\ LET m == Head(wire)
         e == Entry(m, "band", FALSE)
     IN /\ feed' = IF Known(feed, e) THEN feed ELSE Append(feed, e)
        /\ agents' = [agents EXCEPT ![Sender[m]] = IF @ = "idle" THEN "active" ELSE @]
  /\ Note
  /\ UNCHANGED <<db, published, ended, fetch, doc, page, conns, trouble>>

LiveNext ==
  \/ RunMoves \/ RunEnds \/ StoreMessage \/ PublishMessage \/ StoreOutputs
  \/ ReadRow \/ ReadMessages \/ AnswerRun \/ PollFails
  \/ \E g \in Slots : TokenReady(g) \/ StreamBreaks(g) \/ Reconnect(g)
  \/ HandleMessage

Spec == Init /\ [][LiveNext]_liveVars

-----------------------------------------------------------------------------
TypeOK ==
  /\ db \in [status : Statuses, stored : 0 .. NumMsgs, files : 0 .. MaxFiles, cycle : 1 .. 2]
  /\ published \in 0 .. db.stored /\ ended \in 0 .. db.stored
  /\ fetch \in [at : {"idle", "row", "rest"}, got : Docs]
  /\ doc \in Docs
  /\ page \in {"skeleton", "ready", "missing"}
  /\ conns \in [1 .. MaxTrouble + 1 -> [closed : BOOLEAN, at : {"off", "token", "open", "timer"}]]
  /\ wire \in Seq(Msgs)
  /\ feed \in Seq(Entries)
  /\ agents \in [Agents -> {"idle", "done", "active"}]
  /\ everShown \subseteq Msgs
  /\ trouble \in 0 .. MaxTrouble

(* While a page takes its run for live, exactly one connect loop works for *)
(* it: the page is never deaf for good, and a loop that was cleaned up     *)
(* while it waited for its token opens no second stream.                   *)
OneStream ==
  LET atWork == {g \in Slots : conns[g].at # "off" /\ ~conns[g].closed}
      open   == {g \in Slots : conns[g].at = "open"}
  IN /\ open \subseteq atWork
     /\ Cardinality(atWork) = IF page = "ready" /\ IsLive(doc.status) THEN 1 ELSE 0

(* No message is listed twice, however stream and poll interleave.         *)
EachOnce ==
  \A i, j \in DOMAIN feed : feed[i].msg = feed[j].msg => i = j

Told(messages) == {Says(m) : m \in messages}

(* While GetRun can read the messages, what the page has listed stays      *)
(* listed: neither a poll that is older than the stream nor a transient    *)
(* failure takes a message away; and when the page learns that the run has *)
(* ended, and asks no more, it lists every message that was stored before  *)
(* the end. Of messages of one second that say the same, one is enough.    *)
NothingLost ==
  page = "ready" /\ doc.read =>
    /\ Told(everShown) \subseteq Told(Shown)
    /\ IsTerminal(doc.status) => Told(1 .. ended) \subseteq Told(Shown)
==============================================================================
