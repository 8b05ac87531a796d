----------------------------- MODULE RunPageProofs -----------------------------
(***************************************************************************)
(* Proofs about RunPage and LiveRun, for any run, any number of failures   *)
(* and whatever the user does meanwhile: the code viewer shows the file it *)
(* is open at; a page whose run is live has one connect loop; the list of  *)
(* the feed, sorted and merged from the poll and the stream, holds every   *)
(* message once and loses none that an answer has; the crew speaks a       *)
(* message once; the types.                                                *)
(***************************************************************************)
EXTENDS RunPage, FiniteSetTheorems, NaturalsInduction, WellFoundedInduction, TLAPS

(* An answer the viewer listens to is for the text it is open at.          *)
Listens ==
  \A t \in tasks : t.alive => viewer.file # None /\ t.text = Text(viewer.file, doc)

(* The records, whatever texts there are.                                  *)
ViewerTyped ==
  /\ viewer = [file |-> viewer.file, html |-> viewer.html]
  /\ \A t \in tasks : t = [text |-> t.text, alive |-> t.alive] /\ t.alive \in BOOLEAN

ViewerInv == ViewerTyped /\ Listens /\ ViewerShowsFile

(* What the viewer shows after any change of the page, of its run or of    *)
(* the file that is open.                                                  *)
LEMMA ViewerFollowsRight ==
  ASSUME ViewerInv, NEW selected, ViewerFollows(selected)
  PROVE  ViewerInv'
<1> DEFINE now  == page' = "ready" /\ ArtifactsOpen(wide', center', pane') /\ doc'.files > 0
           kept == viewer.file # None /\ wide' = wide /\ target' = target
           file == IF ~now THEN None
                   ELSE IF ~kept THEN (IF target'.file \in 1 .. doc'.files THEN target'.file ELSE 1)
                   ELSE IF selected # None THEN selected ELSE viewer.file
           text == Text(file, doc')
<1>0. \A t \in Kill(tasks) : t = [text |-> t.text, alive |-> t.alive] /\ t.alive = FALSE
  BY DEF Kill
<1>1. CASE file = None
  <2>1. viewer' = [file |-> None, html |-> NoText] /\ tasks' = Kill(tasks)
    BY <1>1 DEF ViewerFollows
  <2>2. viewer'.file = None /\ viewer' = [file |-> viewer'.file, html |-> viewer'.html]
    BY <2>1
  <2> QED  BY <1>0, <2>1, <2>2 DEF ViewerInv, ViewerTyped, Listens, ViewerShowsFile
<1>2. CASE file # None /\ kept /\ file = viewer.file /\ text = Text(file, doc)
  <2>1. UNCHANGED <<viewer, tasks>> /\ Text(viewer.file, doc') = Text(viewer.file, doc)
    BY <1>2 DEF ViewerFollows
  <2> QED  BY <2>1 DEF ViewerInv, ViewerTyped, Listens, ViewerShowsFile
<1>3. CASE file # None /\ ~(kept /\ file = viewer.file /\ text = Text(file, doc))
  <2>1. /\ viewer' = [file |-> file, html |-> IF text \in cached THEN text ELSE NoText]
        /\ tasks' = Kill(tasks) \union
                    (IF text \in cached THEN {} ELSE {[text |-> text, alive |-> TRUE]})
    BY <1>3 DEF ViewerFollows
  <2> HIDE DEF file, text
  <2>2. /\ viewer'.file = file /\ viewer'.html \in {NoText, text}
        /\ viewer' = [file |-> viewer'.file, html |-> viewer'.html]
    BY <2>1
  <2>3. \A t \in tasks' : /\ t = [text |-> t.text, alive |-> t.alive] /\ t.alive \in BOOLEAN
                          /\ t.alive => t.text = text
    <3>1. ASSUME NEW t \in tasks', t \notin Kill(tasks)
          PROVE  t = [text |-> text, alive |-> TRUE]
      BY <2>1, <3>1
    <3>2. ASSUME NEW t \in Kill(tasks)
          PROVE  t = [text |-> t.text, alive |-> t.alive] /\ t.alive = FALSE
      BY <1>0
    <3>3. ASSUME NEW t, t = [text |-> text, alive |-> TRUE]
          PROVE  t = [text |-> t.text, alive |-> t.alive] /\ t.alive = TRUE /\ t.text = text
      BY <3>3
    <3> QED  BY <3>1, <3>2, <3>3
  <2>4. text = Text(viewer'.file, doc')
    BY <2>2 DEF text
  <2> QED  BY <1>3, <2>2, <2>3, <2>4 DEF ViewerInv, ViewerTyped, Listens, ViewerShowsFile
<1> QED  BY <1>1, <1>2, <1>3

LEMMA ViewerInit == PageInit => ViewerInv
BY DEF PageInit, ViewerInv, ViewerTyped, Listens, ViewerShowsFile

LEMMA ViewerKept ==
  ASSUME ViewerInv, [PageNext]_vars
  PROVE  ViewerInv'
<1>1. ASSUME NEW selected, Follow(selected)  PROVE ViewerInv'
  BY <1>1, ViewerFollowsRight DEF Follow
<1>2. ASSUME UNCHANGED <<doc, viewer, tasks>>  PROVE ViewerInv'
  BY <1>2 DEF ViewerInv, ViewerTyped, Listens, ViewerShowsFile, Text
<1>3. CASE LiveStep
  BY <1>1, <1>3 DEF LiveStep
<1>4. ASSUME NEW v, ShowView(v)  PROVE ViewerInv'
  BY <1>1, <1>4 DEF ShowView
<1>5. ASSUME NEW p, ShowPane(p)  PROVE ViewerInv'
  BY <1>1, <1>5 DEF ShowPane
<1>6. CASE ChangeLayout
  BY <1>1, <1>6 DEF ChangeLayout
<1>7. ASSUME NEW f, OpenArtifact(f) \/ SelectFile(f)  PROVE ViewerInv'
  BY <1>1, <1>7 DEF OpenArtifact, SelectFile
<1>8. ASSUME NEW f, OpenReport(f)  PROVE ViewerInv'
  BY <1>2, <1>8 DEF OpenReport, Click
<1>9. CASE CloseReport \/ Scroll \/ UNCHANGED vars
  BY <1>2, <1>9 DEF CloseReport, Scroll, Click, vars, liveVars, panelVars, files
<1>10. ASSUME NEW t \in tasks, Highlighted(t)  PROVE ViewerInv'
  <2>1. tasks' \subseteq tasks /\ doc' = doc
    BY <1>10 DEF Highlighted, liveVars
  <2>2. CASE t.alive
    <3>1. viewer' = [file |-> viewer.file, html |-> t.text] /\ t.text = Text(viewer.file, doc)
      BY <1>10, <2>2 DEF Highlighted, ViewerInv, Listens
    <3>2. viewer'.file = viewer.file /\ viewer'.html = Text(viewer'.file, doc')
      BY <2>1, <3>1 DEF Text
    <3>3. viewer' = [file |-> viewer'.file, html |-> viewer'.html]
      BY <3>1
    <3> QED  BY <2>1, <3>2, <3>3 DEF ViewerInv, ViewerTyped, Listens, ViewerShowsFile, Text
  <2>3. CASE ~t.alive
    BY <1>10, <2>1, <2>3 DEF Highlighted, ViewerInv, ViewerTyped, Listens, ViewerShowsFile, Text
  <2> QED  BY <2>2, <2>3
<1>11. ASSUME NEW t \in tasks, HighlightFails(t)  PROVE ViewerInv'
  BY <1>11 DEF HighlightFails, ViewerInv, ViewerTyped, Listens, ViewerShowsFile, Text
<1> QED  BY <1>3, <1>4, <1>5, <1>6, <1>7, <1>8, <1>9, <1>10, <1>11 DEF PageNext

(* The viewer shows the file it is open at or a skeleton, never the late   *)
(* answer of useHighlighted for another file or an older text, however     *)
(* many answers are under way and whichever come first.                    *)
THEOREM ViewerIsRight == PageSpec => []ViewerShowsFile
<1>1. ViewerInv /\ [PageNext]_vars => ViewerInv'
  BY ViewerKept
<1>2. ViewerInv => ViewerShowsFile
  BY DEF ViewerInv
<1> QED  BY ViewerInit, <1>1, <1>2, PTL DEF PageSpec

-----------------------------------------------------------------------------
(* The connect loops.                                                      *)

AllSlots == 1 .. MaxTrouble + 1
ConnStates == [closed : BOOLEAN, at : {"off", "token", "open", "timer"}]

(* The parts of the page that the loops depend on.                         *)
LiveTyped ==
  /\ db \in [status : Statuses, stored : 0 .. NumMsgs, files : 0 .. MaxFiles, cycle : 1 .. 2]
  /\ fetch \in [at : {"idle", "row", "rest"}, got : Docs]
  /\ doc \in Docs
  /\ page \in {"skeleton", "ready", "missing"}
  /\ conns \in [AllSlots -> ConnStates]
  /\ trouble \in 0 .. MaxTrouble

(* A run only moves on, and neither an answer under way nor the page's     *)
(* copy is ahead of it.                                                    *)
Stage(status) ==
  IF status = "none" THEN 0 ELSE IF status = "queued" THEN 1
  ELSE IF status = "planning" THEN 2 ELSE 3

InOrder ==
  /\ Stage(doc.status) <= Stage(db.status)
  /\ fetch.at # "idle" => /\ Stage(doc.status) <= Stage(fetch.got.status)
                          /\ Stage(fetch.got.status) <= Stage(db.status)

(* The loops at work, and those that were cleaned up and wait for a token. *)
AtWork(cs) == {g \in AllSlots : cs[g].at # "off" /\ ~cs[g].closed}
Closed(cs) == {g \in AllSlots : cs[g].closed}

Wanted == page = "ready" /\ IsLive(doc.status)

(* Closed loops wait for a token; there is one for each failure that threw *)
(* the page away, and one for the end of the run.                          *)
Loops ==
  /\ \A g \in AllSlots : conns[g].closed => conns[g].at = "token"
  /\ IF Wanted THEN \E g \in AllSlots : AtWork(conns) = {g} ELSE AtWork(conns) = {}
  /\ Cardinality(Closed(conns)) <= trouble + (IF IsTerminal(doc.status) THEN 1 ELSE 0)

LoopInv == LiveTyped /\ InOrder /\ Loops

LEMMA SlotsAreFinite ==
  /\ IsFiniteSet(AllSlots) /\ Cardinality(AllSlots) = MaxTrouble + 1
  /\ \A S \in SUBSET AllSlots : IsFiniteSet(S) /\ Cardinality(S) \in Nat
<1>1. IsFiniteSet(AllSlots) /\ Cardinality(AllSlots) = MaxTrouble + 1
  <2>1. MaxTrouble + 1 \in Nat
    BY ConstantsAssumption
  <2>2. IsFiniteSet(1 .. MaxTrouble + 1) /\ Cardinality(1 .. MaxTrouble + 1) = MaxTrouble + 1
    BY <2>1, FS_Interval
  <2> QED  BY <2>2 DEF AllSlots
<1>2. ASSUME NEW S \in SUBSET AllSlots  PROVE IsFiniteSet(S) /\ Cardinality(S) \in Nat
  BY <1>1, FS_Subset, FS_CardinalityType
<1> QED  BY <1>1, <1>2

LEMMA Counts ==
  ASSUME NEW S \in SUBSET AllSlots, NEW g \in AllSlots, NEW T \in SUBSET (S \union {g})
  PROVE  Cardinality(T) <= Cardinality(S) + 1 /\ (T \subseteq S => Cardinality(T) <= Cardinality(S))
<1>1. IsFiniteSet(S) /\ Cardinality(S) \in Nat /\ S \union {g} \in SUBSET AllSlots
  BY SlotsAreFinite
<1>2. /\ IsFiniteSet(S \union {g})
      /\ Cardinality(S \union {g}) \in {Cardinality(S), Cardinality(S) + 1}
  BY <1>1, FS_AddElement
<1>3. Cardinality(T) <= Cardinality(S \union {g})
  BY <1>2, FS_Subset
<1>4. T \subseteq S => Cardinality(T) <= Cardinality(S)
  BY <1>1, FS_Subset
<1>5. Cardinality(S \union {g}) \in Nat /\ Cardinality(T) \in Nat
  BY SlotsAreFinite
<1> QED  BY <1>1, <1>2, <1>3, <1>4, <1>5

(* What remains of the loops after a cleanup, and when the effect runs     *)
(* anew, as long as fewer than all are closed.                             *)
LEMMA CleansUp ==
  ASSUME NEW cs \in [AllSlots -> ConnStates],
         \A g \in AllSlots : cs[g].closed => cs[g].at = "token"
  PROVE  /\ CleanUp(cs) \in [AllSlots -> ConnStates]
         /\ \A g \in AllSlots : CleanUp(cs)[g].closed => CleanUp(cs)[g].at = "token"
         /\ AtWork(CleanUp(cs)) = {}
         /\ Closed(CleanUp(cs)) \subseteq Closed(cs) \union AtWork(cs)
BY DEF CleanUp, ConnStates, AtWork, Closed, NoConn

LEMMA Connects ==
  ASSUME NEW cs \in [AllSlots -> ConnStates], NEW status,
         \A g \in AllSlots : cs[g].closed => cs[g].at = "token",
         AtWork(cs) = {}, IsLive(status) => Cardinality(Closed(cs)) <= MaxTrouble
  PROVE  /\ Connect(cs, status) \in [AllSlots -> ConnStates]
         /\ \A g \in AllSlots : Connect(cs, status)[g].closed => Connect(cs, status)[g].at = "token"
         /\ IF IsLive(status) THEN \E g \in AllSlots : AtWork(Connect(cs, status)) = {g}
                              ELSE AtWork(Connect(cs, status)) = {}
         /\ Closed(Connect(cs, status)) \subseteq Closed(cs)
<1>1. CASE ~IsLive(status)
  BY <1>1 DEF Connect
<1>2. CASE IsLive(status)
  <2>1. PICK g \in AllSlots : ~cs[g].closed
    <3>1. Closed(cs) # AllSlots
      BY <1>2, SlotsAreFinite, ConstantsAssumption
    <3> QED  BY <3>1 DEF Closed
  <2>2. cs[g].at = "off"
    BY <2>1 DEF AtWork
  <2>3. FreeSlot(cs) \in AllSlots /\ cs[FreeSlot(cs)].at = "off"
    BY <2>2 DEF FreeSlot
  <2>4. Connect(cs, status) = [cs EXCEPT ![FreeSlot(cs)] = [closed |-> FALSE, at |-> "token"]]
    BY <1>2 DEF Connect
  <2> HIDE DEF FreeSlot
  <2>5. AtWork(Connect(cs, status)) = {FreeSlot(cs)}
    BY <2>3, <2>4 DEF AtWork
  <2>6. Connect(cs, status) \in [AllSlots -> ConnStates]
    BY <2>3, <2>4 DEF ConnStates
  <2>7. /\ \A h \in AllSlots : Connect(cs, status)[h].closed => Connect(cs, status)[h].at = "token"
        /\ Closed(Connect(cs, status)) \subseteq Closed(cs)
    BY <2>3, <2>4 DEF Closed
  <2> QED  BY <1>2, <2>3, <2>5, <2>6, <2>7
<1> QED  BY <1>1, <1>2

LEMMA LoopInit == PageInit => LoopInv
<1> SUFFICES ASSUME PageInit  PROVE LoopInv
  OBVIOUS
<1>1. /\ NumMsgs \in Nat /\ MaxTrouble \in Nat /\ MaxFiles \in Nat
  BY ConstantsAssumption DEF NumMsgs
<1>2. LiveTyped
  BY <1>1 DEF PageInit, Init, LiveTyped, Statuses, Docs, NoDoc, AllSlots, ConnStates, NoConn
<1>3. InOrder
  BY DEF PageInit, Init, InOrder, Stage, NoDoc
<1>4. AtWork(conns) = {} /\ Closed(conns) = {} /\ \A g \in AllSlots : ~conns[g].closed
  BY DEF PageInit, Init, AtWork, Closed, NoConn, AllSlots
<1>5. Cardinality({}) = 0
  BY FS_EmptySet
<1>6. ~Wanted /\ trouble = 0 /\ ~IsTerminal(doc.status)
  BY DEF PageInit, Init, Wanted, NoDoc, IsTerminal
<1> QED  BY <1>2, <1>3, <1>4, <1>5, <1>6 DEF LoopInv, Loops

(* Steps that leave the loops and what they depend on.                     *)
LEMMA LoopsStay ==
  ASSUME LoopInv, UNCHANGED <<doc, page, conns>>, trouble' \in trouble .. MaxTrouble
  PROVE  Loops'
<1>1. UNCHANGED <<Wanted, AtWork(conns), Closed(conns)>> /\ IsTerminal(doc'.status) = IsTerminal(doc.status)
  BY DEF Wanted, AtWork, Closed
<1>2. Cardinality(Closed(conns)) \in Nat
  BY SlotsAreFinite DEF Closed
<1>3. Cardinality(Closed(conns))' <= trouble' + (IF IsTerminal(doc'.status) THEN 1 ELSE 0)
  BY <1>1, <1>2, ConstantsAssumption DEF LoopInv, Loops, LiveTyped
<1> QED  BY <1>1, <1>3 DEF LoopInv, Loops

LEMMA ServerKeeps ==
  ASSUME LoopInv, RunMoves \/ RunEnds \/ StoreMessage \/ PublishMessage \/ StoreOutputs
  PROVE  LoopInv'
<1> USE DEF LoopInv
<1>1. /\ NumMsgs \in Nat /\ MaxFiles \in Nat
  BY ConstantsAssumption DEF NumMsgs
<1>2. UNCHANGED <<fetch, doc, page, conns, trouble>>
  BY DEF RunMoves, RunEnds, StoreMessage, PublishMessage, StoreOutputs
<1>3. db' \in [status : Statuses, stored : 0 .. NumMsgs, files : 0 .. MaxFiles, cycle : 1 .. 2]
  <2>1. CASE RunMoves \/ RunEnds
    BY <2>1 DEF LiveTyped, RunMoves, RunEnds, Statuses
  <2>2. CASE StoreMessage \/ PublishMessage
    BY <1>1, <2>2 DEF LiveTyped, StoreMessage, PublishMessage
  <2>3. CASE StoreOutputs
    BY <1>1, <2>3 DEF LiveTyped, StoreOutputs
  <2> QED  BY <2>1, <2>2, <2>3
<1>4. Stage(db.status) <= Stage(db'.status)
  BY DEF RunMoves, RunEnds, StoreMessage, PublishMessage, StoreOutputs, Stage, IsTerminal, LiveTyped,
         Statuses
<1>5. InOrder'
  BY <1>2, <1>4 DEF InOrder, Stage
<1>6. trouble' \in trouble .. MaxTrouble
  BY <1>2, ConstantsAssumption DEF LiveTyped
<1> QED  BY <1>2, <1>3, <1>5, <1>6, LoopsStay DEF LiveTyped

LEMMA ReadKeeps ==
  ASSUME LoopInv, ReadRow \/ ReadMessages
  PROVE  LoopInv'
<1> USE DEF LoopInv
<1>1. /\ NumMsgs \in Nat /\ MaxFiles \in Nat
  BY ConstantsAssumption DEF NumMsgs
<1>2. UNCHANGED <<db, doc, page, conns>> /\ trouble \in 0 .. MaxTrouble /\ MaxTrouble \in Nat
  BY ConstantsAssumption DEF ReadRow, ReadMessages, LiveTyped
<1>3. fetch' \in [at : {"idle", "row", "rest"}, got : Docs] /\ InOrder'
  <2>1. CASE ReadRow
    <3>1. fetch'.at = "row" /\ fetch'.got \in Docs /\ fetch'.got.status = db.status
      <4>1. NoDoc \in Docs /\ db.status \in Statuses
        BY <1>1 DEF NoDoc, Docs, LiveTyped
      <4>2. fetch' = [at |-> "row", got |-> [NoDoc EXCEPT !.status = db.status]]
        BY <2>1 DEF ReadRow
      <4> HIDE DEF NoDoc
      <4> QED  BY <4>1, <4>2 DEF Docs
    <3>2. fetch' \in [at : {"idle", "row", "rest"}, got : Docs]
      BY <2>1, <3>1 DEF ReadRow
    <3> QED  BY <1>2, <3>1, <3>2 DEF InOrder, Stage
  <2>2. CASE ReadMessages
    <3>1. PICK read \in BOOLEAN, chat \in 0 .. NumMsgs :
            fetch' = [at  |-> "rest",
                      got |-> [fetch.got EXCEPT !.stored = IF read THEN db.stored ELSE 0,
                                                !.chat = chat, !.read = read]]
      BY <2>2 DEF ReadMessages
    <3> DEFINE n == IF read THEN db.stored ELSE 0
    <3>5. n \in 0 .. NumMsgs /\ fetch.got \in Docs
      BY <1>1 DEF LiveTyped
    <3>6. fetch' = [at |-> "rest", got |-> [fetch.got EXCEPT !.stored = n, !.chat = chat, !.read = read]]
      BY <3>1
    <3> HIDE DEF n
    <3>2. /\ [fetch.got EXCEPT !.stored = n, !.chat = chat, !.read = read] \in Docs
          /\ [fetch.got EXCEPT !.stored = n, !.chat = chat, !.read = read].status = fetch.got.status
      BY <3>5 DEF Docs
    <3>3. fetch' \in [at : {"idle", "row", "rest"}, got : Docs] /\ fetch'.got.status = fetch.got.status
      BY <3>2, <3>6
    <3>4. fetch.at = "row"
      BY <2>2 DEF ReadMessages
    <3> QED  BY <1>2, <3>3, <3>4 DEF InOrder
  <2> QED  BY <2>1, <2>2
<1>4. trouble' \in trouble .. MaxTrouble
  <2>1. CASE ReadRow
    BY <1>2, <2>1 DEF ReadRow
  <2>2. CASE ReadMessages
    <3>1. PICK read \in BOOLEAN :
            /\ ~read => trouble < MaxTrouble
            /\ trouble' = IF read THEN trouble ELSE trouble + 1
      BY <2>2 DEF ReadMessages
    <3> QED  BY <1>2, <3>1
  <2> QED  BY <2>1, <2>2
<1> QED  BY <1>2, <1>3, <1>4, LoopsStay DEF LiveTyped

(* The token, the break and the timer of a loop.                           *)
LEMMA StreamKeeps ==
  ASSUME LoopInv, NEW g \in AllSlots, TokenReady(g) \/ StreamBreaks(g) \/ Reconnect(g)
  PROVE  LoopInv'
<1> USE DEF LoopInv
<1>1. /\ UNCHANGED <<db, fetch, doc, page>> /\ trouble' \in trouble .. MaxTrouble
      /\ MaxTrouble \in Nat
  BY ConstantsAssumption DEF TokenReady, StreamBreaks, Reconnect, LiveTyped
<1>2. conns \in [AllSlots -> ConnStates] /\ conns[g].at # "off" /\ (conns[g].closed => conns[g].at = "token")
  BY DEF LiveTyped, TokenReady, StreamBreaks, Reconnect, Loops
<1>3. PICK c \in ConnStates :
        /\ conns' = [conns EXCEPT ![g] = c] /\ ~c.closed
        /\ c.at = "off" <=> conns[g].closed
  <2>1. CASE TokenReady(g) /\ conns[g].closed
    <3>1. conns' = [conns EXCEPT ![g] = NoConn]
      BY <2>1 DEF TokenReady
    <3>2. NoConn \in ConnStates /\ ~NoConn.closed /\ NoConn.at = "off"
      BY DEF NoConn, ConnStates
    <3> QED  BY <2>1, <3>1, <3>2
  <2>2. CASE ~conns[g].closed
    <3>1. \E at \in {"open", "timer", "token"} : conns' = [conns EXCEPT ![g] = [conns[g] EXCEPT !.at = at]]
      <4>1. CASE TokenReady(g)
        BY <2>2, <4>1 DEF TokenReady
      <4>2. CASE StreamBreaks(g)
        BY <4>2 DEF StreamBreaks
      <4>3. CASE Reconnect(g)
        BY <4>3 DEF Reconnect
      <4> QED  BY <4>1, <4>2, <4>3
    <3>2. \A at \in {"open", "timer", "token"} :
            /\ [conns[g] EXCEPT !.at = at] \in ConnStates
            /\ ~[conns[g] EXCEPT !.at = at].closed /\ [conns[g] EXCEPT !.at = at].at # "off"
      BY <1>2, <2>2 DEF ConnStates
    <3> QED  BY <2>2, <3>1, <3>2
  <2>3. ~TokenReady(g) => ~conns[g].closed
    BY <1>2 DEF StreamBreaks, Reconnect
  <2> QED  BY <2>1, <2>2, <2>3
<1>4. /\ conns' \in [AllSlots -> ConnStates]
      /\ \A h \in AllSlots : conns'[h] = IF h = g THEN c ELSE conns[h]
  BY <1>2, <1>3
<1>5. AtWork(conns') = AtWork(conns) /\ Closed(conns') \subseteq Closed(conns)
  BY <1>2, <1>3, <1>4 DEF AtWork, Closed
<1>6. \A h \in AllSlots : conns'[h].closed => conns'[h].at = "token"
  BY <1>3, <1>4 DEF Loops
<1>7. Cardinality(Closed(conns')) <= Cardinality(Closed(conns))
  BY <1>5, Counts DEF Closed
<1>8. Loops'
  <2>1. Cardinality(Closed(conns)) \in Nat /\ Cardinality(Closed(conns')) \in Nat
    BY SlotsAreFinite DEF Closed
  <2>2. Wanted' = Wanted
    BY <1>1 DEF Wanted
  <2> QED  BY <1>1, <1>5, <1>6, <1>7, <2>1, <2>2 DEF Loops, LiveTyped
<1>9. LiveTyped' /\ InOrder'
  BY <1>1, <1>4 DEF LiveTyped, InOrder
<1> QED  BY <1>8, <1>9

(* The page takes a copy d of the run that is not older than its own: the  *)
(* loops of the old status are closed, and a live run has a slot left.     *)
LEMMA LoopsFollow ==
  ASSUME LoopInv, NEW d \in Docs, Stage(doc.status) <= Stage(d.status),
         NEW cs \in {conns, CleanUp(conns)}, cs = conns => ~Wanted,
         doc' = d, page' = "ready", conns' = Connect(cs, d.status), trouble' = trouble,
         IsLive(d.status) => ~IsLive(doc.status) \/ ~Wanted
  PROVE  Loops' /\ conns' \in [AllSlots -> ConnStates]
<1> USE DEF LoopInv
<1>1. /\ conns \in [AllSlots -> ConnStates] /\ trouble \in Nat /\ trouble <= MaxTrouble
      /\ \A g \in AllSlots : conns[g].closed => conns[g].at = "token"
  BY ConstantsAssumption DEF LiveTyped, Loops
<1>2. /\ cs \in [AllSlots -> ConnStates] /\ AtWork(cs) = {}
      /\ \A g \in AllSlots : cs[g].closed => cs[g].at = "token"
      /\ Closed(cs) \subseteq Closed(conns) \union AtWork(conns)
  <2>1. CASE cs = CleanUp(conns)
    BY <1>1, <2>1, CleansUp
  <2>2. CASE cs = conns
    BY <1>1, <2>2 DEF Loops
  <2> QED  BY <2>1, <2>2
<1>3. /\ Closed(cs) \subseteq AllSlots /\ Closed(conns) \subseteq AllSlots
      /\ Closed(conns') \subseteq AllSlots
      /\ Cardinality(Closed(cs)) \in Nat /\ Cardinality(Closed(conns)) \in Nat
      /\ Cardinality(Closed(conns')) \in Nat
  BY SlotsAreFinite DEF Closed
<1>4. IsTerminal(doc.status) => IsTerminal(d.status) /\ ~IsLive(d.status) /\ ~Wanted
  BY DEF Stage, IsTerminal, IsLive, Wanted, Docs, Statuses, LiveTyped
<1>5. Wanted /\ ~IsLive(d.status) => IsTerminal(d.status) /\ ~IsTerminal(doc.status)
  BY DEF Stage, IsTerminal, IsLive, Wanted, Docs, Statuses, LiveTyped
<1>6. /\ Wanted => Cardinality(Closed(cs)) <= trouble + 1
      /\ ~Wanted => Cardinality(Closed(cs)) <= trouble + (IF IsTerminal(doc.status) THEN 1 ELSE 0)
  <2>1. CASE Wanted
    <3>1. PICK g \in AllSlots : AtWork(conns) = {g}
      BY <2>1 DEF Loops
    <3>2. Cardinality(Closed(cs)) <= Cardinality(Closed(conns)) + 1
      BY <1>2, <1>3, <3>1, Counts
    <3>3. ~IsTerminal(doc.status)
      BY <2>1 DEF Wanted, IsLive, IsTerminal
    <3>4. Cardinality(Closed(conns)) <= trouble
      BY <1>1, <3>3 DEF Loops
    <3> QED  BY <1>1, <1>3, <2>1, <3>2, <3>4
  <2>2. CASE ~Wanted
    <3>1. Closed(cs) \subseteq Closed(conns)
      BY <1>2, <2>2 DEF Loops
    <3>2. 1 \in AllSlots
      BY ConstantsAssumption DEF AllSlots
    <3>3. Cardinality(Closed(cs)) <= Cardinality(Closed(conns))
      BY <1>3, <3>1, <3>2, Counts
    <3> QED  BY <1>1, <1>3, <2>2, <3>3 DEF Loops
  <2> QED  BY <2>1, <2>2
<1>7. IsLive(d.status) => Cardinality(Closed(cs)) <= MaxTrouble
  <2>1. IsLive(d.status) => ~Wanted /\ ~IsTerminal(doc.status)
    BY <1>4 DEF Wanted
  <2> QED  BY <1>1, <1>3, <1>6, <2>1, ConstantsAssumption
<1>8. /\ conns' \in [AllSlots -> ConnStates]
      /\ \A g \in AllSlots : conns'[g].closed => conns'[g].at = "token"
      /\ IF IsLive(d.status) THEN \E g \in AllSlots : AtWork(conns') = {g} ELSE AtWork(conns') = {}
      /\ Closed(conns') \subseteq Closed(cs)
  BY <1>2, <1>7, Connects
<1>9. Cardinality(Closed(conns')) <= Cardinality(Closed(cs))
  <2>1. 1 \in AllSlots
    BY ConstantsAssumption DEF AllSlots
  <2> QED  BY <1>3, <1>8, <2>1, Counts
<1>10. Cardinality(Closed(conns')) <= trouble' + (IF IsTerminal(doc'.status) THEN 1 ELSE 0)
  <2>1. CASE Wanted /\ ~IsLive(d.status)
    BY <1>1, <1>3, <1>5, <1>6, <1>9, <2>1
  <2>2. CASE ~Wanted
    BY <1>1, <1>3, <1>4, <1>6, <1>9, <2>2
  <2> QED  BY <2>1, <2>2 DEF Wanted
<1>11. Wanted' <=> IsLive(d.status)
  BY DEF Wanted
<1> QED  BY <1>8, <1>10, <1>11 DEF Loops

LEMMA AnswerKeeps ==
  ASSUME LoopInv, AnswerRun
  PROVE  LoopInv'
<1> USE DEF LoopInv
<1> DEFINE d == ReadRest(fetch.got)
<1>1. d \in Docs /\ d.status = fetch.got.status
  BY DEF ReadRest, LiveTyped, Docs
<1>2. /\ doc' = d /\ page' = "ready" /\ UNCHANGED <<db, trouble>>
      /\ fetch' = [at |-> "idle", got |-> NoDoc] /\ fetch.at = "rest"
      /\ conns' = IF page = "ready"
                    THEN (IF d.status = doc.status THEN conns ELSE Restart(conns, d.status))
                    ELSE Connect(conns, d.status)
  BY DEF AnswerRun
<1>3. /\ Stage(doc.status) <= Stage(d.status) /\ Stage(d.status) <= Stage(db.status)
  BY <1>1, <1>2 DEF InOrder
<1> HIDE DEF d
<1>4. NoDoc \in Docs
  BY ConstantsAssumption DEF NoDoc, Docs, NumMsgs
<1>5. Loops' /\ conns' \in [AllSlots -> ConnStates]
  <2>1. CASE page = "ready" /\ d.status = doc.status
    <3>1. /\ conns' = conns /\ Wanted' = Wanted /\ IsTerminal(doc'.status) = IsTerminal(doc.status)
          /\ trouble' = trouble
      BY <1>2, <2>1 DEF Wanted
    <3> QED  BY <3>1 DEF Loops, LiveTyped
  <2>2. CASE page = "ready" /\ d.status # doc.status
    <3>1. conns' = Connect(CleanUp(conns), d.status)
      BY <1>2, <2>2 DEF Restart
    <3>2. IsLive(d.status) => ~IsLive(doc.status)
      BY <2>2 DEF IsLive
    <3>3. CleanUp(conns) = conns => ~Wanted
      <4>1. AtWork(CleanUp(conns)) = {}
        BY CleansUp DEF LiveTyped, Loops
      <4> QED  BY <4>1 DEF Loops
    <3> QED  BY <1>1, <1>2, <1>3, <3>1, <3>2, <3>3, LoopsFollow
  <2>3. CASE page # "ready"
    <3>1. conns' = Connect(conns, d.status) /\ ~Wanted
      BY <1>2, <2>3 DEF Wanted
    <3> QED  BY <1>1, <1>2, <1>3, <3>1, LoopsFollow
  <2> QED  BY <2>1, <2>2, <2>3
<1>6. LiveTyped' /\ InOrder'
  BY <1>1, <1>2, <1>3, <1>4, <1>5 DEF LiveTyped, InOrder
<1> QED  BY <1>5, <1>6

LEMMA FailureKeeps ==
  ASSUME LoopInv, PollFails
  PROVE  LoopInv'
<1> USE DEF LoopInv
<1>1. /\ UNCHANGED <<db, doc>> /\ page' = "missing" /\ conns' = CleanUp(conns)
      /\ fetch' = [at |-> "idle", got |-> NoDoc]
      /\ trouble' = trouble + 1 /\ trouble' \in 0 .. MaxTrouble /\ trouble \in Nat
  BY ConstantsAssumption DEF PollFails, LiveTyped
<1>2. /\ conns' \in [AllSlots -> ConnStates] /\ AtWork(conns') = {}
      /\ \A g \in AllSlots : conns'[g].closed => conns'[g].at = "token"
      /\ Closed(conns') \subseteq Closed(conns) \union AtWork(conns)
  BY <1>1, CleansUp DEF LiveTyped, Loops
<1>3. /\ Closed(conns) \subseteq AllSlots /\ Closed(conns') \subseteq AllSlots
      /\ Cardinality(Closed(conns)) \in Nat /\ Cardinality(Closed(conns')) \in Nat
  BY SlotsAreFinite DEF Closed
<1>4. PICK g \in AllSlots : AtWork(conns) \subseteq {g}
  <2>1. 1 \in AllSlots
    BY ConstantsAssumption DEF AllSlots
  <2> QED  BY <2>1 DEF Loops
<1>5. Cardinality(Closed(conns')) <= Cardinality(Closed(conns)) + 1
  BY <1>2, <1>3, <1>4, Counts
<1>6. Loops'
  BY <1>1, <1>2, <1>3, <1>5 DEF Loops, Wanted
<1>7. LiveTyped' /\ InOrder'
  <2>1. NoDoc \in Docs
    BY ConstantsAssumption DEF NoDoc, Docs, NumMsgs
  <2> QED  BY <1>1, <1>2, <2>1 DEF LiveTyped, InOrder
<1> QED  BY <1>6, <1>7

(* What leaves the run's data alone, the user's clicks included.           *)
LEMMA ClickKeeps ==
  ASSUME LoopInv, UNCHANGED <<db, fetch, doc, page, conns>>, trouble' \in {trouble, trouble + 1},
         trouble' = trouble \/ trouble < MaxTrouble
  PROVE  LoopInv'
<1>1. trouble' \in trouble .. MaxTrouble /\ trouble' \in 0 .. MaxTrouble
  BY ConstantsAssumption DEF LoopInv, LiveTyped
<1>2. LiveTyped' /\ InOrder'
  BY <1>1 DEF LoopInv, LiveTyped, InOrder
<1> QED  BY <1>1, <1>2, LoopsStay DEF LoopInv

LEMMA LoopKept ==
  ASSUME LoopInv, [PageNext]_vars
  PROVE  LoopInv'
<1>0. Slots = AllSlots
  BY DEF LoopInv, LiveTyped, Slots
<1>1. CASE LiveStep
  <2>1. CASE HandleMessage
    BY <2>1, ClickKeeps DEF HandleMessage
  <2> QED  BY <1>0, <1>1, <2>1, ServerKeeps, ReadKeeps, StreamKeeps, AnswerKeeps, FailureKeeps
           DEF LiveStep, LiveNext
<1>2. CASE Click
  BY <1>2, ClickKeeps DEF Click
<1>3. CASE liveVars' = liveVars
  BY <1>3, ClickKeeps DEF liveVars
<1>4. ASSUME NEW t, HighlightFails(t)  PROVE LoopInv'
  BY <1>4, ClickKeeps DEF HighlightFails
<1>5. CASE UNCHANGED vars
  BY <1>3, <1>5 DEF vars
<1> QED  BY <1>1, <1>2, <1>3, <1>4, <1>5
         DEF PageNext, ShowView, ShowPane, ChangeLayout, OpenArtifact, OpenReport, SelectFile, Scroll,
             CloseReport, Highlighted

(* While a page takes its run for live exactly one connect loop works for  *)
(* it, however often polls fail and streams break, and a loop that was     *)
(* cleaned up while it waited for its token never opens a stream.          *)
THEOREM OneLoop == PageSpec => []OneStream
<1>1. LoopInv /\ [PageNext]_vars => LoopInv'
  BY LoopKept
<1>2. LoopInv => OneStream
  <2> SUFFICES ASSUME LoopInv  PROVE OneStream
    OBVIOUS
  <2>1. /\ Slots = AllSlots
        /\ {g \in Slots : conns[g].at # "off" /\ ~conns[g].closed} = AtWork(conns)
    BY DEF LoopInv, LiveTyped, Slots, AtWork
  <2>2. {g \in Slots : conns[g].at = "open"} \subseteq AtWork(conns)
    BY <2>1 DEF LoopInv, Loops, AtWork
  <2>3. Cardinality(AtWork(conns)) = IF Wanted THEN 1 ELSE 0
    BY FS_EmptySet, FS_Singleton DEF LoopInv, Loops
  <2> QED  BY <2>1, <2>2, <2>3 DEF OneStream, Wanted
<1> QED  BY LoopInit, <1>1, <1>2, PTL DEF PageSpec

-----------------------------------------------------------------------------
(* The list of messages. Without the fault "chat" every entry carries the  *)
(* createdAt of its row.                                                   *)

Kinds == {"db", "band"}
Plain == {e \in [msg : Msgs, id : Kinds \X Msgs, raw : {FALSE}] : e.id[2] = e.msg}

OneEach(S) == \A x, y \in S : x.msg = y.msg => x = y

LEMMA EntryIsPlain ==
  ASSUME NEW m \in Msgs, NEW from \in Kinds
  PROVE  /\ Entry(m, from, FALSE) \in Plain
         /\ Entry(m, from, FALSE).msg = m /\ Entry(m, from, FALSE).id = <<from, m>>
BY DEF Plain, Entry

LEMMA PlainIs ==
  ASSUME NEW x \in Plain
  PROVE  /\ x.msg \in Msgs /\ x.id \in Ids /\ x.id[1] \in Kinds /\ x.id[2] = x.msg
         /\ x.raw = FALSE /\ x \in Entries
         /\ x = Entry(x.msg, x.id[1], FALSE)
<1>1. /\ x.msg \in Msgs /\ x.id[1] \in Kinds /\ x.id = <<x.id[1], x.msg>> /\ x.id[2] = x.msg
      /\ x.raw = FALSE
  <2>1. x \in [msg : Msgs, id : Kinds \X Msgs, raw : {FALSE}] /\ x.id[2] = x.msg
    BY DEF Plain
  <2>2. x.msg \in Msgs /\ x.id \in Kinds \X Msgs /\ x.raw = FALSE
    BY <2>1
  <2> QED  BY <2>1, <2>2
<1>2. x.id \in Ids
  BY <1>1 DEF Ids, Kinds
<1>3. x = Entry(x.msg, x.id[1], FALSE)
  BY <1>1 DEF Plain, Entry
<1>4. x \in Entries
  <2>1. x.msg \in Msgs /\ x.id[1] \in {"db", "band"} /\ FALSE \in BOOLEAN
    BY <1>1 DEF Kinds
  <2>2. \E m \in Msgs, from \in {"db", "band"}, raw \in BOOLEAN : x = Entry(m, from, raw)
    BY <1>3, <2>1
  <2> QED  BY <2>2 DEF Entries
<1> QED  BY <1>1, <1>2, <1>3, <1>4

LEMMA BeforeOrders ==
  /\ \A x \in Plain : ~Before(x, x)
  /\ \A x, y \in Plain : x # y => Before(x, y) \/ Before(y, x)
  /\ \A x, y, z \in Plain : Before(x, y) /\ Before(y, z) => Before(x, z)
<1>1. \A m \in Msgs : Second[m] \in Int
  BY ConstantsAssumption DEF Msgs, NumMsgs
<1>2. Msgs \subseteq Int
  BY DEF Msgs
<1>3. \A x \in Plain : /\ x.msg \in Msgs /\ Second[x.msg] \in Int /\ x.msg \in Int
                       /\ x.id[1] \in Kinds
  BY <1>1, <1>2, PlainIs
<1>4. \A x, y \in Plain : x.msg = y.msg /\ x.id[1] = y.id[1] => x = y
  <2> SUFFICES ASSUME NEW x \in Plain, NEW y \in Plain, x.msg = y.msg, x.id[1] = y.id[1]
               PROVE  x = y
    OBVIOUS
  <2>1. x = Entry(x.msg, x.id[1], FALSE) /\ y = Entry(y.msg, y.id[1], FALSE)
    BY PlainIs
  <2> QED  BY <2>1
<1>5. \A x \in Plain : ~Before(x, x)
  BY <1>3 DEF Before
<1>6. \A x, y \in Plain : x # y => Before(x, y) \/ Before(y, x)
  BY <1>3, <1>4 DEF Before, Kinds
<1>7. \A x, y, z \in Plain : Before(x, y) /\ Before(y, z) => Before(x, z)
  BY <1>3 DEF Before, Kinds
<1> QED  BY <1>5, <1>6, <1>7

LEMMA PlainIsFinite ==
  /\ IsFiniteSet(Plain)
  /\ \A S \in SUBSET Plain : IsFiniteSet(S) /\ Cardinality(S) \in Nat
<1> DEFINE f == [p \in Kinds \X Msgs |-> Entry(p[2], p[1], FALSE)]
<1>1. NumMsgs \in Nat
  BY ConstantsAssumption DEF NumMsgs
<1>2. IsFiniteSet(Msgs) /\ IsFiniteSet(Kinds)
  <2>1. IsFiniteSet(Msgs)
    BY <1>1, FS_Interval DEF Msgs
  <2>2. IsFiniteSet({"db"}) /\ Kinds = {"db"} \cup {"band"}
    BY FS_Singleton DEF Kinds
  <2> QED  BY <2>1, <2>2, FS_AddElement
<1>3. IsFiniteSet(Kinds \X Msgs)
  BY <1>2, FS_Product
<1>4. f \in Surjection(Kinds \X Msgs, Plain)
  <2>1. \A p \in Kinds \X Msgs : f[p] \in Plain
    BY EntryIsPlain
  <2>2. ASSUME NEW x \in Plain  PROVE \E p \in Kinds \X Msgs : f[p] = x
    <3>1. x.id \in Kinds \X Msgs /\ x.id[2] = x.msg /\ x = Entry(x.msg, x.id[1], FALSE)
      BY PlainIs DEF Plain
    <3>2. f[x.id] = x
      BY <3>1
    <3> QED  BY <3>1, <3>2
  <2> QED  BY <2>1, <2>2 DEF Surjection
<1>5. IsFiniteSet(Plain)
  BY <1>3, <1>4, FS_Surjection
<1> QED  BY <1>5, FS_Subset, FS_CardinalityType

(* Among sets of entries there is one that has no other below it.          *)
LEMMA SmallestSet ==
  ASSUME NEW Bad, Bad \subseteq SUBSET Plain, Bad # {}
  PROVE  \E S \in Bad : \A T \in Bad : T \subseteq S => T = S
<1>1. IsWellFoundedOn(StrictSubsetOrdering(Plain), FiniteSubsetsOf(Plain))
  BY FS_StrictSubsetOrderingWellFounded
<1>2. Bad \subseteq FiniteSubsetsOf(Plain)
  BY PlainIsFinite, FS_FiniteSubsetsOfFinite
<1>3. PICK S \in Bad : \A T \in Bad : <<T, S>> \notin StrictSubsetOrdering(Plain)
  BY <1>1, <1>2, WFMin
<1>4. \A T \in Bad : T \subseteq S => T = S
  BY <1>3 DEF StrictSubsetOrdering
<1> QED  BY <1>4

IsLast(x, S) == x \in S /\ \A y \in S : y # x => Before(y, x)

LEMMA LastExists ==
  ASSUME NEW S \in SUBSET Plain, S # {}
  PROVE  \E x : IsLast(x, S)
<1> DEFINE Bad == {T \in SUBSET Plain : T # {} /\ ~\E x : IsLast(x, T)}
<1>1. ASSUME Bad # {}  PROVE FALSE
  <2>0. Bad \subseteq SUBSET Plain
    OBVIOUS
  <2>1. PICK T \in Bad : \A U \in Bad : U \subseteq T => U = T
    <3> HIDE DEF Bad
    <3> QED  BY <1>1, <2>0, SmallestSet
  <2>2. PICK x : x \in T
    BY <2>1
  <2>3. T \ {x} # {}
    BY <2>1, <2>2 DEF IsLast
  <2>4. PICK y : IsLast(y, T \ {x})
    BY <2>1, <2>2, <2>3
  <2>5. x \in Plain /\ y \in Plain /\ T \subseteq Plain /\ x # y
    BY <2>1, <2>2, <2>4 DEF IsLast
  <2>6. IsLast(x, T) \/ IsLast(y, T)
    <3>1. CASE Before(x, y)
      BY <2>4, <3>1 DEF IsLast
    <3>2. CASE Before(y, x)
      BY <2>2, <2>4, <2>5, <3>2, BeforeOrders DEF IsLast
    <3> QED  BY <2>5, <3>1, <3>2, BeforeOrders
  <2> QED  BY <2>1, <2>6
<1> QED  BY <1>1

Ordered(s) == \A i, j \in DOMAIN s : i < j => Before(s[i], s[j])
Sortable(S) == \E s \in [1 .. Cardinality(S) -> S] : Ordered(s)

LEMMA SortExists ==
  ASSUME NEW S \in SUBSET Plain
  PROVE  Sortable(S)
<1> DEFINE Bad == {T \in SUBSET Plain : ~Sortable(T)}
<1>1. ASSUME Bad # {}  PROVE FALSE
  <2>0. Bad \subseteq SUBSET Plain
    OBVIOUS
  <2>1. PICK T \in Bad : \A U \in Bad : U \subseteq T => U = T
    <3> HIDE DEF Bad
    <3> QED  BY <1>1, <2>0, SmallestSet
  <2>2. T # {}
    <3>1. ASSUME T = {}  PROVE Sortable(T)
      <4>1. Cardinality(T) = 0
        BY <3>1, FS_EmptySet
      <4>2. [i \in 1 .. 0 |-> i] \in [1 .. Cardinality(T) -> T] /\ Ordered([i \in 1 .. 0 |-> i])
        BY <4>1 DEF Ordered
      <4> QED  BY <4>2 DEF Sortable
    <3> QED  BY <2>1, <3>1
  <2>3. PICK x : IsLast(x, T)
    BY <2>1, <2>2, LastExists
  <2>4. PICK t \in [1 .. Cardinality(T \ {x}) -> T \ {x}] : Ordered(t)
    <3>1. T \ {x} \in SUBSET Plain /\ T \ {x} # T
      BY <2>1, <2>3 DEF IsLast
    <3>2. Sortable(T \ {x})
      BY <2>1, <3>1
    <3> QED  BY <3>2 DEF Sortable
  <2> DEFINE n == Cardinality(T)
             s == [i \in 1 .. n |-> IF i = n THEN x ELSE t[i]]
  <2>5. n \in Nat /\ Cardinality(T \ {x}) = n - 1
    BY <2>1, <2>3, PlainIsFinite, FS_RemoveElement DEF IsLast
  <2>6. \A i \in 1 .. n : i # n => i \in 1 .. n - 1 /\ t[i] \in T \ {x} /\ s[i] = t[i]
    <3> SUFFICES ASSUME NEW i \in 1 .. n, i # n
                 PROVE  i \in 1 .. n - 1 /\ t[i] \in T \ {x} /\ s[i] = t[i]
      OBVIOUS
    <3>1. i \in 1 .. n - 1
      BY <2>5
    <3> QED  BY <2>4, <2>5, <3>1
  <2>7. s \in [1 .. n -> T]
    BY <2>3, <2>6 DEF IsLast
  <2>8. ASSUME NEW i \in 1 .. n, NEW j \in 1 .. n, i < j  PROVE Before(s[i], s[j])
    <3>1. i # n /\ i \in 1 .. n - 1 /\ s[i] = t[i] /\ t[i] \in T \ {x}
      <4>1. i # n
        BY <2>5, <2>8
      <4> QED  BY <2>6, <4>1
    <3>2. CASE j = n
      BY <2>3, <3>1, <3>2 DEF IsLast
    <3>3. CASE j # n
      <4>1. s[j] = t[j] /\ i \in DOMAIN t /\ j \in DOMAIN t
        BY <2>4, <2>5, <2>6, <3>1, <3>3
      <4> QED  BY <2>4, <2>8, <3>1, <4>1 DEF Ordered
    <3> QED  BY <3>2, <3>3
  <2> HIDE DEF s
  <2>9. Ordered(s)
    BY <2>7, <2>8 DEF Ordered
  <2> QED  BY <2>1, <2>7, <2>9 DEF Sortable
<1> QED  BY <1>1

(* The sorted list has every entry once.                                   *)
LEMMA SortedLists ==
  ASSUME NEW S \in SUBSET Plain
  PROVE  /\ Sorted(S) \in Seq(S) /\ Len(Sorted(S)) = Cardinality(S)
         /\ ToSet(Sorted(S)) = S
         /\ \A i, j \in DOMAIN Sorted(S) : Sorted(S)[i] = Sorted(S)[j] => i = j
<1> DEFINE s == Sorted(S)
           n == Cardinality(S)
<1>1. s \in [1 .. n -> S] /\ Ordered(s)
  BY SortExists DEF Sorted, Sortable, Ordered
<1>2. n \in Nat /\ IsFiniteSet(S)
  BY PlainIsFinite
<1> HIDE DEF s
<1>3. s \in Seq(S) /\ Len(s) = n /\ DOMAIN s = 1 .. n
  BY <1>1, <1>2
<1>4. \A i, j \in 1 .. n : s[i] = s[j] => i = j
  <2> SUFFICES ASSUME NEW i \in 1 .. n, NEW j \in 1 .. n, s[i] = s[j], i # j  PROVE FALSE
    OBVIOUS
  <2>1. i < j \/ j < i
    OBVIOUS
  <2>2. s[i] \in Plain /\ s[j] \in Plain
    BY <1>1
  <2> QED  BY <1>1, <2>1, <2>2, BeforeOrders DEF Ordered
<1>5. ToSet(s) = S
  <2>1. s \in Injection(1 .. n, S)
    BY <1>1, <1>4 DEF Injection, IsInjective
  <2>2. Cardinality(1 .. n) = n
    BY <1>2, FS_Interval
  <2>3. s \in Surjection(1 .. n, S)
    BY <1>2, <2>1, <2>2, FS_Injection
  <2> QED  BY <1>1, <2>3 DEF ToSet, Surjection
<1> QED  BY <1>3, <1>4, <1>5 DEF s

-----------------------------------------------------------------------------
(* A list of entries with every message once, and what merging makes of it.*)
IsList(s) ==
  /\ s \in Seq(Plain)
  /\ \A i, j \in DOMAIN s : s[i].msg = s[j].msg => i = j

LEMMA ListIs ==
  ASSUME NEW s, IsList(s)
  PROVE  /\ Len(s) \in Nat /\ DOMAIN s = 1 .. Len(s) /\ ToSet(s) \subseteq Plain
         /\ OneEach(ToSet(s)) /\ \A i \in DOMAIN s : s[i] \in Plain
<1>1. Len(s) \in Nat /\ DOMAIN s = 1 .. Len(s) /\ \A i \in DOMAIN s : s[i] \in Plain
  BY DEF IsList
<1>2. ToSet(s) \subseteq Plain
  BY <1>1 DEF ToSet
<1>3. OneEach(ToSet(s))
  BY DEF OneEach, ToSet, IsList
<1> QED  BY <1>1, <1>2, <1>3

LEMMA SortedIsList ==
  ASSUME NEW S \in SUBSET Plain, OneEach(S)
  PROVE  IsList(Sorted(S)) /\ ToSet(Sorted(S)) = S
<1> DEFINE s == Sorted(S)
<1>1. /\ s \in Seq(S) /\ ToSet(s) = S
      /\ \A i, j \in DOMAIN s : s[i] = s[j] => i = j
  BY SortedLists
<1> HIDE DEF s
<1>2. s \in Seq(Plain) /\ \A i \in DOMAIN s : s[i] \in S
  BY <1>1
<1>3. \A i, j \in DOMAIN s : s[i].msg = s[j].msg => i = j
  BY <1>1, <1>2 DEF OneEach
<1> QED  BY <1>1, <1>2, <1>3 DEF IsList, s

(* A list is not longer than there are messages, nor than one that holds   *)
(* all its entries.                                                        *)
LEMMA ListLength ==
  ASSUME NEW s, IsList(s)
  PROVE  /\ Len(s) <= NumMsgs
         /\ \A t : IsList(t) /\ ToSet(s) \subseteq ToSet(t) => Len(s) <= Len(t)
<1>1. /\ Len(s) \in Nat /\ DOMAIN s = 1 .. Len(s) /\ \A i \in DOMAIN s : s[i] \in Plain
      /\ NumMsgs \in Nat
  BY ListIs, ConstantsAssumption DEF NumMsgs
<1>2. Cardinality(1 .. Len(s)) = Len(s) /\ IsFiniteSet(Msgs) /\ Cardinality(Msgs) = NumMsgs
  <2>1. \A n \in Nat : IsFiniteSet(1 .. n) /\ Cardinality(1 .. n) = n
    BY FS_Interval
  <2> QED  BY <1>1, <2>1 DEF Msgs
<1>3. Len(s) <= NumMsgs
  <2> DEFINE f == [i \in 1 .. Len(s) |-> s[i].msg]
  <2>1. \A i \in 1 .. Len(s) : f[i] \in Msgs
    BY <1>1, PlainIs
  <2>2. f \in Injection(1 .. Len(s), Msgs)
    BY <1>1, <2>1 DEF Injection, IsInjective, IsList
  <2> QED  BY <1>2, <2>2, FS_Injection
<1>4. ASSUME NEW t, IsList(t), ToSet(s) \subseteq ToSet(t)
      PROVE  Len(s) <= Len(t)
  <2>1. /\ Len(t) \in Nat /\ DOMAIN t = 1 .. Len(t) /\ IsFiniteSet(1 .. Len(t))
        /\ Cardinality(1 .. Len(t)) = Len(t) /\ ToSet(t) \subseteq Plain
    <3>1. Len(t) \in Nat /\ DOMAIN t = 1 .. Len(t) /\ ToSet(t) \subseteq Plain
      BY <1>4, ListIs
    <3>2. \A n \in Nat : IsFiniteSet(1 .. n) /\ Cardinality(1 .. n) = n
      BY FS_Interval
    <3> QED  BY <3>1, <3>2
  <2>2. t \in Surjection(1 .. Len(t), ToSet(t))
    BY <1>4, <2>1 DEF Surjection, ToSet, IsList
  <2>3. IsFiniteSet(ToSet(t)) /\ Cardinality(ToSet(t)) <= Len(t)
    BY <2>1, <2>2, FS_Surjection
  <2>4. s \in Injection(1 .. Len(s), ToSet(t))
    <3>1. \A i \in 1 .. Len(s) : s[i] \in ToSet(t)
      BY <1>1, <1>4 DEF ToSet
    <3>2. s \in [1 .. Len(s) -> ToSet(t)]
      BY <1>1, <3>1 DEF IsList
    <3> QED  BY <1>1, <3>2 DEF Injection, IsInjective, IsList
  <2>5. Cardinality(1 .. Len(s)) <= Cardinality(ToSet(t))
    BY <2>3, <2>4, FS_Injection
  <2>6. Cardinality(ToSet(t)) \in Nat
    BY <2>1, PlainIsFinite
  <2> QED  BY <1>1, <1>2, <2>1, <2>3, <2>5, <2>6
<1> QED  BY <1>3, <1>4

(* mergeMessages keeps the entries it has, their ids included, and adds    *)
(* messages that are new, so that every incoming message or one that says  *)
(* the same is listed.                                                     *)
Counted(S, e) == \E x \in S : Says(x.msg) = Says(e.msg)

LEMMA CounterpartsAre ==
  ASSUME NEW current \in SUBSET Plain, NEW e \in Plain
  PROVE  /\ Counterparts(current, e) \subseteq current
         /\ \A x \in Counterparts(current, e) : Says(x.msg) = Says(e.msg)
         /\ Counterparts(current, e) = {} => ~Counted(current, e)
<1>1. e.raw = FALSE /\ e.id[2] = e.msg
  BY PlainIs
<1>2. \A x \in current : x.raw = FALSE /\ x.id[2] = x.msg
  BY PlainIs
<1>3. \A x \in current : x.id = e.id => Says(x.msg) = Says(e.msg)
  BY <1>1, <1>2
<1>4. \A x \in current : MessageSig(x) = MessageSig(e) <=> Says(x.msg) = Says(e.msg)
  BY <1>1, <1>2 DEF MessageSig
<1>5. CASE {x \in current : x.id = e.id} = {}
  BY <1>4, <1>5 DEF Counterparts, Counted
<1>6. CASE {x \in current : x.id = e.id} # {}
  BY <1>3, <1>6 DEF Counterparts
<1> QED  BY <1>5, <1>6

LEMMA LeastNumber ==
  ASSUME NEW S, S \subseteq Nat, S # {}
  PROVE  \E n \in S : \A k \in S : n <= k
<1>1. \E n \in S : \A k \in S : ~(<<k, n>> \in OpToRel(<, Nat))
  BY NatLessThanWellFounded, WFMin
<1>2. PICK n \in S : \A k \in S : ~(<<k, n>> \in OpToRel(<, Nat))
  BY <1>1
<1>3. ASSUME NEW k \in S  PROVE n <= k
  <2>1. n \in Nat /\ k \in Nat
    OBVIOUS
  <2>2. ~(k < n)
    BY <1>2, <2>1, Zenon DEF OpToRel
  <2> QED  BY <2>1, <2>2
<1> QED  BY <1>3

(* Of the added messages that say the same there is a first.               *)
LEMMA FirstIsNew ==
  ASSUME NEW current \in SUBSET Plain, NEW incoming \in SUBSET Plain,
         NEW e \in incoming, Counterparts(current, e) = {}
  PROVE  Counted(New(current, incoming), e)
<1> DEFINE added == {x \in incoming : Counterparts(current, x) = {}}
           same  == {x.msg : x \in {y \in added : MessageSig(y) = MessageSig(e)}}
<1>1. same \subseteq Nat /\ same # {}
  <2>1. e \in added /\ \A x \in added : x.msg \in Nat
    <3>1. e \in added /\ added \subseteq Plain
      OBVIOUS
    <3>2. \A x \in Plain : x.msg \in Msgs
      BY PlainIs
    <3>3. Msgs \subseteq Nat
      BY DEF Msgs
    <3> HIDE DEF added
    <3> QED  BY <3>1, <3>2, <3>3
  <2>2. e.msg \in same
    BY <2>1
  <2> HIDE DEF added
  <2> QED  BY <2>1, <2>2
<1>2. PICK n \in same : \A k \in same : n <= k
  <2> HIDE DEF same
  <2> QED  BY <1>1, LeastNumber
<1>3. PICK x \in added : x.msg = n /\ MessageSig(x) = MessageSig(e)
  BY <1>2
<1>4. \A y \in added : MessageSig(y) = MessageSig(x) => x.msg <= y.msg
  BY <1>2, <1>3
<1>5. x \in New(current, incoming)
  BY <1>3, <1>4 DEF New
<1>6. Says(x.msg) = Says(e.msg)
  BY <1>3 DEF MessageSig
<1> QED  BY <1>5, <1>6 DEF Counted

LEMMA MergedIs ==
  ASSUME NEW current \in SUBSET Plain, OneEach(current),
         NEW incoming \in SUBSET Plain, OneEach(incoming)
  PROVE  LET S == Merged(current, incoming)
         IN /\ S = current \union New(current, incoming)
            /\ S \in SUBSET Plain /\ OneEach(S)
            /\ \A e \in incoming : Counted(S, e)
<1>1. \A e \in incoming : /\ Counterparts(current, e) \subseteq current
                          /\ \A x \in Counterparts(current, e) : Says(x.msg) = Says(e.msg)
                          /\ Counterparts(current, e) = {} => ~Counted(current, e)
  BY CounterpartsAre
<1>2. ASSUME NEW e \in incoming, NEW x \in Counterparts(current, e)
      PROVE  [x EXCEPT !.raw = e.raw] = x
  <2>1. x \in Plain /\ x.raw = FALSE /\ e.raw = FALSE
    BY <1>1, <1>2, PlainIs
  <2>2. x \in [msg : Msgs, id : Kinds \X Msgs, raw : {FALSE}]
    BY <2>1 DEF Plain
  <2> QED  BY <2>1, <2>2
<1> DEFINE K == UNION {{[x EXCEPT !.raw = e.raw] : x \in Counterparts(current, e)} : e \in incoming}
           B == {x \in current : \A e \in incoming : x \notin Counterparts(current, e)}
<1>3. Merged(current, incoming) = K \union B \union New(current, incoming)
  BY DEF Merged
<1>4. \A e \in incoming :
        {[x EXCEPT !.raw = e.raw] : x \in Counterparts(current, e)} = Counterparts(current, e)
  BY <1>2
<1>5. K = UNION {Counterparts(current, e) : e \in incoming}
  BY <1>4
<1>6. K \union B = current
  BY <1>1, <1>5
<1> HIDE DEF K, B
<1>7. Merged(current, incoming) = current \union New(current, incoming)
  BY <1>3, <1>6
<1>8. /\ New(current, incoming) \subseteq incoming
      /\ \A e \in New(current, incoming), x \in current : x.msg # e.msg
  BY <1>1 DEF New, Counted
<1>9. OneEach(current \union New(current, incoming))
  BY <1>8 DEF OneEach
<1>10. ASSUME NEW e \in incoming  PROVE Counted(current \union New(current, incoming), e)
  <2>1. CASE Counterparts(current, e) = {}
    BY <2>1, FirstIsNew DEF Counted
  <2>2. CASE Counterparts(current, e) # {}
    BY <1>1, <2>2 DEF Counted
  <2> QED  BY <2>1, <2>2
<1> QED  BY <1>7, <1>8, <1>9, <1>10

LEMMA MergeLists ==
  ASSUME NEW s, IsList(s), NEW incoming \in SUBSET Plain, OneEach(incoming)
  PROVE  LET t == MergeMessages(s, incoming)
         IN /\ IsList(t) /\ ToSet(s) \subseteq ToSet(t)
            /\ \A x \in ToSet(t) : x \in ToSet(s) \/ x \in incoming
            /\ \A e \in incoming : Counted(ToSet(t), e)
<1>1. CASE incoming = {}
  BY <1>1 DEF MergeMessages
<1>2. CASE incoming # {}
  <2> DEFINE S == Merged(ToSet(s), incoming)
  <2>1. ToSet(s) \in SUBSET Plain /\ OneEach(ToSet(s))
    BY ListIs
  <2>2. /\ S = ToSet(s) \union New(ToSet(s), incoming)
        /\ S \in SUBSET Plain /\ OneEach(S)
        /\ \A e \in incoming : Counted(S, e)
    BY <2>1, MergedIs
  <2>3. MergeMessages(s, incoming) = Sorted(S)
    BY <1>2 DEF MergeMessages
  <2>4. New(ToSet(s), incoming) \subseteq incoming
    BY DEF New
  <2> HIDE DEF S
  <2>5. IsList(Sorted(S)) /\ ToSet(Sorted(S)) = S
    BY <2>2, SortedIsList
  <2> QED  BY <2>2, <2>3, <2>4, <2>5
<1> QED  BY <1>1, <1>2

(* The rows of the database.                                               *)
LEMMA RowsAre ==
  ASSUME NEW d \in Docs, d.chat = 0
  PROVE  /\ Rows(d) \in SUBSET Plain /\ OneEach(Rows(d))
         /\ \A m \in 1 .. d.stored : \E e \in Rows(d) : e.msg = m
         /\ \A e \in Rows(d) : e.msg \in 1 .. d.stored
<1>1. d.stored \in 0 .. NumMsgs
  BY DEF Docs
<1>2. 1 .. d.stored \subseteq Msgs
  BY <1>1, ConstantsAssumption DEF Msgs, NumMsgs
<1>3. Rows(d) = {Entry(m, "db", FALSE) : m \in 1 .. d.stored}
  <2>1. CASE d.stored = 0
    <3>1. Rows(d) = {} /\ 1 .. d.stored = {}
      BY <2>1 DEF Rows
    <3> QED  BY <3>1
  <2> QED  BY <2>1 DEF Rows
<1>4. \A m \in 1 .. d.stored : Entry(m, "db", FALSE) \in Plain /\ Entry(m, "db", FALSE).msg = m
  BY <1>2, EntryIsPlain DEF Kinds
<1>5. Rows(d) \in SUBSET Plain /\ \A e \in Rows(d) : e.msg \in 1 .. d.stored
  BY <1>3, <1>4
<1>6. OneEach(Rows(d))
  <2> SUFFICES ASSUME NEW x \in Rows(d), NEW y \in Rows(d), x.msg = y.msg  PROVE x = y
    BY DEF OneEach
  <2>1. PICK m \in 1 .. d.stored, n \in 1 .. d.stored :
          x = Entry(m, "db", FALSE) /\ y = Entry(n, "db", FALSE)
    BY <1>3
  <2>2. m = n
    BY <1>4, <2>1
  <2> QED  BY <2>1, <2>2
<1>7. ASSUME NEW m \in 1 .. d.stored  PROVE \E e \in Rows(d) : e.msg = m
  BY <1>3, <1>4
<1> QED  BY <1>5, <1>6, <1>7

-----------------------------------------------------------------------------
(* GetRun answers with rows or, when it has none, with nothing.            *)
NoTranscript == "chat" \notin Faults

(* The list of the page, what is on its way to it, and what the page asked *)
(* for.                                                                    *)
ListTyped ==
  /\ IsList(feed)
  /\ doc.chat = 0 /\ fetch.got.chat = 0
  /\ published \in 0 .. db.stored /\ ended \in 0 .. db.stored
  /\ wire \in Seq(Msgs) /\ \A i \in DOMAIN wire : wire[i] <= published
  /\ everShown \subseteq Msgs
  /\ page # "ready" => feed = <<>> /\ wire = <<>>

(* The list has message m, or one of its second that says the same.        *)
Listed(m) == \E k \in Shown : Says(k) = Says(m)

(* The page lists what its copy of the run has; after an answer with the   *)
(* rows it lists all that it has shown, since such an answer has what a    *)
(* page without it may have lost; and a copy that names the outcome has    *)
(* every message of the run, if the rows were read.                        *)
Complete ==
  /\ \A m \in everShown : m <= db.stored
  /\ doc.stored <= db.stored
  /\ fetch.at = "rest" => fetch.got.stored <= db.stored
  /\ page = "ready" => \A m \in 1 .. doc.stored : Listed(m)
  /\ page = "ready" /\ doc.read => \A m \in everShown : Listed(m)
  /\ Shown \subseteq everShown
  /\ fetch.at = "rest" /\ fetch.got.read =>
       \A m \in everShown : m <= fetch.got.stored \/ (page = "ready" /\ Listed(m))
  /\ IsTerminal(doc.status) /\ doc.read => ended <= doc.stored
  /\ fetch.at = "rest" /\ IsTerminal(fetch.got.status) /\ fetch.got.read =>
       ended <= fetch.got.stored

ListInv == ListTyped /\ Complete

(* No step takes an entry from the list of a page that stays.              *)
Keeps == page = "ready" /\ page' = "ready" => ToSet(feed) \subseteq ToSet(feed')

LEMMA ListInit == PageInit => ListInv
<1> SUFFICES ASSUME PageInit  PROVE ListInv
  OBVIOUS
<1>1. NumMsgs \in Nat
  BY ConstantsAssumption DEF NumMsgs
<1>2. IsList(<<>>)
  BY DEF IsList
<1>3. ListTyped
  BY <1>1, <1>2 DEF PageInit, Init, ListTyped, NoDoc
<1>4. Complete
  BY <1>1 DEF PageInit, Init, Complete, NoDoc, IsTerminal, Shown
<1> QED  BY <1>3, <1>4 DEF ListInv

LEMMA Numbers ==
  ASSUME LiveTyped, ListTyped
  PROVE  /\ NumMsgs \in Nat /\ db.stored \in Nat /\ published \in Nat /\ ended \in Nat
         /\ db.stored <= NumMsgs /\ ended <= db.stored /\ published <= db.stored
         /\ doc.stored \in Nat /\ fetch.got.stored \in Nat
         /\ doc.stored <= NumMsgs /\ fetch.got.stored <= NumMsgs
BY ConstantsAssumption DEF LiveTyped, ListTyped, NumMsgs, Docs

(* Steps of the server.                                                    *)
LEMMA ServerLists ==
  ASSUME LoopInv, ListInv, RunMoves \/ RunEnds \/ StoreMessage \/ PublishMessage \/ StoreOutputs
  PROVE  ListInv' /\ Keeps
<1>0. /\ NumMsgs \in Nat /\ db.stored \in Nat /\ published \in Nat /\ ended \in Nat
      /\ db.stored <= NumMsgs /\ ended <= db.stored /\ published <= db.stored
      /\ doc.stored \in Nat /\ fetch.got.stored \in Nat
      /\ doc.stored <= NumMsgs /\ fetch.got.stored <= NumMsgs
  BY Numbers DEF LoopInv, ListInv
<1>1. UNCHANGED <<fetch, doc, page, list>>
  BY DEF RunMoves, RunEnds, StoreMessage, PublishMessage, StoreOutputs
<1>2. /\ db \in [status : Statuses, stored : 0 .. NumMsgs, files : 0 .. MaxFiles, cycle : 1 .. 2]
      /\ db' \in [status : Statuses, stored : 0 .. NumMsgs, files : 0 .. MaxFiles, cycle : 1 .. 2]
  BY ServerKeeps DEF LoopInv, LiveTyped
<1>3. /\ db'.stored \in Nat /\ db.stored <= db'.stored
      /\ published' \in 0 .. db'.stored /\ published <= published'
  <2>1. CASE RunMoves \/ RunEnds \/ StoreOutputs
    BY <1>0, <1>2, <2>1 DEF RunMoves, RunEnds, StoreOutputs
  <2>2. CASE StoreMessage
    BY <1>0, <1>2, <2>2 DEF StoreMessage
  <2>3. CASE PublishMessage
    BY <1>0, <1>2, <2>3 DEF PublishMessage
  <2> QED  BY <2>1, <2>2, <2>3
<1>4. wire' \in Seq(Msgs) /\ \A i \in DOMAIN wire' : wire'[i] <= published'
  <2>1. CASE wire' = wire
    <3>1. \A i \in DOMAIN wire : wire[i] \in Nat /\ wire[i] <= published
      BY <1>0 DEF ListInv, ListTyped, Msgs
    <3> QED  BY <1>0, <1>3, <2>1, <3>1 DEF ListInv, ListTyped
  <2>2. CASE wire' # wire
    <3>1. /\ wire' = Append(wire, published') /\ published' = published + 1
          /\ published' \in Msgs
      BY <1>0, <1>3, <2>2 DEF RunMoves, RunEnds, StoreMessage, PublishMessage, StoreOutputs, Msgs
    <3>2. \A i \in DOMAIN wire : wire[i] \in Nat /\ wire[i] <= published
      BY <1>0 DEF ListInv, ListTyped, Msgs
    <3>3. wire \in Seq(Msgs)
      BY DEF ListInv, ListTyped
    <3>4. wire' \in Seq(Msgs)
      BY <3>1, <3>3
    <3>5. ASSUME NEW i \in DOMAIN wire'  PROVE wire'[i] <= published'
      <4>1. CASE i = Len(wire) + 1
        BY <1>0, <1>3, <3>1, <3>3, <4>1
      <4>2. CASE i # Len(wire) + 1
        <5>1. i \in DOMAIN wire /\ wire'[i] = wire[i]
          BY <3>1, <3>3, <3>5, <4>2
        <5> QED  BY <1>0, <3>1, <3>2, <5>1
      <4> QED  BY <4>1, <4>2
    <3> QED  BY <3>4, <3>5
  <2> QED  BY <2>1, <2>2
<1>5. page # "ready" => wire' = wire
  <2> SUFFICES ASSUME page # "ready", PublishMessage  PROVE wire' = wire
    BY DEF RunMoves, RunEnds, StoreMessage, StoreOutputs
  <2>1. AtWork(conns) = {} /\ Slots = AllSlots
    BY DEF LoopInv, Loops, Wanted, LiveTyped, Slots
  <2>2. \A g \in AllSlots : conns[g].at # "open"
    BY <2>1 DEF LoopInv, Loops, AtWork
  <2> QED  BY <2>1, <2>2 DEF PublishMessage
<1>6. /\ ended' \in 0 .. db'.stored
      /\ ended' = ended \/ (~IsTerminal(db.status) /\ ended' = db.stored /\ db'.stored = db.stored)
  BY <1>0, <1>2, <1>3 DEF RunMoves, RunEnds, StoreMessage, PublishMessage, StoreOutputs
<1>7. /\ IsTerminal(doc.status) => IsTerminal(db.status)
      /\ fetch.at # "idle" /\ IsTerminal(fetch.got.status) => IsTerminal(db.status)
  BY DEF LoopInv, InOrder, Stage, IsTerminal, LiveTyped, Statuses, Docs
<1>8. ListTyped'
  BY <1>1, <1>3, <1>4, <1>5, <1>6 DEF ListInv, ListTyped, list
<1>9. Complete'
  <2>1. \A m \in everShown : m \in Nat
    BY DEF ListInv, ListTyped, Msgs
  <2>2. \A m \in everShown : m <= db'.stored
    BY <1>0, <1>3, <2>1 DEF ListInv, Complete
  <2>3. doc.stored <= db'.stored /\ (fetch.at = "rest" => fetch.got.stored <= db'.stored)
    BY <1>0, <1>3 DEF ListInv, Complete
  <2>4. /\ IsTerminal(doc.status) /\ doc.read => ended' <= doc.stored
        /\ fetch.at = "rest" /\ IsTerminal(fetch.got.status) /\ fetch.got.read =>
             ended' <= fetch.got.stored
    BY <1>6, <1>7 DEF ListInv, Complete
  <2> QED  BY <1>1, <2>2, <2>3, <2>4 DEF ListInv, Complete, list, Shown, Listed
<1>10. Keeps
  BY <1>1 DEF Keeps, list
<1> QED  BY <1>8, <1>9, <1>10 DEF ListInv

(* The page asks.                                                          *)
LEMMA ReadLists ==
  ASSUME NoTranscript, LoopInv, ListInv, ReadRow \/ ReadMessages
  PROVE  ListInv' /\ Keeps
<1>0. /\ NumMsgs \in Nat /\ db.stored \in Nat /\ ended \in Nat /\ ended <= db.stored
      /\ fetch \in [at : {"idle", "row", "rest"}, got : Docs]
  BY Numbers DEF LoopInv, ListInv, LiveTyped
<1>1. UNCHANGED <<db, published, ended, doc, page, wire, list>>
  BY DEF ReadRow, ReadMessages
<1>2. /\ fetch'.got.chat = 0
      /\ fetch'.at = "rest" => fetch'.got.stored = IF fetch'.got.read THEN db.stored ELSE 0
  <2>1. CASE ReadRow
    BY <2>1 DEF ReadRow, NoDoc
  <2>2. CASE ReadMessages
    <3>1. PICK read \in BOOLEAN, chat \in 0 .. NumMsgs :
            /\ chat > 0 => "chat" \in Faults
            /\ fetch' = [at  |-> "rest",
                         got |-> [fetch.got EXCEPT !.stored = IF read THEN db.stored ELSE 0,
                                                   !.chat = chat, !.read = read]]
      BY <2>2 DEF ReadMessages
    <3>2. chat = 0
      BY <1>0, <3>1 DEF NoTranscript
    <3>3. fetch.got \in [status : Statuses \cup {"none"}, stored : 0 .. NumMsgs, chat : 0 .. NumMsgs,
                         read : BOOLEAN, files : 0 .. MaxFiles, cycle : 1 .. 2]
      BY <1>0 DEF Docs
    <3> QED  BY <3>1, <3>2, <3>3
  <2> QED  BY <2>1, <2>2
<1>3. ListTyped'
  BY <1>1, <1>2 DEF ListInv, ListTyped, list
<1>4. Complete'
  <2>1. fetch'.at = "rest" => /\ fetch'.got.stored <= db.stored
                              /\ fetch'.got.read => ended <= fetch'.got.stored
    BY <1>0, <1>2
  <2>2. fetch'.at = "rest" /\ fetch'.got.read => \A m \in everShown : m <= fetch'.got.stored
    BY <1>2 DEF ListInv, Complete
  <2> QED  BY <1>1, <2>1, <2>2 DEF ListInv, Complete, list, Shown, Listed
<1> QED  BY <1>1, <1>3, <1>4 DEF ListInv, Keeps, list

(* The answer arrives.                                                     *)
LEMMA ShownIs ==
  ASSUME NEW s, IsList(s)
  PROVE  /\ {s[i].msg : i \in DOMAIN s} = {x.msg : x \in ToSet(s)}
         /\ {s[i].msg : i \in DOMAIN s} \subseteq Msgs
<1>1. \A i \in DOMAIN s : s[i] \in Plain /\ s[i].msg \in Msgs
  BY ListIs, PlainIs
<1> QED  BY <1>1 DEF ToSet

LEMMA AnswerLists ==
  ASSUME LoopInv, ListInv, AnswerRun
  PROVE  ListInv' /\ Keeps
<1> DEFINE d == ReadRest(fetch.got)
<1>0. /\ NumMsgs \in Nat /\ db.stored \in Nat /\ ended \in Nat /\ ended <= db.stored
      /\ fetch.got.stored \in Nat /\ fetch.got.stored <= NumMsgs
      /\ fetch.got \in Docs /\ doc \in Docs
  BY Numbers DEF LoopInv, ListInv, LiveTyped
<1>1. /\ d.status = fetch.got.status /\ d.stored = fetch.got.stored /\ d.chat = fetch.got.chat
      /\ d.read = fetch.got.read /\ d \in Docs
  BY <1>0 DEF ReadRest, Docs, LoopInv, LiveTyped
<1>2. /\ doc' = d /\ page' = "ready" /\ UNCHANGED <<db, published, ended>>
      /\ fetch' = [at |-> "idle", got |-> NoDoc] /\ fetch.at = "rest"
      /\ wire' \in {wire, <<>>} /\ Note
      /\ feed' = IF page = "ready"
                   THEN (IF Rows(d) = Rows(doc) THEN feed ELSE MergeMessages(feed, Rows(d)))
                   ELSE Sorted(Rows(d))
  BY DEF AnswerRun, MountList
<1> HIDE DEF d
<1>3. d.chat = 0 /\ doc.chat = 0
  BY <1>1 DEF ListInv, ListTyped
<1>4. /\ Rows(d) \in SUBSET Plain /\ OneEach(Rows(d))
      /\ \A m \in 1 .. d.stored : \E e \in Rows(d) : e.msg = m
      /\ \A e \in Rows(d) : e.msg \in 1 .. d.stored
  BY <1>1, <1>3, RowsAre
<1>5. /\ \A m \in 1 .. doc.stored : \E e \in Rows(doc) : e.msg = m
      /\ \A e \in Rows(doc) : e.msg \in 1 .. doc.stored
  BY <1>0, <1>3, RowsAre
<1>6. IsList(feed) /\ Shown = {x.msg : x \in ToSet(feed)}
  BY ShownIs DEF ListInv, ListTyped, Shown
<1> DEFINE seen    == {x.msg : x \in ToSet(feed')}
           has(m)  == \E k \in seen : Says(k) = Says(m)
<1>7. /\ IsList(feed')
      /\ page = "ready" => ToSet(feed) \subseteq ToSet(feed')
      /\ \A m \in 1 .. d.stored : has(m)
      /\ \A x \in ToSet(feed') : (page = "ready" /\ x \in ToSet(feed)) \/ x.msg \in 1 .. d.stored
  <2>1. CASE page = "ready" /\ Rows(d) = Rows(doc)
    <3>1. feed' = feed
      BY <1>2, <2>1
    <3>2. \A m \in 1 .. d.stored : Listed(m)
      BY <1>4, <1>5, <2>1 DEF ListInv, Complete
    <3>3. Shown = seen
      BY <1>6, <3>1
    <3> QED  BY <1>6, <2>1, <3>1, <3>2, <3>3 DEF Listed
  <2>2. CASE page = "ready" /\ Rows(d) # Rows(doc)
    <3>1. feed' = MergeMessages(feed, Rows(d))
      BY <1>2, <2>2
    <3>2. /\ IsList(feed') /\ ToSet(feed) \subseteq ToSet(feed')
          /\ \A x \in ToSet(feed') : x \in ToSet(feed) \/ x \in Rows(d)
          /\ \A e \in Rows(d) : Counted(ToSet(feed'), e)
      BY <1>4, <1>6, <3>1, MergeLists
    <3>3. ASSUME NEW m \in 1 .. d.stored  PROVE has(m)
      <4>1. PICK e \in Rows(d) : e.msg = m
        BY <1>4
      <4> QED  BY <3>2, <4>1 DEF Counted
    <3> QED  BY <1>4, <2>2, <3>2, <3>3
  <2>3. CASE page # "ready"
    <3>1. IsList(feed') /\ ToSet(feed') = Rows(d)
      BY <1>2, <1>4, <2>3, SortedIsList
    <3> QED  BY <1>4, <2>3, <3>1
  <2> QED  BY <2>1, <2>2, <2>3
<1>8. Shown' = seen /\ seen \subseteq Msgs /\ everShown' = everShown \union seen
  BY <1>2, <1>7, ShownIs DEF Shown, Note
<1>9. page = "ready" => Shown \subseteq seen
  BY <1>6, <1>7
<1>10. d.read => \A m \in everShown : has(m)
  <2> SUFFICES ASSUME d.read, NEW m \in everShown  PROVE has(m)
    OBVIOUS
  <2>1. m \in Nat /\ 1 <= m
    BY DEF ListInv, ListTyped, Msgs
  <2>2. CASE m <= d.stored
    <3>1. m \in 1 .. d.stored
      BY <1>0, <1>1, <2>1, <2>2
    <3> QED  BY <1>7, <3>1
  <2>3. CASE page = "ready" /\ Listed(m)
    BY <1>9, <2>3 DEF Listed
  <2> QED  BY <1>1, <1>2, <2>2, <2>3 DEF ListInv, Complete
<1>11. \A m \in seen : m <= db.stored
  <2> SUFFICES ASSUME NEW x \in ToSet(feed')  PROVE x.msg <= db.stored
    OBVIOUS
  <2>1. CASE x \in ToSet(feed)
    BY <1>6, <2>1 DEF ListInv, Complete
  <2>2. CASE x.msg \in 1 .. d.stored
    BY <1>0, <1>1, <1>2, <2>2 DEF ListInv, Complete
  <2> QED  BY <1>7, <2>1, <2>2
<1> HIDE DEF seen, has
<1>12. ListTyped'
  <2>1. doc'.chat = 0 /\ fetch'.got.chat = 0
    BY <1>2, <1>3 DEF NoDoc
  <2>2. wire' \in Seq(Msgs) /\ \A i \in DOMAIN wire' : wire'[i] <= published'
    <3>1. CASE wire' = wire
      BY <1>2, <3>1 DEF ListInv, ListTyped
    <3>2. CASE wire' = <<>>
      BY <3>2
    <3> QED  BY <1>2, <3>1, <3>2
  <2>3. everShown' \subseteq Msgs
    BY <1>8 DEF ListInv, ListTyped
  <2> QED  BY <1>2, <1>7, <2>1, <2>2, <2>3 DEF ListInv, ListTyped
<1>13. Complete'
  <2>1. \A m \in everShown' : m <= db'.stored
    BY <1>2, <1>8, <1>11 DEF ListInv, Complete
  <2>2. doc'.stored <= db'.stored
    BY <1>1, <1>2 DEF ListInv, Complete
  <2>3. \A m : has(m) <=> Listed(m)'
    BY <1>8 DEF has, Listed
  <2>4. /\ Shown' \subseteq everShown'
        /\ \A m \in 1 .. doc'.stored : Listed(m)'
        /\ doc'.read => \A m \in everShown' : Listed(m)'
    <3>1. \A m \in seen : has(m)
      BY DEF has
    <3> QED  BY <1>2, <1>7, <1>8, <1>10, <2>3, <3>1
  <2>5. IsTerminal(doc'.status) /\ doc'.read => ended' <= doc'.stored
    BY <1>1, <1>2 DEF ListInv, Complete
  <2>6. fetch'.at = "idle"
    BY <1>2
  <2> QED  BY <1>2, <2>1, <2>2, <2>4, <2>5, <2>6 DEF Complete
<1> QED  BY <1>7, <1>12, <1>13 DEF ListInv, Keeps

(* The fetch fails.                                                        *)
LEMMA FailureLists ==
  ASSUME LoopInv, ListInv, PollFails
  PROVE  ListInv' /\ Keeps
<1>1. /\ UNCHANGED <<db, published, ended, doc, everShown>> /\ page' = "missing"
      /\ fetch' = [at |-> "idle", got |-> NoDoc] /\ wire' = <<>> /\ feed' = <<>>
  BY DEF PollFails
<1>2. IsList(feed') /\ Shown' = {}
  BY <1>1 DEF IsList, Shown
<1>3. ListTyped'
  BY <1>1, <1>2 DEF ListInv, ListTyped, NoDoc
<1>4. Complete'
  BY <1>1, <1>2 DEF ListInv, Complete
<1> QED  BY <1>1, <1>3, <1>4 DEF ListInv, Keeps

(* A connect loop moves on.                                                *)
LEMMA LoopLists ==
  ASSUME LoopInv, ListInv, NEW g, TokenReady(g) \/ StreamBreaks(g) \/ Reconnect(g)
  PROVE  ListInv' /\ Keeps
<1>1. /\ UNCHANGED <<db, published, ended, fetch, doc, page, list>> /\ wire' \in {wire, <<>>}
  BY DEF TokenReady, StreamBreaks, Reconnect
<1>2. wire' \in Seq(Msgs) /\ \A i \in DOMAIN wire' : wire'[i] <= published'
  <2>1. CASE wire' = wire
    BY <1>1, <2>1 DEF ListInv, ListTyped
  <2>2. CASE wire' = <<>>
    BY <2>2
  <2> QED  BY <1>1, <2>1, <2>2
<1>3. ListTyped'
  BY <1>1, <1>2 DEF ListInv, ListTyped, list
<1>4. Complete'
  BY <1>1 DEF ListInv, Complete, list, Shown, Listed
<1> QED  BY <1>1, <1>3, <1>4 DEF ListInv, Keeps, list

(* A message arrives on the stream.                                        *)
LEMMA MessageLists ==
  ASSUME LoopInv, ListInv, HandleMessage
  PROVE  ListInv' /\ Keeps
<1> DEFINE m == Head(wire)
           e == Entry(m, "band", FALSE)
<1>0. /\ NumMsgs \in Nat /\ db.stored \in Nat /\ published \in Nat /\ published <= db.stored
  BY Numbers DEF LoopInv, ListInv, LiveTyped
<1>1. /\ wire # <<>> /\ wire' = Tail(wire) /\ Note
      /\ feed' = IF Known(feed, e) THEN feed ELSE Append(feed, e)
      /\ UNCHANGED <<db, published, ended, fetch, doc, page>>
  BY DEF HandleMessage
<1>2. wire \in Seq(Msgs) /\ \A i \in DOMAIN wire : wire[i] <= published
  BY DEF ListInv, ListTyped
<1>3. m \in Msgs /\ m <= published
  BY <1>1, <1>2
<1>4. wire' \in Seq(Msgs) /\ \A i \in DOMAIN wire' : wire'[i] <= published'
  <2>1. wire' \in Seq(Msgs) /\ \A i \in DOMAIN wire' : i + 1 \in DOMAIN wire /\ wire'[i] = wire[i + 1]
    BY <1>1, <1>2
  <2> QED  BY <1>1, <1>2, <2>1
<1>5. page = "ready"
  BY <1>1 DEF ListInv, ListTyped
<1>6. e \in Plain /\ e.msg = m /\ e.id = <<"band", m>> /\ e.raw = FALSE
  <2>1. "band" \in Kinds
    BY DEF Kinds
  <2> QED  BY <1>3, <2>1, EntryIsPlain DEF Entry
<1> HIDE DEF e, m
<1>7. /\ feed \in Seq(Plain) /\ \A i, j \in DOMAIN feed : feed[i].msg = feed[j].msg => i = j
  BY DEF ListInv, ListTyped, IsList
<1>8. /\ IsList(feed') /\ ToSet(feed) \subseteq ToSet(feed')
      /\ \A x \in ToSet(feed') : x \in ToSet(feed) \/ x.msg = m
      /\ \E x \in ToSet(feed') : Says(x.msg) = Says(m)
  <2>1. CASE Known(feed, e)
    <3>1. PICK i \in DOMAIN feed : feed[i].id = e.id \/ MessageSig(feed[i]) = MessageSig(e)
      BY <2>1 DEF Known
    <3>2. feed[i] \in Plain /\ feed[i] \in ToSet(feed)
      BY <1>7 DEF ToSet
    <3>3. Says(feed[i].msg) = Says(m)
      <4>1. feed[i].id = e.id => feed[i].msg = m
        BY <1>6, <3>2, PlainIs
      <4>2. MessageSig(feed[i]) = MessageSig(e) => Says(feed[i].msg) = Says(m)
        BY <1>6 DEF MessageSig
      <4> QED  BY <3>1, <4>1, <4>2
    <3> QED  BY <1>1, <2>1, <3>2, <3>3 DEF ListInv, ListTyped
  <2>2. CASE ~Known(feed, e)
    <3>1. feed' = Append(feed, e)
      BY <1>1, <2>2
    <3>2. /\ feed' \in Seq(Plain) /\ Len(feed') = Len(feed) + 1 /\ Len(feed) \in Nat
          /\ feed'[Len(feed) + 1] = e /\ \A i \in 1 .. Len(feed) : feed'[i] = feed[i]
          /\ DOMAIN feed = 1 .. Len(feed) /\ DOMAIN feed' = 1 .. Len(feed) + 1
      BY <1>6, <1>7, <3>1
    <3>3. \A i \in 1 .. Len(feed) : feed[i].msg # m
      <4> SUFFICES ASSUME NEW i \in 1 .. Len(feed), feed[i].msg = m  PROVE FALSE
        OBVIOUS
      <4>1. feed[i] \in Plain
        BY <1>7, <3>2
      <4>2. feed[i].raw = FALSE
        BY <4>1, PlainIs
      <4>3. MessageSig(feed[i]) = MessageSig(e)
        BY <1>6, <4>2 DEF MessageSig
      <4> QED  BY <2>2, <3>2, <4>3 DEF Known
    <3>4. ASSUME NEW i \in DOMAIN feed', NEW j \in DOMAIN feed', feed'[i].msg = feed'[j].msg
          PROVE  i = j
      <4>1. CASE i \in 1 .. Len(feed) /\ j \in 1 .. Len(feed)
        BY <1>7, <3>2, <3>4, <4>1
      <4>2. CASE i = Len(feed) + 1 /\ j \in 1 .. Len(feed)
        BY <1>6, <3>2, <3>3, <3>4, <4>2
      <4>3. CASE i \in 1 .. Len(feed) /\ j = Len(feed) + 1
        BY <1>6, <3>2, <3>3, <3>4, <4>3
      <4>4. CASE i = Len(feed) + 1 /\ j = Len(feed) + 1
        BY <4>4
      <4> QED  BY <3>2, <4>1, <4>2, <4>3, <4>4
    <3>5. IsList(feed')
      BY <3>2, <3>4 DEF IsList
    <3>6. ToSet(feed) \subseteq ToSet(feed')
      BY <3>2 DEF ToSet
    <3>7. ASSUME NEW i \in DOMAIN feed'  PROVE feed'[i] \in ToSet(feed) \/ feed'[i].msg = m
      <4>1. CASE i \in 1 .. Len(feed)
        BY <3>2, <4>1 DEF ToSet
      <4>2. CASE i = Len(feed) + 1
        BY <1>6, <3>2, <4>2
      <4> QED  BY <3>2, <4>1, <4>2
    <3>8. \A x \in ToSet(feed') : x \in ToSet(feed) \/ x.msg = m
      BY <3>7 DEF ToSet
    <3>9. e \in ToSet(feed')
      BY <3>2 DEF ToSet
    <3> QED  BY <1>6, <3>5, <3>6, <3>8, <3>9
  <2> QED  BY <2>1, <2>2
<1>9. /\ Shown = {x.msg : x \in ToSet(feed)} /\ Shown' = {x.msg : x \in ToSet(feed')}
      /\ Shown' \subseteq Msgs /\ everShown' = everShown \union Shown'
  <2>1. Shown = {x.msg : x \in ToSet(feed)}
    BY ShownIs DEF Shown, ListInv, ListTyped
  <2>2. Shown' = {x.msg : x \in ToSet(feed')} /\ Shown' \subseteq Msgs
    BY <1>8, ShownIs DEF Shown
  <2> QED  BY <1>1, <2>1, <2>2 DEF Note, Shown
<1>10. /\ Shown \subseteq Shown' /\ \A k \in Shown' : k \in Shown \/ k = m
       /\ \E k \in Shown' : Says(k) = Says(m)
  BY <1>8, <1>9
<1>11. ListTyped'
  BY <1>1, <1>4, <1>5, <1>8, <1>9 DEF ListInv, ListTyped
<1>12. Complete'
  <2>1. \A k \in everShown' : k <= db'.stored
    <3>1. m <= db.stored
      BY <1>0, <1>3 DEF Msgs
    <3> QED  BY <1>1, <1>9, <1>10, <3>1 DEF ListInv, Complete
  <2>2. Shown' \subseteq everShown' /\ \A k : Listed(k) => Listed(k)'
    BY <1>9, <1>10 DEF Listed
  <2>3. \A k \in everShown' : k \in everShown \/ Listed(k)'
    BY <1>9, <1>10 DEF Listed
  <2> QED  BY <1>1, <1>5, <2>1, <2>2, <2>3 DEF ListInv, Complete
<1> QED  BY <1>8, <1>11, <1>12 DEF ListInv, Keeps

LEMMA ListStays ==
  ASSUME ListInv, UNCHANGED <<db, published, ended, fetch, doc, page, wire, list>>
  PROVE  ListInv' /\ Keeps
BY DEF ListInv, ListTyped, Complete, Shown, Listed, list, Keeps

LEMMA ListStep ==
  ASSUME NoTranscript, LoopInv, ListInv, [PageNext]_vars
  PROVE  ListInv' /\ Keeps
<1>1. CASE LiveStep
  <2>1. CASE \/ RunMoves \/ RunEnds \/ StoreMessage \/ PublishMessage \/ StoreOutputs
    BY <2>1, ServerLists
  <2>2. CASE \E g \in Slots : TokenReady(g) \/ StreamBreaks(g) \/ Reconnect(g)
    BY <2>2, LoopLists
  <2> QED  BY <1>1, <2>1, <2>2, ReadLists, AnswerLists, FailureLists, MessageLists
           DEF LiveStep, LiveNext
<1>2. CASE Click
  BY <1>2, ListStays DEF Click
<1>3. CASE liveVars' = liveVars
  BY <1>3, ListStays DEF liveVars
<1>4. ASSUME NEW t, HighlightFails(t)  PROVE ListInv' /\ Keeps
  BY <1>4, ListStays DEF HighlightFails
<1>5. CASE UNCHANGED vars
  BY <1>3, <1>5 DEF vars
<1> QED  BY <1>1, <1>2, <1>3, <1>4, <1>5
         DEF PageNext, ShowView, ShowPane, ChangeLayout, OpenArtifact, OpenReport, SelectFile, Scroll,
             CloseReport, Highlighted

(* No message is listed twice, however stream and poll interleave and      *)
(* whatever fails, as long as GetRun answers with rows and not with the    *)
(* chat's transcript: every message comes under two ids, and mergeMessages *)
(* and handleMessage know it by its signature, which two messages of one   *)
(* second may share.                                                       *)
THEOREM ListedOnce ==
  ASSUME NoTranscript
  PROVE  PageSpec => []EachOnce
<1>1. LoopInv /\ ListInv /\ [PageNext]_vars => LoopInv' /\ ListInv'
  BY LoopKept, ListStep
<1>2. ListInv => EachOnce
  BY DEF ListInv, ListTyped, IsList, EachOnce
<1> QED  BY LoopInit, ListInit, <1>1, <1>2, PTL DEF PageSpec

(* After an answer with the rows, what a page has ever listed is listed,   *)
(* though polls are older than the stream, a failed poll throws the page   *)
(* away and other answers came without the messages; and a page that       *)
(* learns of the end of its run lists every message stored before the end, *)
(* or one of its second that says the same.                                *)
THEOREM NothingIsLost ==
  ASSUME NoTranscript
  PROVE  PageSpec => []NothingLost
<1>1. LoopInv /\ ListInv /\ [PageNext]_vars => LoopInv' /\ ListInv'
  BY LoopKept, ListStep
<1>2. LoopInv /\ ListInv => NothingLost
  <2> SUFFICES ASSUME LoopInv, ListInv, page = "ready", doc.read
               PROVE  /\ \A m \in everShown : Listed(m)
                      /\ IsTerminal(doc.status) => \A m \in 1 .. ended : Listed(m)
    BY DEF NothingLost, Told, Listed
  <2>1. doc.stored \in Nat /\ ended \in Nat
    BY Numbers DEF LoopInv, ListInv
  <2> QED  BY <2>1 DEF ListInv, Complete
<1> QED  BY LoopInit, ListInit, <1>1, <1>2, PTL DEF PageSpec

-----------------------------------------------------------------------------
(* What the crew has said: a message that was spoken since the page was    *)
(* mounted is listed under an id that the crew has heard.                  *)
Heard ==
  /\ spoken \in [Msgs -> 0 .. 1]
  /\ page = "ready" =>
       \A m \in Msgs : spoken[m] = 1 => \E x \in ToSet(feed) : x.msg = m /\ x.id \in crew.heard

LEMMA HeardInit == PageInit => Heard
BY DEF PageInit, Init, Heard

LEMMA CrewHears ==
  ASSUME IsList(feed'), Keeps, Heard, CrewFollows
  PROVE  Heard'
<1> DEFINE now   == page' = "ready" /\ VoyageOpen(wide', pane')
           kept  == WasMounted(VoyageOpen(wide, pane)) /\ wide' = wide
           ids   == {feed'[i].id : i \in DOMAIN feed'}
           fresh == {feed'[i].msg : i \in {j \in DOMAIN feed' : feed'[j].id \notin crew.heard}}
           base  == IF page' = "ready" /\ ~Ready THEN [m \in Msgs |-> 0] ELSE spoken
<1>1. base \in [Msgs -> 0 .. 1]
  BY DEF Heard
<1>2. ASSUME page' = "ready", NEW m \in Msgs, base[m] = 1
      PROVE  \E x \in ToSet(feed') : x.msg = m /\ x.id \in crew.heard
  <2>1. Ready /\ base = spoken
    BY <1>2
  <2>2. PICK x \in ToSet(feed) : x.msg = m /\ x.id \in crew.heard
    BY <1>2, <2>1 DEF Heard, Ready
  <2>3. x \in ToSet(feed')
    BY <1>2, <2>1, <2>2 DEF Keeps, Ready
  <2> QED  BY <2>2, <2>3
<1>3. IF ~now \/ (kept /\ feed' = feed)
        THEN spoken' = base /\ UNCHANGED crew
        ELSE /\ crew' = [primed |-> TRUE, heard |-> crew.heard \cup ids]
             /\ spoken' = [m \in Msgs |->
                             base[m] + IF crew.primed /\ m \in fresh THEN 1 ELSE 0]
  BY DEF CrewFollows
<1>4. CASE ~now \/ (kept /\ feed' = feed)
  <2>1. spoken' = base /\ crew' = crew
    BY <1>3, <1>4
  <2> HIDE DEF base
  <2> QED  BY <1>1, <1>2, <2>1 DEF Heard
<1>5. CASE ~(~now \/ (kept /\ feed' = feed))
  <2>1. /\ page' = "ready" /\ crew'.heard = crew.heard \cup ids
        /\ spoken' = [m \in Msgs |-> base[m] + IF crew.primed /\ m \in fresh THEN 1 ELSE 0]
    BY <1>3, <1>5
  <2>2. ASSUME NEW m \in fresh
        PROVE  \E x \in ToSet(feed') : x.msg = m /\ x.id \notin crew.heard /\ x.id \in ids
    BY <2>2 DEF ToSet
  <2>3. OneEach(ToSet(feed'))
    BY ListIs
  <2> HIDE DEF base, ids, fresh, now, kept
  <2>4. ASSUME NEW m \in fresh, m \in Msgs, base[m] = 1  PROVE FALSE
    BY <1>2, <2>1, <2>2, <2>3, <2>4 DEF OneEach
  <2>5. ASSUME NEW m \in Msgs
        PROVE  /\ spoken'[m] \in 0 .. 1
               /\ spoken'[m] = 1 => \E x \in ToSet(feed') : x.msg = m /\ x.id \in crew'.heard
    <3>1. CASE m \in fresh /\ crew.primed
      <4>1. base[m] = 0 /\ spoken'[m] = 1
        BY <1>1, <2>1, <2>4, <3>1
      <4> QED  BY <2>1, <2>2, <3>1, <4>1
    <3>2. CASE ~(m \in fresh /\ crew.primed)
      <4>1. spoken'[m] = base[m] /\ base[m] \in 0 .. 1
        BY <1>1, <2>1, <3>2
      <4> QED  BY <1>2, <2>1, <4>1
    <3> QED  BY <3>1, <3>2
  <2>6. spoken' \in [Msgs -> 0 .. 1]
    BY <2>1, <2>5
  <2> QED  BY <2>5, <2>6 DEF Heard
<1> QED  BY <1>4, <1>5

(* The panels change by Follow, or the crew and the page stay.             *)
LEMMA FollowOrStay ==
  ASSUME [PageNext]_vars
  PROVE  \/ \E selected : Follow(selected)
         \/ UNCHANGED <<page, feed, crew, spoken>>
<1>1. CASE LiveStep
  BY <1>1 DEF LiveStep
<1>2. ASSUME NEW v, ShowView(v)  PROVE \E selected : Follow(selected)
  BY <1>2 DEF ShowView
<1>3. ASSUME NEW v, ShowPane(v)  PROVE \E selected : Follow(selected)
  BY <1>3 DEF ShowPane
<1>4. ASSUME NEW f, OpenArtifact(f) \/ SelectFile(f)  PROVE \E selected : Follow(selected)
  BY <1>4 DEF OpenArtifact, SelectFile
<1>5. CASE ChangeLayout
  BY <1>5 DEF ChangeLayout
<1>6. ASSUME NEW f, OpenReport(f)  PROVE UNCHANGED <<page, feed, crew, spoken>>
  BY <1>6 DEF OpenReport, Click, list
<1>7. CASE CloseReport \/ Scroll \/ UNCHANGED vars
  BY <1>7 DEF CloseReport, Scroll, Click, vars, liveVars, panelVars, list
<1>8. ASSUME NEW t, Highlighted(t) \/ HighlightFails(t)
      PROVE  UNCHANGED <<page, feed, crew, spoken>>
  BY <1>8 DEF Highlighted, HighlightFails, liveVars, list
<1> QED  BY <1>1, <1>2, <1>3, <1>4, <1>5, <1>6, <1>7, <1>8 DEF PageNext

LEMMA HeardStep ==
  ASSUME ListInv', Keeps, Heard, [PageNext]_vars
  PROVE  Heard'
<1>1. ASSUME NEW selected, Follow(selected)  PROVE Heard'
  BY <1>1, CrewHears DEF Follow, ListInv, ListTyped
<1>2. CASE UNCHANGED <<page, feed, crew, spoken>>
  BY <1>2 DEF Heard
<1> QED  BY <1>1, <1>2, FollowOrStay

(* The crew speaks a message once while the page is mounted, though the    *)
(* list may hold it under Band's id or the row's, whichever came first,    *)
(* and the voyage is unmounted and mounted behind the tabs.                *)
THEOREM CrewSpeaksOnce ==
  ASSUME NoTranscript
  PROVE  PageSpec => []SpokenOnce
<1>1. LoopInv /\ ListInv /\ Heard /\ [PageNext]_vars => LoopInv' /\ ListInv' /\ Heard'
  BY LoopKept, ListStep, HeardStep
<1>2. Heard => SpokenOnce
  BY DEF Heard, SpokenOnce
<1> QED  BY LoopInit, ListInit, HeardInit, <1>1, <1>2, PTL DEF PageSpec

-----------------------------------------------------------------------------
(* The types of the page.                                                  *)

AgentStates == {"idle", "done", "active"}

AgentsTyped == agents \in [Agents -> AgentStates]

(* The pill counts messages of the list only.                              *)
PillTyped ==
  /\ follow \in [bottom : BOOLEAN, count : 0 .. NumMsgs]
  /\ follow.bottom => follow.count = 0
  /\ follow.count <= Len(feed)

ViewsTyped ==
  /\ wide \in BOOLEAN
  /\ center \in {"voyage", "feed", "artifacts"}
  /\ pane \in Panes
  /\ report \in 0 .. 1

FilesTyped == viewed \in 0 .. MaxFiles /\ viewer.file \in 0 .. MaxFiles

CrewTyped == crew.heard \subseteq Ids

PanelTyped == AgentsTyped /\ PillTyped /\ ViewsTyped /\ FilesTyped /\ CrewTyped

LEMMA PanelInit == PageInit => PanelTyped
<1> SUFFICES ASSUME PageInit  PROVE PanelTyped
  OBVIOUS
<1>1. NumMsgs \in Nat /\ MaxFiles \in Nat
  BY ConstantsAssumption DEF NumMsgs
<1>2. AgentsTyped /\ CrewTyped
  BY DEF PageInit, Init, AgentsTyped, CrewTyped, AgentStates
<1>3. PillTyped
  BY <1>1 DEF PageInit, Init, PillTyped
<1>4. ViewsTyped /\ FilesTyped
  BY <1>1, LayoutsAssumption DEF PageInit, ViewsTyped, FilesTyped, Panes, None
<1> QED  BY <1>2, <1>3, <1>4 DEF PanelTyped

LEMMA AgentsStep ==
  ASSUME AgentsTyped, ListTyped, [PageNext]_vars
  PROVE  AgentsTyped'
<1>0. \A d : BuildAgents(d) \in [Agents -> AgentStates]
  BY DEF BuildAgents, AgentStates
<1>1. CASE AnswerRun
  <2> DEFINE d == ReadRest(fetch.got)
  <2>1. agents' \in {MergeAgents(agents, BuildAgents(d)), BuildAgents(d)}
    BY <1>1 DEF AnswerRun, MountList
  <2>2. BuildAgents(d) \in [Agents -> AgentStates]
    BY <1>0
  <2> HIDE DEF d
  <2>3. MergeAgents(agents, BuildAgents(d)) \in [Agents -> AgentStates]
    BY <2>2 DEF MergeAgents, AgentsTyped, AgentStates
  <2> QED  BY <2>1, <2>2, <2>3 DEF AgentsTyped
<1>2. CASE PollFails
  BY <1>2 DEF PollFails, AgentsTyped, AgentStates
<1>3. CASE HandleMessage
  <2>1. agents' = [agents EXCEPT ![Sender[Head(wire)]] = IF @ = "idle" THEN "active" ELSE @]
    BY <1>3 DEF HandleMessage
  <2> QED  BY <2>1 DEF AgentsTyped, AgentStates
<1>4. CASE UNCHANGED list
  BY <1>4 DEF list, AgentsTyped
<1>5. CASE LiveStep
  BY <1>1, <1>2, <1>3, <1>4, <1>5
  DEF LiveStep, LiveNext, RunMoves, RunEnds, StoreMessage, PublishMessage, StoreOutputs, ReadRow,
      ReadMessages, TokenReady, StreamBreaks, Reconnect
<1>6. CASE ~LiveStep
  <2>1. UNCHANGED list
    BY <1>6 DEF PageNext, ShowView, ShowPane, ChangeLayout, OpenArtifact, OpenReport, SelectFile,
                Scroll, CloseReport, Highlighted, HighlightFails, Click, vars, liveVars
  <2> QED  BY <1>4, <2>1
<1> QED  BY <1>5, <1>6

LEMMA PillFollows ==
  ASSUME PillTyped, IsList(feed), IsList(feed'), Keeps, FeedFollows
  PROVE  PillTyped'
<1> DEFINE now  == page' = "ready" /\ FeedOpen(wide', center', pane')
           kept == WasMounted(FeedOpen(wide, center, pane)) /\ wide' = wide
           more == Len(feed') - Len(feed)
<1>1. /\ Len(feed) \in Nat /\ Len(feed') \in Nat /\ NumMsgs \in Nat
      /\ Len(feed') <= NumMsgs
  BY ListIs, ListLength, ConstantsAssumption DEF NumMsgs
<1>2. CASE ~now \/ ~kept
  <2>1. follow' = [bottom |-> TRUE, count |-> 0]
    BY <1>2 DEF FeedFollows
  <2> QED  BY <1>1, <2>1 DEF PillTyped
<1>3. CASE now /\ kept
  <2>1. Len(feed) <= Len(feed')
    BY <1>3, ListLength DEF Keeps, WasMounted, Ready
  <2>2. follow' = IF more > 0 THEN Unread(follow, more) ELSE follow
    BY <1>3 DEF FeedFollows
  <2>3. CASE more > 0
    <3>1. follow' = IF follow.bottom THEN [follow EXCEPT !.count = 0]
                    ELSE [follow EXCEPT !.count = @ + more]
      BY <2>2, <2>3 DEF Unread
    <3>2. /\ follow.count \in Nat /\ follow.count + more <= Len(feed')
          /\ follow.count + more \in 0 .. NumMsgs
      BY <1>1, <2>1, <2>3 DEF PillTyped
    <3> HIDE DEF more
    <3> QED  BY <1>1, <3>1, <3>2 DEF PillTyped
  <2>4. CASE ~(more > 0)
    BY <1>1, <2>1, <2>2, <2>4 DEF PillTyped
  <2> QED  BY <2>3, <2>4
<1> QED  BY <1>2, <1>3

LEMMA ViewerFile ==
  ASSUME FilesTyped, doc' \in Docs, NEW selected, selected \in 0 .. MaxFiles,
         ViewerFollows(selected)
  PROVE  viewer'.file \in 0 .. MaxFiles
<1> DEFINE now  == page' = "ready" /\ ArtifactsOpen(wide', center', pane') /\ doc'.files > 0
           kept == viewer.file # None /\ wide' = wide /\ target' = target
           file == IF ~now THEN None
                   ELSE IF ~kept THEN (IF target'.file \in 1 .. doc'.files THEN target'.file ELSE 1)
                   ELSE IF selected # None THEN selected ELSE viewer.file
           text == Text(file, doc')
<1>1. MaxFiles \in Nat /\ doc'.files \in 0 .. MaxFiles
  BY ConstantsAssumption DEF Docs
<1>2. file \in 0 .. MaxFiles
  BY <1>1 DEF FilesTyped, None
<1>3. /\ file = None => viewer'.file = None
      /\ file # None => viewer'.file = file \/ (file = viewer.file /\ viewer' = viewer)
  BY DEF ViewerFollows
<1> HIDE DEF file
<1> QED  BY <1>1, <1>2, <1>3 DEF FilesTyped, None

LEMMA PanelsFollow ==
  ASSUME PanelTyped, ListInv, ListInv', doc' \in Docs, Keeps,
         NEW selected, selected \in 0 .. MaxFiles, Follow(selected)
  PROVE  PillTyped' /\ FilesTyped' /\ CrewTyped'
<1>1. PillTyped'
  BY PillFollows DEF Follow, PanelTyped, ListInv, ListTyped
<1>2. viewer'.file \in 0 .. MaxFiles
  BY ViewerFile DEF Follow, PanelTyped
<1>3. viewed' \in 0 .. MaxFiles
  BY DEF Follow, ViewedFollows, PanelTyped, FilesTyped, Docs
<1>4. CrewTyped'
  <2>1. \A i \in DOMAIN feed' : feed'[i].id \in Ids
    <3>1. IsList(feed')
      BY DEF ListInv, ListTyped
    <3> QED  BY <3>1, ListIs, PlainIs
  <2>2. crew' = crew \/ crew'.heard = crew.heard \cup {feed'[i].id : i \in DOMAIN feed'}
    BY DEF Follow, CrewFollows
  <2> QED  BY <2>1, <2>2 DEF PanelTyped, CrewTyped
<1> QED  BY <1>1, <1>2, <1>3, <1>4 DEF FilesTyped

LEMMA ViewsStep ==
  ASSUME ViewsTyped, [PageNext]_vars
  PROVE  ViewsTyped'
<1>1. CASE LiveStep
  BY <1>1 DEF LiveStep, ViewsTyped, None
<1>2. ASSUME NEW v \in {"voyage", "feed", "artifacts"}, ShowView(v)  PROVE ViewsTyped'
  BY <1>2 DEF ShowView, ViewsTyped
<1>3. ASSUME NEW p \in Panes, ShowPane(p)  PROVE ViewsTyped'
  BY <1>3 DEF ShowPane, ViewsTyped
<1>4. ASSUME NEW f, OpenArtifact(f) \/ SelectFile(f)  PROVE ViewsTyped'
  BY <1>4 DEF OpenArtifact, SelectFile, ViewsTyped, Panes
<1>5. CASE ChangeLayout
  BY <1>5 DEF ChangeLayout, ViewsTyped
<1>6. ASSUME NEW f, OpenReport(f)  PROVE ViewsTyped'
  BY <1>6 DEF OpenReport, IsReport, views, ViewsTyped
<1>7. CASE CloseReport
  BY <1>7 DEF CloseReport, views, ViewsTyped, None
<1>8. CASE Scroll \/ UNCHANGED vars
  BY <1>8 DEF Scroll, views, files, vars, panelVars, ViewsTyped
<1>9. ASSUME NEW t, Highlighted(t) \/ HighlightFails(t)  PROVE ViewsTyped'
  BY <1>9 DEF Highlighted, HighlightFails, views, ViewsTyped
<1> QED  BY <1>1, <1>2, <1>3, <1>4, <1>5, <1>6, <1>7, <1>8, <1>9 DEF PageNext

LEMMA PanelStep ==
  ASSUME PanelTyped, LoopInv, LoopInv', ListInv, ListInv', Keeps, [PageNext]_vars
  PROVE  PanelTyped'
<1>0. AgentsTyped' /\ ViewsTyped'
  BY AgentsStep, ViewsStep DEF PanelTyped, ListInv
<1> SUFFICES PillTyped' /\ FilesTyped' /\ CrewTyped'
  BY <1>0 DEF PanelTyped
<1>1. doc \in Docs /\ doc' \in Docs /\ MaxFiles \in Nat /\ None \in 0 .. MaxFiles
  BY ConstantsAssumption DEF LoopInv, LiveTyped, None
<1>2. ASSUME Follow(None)  PROVE PillTyped' /\ FilesTyped' /\ CrewTyped'
  BY <1>1, <1>2, PanelsFollow
<1>3. ASSUME NEW f, SelectFile(f)  PROVE PillTyped' /\ FilesTyped' /\ CrewTyped'
  <2>1. f \in 0 .. MaxFiles /\ Follow(f)
    BY <1>1, <1>3 DEF SelectFile, Docs
  <2> QED  BY <1>1, <2>1, PanelsFollow
<1>4. ASSUME UNCHANGED <<feed, viewed, follow, crew>>, viewer'.file = viewer.file
      PROVE  PillTyped' /\ FilesTyped' /\ CrewTyped'
  BY <1>4 DEF PanelTyped, PillTyped, FilesTyped, CrewTyped
<1>5. CASE LiveStep
  BY <1>2, <1>5 DEF LiveStep
<1>6. ASSUME NEW v, ShowView(v) \/ ShowPane(v) \/ OpenArtifact(v)
      PROVE  PillTyped' /\ FilesTyped' /\ CrewTyped'
  BY <1>2, <1>6 DEF ShowView, ShowPane, OpenArtifact
<1>7. CASE ChangeLayout
  BY <1>2, <1>7 DEF ChangeLayout
<1>8. ASSUME NEW f, OpenReport(f)  PROVE PillTyped' /\ FilesTyped' /\ CrewTyped'
  BY <1>4, <1>8 DEF OpenReport, Click, list, views
<1>9. CASE CloseReport \/ UNCHANGED vars
  BY <1>4, <1>9 DEF CloseReport, vars, liveVars, panelVars, list, views, files
<1>10. CASE Scroll
  <2>1. /\ UNCHANGED <<feed, viewed, viewer, crew>>
        /\ follow' = IF follow.bottom THEN [follow EXCEPT !.bottom = FALSE]
                     ELSE [bottom |-> TRUE, count |-> 0]
    BY <1>10 DEF Scroll, Click, list, views
  <2>2. NumMsgs \in Nat /\ Len(feed) \in Nat
    BY ListIs, ConstantsAssumption DEF NumMsgs, ListInv, ListTyped
  <2>3. CASE follow.bottom
    <3>1. follow' = [follow EXCEPT !.bottom = FALSE] /\ Len(feed') = Len(feed)
      BY <2>1, <2>3
    <3> QED  BY <2>1, <2>2, <2>3, <3>1 DEF PanelTyped, PillTyped, FilesTyped, CrewTyped
  <2>4. CASE ~follow.bottom
    <3>1. follow' = [bottom |-> TRUE, count |-> 0] /\ Len(feed') = Len(feed)
      BY <2>1, <2>4
    <3> QED  BY <2>1, <2>2, <3>1 DEF PanelTyped, PillTyped, FilesTyped, CrewTyped
  <2> QED  BY <2>3, <2>4
<1>11. ASSUME NEW t, Highlighted(t)  PROVE PillTyped' /\ FilesTyped' /\ CrewTyped'
  <2>1. viewer'.file = viewer.file
    BY <1>11 DEF Highlighted
  <2> QED  BY <1>4, <1>11, <2>1 DEF Highlighted, liveVars, list, views
<1>12. ASSUME NEW t, HighlightFails(t)  PROVE PillTyped' /\ FilesTyped' /\ CrewTyped'
  BY <1>4, <1>12 DEF HighlightFails, list, views
<1> QED
  BY <1>3, <1>5, <1>6, <1>7, <1>8, <1>9, <1>10, <1>11, <1>12 DEF PageNext

(* Every part of the page keeps its type; the pill of the feed is hidden   *)
(* at the bottom and never counts more messages than the run has.          *)
THEOREM PageTypes ==
  ASSUME NoTranscript
  PROVE  PageSpec => []PageTypeOK
<1>1. LoopInv /\ ListInv /\ PanelTyped /\ [PageNext]_vars => LoopInv' /\ ListInv' /\ PanelTyped'
  BY LoopKept, ListStep, PanelStep
<1>2. LoopInv /\ ListInv /\ PanelTyped => PageTypeOK
  <2> SUFFICES ASSUME LoopInv, ListInv, PanelTyped  PROVE PageTypeOK
    OBVIOUS
  <2>1. feed \in Seq(Entries)
    <3>1. Plain \subseteq Entries
      BY PlainIs
    <3>2. feed \in Seq(Plain)
      BY DEF ListInv, ListTyped, IsList
    <3> QED  BY <3>1, <3>2
  <2>2. TypeOK
    BY <2>1 DEF LoopInv, LiveTyped, ListInv, ListTyped, PanelTyped, AgentsTyped, AgentStates, TypeOK,
                AllSlots, ConnStates
  <2> QED  BY <2>2 DEF PanelTyped, PillTyped, ViewsTyped, FilesTyped, CrewTyped, PageTypeOK
<1> QED  BY LoopInit, ListInit, PanelInit, <1>1, <1>2, PTL DEF PageSpec
==============================================================================
