------------------------------- MODULE RunPage --------------------------------
(***************************************************************************)
(* The panels of a run's page over its live data (LiveRun): which view is  *)
(* open (RunReady in routes/run.tsx), the feed (band-feed.tsx), the code   *)
(* viewer (code-viewer.tsx, highlighter.ts), the report dialog, the badge  *)
(* of new artifacts and the crew on the cutaway, which speaks new messages *)
(* (crew-sim.ts).                                                          *)
(*                                                                         *)
(* The files of a run are numbered as they appear; file 1 is a report, the *)
(* others are code.                                                        *)
(***************************************************************************)
EXTENDS LiveRun

CONSTANT Layouts \* the layouts a page may start with, see wide

ASSUME LayoutsAssumption == Layouts \subseteq BOOLEAN

VARIABLES
  wide,     \* isXL: the panels float over the voyage, else they are tabs
  center,   \* RunReady: centerView, the view of a wide page
  pane,     \* RunView: pane, the tab of a narrow page
  viewed,   \* RunReady: viewedArtifactCount
  target,   \* RunReady: artifactTarget
  viewer,   \* CodeViewerBody, CodePane and useHighlighted
  tasks,    \* highlightToHtml under way: [text, alive]
  cached,   \* htmlCache
  report,   \* RunReady: reportPath
  follow,   \* BandFeed: atBottom and newCount
  crew,     \* crew-sim: primed and seenMsgIds
  spoken    \* how often a message was spoken since the page was mounted

views     == <<wide, center, pane, viewed>>
files     == <<target, viewer, tasks, cached, report>>
panelVars == <<views, files, follow, crew, spoken>>
vars      == <<liveVars, panelVars>>

None == 0

(* The text of a file: the file and the cycle that wrote it.               *)
Text(f, d) == <<f, d.cycle>>
NoText == <<None, None>>

-----------------------------------------------------------------------------
(* What is mounted.                                                        *)

VoyageOpen(w, p)       == w \/ p = "voyage"
FeedOpen(w, c, p)      == IF w THEN c = "feed" ELSE p = "feed"
ArtifactsOpen(w, c, p) == IF w THEN c = "artifacts" ELSE p = "artifacts"

(* "outputs" stands for the Crew tab too: both only show the run document. *)
Panes == {"voyage", "feed", "artifacts", "outputs"}

(* The badge on the Artifacts toggle.                                      *)
HasNewArtifacts == doc.files > viewed

(* The chips of a message that open a file the page has: a report in the   *)
(* dialog, code in the viewer. Only the messages of the mock data carry    *)
(* attachments; the mirror's do not.                                       *)
Chips == IF "chips" \in Faults /\ feed # <<>> THEN 1 .. doc.files ELSE {}
IsReport(f) == f = 1

-----------------------------------------------------------------------------
(* What React does after a change: the effects of the panels, as functions *)
(* of the state before and after it. Open and now say whether a component  *)
(* was mounted before and is mounted now.                                  *)

Ready == page = "ready"
WasMounted(test) == Ready /\ test

(* RunReady's effect runs whenever either flag names the artifacts, also   *)
(* the flag of the layout that is not shown.                               *)
ViewedFollows ==
  viewed' = IF (page' = "ready" /\ ~Ready) \/ center' = "artifacts" \/ pane' = "artifacts"
              THEN doc'.files ELSE viewed

Kill(ts) == {[text |-> t.text, alive |-> FALSE] : t \in ts}

(* The viewer's key is the target. CodeViewerBody starts with the target's *)
(* file, or the first; selected names a file the user picks in the tree.   *)
(* CodePane is keyed by the file.                                          *)
(* useHighlighted takes the text from the cache or asks for it, and no     *)
(* longer listens to what it asked for before.                             *)
ViewerFollows(selected) ==
  LET now  == page' = "ready" /\ ArtifactsOpen(wide', center', pane') /\ doc'.files > 0
      kept == /\ viewer.file # None
              /\ wide' = wide
              /\ target' = target
      file == IF ~now THEN None
              ELSE IF ~kept THEN (IF target'.file \in 1 .. doc'.files THEN target'.file ELSE 1)
              ELSE IF selected # None THEN selected ELSE viewer.file
      text == Text(file, doc')
  IN IF file = None
       THEN viewer' = [file |-> None, html |-> NoText] /\ tasks' = Kill(tasks)
     ELSE IF kept /\ file = viewer.file /\ text = Text(file, doc)
       THEN UNCHANGED <<viewer, tasks>>
     ELSE /\ viewer' = [file |-> file, html |-> IF text \in cached THEN text ELSE NoText]
          /\ tasks' = Kill(tasks) \cup
                      IF text \in cached THEN {} ELSE {[text |-> text, alive |-> TRUE]}

(* Mutant of Unread: the new messages are counted at the bottom too.       *)
UnreadAlways(f, more) == [f EXCEPT !.count = @ + more]

(* BandFeed: at the bottom the list scrolls along, else the new messages   *)
(* are counted on the pill.                                                *)
Unread(f, more) ==
  IF f.bottom THEN [f EXCEPT !.count = 0] ELSE [f EXCEPT !.count = @ + more]

FeedFollows ==
  LET now  == page' = "ready" /\ FeedOpen(wide', center', pane')
      kept == WasMounted(FeedOpen(wide, center, pane)) /\ wide' = wide
      more == Len(feed') - Len(feed)
  IN follow' = IF ~now \/ ~kept THEN [bottom |-> TRUE, count |-> 0]
               ELSE IF more > 0 THEN Unread(follow, more)
               ELSE follow

(* setCrewMessages, called when the voyage is mounted and when the list    *)
(* changes: the first call of all primes, later ones speak what is new.    *)
CrewFollows ==
  LET now   == page' = "ready" /\ VoyageOpen(wide', pane')
      kept  == WasMounted(VoyageOpen(wide, pane)) /\ wide' = wide
      ids   == {feed'[i].id : i \in DOMAIN feed'}
      fresh == {feed'[i].msg : i \in {j \in DOMAIN feed' : feed'[j].id \notin crew.heard}}
      base  == IF page' = "ready" /\ ~Ready THEN [m \in Msgs |-> 0] ELSE spoken
  IN IF ~now \/ (kept /\ feed' = feed)
       THEN spoken' = base /\ UNCHANGED crew
     ELSE /\ crew' = [primed |-> TRUE, heard |-> crew.heard \cup ids]
          /\ spoken' = [m \in Msgs |->
                          base[m] + IF crew.primed /\ m \in fresh THEN 1 ELSE 0]

Follow(selected) ==
  /\ ViewedFollows /\ ViewerFollows(selected) /\ FeedFollows /\ CrewFollows

-----------------------------------------------------------------------------
PageInit ==
  /\ Init
  /\ wide \in Layouts /\ center = "voyage" /\ pane = "voyage"
  /\ viewed = 0
  /\ target = [file |-> None, id |-> 0]
  /\ viewer = [file |-> None, html |-> NoText]
  /\ tasks = {} /\ cached = {}
  /\ report = None
  /\ follow = [bottom |-> TRUE, count |-> 0]
  /\ crew = [primed |-> FALSE, heard |-> {}]
  /\ spoken = [m \in Msgs |-> 0]

(* A step of the live data. RunReady's state goes when it is unmounted;    *)
(* pane belongs to RunView and stays.                                      *)
LiveStep ==
  /\ LiveNext
  /\ IF page' = "ready"
       THEN UNCHANGED <<center, target, report>>
       ELSE /\ center' = "voyage" /\ target' = [file |-> None, id |-> 0]
            /\ report' = None
  /\ UNCHANGED <<wide, pane, cached>>
  /\ Follow(None)

(* What the user does counts towards the same bound as what fails.         *)
Click ==
  /\ page = "ready" /\ trouble < MaxTrouble
  /\ trouble' = trouble + 1
  /\ UNCHANGED <<db, published, ended, fetch, doc, page, conns, wire, list, cached>>

(* The toggles of the wide page.                                           *)
ShowView(v) ==
  /\ Click
  /\ wide /\ center # v /\ center' = v
  /\ UNCHANGED <<wide, pane, target, report>>
  /\ Follow(None)

(* handlePaneChange.                                                       *)
ShowPane(p) ==
  /\ Click
  /\ ~wide /\ pane # p /\ pane' = p
  /\ UNCHANGED <<wide, center, target, report>>
  /\ Follow(None)

(* The window is resized across the breakpoint.                            *)
ChangeLayout ==
  /\ Click
  /\ wide' = ~wide
  /\ UNCHANGED <<center, pane, target, report>>
  /\ Follow(None)

(* openArtifact, from a chip of the feed. The id makes a new target of a   *)
(* second click on the same chip.                                          *)
OpenArtifact(f) ==
  /\ Click
  /\ FeedOpen(wide, center, pane) /\ f \in Chips /\ ~IsReport(f)
  /\ target' = [file |-> f, id |-> target.id + 1]
  /\ center' = "artifacts" /\ pane' = "artifacts"
  /\ UNCHANGED <<wide, report>>
  /\ Follow(None)

(* openReport, and the dialog's onOpenChange. The dialog shows the file of *)
(* this path in the latest copy of the run.                                *)
OpenReport(f) ==
  /\ Click
  /\ FeedOpen(wide, center, pane) /\ f \in Chips /\ IsReport(f)
  /\ report = None /\ report' = f
  /\ UNCHANGED <<views, target, viewer, tasks, follow, crew, spoken>>

CloseReport ==
  /\ report # None /\ report' = None
  /\ UNCHANGED <<liveVars, views, target, viewer, tasks, cached, follow, crew, spoken>>

(* The user picks a file in the tree.                                      *)
SelectFile(f) ==
  /\ Click
  /\ viewer.file # None /\ f \in 1 .. doc.files /\ f # viewer.file
  /\ UNCHANGED <<wide, center, pane, target, report>>
  /\ Follow(f)

(* checkBottom, also after the click on the pill.                          *)
Scroll ==
  /\ Click
  /\ FeedOpen(wide, center, pane) /\ feed # <<>>
  /\ follow' = IF follow.bottom THEN [follow EXCEPT !.bottom = FALSE]
               ELSE [bottom |-> TRUE, count |-> 0]
  /\ UNCHANGED <<views, target, viewer, tasks, report, crew, spoken>>

(* Mutant of Highlighted: an answer is taken from whoever asked.           *)
HighlightedLate(t) ==
  /\ t \in tasks /\ tasks' = tasks \ {t}
  /\ cached' = cached \cup {t.text}
  /\ viewer' = IF viewer.file # None THEN [viewer EXCEPT !.html = t.text] ELSE viewer
  /\ UNCHANGED <<liveVars, views, target, report, follow, crew, spoken>>

(* highlightToHtml answers.                                                *)
Highlighted(t) ==
  /\ t \in tasks /\ tasks' = tasks \ {t}
  /\ cached' = cached \cup {t.text}
  /\ viewer' = IF t.alive THEN [file |-> viewer.file, html |-> t.text] ELSE viewer
  /\ UNCHANGED <<liveVars, views, target, report, follow, crew, spoken>>

(* The highlighter cannot be loaded: the skeleton stays.                   *)
HighlightFails(t) ==
  /\ "shiki" \in Faults /\ trouble < MaxTrouble /\ trouble' = trouble + 1
  /\ t \in tasks /\ tasks' = tasks \ {t}
  /\ UNCHANGED <<db, published, ended, fetch, doc, page, conns, wire, list, views, target,
                 viewer, cached, report, follow, crew, spoken>>

PageNext ==
  \/ LiveStep
  \/ \E v \in {"voyage", "feed", "artifacts"} : ShowView(v)
  \/ \E p \in Panes : ShowPane(p)
  \/ \E f \in 1 .. MaxFiles : OpenArtifact(f) \/ OpenReport(f) \/ SelectFile(f)
  \/ \E t \in tasks : Highlighted(t) \/ HighlightFails(t)
  \/ ChangeLayout \/ CloseReport \/ Scroll

PageSpec == PageInit /\ [][PageNext]_vars

-----------------------------------------------------------------------------
PageTypeOK ==
  /\ TypeOK
  /\ wide \in BOOLEAN
  /\ center \in {"voyage", "feed", "artifacts"}
  /\ pane \in Panes
  /\ viewed \in 0 .. MaxFiles
  /\ viewer.file \in 0 .. MaxFiles /\ report \in 0 .. 1
  /\ follow \in [bottom : BOOLEAN, count : 0 .. NumMsgs]
  /\ follow.bottom => follow.count = 0 \* the pill is hidden at the bottom
  /\ crew.heard \subseteq Ids

(* The crew speaks a message once while the page is mounted, though the    *)
(* list holds it under Band's id or the row's, whichever came first, and   *)
(* though the voyage is unmounted and mounted behind the tabs.             *)
SpokenOnce == \A m \in Msgs : spoken[m] <= 1

(* The viewer shows the text of the file it is open at, or a skeleton, and *)
(* never the late answer for another file or an older text.                *)
ViewerShowsFile ==
  viewer.file # None => viewer.html \in {NoText, Text(viewer.file, doc)}
==============================================================================
