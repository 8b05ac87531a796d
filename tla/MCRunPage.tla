------------------------------ MODULE MCRunPage -------------------------------
(* Model-checking instance of RunPage: two messages of one second. What    *)
(* the panels make of a run, see RunViews, and the merge of messages that  *)
(* say the same are checked on small data.                                 *)
EXTENDS RunPage
MCSender == <<"router", "coder">>
MCWords  == <<"done", "done">>
MCSecond == <<1, 1>>

Views == INSTANCE RunViews
Prose == INSTANCE Markdown

Message(a, p, to, action, rework) ==
  [agent |-> a, phase |-> p, type |-> "handoff", target |-> to, action |-> action,
   rework |-> rework]
Messages ==
  {Message(a, p, t, act, r) : a \in {1, 4, 9}, p \in {1, 4, 7}, t \in {0, 3},
                              act \in BOOLEAN, r \in BOOLEAN}
RunWith(status, phase, on, messages) ==
  [status |-> status, phase |-> phase, db |-> on, messages |-> messages, makers |-> {},
   plan |-> FALSE, pr |-> FALSE]

(* The pipeline is a row of stages that are done, then at most one that    *)
(* the run is at, then stages to come, and it names the outcome.           *)
ASSUME PipelineInOrder ==
  \A status \in Views!Statuses, phase \in 0 .. 7, on \in BOOLEAN, p \in 1 .. 7 :
    LET run   == RunWith(status, phase, on, <<Message(1, p, 0, FALSE, FALSE)>>)
        nodes == Views!PipelineNodes(run)
    IN \A i, j \in DOMAIN nodes :
         i < j => nodes[j].state = "upcoming" \/ nodes[i].state = "done"

(* A message never takes the pipeline back, and the ferry only for a       *)
(* rework.                                                                 *)
ASSUME NoStepBack ==
  \A status \in Views!Statuses, m \in Messages, n \in Messages :
    LET before == RunWith(status, 0, TRUE, <<m>>)
        after  == RunWith(status, 0, TRUE, <<m, n>>)
    IN /\ Views!CurrentPhaseIndex(before) <= Views!CurrentPhaseIndex(after)
       /\ Views!VoyageStop(after) \in 0 .. 8
       /\ \/ status = "needs_rework" \/ n.rework
          \/ Views!VoyageStop(before) <= Views!VoyageStop(after)

(* A file that a message names in several keys has one chip, of one kind.  *)
ASSUME OneChipEach ==
  LET kind == [p \in 1 .. 2 |-> IF p = 1 THEN "code" ELSE "report"]
  IN \A one \in 0 .. 3, rep \in 0 .. 3, f \in 1 .. 3, g \in 1 .. 3 :
       LET chips == Views!MessageAttachments(
                      [file |-> one, files |-> <<f, g>>, report |-> rep], kind)
           all   == chips.code \o chips.reports \o chips.unresolved
       IN /\ ToSet(all) = {one, f, g, rep} \ {0}
          /\ Len(all) = Cardinality(ToSet(all))

(* The log is read from the newest message on.                             *)
ASSUME NewestFirst ==
  \A n \in {0, 1, 6, 7, 41} :
    LET log == Views!ShipLog([i \in 1 .. n |-> i], FALSE)
    IN /\ Len(log) = Min({n, 6})
       /\ \A i \in DOMAIN log : log[i] = n - i + 1

(* What RunPage mounts of the feed, the artifacts and the voyage is what   *)
(* the page shows.                                                         *)
ASSUME MountedIsSeen ==
  \A w, left, right \in BOOLEAN, c \in {"voyage", "feed", "artifacts"}, p \in Panes :
    LET seen == Views!VisiblePanels(w, FALSE, left, right, c, p)
    IN /\ VoyageOpen(w, p) <=> "voyage" \in seen
       /\ FeedOpen(w, c, p) <=> "feed" \in seen
       /\ ArtifactsOpen(w, c, p) <=> "artifacts" \in seen

(* Every line of a message is in one block, in order, and of the kind that *)
(* the line asks for; only the fences of code and blank lines outside of   *)
(* it are left out.                                                        *)
ASSUME NoLineLost ==
  \A n \in 0 .. 4 : \A kinds \in [1 .. n -> Prose!LineKinds] :
    LET lines  == [i \in 1 .. n |-> [kind |-> kinds[i], text |-> i]]
        blocks == Prose!ParseBlocks(lines)
        fences(i) == {j \in 1 .. i - 1 : kinds[j] = "fence"}
        inCode(i) == Cardinality(fences(i)) % 2 = 1
        kept   == {i \in 1 .. n : kinds[i] # "fence" /\ (inCode(i) \/ kinds[i] # "blank")}
        said   == Prose!FlattenSeq([b \in DOMAIN blocks |-> blocks[b].text])
    IN /\ ToSet(said) = kept
       /\ \A i, j \in DOMAIN said : i < j => said[i] < said[j]
       /\ \A b \in DOMAIN blocks : \A k \in DOMAIN blocks[b].text :
            LET i == blocks[b].text[k]
            IN (blocks[b].kind = "code") <=> inCode(i)

(* mergeMessages goes through the incoming messages one by one: an entry   *)
(* of the same id, else the last one of the same signature, takes what the *)
(* message says; else the message is added. Of three messages the last two *)
(* say the same.                                                           *)
Twins == INSTANCE LiveRun WITH Sender <- <<"router", "coder", "coder">>,
                               Words  <- <<"done", "done", "done">>,
                               Second <- <<1, 1, 1>>

(* The loop's maps: byId, in the order of insertion, and sigToId.          *)
MergeOne(maps, e) ==
  LET sig     == Twins!MessageSig(e)
      sameSig == {i \in DOMAIN maps.sigToId : maps.sigToId[i][1] = sig}
      id      == IF sameSig # {} THEN maps.sigToId[Max(sameSig)][2] ELSE e.id
      Put(at) == [maps EXCEPT !.byId = [i \in DOMAIN @ |-> IF @[i].id = at
                                                           THEN [e EXCEPT !.id = at] ELSE @[i]]]
  IN IF \E i \in DOMAIN maps.byId : maps.byId[i].id = e.id THEN Put(e.id)
     ELSE IF sameSig # {} THEN Put(id)
     ELSE [byId |-> Append(maps.byId, e), sigToId |-> Append(maps.sigToId, <<sig, e.id>>)]

Loop(s, rows) ==
  FoldLeft(MergeOne, [byId |-> s, sigToId |-> [i \in DOMAIN s |-> <<Twins!MessageSig(s[i]), s[i].id>>]],
           rows).byId

(* Each list that a page may have is merged with each answer to the same   *)
(* ids, of which each says the same, as by the loop; and no more and no    *)
(* less than the entries it had and the first of each kind that is new.    *)
ASSUME MergeIsTheLoop ==
  LET Row(m) == Entry(m, "db", FALSE)
      Live(m) == Entry(m, "band", FALSE)
      chats   == {{Entry(m, "band", TRUE) : m \in 1 .. n} : n \in 0 .. 3}
      lists   == chats \cup {{Row(m) : m \in 1 .. n} \cup more :
                               n \in 0 .. 3, more \in SUBSET {Live(m) : m \in 1 .. 3}}
      answers == chats \cup {{Row(m) : m \in 1 .. n} : n \in 0 .. 3}
      Kinds(S) == {<<x.id, Twins!MessageSig(x)>> : x \in S}
  IN \A current \in lists, incoming \in answers :
       LET s      == Twins!Sorted(current)
           rows   == SetToSortSeq(incoming, LAMBDA x, y : x.msg < y.msg)
           looped == Loop(s, rows)
           merged == Twins!MergeMessages(s, incoming)
       IN Kinds(ToSet(merged)) = Kinds(ToSet(looped)) /\ Len(merged) = Len(looped)

(* No character of a line is lost but the marks of code and bold text.     *)
ASSUME NoCharLost ==
  \A n \in 0 .. 6 : \A text \in [1 .. n -> {"tick", "star", "a"}] :
    LET nodes == Prose!RenderInline(text)
        Mark(node) == CASE node.kind = "code"   -> <<"tick">>
                        [] node.kind = "strong" -> <<"star", "star">>
                        [] OTHER -> <<>>
    IN Prose!FlattenSeq([i \in DOMAIN nodes |->
                           Mark(nodes[i]) \o nodes[i].text \o Mark(nodes[i])]) = text
===============================================================================
