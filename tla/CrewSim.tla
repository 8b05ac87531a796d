-------------------------------- MODULE CrewSim --------------------------------
(***************************************************************************)
(* The crew of the cutaway (voyage/cutaway/crew-sim.ts, rooms.ts, crew.ts) *)
(* as functions: the room of an agent, the text of a bubble, who walks     *)
(* where when a message comes, and one tick of a member.                   *)
(*                                                                         *)
(* Places are in 1/200 of a model cell, times in milliseconds, so that a   *)
(* walk covers one unit per millisecond. A member is a record [min, max,   *)
(* x, target, mode, timer, status, bubble].                                *)
(***************************************************************************)
EXTENDS Integers, SequencesExt, FiniteSetsExt

Cell == 200

(* The room that lists the agent, and the cells it spans.                  *)
Room ==
  [commander       |-> [id |-> "bridge", x0 |-> 52, x1 |-> 73],
   github_connector|-> [id |-> "bridge", x0 |-> 52, x1 |-> 73],
   router          |-> [id |-> "chart_room", x0 |-> 25, x1 |-> 73],
   source_analyzer |-> [id |-> "chart_room", x0 |-> 25, x1 |-> 73],
   reviewer        |-> [id |-> "review_lounge", x0 |-> 16, x1 |-> 44],
   db_migration    |-> [id |-> "engine_room", x0 |-> 6, x1 |-> 34],
   code_generator  |-> [id |-> "workshop", x0 |-> 36, x1 |-> 72],
   business_logic  |-> [id |-> "workshop", x0 |-> 36, x1 |-> 72],
   test_generator  |-> [id |-> "test_bay", x0 |-> 74, x1 |-> 106]]

MinX(agent) == (Room[agent].x0 + 1) * Cell
MaxX(agent) == Max({MinX(agent) + Cell, (Room[agent].x1 - 1) * Cell})

-----------------------------------------------------------------------------
(* The text of a bubble. A text is the sequence of the lengths of its      *)
(* words, and so is a line.                                                *)

BubbleMaxChars == 16
BubbleMaxLines == 3

(* Length with the blanks in between.                                      *)
Width(line) == FoldLeft(LAMBDA sum, w : sum + w, 0, line) + Max({0, Len(line) - 1})

(* One word, s is [lines, line, truncated]: words behind the last line     *)
(* are dropped.                                                            *)
TakeWord(s, word) ==
  LET w    == Min({word, BubbleMaxChars})
      next == Append(s.line, w)
  IN IF s.truncated THEN s
     ELSE IF Width(next) <= BubbleMaxChars \/ s.line = <<>> THEN [s EXCEPT !.line = next]
     ELSE IF Len(s.lines) = BubbleMaxLines - 1 THEN [s EXCEPT !.truncated = TRUE]
     ELSE [s EXCEPT !.lines = Append(@, s.line), !.line = <<w>>]

WrapBubbleText(words) ==
  LET s == FoldLeft(TakeWord, [lines |-> <<>>, line |-> <<>>, truncated |-> FALSE], words)
  IN [lines     |-> IF s.line = <<>> THEN s.lines ELSE Append(s.lines, s.line),
      truncated |-> s.truncated]

(* A truncated text ends in three dots, for which its last line gives way. *)
LineWidths(wrapped) ==
  [i \in DOMAIN wrapped.lines |->
     IF wrapped.truncated /\ i = Len(wrapped.lines)
       THEN Min({Width(wrapped.lines[i]), BubbleMaxChars - 3}) + 3
       ELSE Width(wrapped.lines[i])]

-----------------------------------------------------------------------------
(* Messages.                                                               *)

PairTypes == {"task_request", "handoff", "review", "decision", "blocker", "artifact_created"}
TalkDur   == 3000
SpeakDur  == 4000
NoBubble  == [until |-> 0, text |-> FALSE]

Meets(type, sender, recipient) ==
  recipient # sender /\ type \in PairTypes /\ Room[sender].id = Room[recipient].id

Clamp(a, x) == Min({a.max, Max({a.min, x})})

Speak(a, now, text) ==
  [a EXCEPT !.mode = "talk", !.timer = TalkDur,
            !.bubble = [until |-> now + (IF text THEN SpeakDur ELSE TalkDur), text |-> text]]

Chip(a, now) == [a EXCEPT !.bubble = [until |-> now + TalkDur, text |-> FALSE]]

(* trigger for two members of one room: they go to the middle of their way *)
(* and stop 1.8 cells apart.                                               *)
MeetUp(s, r, now, text) ==
  LET mid == (s.x + r.x) \div 2
  IN <<[Speak(s, now, text) EXCEPT !.target = Clamp(s, mid - 180)],
       [Chip(r, now) EXCEPT !.mode = "talk", !.timer = TalkDur, !.target = Clamp(r, mid + 180)]>>

(* trigger otherwise: only the bubbles.                                    *)
Solo(s, r, now, text) == <<Speak(s, now, text), Chip(r, now)>>

-----------------------------------------------------------------------------
(* One tick.                                                               *)

Sign(n) == IF n > 0 THEN 1 ELSE IF n < 0 THEN -1 ELSE 0
Size(n) == n * Sign(n)

Arrived(a) == Size(a.target - a.x) < Cell \div 20

(* A member that is at work walks faster.                                  *)
MoveToward(a, dt) ==
  LET dx    == a.target - a.x
      speed == IF a.status = "active" THEN 13 ELSE 10
  IN IF Arrived(a) THEN [a EXCEPT !.x = a.target]
     ELSE [a EXCEPT !.x = @ + Sign(dx) * Min({Size(dx), (speed * dt) \div 10})]

Idle(a, pause) == [a EXCEPT !.mode = "idle", !.timer = pause]

(* update: target and pause are what the dice say. A blocked member stays  *)
(* and flags.                                                              *)
Update(a0, dt, now, target, pause) ==
  LET a == IF now >= a0.bubble.until THEN [a0 EXCEPT !.bubble = NoBubble] ELSE a0
      t == [a EXCEPT !.timer = @ - dt]
  IN CASE a.mode = "talk" ->
            LET m == MoveToward(t, dt) IN IF m.timer <= 0 THEN Idle(m, pause) ELSE m
       [] a.mode = "walk" ->
            LET m == MoveToward(a, dt) IN IF Arrived(a) THEN Idle(m, pause) ELSE m
       [] a.mode = "idle" /\ t.timer > 0 -> t
       [] a.mode = "idle" /\ t.timer <= 0 /\ a.status = "blocked" ->
            [t EXCEPT !.timer = pause, !.bubble = [until |-> now + 1400, text |-> FALSE]]
       [] OTHER -> [t EXCEPT !.target = target, !.mode = "walk"]

(* The frame of the sprite.                                                *)
Walking(a) == a.mode = "walk" \/ (a.mode = "talk" /\ a.x # a.target)
================================================================================
