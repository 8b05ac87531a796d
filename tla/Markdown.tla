------------------------------- MODULE Markdown -------------------------------
(***************************************************************************)
(* The renderer of agent messages (components/markdown.tsx): parseBlocks   *)
(* over lines, renderInline over the characters of a line.                 *)
(*                                                                         *)
(* A line is a record [kind, text], its kind the one regular expression    *)
(* that it matches, "blank", or "text" for none: they exclude one another. *)
(* Characters are "tick", the backquote, "star" and others.                *)
(***************************************************************************)
EXTENDS Naturals, SequencesExt, FiniteSetsExt

LineKinds == {"fence", "blank", "heading", "bullet", "number", "quote", "text"}

(* The block that a line opens.                                            *)
Opens(kind) ==
  CASE kind = "fence"   -> "code"
    [] kind = "heading" -> "heading"
    [] kind = "bullet"  -> "bullets"
    [] kind = "number"  -> "numbers"
    [] kind = "quote"   -> "quote"
    [] OTHER            -> "para"

(* The inner loops: whether a line belongs to the block that is open. A    *)
(* list stays what its first item made it.                                 *)
Continues(open, kind) ==
  CASE open = "code"                   -> kind # "fence"
    [] open \in {"bullets", "numbers"} -> kind \in {"bullet", "number"}
    [] open = "quote"                  -> kind = "quote"
    [] open = "para"                   -> kind = "text"
    [] OTHER                           -> FALSE

AddTo(blocks, text) ==
  [blocks EXCEPT ![Len(blocks)].text = Append(@, text)]

(* One line: s is [blocks, open]. A fence that is never closed takes the   *)
(* rest of the message.                                                    *)
TakeLine(s, line) ==
  IF Continues(s.open, line.kind) THEN [s EXCEPT !.blocks = AddTo(@, line.text)]
  ELSE IF s.open = "code" \/ line.kind = "blank" THEN [s EXCEPT !.open = "none"]
  ELSE LET kind == Opens(line.kind)
           text == IF kind = "code" THEN <<>> ELSE <<line.text>>
       IN [blocks |-> Append(s.blocks, [kind |-> kind, text |-> text]), open |-> kind]

ParseBlocks(lines) ==
  FoldLeft(TakeLine, [blocks |-> <<>>, open |-> "none"], lines).blocks

-----------------------------------------------------------------------------
(* The first place from i on that holds character c, or 0.                 *)
FirstFrom(text, c, i) ==
  LET hits == {j \in i .. Len(text) : text[j] = c} IN IF hits = {} THEN 0 ELSE Min(hits)

(* Where the match of INLINE_RE that starts at i ends, or 0.               *)
CodeEnd(text, i) ==
  LET j == FirstFrom(text, "tick", i + 1)
  IN IF text[i] = "tick" /\ j > i + 1 THEN j ELSE 0

BoldEnd(text, i) ==
  LET j == FirstFrom(text, "star", i + 2)
  IN IF /\ i + 1 <= Len(text) /\ text[i] = "star" /\ text[i + 1] = "star"
        /\ j > i + 2 /\ j < Len(text) /\ text[j + 1] = "star"
       THEN j + 1 ELSE 0

(* The nodes of a line, from the leftmost match on.                        *)
RenderInline(text) ==
  LET nodes[i \in 1 .. Len(text) + 1] ==
        IF i > Len(text) THEN <<>>
        ELSE IF CodeEnd(text, i) > 0
          THEN <<[kind |-> "code", text |-> SubSeq(text, i + 1, CodeEnd(text, i) - 1)]>>
               \o nodes[CodeEnd(text, i) + 1]
        ELSE IF BoldEnd(text, i) > 0
          THEN <<[kind |-> "strong", text |-> SubSeq(text, i + 2, BoldEnd(text, i) - 2)]>>
               \o nodes[BoldEnd(text, i) + 1]
        ELSE LET rest == nodes[i + 1]
             IN IF rest # <<>> /\ Head(rest).kind = "plain"
                  THEN <<[kind |-> "plain", text |-> <<text[i]>> \o Head(rest).text]>> \o Tail(rest)
                  ELSE <<[kind |-> "plain", text |-> <<text[i]>>]>> \o rest
  IN nodes[1]
================================================================================
