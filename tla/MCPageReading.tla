--------------------------- MODULE MCPageReading ---------------------------
(***************************************************************************)
(* Small instances of PageReading for TLC.  Text pages: a heading and three *)
(* paragraphs of two texts, one too long for every budget, on page chrome   *)
(* or not, so that they repeat in every way.  Heading pages: three headings *)
(* of three levels, and one that goes back up by one level.                 *)
(***************************************************************************)
EXTENDS PageReading, TLC

CharsOf == [short |-> 4, long |-> 12]

Paragraph(text, chrome) ==
  [kind |-> "paragraph", level |-> 0, text |-> text, chrome |-> chrome]
Heading(level) ==
  [kind |-> "heading", level |-> level, text |-> "short", chrome |-> FALSE]

Paragraphs ==
  {Paragraph("short", FALSE), Paragraph("short", TRUE), Paragraph("long", TRUE)}
TextPages == {<<Heading(1)>> \o ps : ps \in [1..3 -> Paragraphs]}
HeadingPages ==
  [1..3 -> {Heading(l) : l \in 1..3}]
    \cup {<<Heading(1), Heading(2), Heading(3), Heading(2)>>}

SmallPages == TextPages \cup HeadingPages

Whole == [blocks |-> NoLimit, chars |-> NoLimit, tokens |-> NoLimit]
SomeCuts == {Whole, [Whole EXCEPT !.blocks = 2]}
SomeBudgets ==
  {[Whole EXCEPT !.blocks = 1, !.chars = 8], [Whole EXCEPT !.chars = 8],
   [Whole EXCEPT !.tokens = 2]}
=============================================================================
