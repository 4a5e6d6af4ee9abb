--------------------------- MODULE DocumentParser ---------------------------
(***************************************************************************)
(* The single pass of webglass/extraction.py over a document: tag soup in, *)
(* readable blocks, links, fields, buttons, forms and labels out.          *)
(*                                                                         *)
(* A document is any sequence of start tags, end tags and words, whether   *)
(* or not its tags match.  Words are numbered in the order they are met    *)
(* and a text is the sequence of its words' numbers: whitespace and the    *)
(* separators put between items, cells and rows are layout.  A tag inside  *)
(* a skipped element and an inline tag change nothing and are no step.     *)
(***************************************************************************)
EXTENDS Naturals, Sequences

CONSTANTS Tags,       \* the tag names the document uses
          Keys,       \* ids of fields, which a label's "for" may name
          NoKey,      \* a label or a field without one
          MaxTokens   \* bound on the tokens of the document

ASSUME BoundsAssumption == MaxTokens \in Nat /\ NoKey \notin Keys

SkipTags == {"script", "style", "noscript", "template", "svg", "math"}
ChromeTags == {"nav", "aside", "header", "footer"}
HeadingTags == {"h1", "h2", "h3", "h4", "h5", "h6"}
ParagraphTags == {"p", "blockquote", "figcaption", "dd", "dt", "address",
                  "caption", "summary"}
CellTags == {"td", "th"}
LeafTags == HeadingTags \cup ParagraphTags \cup CellTags \cup {"pre", "li"}
ListTags == {"ul", "ol"}
ControlTextTags == {"title", "label", "button", "option", "textarea"}

\* Tags no handler of their own claims: they end the text before them.
OtherTags == {"tr", "div", "section", "main", "body"}

VARIABLES parser,     \* the parser's own state
          phase,      \* "open", "closing" (close() runs) or "closed"
          tokens,     \* how much of the document was fed
          words,      \* how many of the tokens were words
          readable    \* the words met outside skipped elements and controls

vars == <<parser, phase, tokens, words, readable>>

Text == Seq(Nat)
WordsOf(text) == {text[i] : i \in DOMAIN text}
Last(s) == s[Len(s)]
Pop(s) == SubSeq(s, 1, Len(s) - 1)

\* A list of table cells or of list items is kept as the text it joins into.
NewParser ==
  [blocks |-> <<>>, buffer |-> <<>>, leaves |-> <<>>, chromes |-> <<>>,
   controls |-> <<>>, anchors |-> <<>>, links |-> <<>>,
   fields |-> <<>>, buttons |-> <<>>, forms |-> <<>>, formStack |-> <<>>,
   title |-> <<>>, labels |-> [k \in Keys |-> <<>>], labelled |-> {},
   listDepth |-> 0, items |-> <<>>,
   tableDepth |-> 0, rows |-> <<>>, cells |-> <<>>,
   skipTag |-> "", skipDepth |-> 0, nonContent |-> 0]

-----------------------------------------------------------------------------
(***************************************************************************)
(* Text routing.                                                           *)
(***************************************************************************)
\* Where a word goes: nowhere, to every open control, or to the page's text
\* and to every open link.
HandleData(p, w) ==
  IF p.skipDepth > 0 THEN p
  ELSE IF p.controls # <<>>
  THEN [p EXCEPT !.controls =
          [i \in DOMAIN p.controls |->
             [p.controls[i] EXCEPT !.text = Append(@, w)]]]
  ELSE [p EXCEPT !.buffer = Append(@, w),
                 !.anchors = [i \in DOMAIN p.anchors |->
                                [p.anchors[i] EXCEPT !.text = Append(@, w)]]]

\* The role of the innermost open leaf.
Role(p) ==
  LET tag == Last(p.leaves)
  IN  CASE p.leaves = <<>> -> "loose"
        [] p.leaves # <<>> /\ tag \in HeadingTags -> "heading"
        [] p.leaves # <<>> /\ tag = "pre" -> "code"
        [] p.leaves # <<>> /\ tag = "li" -> "item"
        [] p.leaves # <<>> /\ tag \in CellTags -> "cell"
        [] OTHER -> "paragraph"

AddBlock(p, kind, text) ==
  [p EXCEPT !.blocks =
     Append(@, [kind |-> kind, text |-> text, chrome |-> p.chromes # <<>>])]

\* Mutant: the text becomes a block and is not forgotten.
FlushKeeps(p) == IF p.buffer = <<>> THEN p ELSE AddBlock(p, "paragraph", p.buffer)

\* The text since the last flush becomes a cell, an item or a block.
Flush(p) ==
  LET role == Role(p)
      emptied == [p EXCEPT !.buffer = <<>>]
  IN  IF p.buffer = <<>> THEN p
      ELSE IF role = "cell" /\ p.tableDepth > 0
           THEN [emptied EXCEPT !.cells = @ \o p.buffer]
      ELSE IF role = "item" /\ p.listDepth > 0
           THEN [emptied EXCEPT !.items = @ \o p.buffer]
      ELSE AddBlock(emptied,
                    IF role \in {"heading", "code"} THEN role ELSE "paragraph",
                    p.buffer)

-----------------------------------------------------------------------------
(***************************************************************************)
(* Structure: leaves, lists, tables, landmarks, skipped elements.          *)
(***************************************************************************)
OpenLeaf(p, tag) == [Flush(p) EXCEPT !.leaves = Append(@, tag)]

\* Only the innermost leaf can be closed; another end tag just ends the text.
CloseLeaf(p, tag) ==
  LET q == Flush(p)
  IN  IF q.leaves # <<>> /\ Last(q.leaves) = tag
      THEN [q EXCEPT !.leaves = Pop(@)] ELSE q

\* Mutant: a stray end tag takes the depth below zero.
CloseListAlways(p) ==
  LET q == Flush(p)
  IN  [q EXCEPT !.listDepth = @ - 1]

\* A nested list's items belong to the outermost list's block.
CloseList(p) ==
  LET q == Flush(p)
      emitted == IF q.items = <<>> THEN q
                 ELSE [AddBlock(q, "list", q.items) EXCEPT !.items = <<>>]
  IN  IF q.listDepth <= 1 THEN [emitted EXCEPT !.listDepth = 0]
      ELSE [q EXCEPT !.listDepth = @ - 1]

CloseRow(p) ==
  IF p.cells = <<>> THEN p
  ELSE [p EXCEPT !.rows = @ \o p.cells, !.cells = <<>>]

CloseTable(p) ==
  LET q == CloseRow(Flush(p))
      emitted == IF q.rows = <<>> THEN q
                 ELSE [AddBlock(q, "table", q.rows) EXCEPT !.rows = <<>>]
  IN  IF q.tableDepth <= 1 THEN [emitted EXCEPT !.tableDepth = 0]
      ELSE [q EXCEPT !.tableDepth = @ - 1]

CloseChrome(p, tag) ==
  LET q == Flush(p)
  IN  IF q.chromes # <<>> /\ Last(q.chromes) = tag
      THEN [q EXCEPT !.chromes = Pop(@)] ELSE q

EnterSkip(p, tag) ==
  [Flush(p) EXCEPT !.skipTag = tag, !.skipDepth = 1, !.nonContent = @ + 1]

ExitSkip(p) ==
  [p EXCEPT !.skipDepth = @ - 1,
            !.skipTag = IF p.skipDepth = 1 THEN "" ELSE @]

-----------------------------------------------------------------------------
(***************************************************************************)
(* Controls, links and forms.  They do not end the text around them, a     *)
(* form apart.  Form 0 stands for no form.                                 *)
(***************************************************************************)
CurrentForm(p) == IF p.formStack = <<>> THEN 0 ELSE Last(p.formStack)

\* Mutant: the newest form instead of the innermost open one.
RegisterInNewest(p, i) ==
  IF p.formStack = <<>> THEN p
  ELSE [p EXCEPT !.forms[Len(p.forms)].fields = Append(@, i)]

RegisterField(p, i) ==
  IF p.formStack = <<>> THEN p
  ELSE [p EXCEPT !.forms[CurrentForm(p)].fields = Append(@, i)]

RegisterButton(p, i) ==
  IF p.formStack = <<>> THEN p
  ELSE [p EXCEPT !.forms[CurrentForm(p)].buttons = Append(@, i)]

AddField(p, key) ==
  LET q == [p EXCEPT !.fields = Append(@, [id |-> key, form |-> CurrentForm(p)])]
  IN  RegisterField(q, Len(q.fields))

AddButton(p) ==
  LET q == [p EXCEPT !.buttons = Append(@, [text |-> <<>>, form |-> CurrentForm(p)])]
  IN  RegisterButton(q, Len(q.buttons))

\* key is the id a label's "for" names, or a textarea's own id.
OpenControl(p, tag, key) ==
  LET q == CASE tag = "button" -> AddButton(p)
             [] tag = "textarea" -> AddField(p, key)
             [] OTHER -> p
  IN  [q EXCEPT !.controls =
         Append(@, [tag |-> tag, text |-> <<>>,
                    key |-> IF tag = "label" THEN key ELSE NoKey,
                    button |-> IF tag = "button" THEN Len(q.buttons) ELSE 0])]

\* The first title and the first label of an id are kept, later ones dropped,
\* and so is the text of an option, a textarea or a label without an id.
CloseControl(p) ==
  LET c == Last(p.controls)
      q == [p EXCEPT !.controls = Pop(@)]
  IN  CASE c.tag = "title" /\ p.title = <<>> -> [q EXCEPT !.title = c.text]
        [] c.tag = "label" /\ c.key \in Keys \ p.labelled ->
             [q EXCEPT !.labels[c.key] = c.text, !.labelled = @ \cup {c.key}]
        [] c.tag = "button" -> [q EXCEPT !.buttons[c.button].text = c.text]
        [] OTHER -> q

OpenAnchor(p) ==
  LET q == [p EXCEPT !.links = Append(@, <<>>)]
  IN  [q EXCEPT !.anchors = Append(@, [link |-> Len(q.links), text |-> <<>>])]

CloseAnchor(p) ==
  IF p.anchors = <<>> THEN p
  ELSE [p EXCEPT !.links[Last(p.anchors).link] = Last(p.anchors).text,
                 !.anchors = Pop(@)]

OpenForm(p) ==
  LET q == Flush(p)
  IN  [q EXCEPT !.forms = Append(@, [fields |-> <<>>, buttons |-> <<>>]),
                !.formStack = Append(@, Len(q.forms) + 1)]

CloseForm(p) ==
  LET q == Flush(p)
  IN  IF q.formStack = <<>> THEN q ELSE [q EXCEPT !.formStack = Pop(@)]

-----------------------------------------------------------------------------
(***************************************************************************)
(* The document, a token at a time.                                        *)
(***************************************************************************)
Init ==
  /\ parser = NewParser
  /\ phase = "open"
  /\ tokens = 0
  /\ words = 0
  /\ readable = {}

Fed == phase = "open" /\ tokens < MaxTokens /\ tokens' = tokens + 1

Skipping == parser.skipDepth > 0

Word ==
  /\ Fed
  /\ words' = words + 1
  /\ parser' = HandleData(parser, words + 1)
  /\ readable' = IF Skipping \/ parser.controls # <<>> THEN readable
                 ELSE readable \cup {words + 1}
  /\ UNCHANGED phase

Tag(t) == Fed /\ t \in Tags /\ UNCHANGED <<phase, words, readable>>

\* A start or an end tag met outside skipped elements.
Outside(t) == ~Skipping /\ Tag(t)

StartSame(t) == Skipping /\ t = parser.skipTag /\ Tag(t)
                /\ parser' = [parser EXCEPT !.skipDepth = @ + 1]
EndSkipped(t) == Skipping /\ t = parser.skipTag /\ Tag(t)
                 /\ parser' = ExitSkip(parser)

StartSkipped(t) == t \in SkipTags /\ Outside(t) /\ parser' = EnterSkip(parser, t)
StartControl(t, key) ==
  t \in ControlTextTags /\ Outside(t) /\ parser' = OpenControl(parser, t, key)
StartAnchor == Outside("a") /\ parser' = OpenAnchor(parser)
StartForm == Outside("form") /\ parser' = OpenForm(parser)
StartButtonInput == Outside("input") /\ parser' = AddButton(parser)
StartField(t, key) ==
  t \in {"input", "select"} /\ Outside(t) /\ parser' = AddField(parser, key)
StartLeaf(t) == t \in LeafTags /\ Outside(t) /\ parser' = OpenLeaf(parser, t)
StartList(t) ==
  t \in ListTags /\ Outside(t) /\ parser' = [Flush(parser) EXCEPT !.listDepth = @ + 1]
StartTable ==
  Outside("table") /\ parser' = [Flush(parser) EXCEPT !.tableDepth = @ + 1]
StartChrome(t) ==
  t \in ChromeTags /\ Outside(t) /\ parser' = [Flush(parser) EXCEPT !.chromes = Append(@, t)]
StartOther(t) == t \in OtherTags /\ Outside(t) /\ parser' = Flush(parser)

ClosesControl(t) == parser.controls # <<>> /\ Last(parser.controls).tag = t

EndControl(t) == ClosesControl(t) /\ Outside(t) /\ parser' = CloseControl(parser)
EndAnchor == Outside("a") /\ parser' = CloseAnchor(parser)
EndLeaf(t) == t \in LeafTags /\ Outside(t) /\ parser' = CloseLeaf(parser, t)
EndRow == Outside("tr") /\ parser' = CloseRow(Flush(parser))
EndList(t) == t \in ListTags /\ Outside(t) /\ parser' = CloseList(parser)
EndTable == Outside("table") /\ parser' = CloseTable(parser)
EndForm == Outside("form") /\ parser' = CloseForm(parser)
EndChrome(t) == t \in ChromeTags /\ Outside(t) /\ parser' = CloseChrome(parser, t)

\* Any other end tag ends the text: one no handler claims, or one of a control
\* that is not the innermost open one.
EndOther(t) ==
  /\ t \in (OtherTags \ {"tr"}) \cup {"select"} \cup SkipTags
           \cup {c \in ControlTextTags : ~ClosesControl(c)}
  /\ Outside(t)
  /\ parser' = Flush(parser)

\* close(), its loops over the open controls and links a turn at a time.
EndOfDocument ==
  /\ phase = "open"
  /\ phase' = "closing"
  /\ UNCHANGED <<parser, tokens, words, readable>>

CloseOpenOne ==
  /\ phase = "closing"
  /\ IF parser.controls # <<>> THEN parser' = CloseControl(parser)
     ELSE parser.anchors # <<>> /\ parser' = CloseAnchor(parser)
  /\ UNCHANGED <<phase, tokens, words, readable>>

OutermostList(p) == IF p.listDepth = 0 THEN p ELSE CloseList([p EXCEPT !.listDepth = 1])

\* Mutant: a table left open at the end of the document is forgotten.
TableForgotten(p) == p

OutermostTable(p) == IF p.tableDepth = 0 THEN p ELSE CloseTable([p EXCEPT !.tableDepth = 1])

Close ==
  /\ phase = "closing" /\ parser.controls = <<>> /\ parser.anchors = <<>>
  /\ parser' = OutermostTable(OutermostList(CloseRow(Flush(parser))))
  /\ phase' = "closed"
  /\ UNCHANGED <<tokens, words, readable>>

Start ==
  \/ StartAnchor \/ StartForm \/ StartButtonInput \/ StartTable
  \/ \E t \in Tags :
       \/ StartSame(t) \/ StartSkipped(t) \/ StartLeaf(t) \/ StartList(t)
       \/ StartChrome(t) \/ StartOther(t)
       \/ \E key \in Keys \cup {NoKey} : StartControl(t, key) \/ StartField(t, key)

End ==
  \/ EndAnchor \/ EndRow \/ EndTable \/ EndForm
  \/ \E t \in Tags :
       \/ EndSkipped(t) \/ EndControl(t) \/ EndLeaf(t) \/ EndList(t)
       \/ EndChrome(t) \/ EndOther(t)

Next == Word \/ Start \/ End \/ EndOfDocument \/ CloseOpenOne \/ Close

Spec == Init /\ [][Next]_vars /\ WF_vars(CloseOpenOne \/ Close)

-----------------------------------------------------------------------------
(***************************************************************************)
(* Properties.                                                             *)
(***************************************************************************)
Block == [kind : {"heading", "code", "paragraph", "list", "table"},
          text : Text, chrome : BOOLEAN]
Control == [tag : ControlTextTags, text : Text, key : Keys \cup {NoKey}, button : Nat]

TypeOK ==
  /\ parser \in
       [blocks : Seq(Block), buffer : Text, leaves : Seq(LeafTags),
        chromes : Seq(ChromeTags), controls : Seq(Control),
        anchors : Seq([link : Nat, text : Text]), links : Seq(Text),
        fields : Seq([id : Keys \cup {NoKey}, form : Nat]),
        buttons : Seq([text : Text, form : Nat]),
        forms : Seq([fields : Seq(Nat), buttons : Seq(Nat)]),
        formStack : Seq(Nat), title : Text, labels : [Keys -> Text],
        labelled : SUBSET Keys, listDepth : Nat, items : Text,
        tableDepth : Nat, rows : Text, cells : Text,
        skipTag : SkipTags \cup {""}, skipDepth : Nat, nonContent : Nat]
  /\ phase \in {"open", "closing", "closed"}
  /\ tokens \in 0..MaxTokens
  /\ words \in 0..tokens
  /\ readable \subseteq 1..words

BlockWords(p, b) == WordsOf(p.blocks[b].text)

Before(A, B) == \A a \in A, b \in B : a < b
Increasing(text) == \A i, j \in DOMAIN text : i < j => text[i] < text[j]

\* However its tags are nested, crossed or left open, a closed document has
\* every readable word in exactly one block, once, and nothing else in any.
EveryWordInOneBlock ==
  phase = "closed" =>
    /\ \A w \in readable : \E b \in DOMAIN parser.blocks :
         /\ w \in BlockWords(parser, b)
         /\ \A c \in DOMAIN parser.blocks \ {b} : w \notin BlockWords(parser, c)
    /\ \A b \in DOMAIN parser.blocks :
         /\ BlockWords(parser, b) \subseteq readable
         /\ Len(parser.blocks[b].text) > 0

\* Words keep their order inside a block, and a heading, paragraph or code
\* block comes after every block whose words precede it and no other: only a
\* list or a table, which waits for its end tag, can come late.
FlowKeepsOrder ==
  \A c \in DOMAIN parser.blocks :
    /\ Increasing(parser.blocks[c].text)
    /\ parser.blocks[c].kind \notin {"list", "table"} =>
         \A b \in 1..c - 1 : Before(BlockWords(parser, b), BlockWords(parser, c))

\* A field or a button names the form that lists it, no other form lists it,
\* and a form lists nothing else.
FormsAndControlsAgree ==
  \A f \in DOMAIN parser.forms :
    /\ \A i \in DOMAIN parser.fields :
         (parser.fields[i].form = f) <=> (i \in WordsOf(parser.forms[f].fields))
    /\ \A i \in DOMAIN parser.buttons :
         (parser.buttons[i].form = f) <=> (i \in WordsOf(parser.forms[f].buttons))
=============================================================================
