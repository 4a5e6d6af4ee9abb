------------------------ MODULE DocumentParserProofs ------------------------
(***************************************************************************)
(* Proofs about DocumentParser, for any document of any length, whatever   *)
(* tags it uses.                                                           *)
(*                                                                         *)
(* Each step gives the parser one of a few operators' values, and each of  *)
(* the three invariants is kept operator by operator.  Where the words are *)
(* is one function of a place (Held): a word enters at the text being      *)
(* gathered and everything after that moves the whole of one place to      *)
(* another, so that no word is ever at two.                                *)
(***************************************************************************)
EXTENDS DocumentParser, Integers, SequenceTheorems, TLAPS

-----------------------------------------------------------------------------
(* Types *)

Anchor == [link : Nat, text : Text]
Field == [id : Keys \cup {NoKey}, form : Nat]
Button == [text : Text, form : Nat]
Form == [fields : Seq(Nat), buttons : Seq(Nat)]

Parser ==
  [blocks : Seq(Block), buffer : Text, leaves : Seq(LeafTags),
   chromes : Seq(ChromeTags), controls : Seq(Control),
   anchors : Seq(Anchor), links : Seq(Text),
   fields : Seq(Field), buttons : Seq(Button), forms : Seq(Form),
   formStack : Seq(Nat), title : Text, labels : [Keys -> Text],
   labelled : SUBSET Keys, listDepth : Nat, items : Text,
   tableDepth : Nat, rows : Text, cells : Text,
   skipTag : SkipTags \cup {""}, skipDepth : Nat, nonContent : Nat]

LEMMA PopSeq ==
  ASSUME NEW S, NEW s \in Seq(S), s # <<>>
  PROVE  /\ Last(s) \in S /\ Len(s) \in DOMAIN s
         /\ Pop(s) \in Seq(S)
         /\ Len(Pop(s)) = Len(s) - 1
         /\ \A i \in DOMAIN Pop(s) : i \in DOMAIN s /\ Pop(s)[i] = s[i]
<1>1. Len(s) \in 1 .. Len(s)
  OBVIOUS
<1>2. Len(s) - 1 \in Nat /\ Len(s) - 1 <= Len(s)
  BY <1>1
<1> DEFINE t == SubSeq(s, 1, Len(s) - 1)
<1>3. t \in Seq(S) /\ Len(t) = Len(s) - 1 /\ \A i \in 1 .. Len(s) - 1 : t[i] = s[i]
  BY <1>1, <1>2, SubSeqProperties
<1>4. DOMAIN t = 1 .. Len(s) - 1
  BY <1>3
<1>5. t = Pop(s)
  BY DEF Pop
<1> HIDE DEF t
<1>6. QED
  BY <1>1, <1>3, <1>4, <1>5 DEF Last

LEMMA UpdateSeq ==
  ASSUME NEW S, NEW s \in Seq(S), NEW i, NEW e, i \in DOMAIN s => e \in S
  PROVE  LET t == [s EXCEPT ![i] = e]
         IN  t \in Seq(S) /\ Len(t) = Len(s) /\ DOMAIN t = DOMAIN s
<1> DEFINE t == [s EXCEPT ![i] = e]
<1>1. t = [k \in 1 .. Len(s) |-> IF k = i THEN e ELSE s[k]]
  OBVIOUS
<1>2. \A k \in 1 .. Len(s) : t[k] \in S
  BY <1>1
<1>3. Len(s) \in Nat
  OBVIOUS
<1>4. t \in Seq(S) /\ Len(t) = Len(s)
  <2> HIDE DEF t
  <2> QED
    BY <1>1, <1>2, <1>3
<1>5. QED
  BY <1>4

LEMMA MapSeq ==
  ASSUME NEW S, NEW s \in Seq(S), NEW t, DOMAIN t = DOMAIN s,
         t = [i \in DOMAIN s |-> t[i]], \A i \in DOMAIN s : t[i] \in S
  PROVE  t \in Seq(S) /\ Len(t) = Len(s)
  OBVIOUS

LEMMA Texts ==
  /\ <<>> \in Text
  /\ \A s, t \in Text : s \o t \in Text
  /\ \A s \in Text, w \in Nat : Append(s, w) \in Text
  BY DEF Text

LEMMA FieldTypes ==
  ASSUME NEW p \in Parser
  PROVE  /\ p.blocks \in Seq(Block) /\ p.buffer \in Text /\ p.items \in Text
         /\ p.rows \in Text /\ p.cells \in Text /\ p.title \in Text
         /\ p.leaves \in Seq(LeafTags) /\ p.chromes \in Seq(ChromeTags)
         /\ p.controls \in Seq(Control) /\ p.anchors \in Seq(Anchor)
         /\ p.links \in Seq(Text) /\ p.fields \in Seq(Field)
         /\ p.buttons \in Seq(Button) /\ p.forms \in Seq(Form)
         /\ p.formStack \in Seq(Nat) /\ p.labels \in [Keys -> Text]
         /\ p.labelled \in SUBSET Keys /\ p.listDepth \in Nat
         /\ p.tableDepth \in Nat /\ p.skipDepth \in Nat /\ p.nonContent \in Nat
         /\ p.skipTag \in SkipTags \cup {""}
  BY DEF Parser

LEMMA NewParserType == NewParser \in Parser
  BY DEF Parser, NewParser, Text, SkipTags

LEMMA HandleDataType ==
  ASSUME NEW p \in Parser, NEW w \in Nat
  PROVE  HandleData(p, w) \in Parser
<1> DEFINE cs == [i \in DOMAIN p.controls |->
                    [p.controls[i] EXCEPT !.text = Append(@, w)]]
           as == [i \in DOMAIN p.anchors |->
                    [p.anchors[i] EXCEPT !.text = Append(@, w)]]
           b == Append(p.buffer, w)
<1>1. p.controls \in Seq(Control) /\ p.anchors \in Seq(Anchor) /\ b \in Text
  BY FieldTypes, Texts
<1>2. ASSUME NEW i \in DOMAIN p.controls
      PROVE  cs[i] \in Control
  <2>1. p.controls[i] \in Control
    BY <1>1
  <2>2. Append(p.controls[i].text, w) \in Text
    BY <2>1, Texts DEF Control
  <2>3. QED
    BY <2>1, <2>2 DEF Control
<1>3. ASSUME NEW i \in DOMAIN p.anchors
      PROVE  as[i] \in Anchor
  <2>1. p.anchors[i] \in Anchor
    BY <1>1
  <2>2. Append(p.anchors[i].text, w) \in Text
    BY <2>1, Texts DEF Anchor
  <2>3. QED
    BY <2>1, <2>2 DEF Anchor
<1>4. cs \in Seq(Control) /\ as \in Seq(Anchor)
  <2>1. DOMAIN cs = DOMAIN p.controls /\ DOMAIN as = DOMAIN p.anchors
    OBVIOUS
  <2>2. cs = [i \in DOMAIN p.controls |-> cs[i]] /\ as = [i \in DOMAIN p.anchors |-> as[i]]
    OBVIOUS
  <2> HIDE DEF cs, as
  <2>3. QED
    BY <1>1, <1>2, <1>3, <2>1, <2>2, MapSeq
<1>5. HandleData(p, w) = IF p.skipDepth > 0 THEN p
                         ELSE IF p.controls # <<>> THEN [p EXCEPT !.controls = cs]
                         ELSE [p EXCEPT !.buffer = b, !.anchors = as]
  BY <1>1 DEF HandleData, Parser
<1> HIDE DEF cs, as, b
<1>6. [p EXCEPT !.controls = cs] \in Parser
  BY <1>4 DEF Parser
<1>7. [p EXCEPT !.buffer = b, !.anchors = as] \in Parser
  BY <1>1, <1>4 DEF Parser
<1>8. QED
  BY <1>5, <1>6, <1>7

LEMMA AddBlockType ==
  ASSUME NEW p \in Parser, NEW text \in Text,
         NEW kind \in {"heading", "code", "paragraph", "list", "table"}
  PROVE  AddBlock(p, kind, text) \in Parser
<1>1. [kind |-> kind, text |-> text, chrome |-> p.chromes # <<>>] \in Block
  BY DEF Block
<1>2. Append(p.blocks, [kind |-> kind, text |-> text, chrome |-> p.chromes # <<>>])
        \in Seq(Block)
  <2>1. p.blocks \in Seq(Block)
    BY FieldTypes
  <2>2. QED
    BY <1>1, <2>1, AppendProperties
<1>3. QED
  BY <1>2 DEF AddBlock, Parser

LEMMA FlushType ==
  ASSUME NEW p \in Parser
  PROVE  Flush(p) \in Parser
<1> DEFINE emptied == [p EXCEPT !.buffer = <<>>]
           kind == IF Role(p) \in {"heading", "code"} THEN Role(p) ELSE "paragraph"
<1>1. emptied \in Parser /\ p.buffer \in Text /\ p.items \in Text /\ p.cells \in Text
  BY FieldTypes, Texts DEF Parser
<1>2. emptied.cells = p.cells /\ emptied.items = p.items
  BY DEF Parser
<1>3. p.cells \o p.buffer \in Text /\ p.items \o p.buffer \in Text
  BY <1>1, Texts
<1>4. /\ [emptied EXCEPT !.cells = p.cells \o p.buffer] \in Parser
      /\ [emptied EXCEPT !.items = p.items \o p.buffer] \in Parser
  <2> HIDE DEF emptied
  <2> QED
    BY <1>1, <1>3 DEF Parser
<1>5. AddBlock(emptied, kind, p.buffer) \in Parser
  <2>1. kind \in {"heading", "code", "paragraph", "list", "table"}
    OBVIOUS
  <2> HIDE DEF emptied, kind
  <2> QED
    BY <1>1, <2>1, AddBlockType
<1>6. Flush(p) \in {p, [emptied EXCEPT !.cells = p.cells \o p.buffer],
                    [emptied EXCEPT !.items = p.items \o p.buffer],
                    AddBlock(emptied, kind, p.buffer)}
  BY <1>2 DEF Flush
<1>7. QED
  BY <1>4, <1>5, <1>6

LEMMA OpenLeafType ==
  ASSUME NEW p \in Parser, NEW tag \in LeafTags
  PROVE  OpenLeaf(p, tag) \in Parser
<1>1. Flush(p) \in Parser
  BY FlushType
<1>2. Append(Flush(p).leaves, tag) \in Seq(LeafTags)
  <2>1. Flush(p).leaves \in Seq(LeafTags)
    BY <1>1, FieldTypes
  <2>2. QED
    BY <2>1, AppendProperties
<1>3. QED
  BY <1>1, <1>2 DEF OpenLeaf, Parser

LEMMA CloseLeafType ==
  ASSUME NEW p \in Parser, NEW tag
  PROVE  CloseLeaf(p, tag) \in Parser
<1>1. Flush(p) \in Parser
  BY FlushType
<1>2. Flush(p).leaves \in Seq(LeafTags)
  BY <1>1 DEF Parser
<1>3. Flush(p).leaves # <<>> => Pop(Flush(p).leaves) \in Seq(LeafTags)
  BY <1>2, PopSeq
<1>4. QED
  BY <1>1, <1>3 DEF CloseLeaf, Parser

LEMMA CloseChromeType ==
  ASSUME NEW p \in Parser, NEW tag
  PROVE  CloseChrome(p, tag) \in Parser
<1>1. Flush(p) \in Parser
  BY FlushType
<1>2. Flush(p).chromes \in Seq(ChromeTags)
  BY <1>1 DEF Parser
<1>3. Flush(p).chromes # <<>> => Pop(Flush(p).chromes) \in Seq(ChromeTags)
  BY <1>2, PopSeq
<1>4. QED
  BY <1>1, <1>3 DEF CloseChrome, Parser

LEMMA CloseRowType ==
  ASSUME NEW p \in Parser
  PROVE  CloseRow(p) \in Parser
<1>1. p.rows \o p.cells \in Text /\ <<>> \in Text
  BY FieldTypes, Texts
<1>2. QED
  BY <1>1 DEF CloseRow, Parser

LEMMA CloseListType ==
  ASSUME NEW p \in Parser
  PROVE  CloseList(p) \in Parser
<1> DEFINE q == Flush(p)
           emitted == IF q.items = <<>> THEN q
                      ELSE [AddBlock(q, "list", q.items) EXCEPT !.items = <<>>]
<1>1. q \in Parser
  BY FlushType
<1>2. q.items \in Text /\ q.listDepth \in Nat
  BY <1>1 DEF Parser
<1>3. AddBlock(q, "list", q.items) \in Parser
  <2> HIDE DEF q
  <2> QED
    BY <1>1, <1>2, AddBlockType
<1>4. emitted \in Parser
  <2> HIDE DEF q
  <2> QED
    BY <1>1, <1>3, Texts DEF Parser
<1>0. q.listDepth > 1 => q.listDepth - 1 \in Nat
  <2> HIDE DEF q
  <2> QED
    BY <1>2
<1>5. CloseList(p) = IF q.listDepth <= 1 THEN [emitted EXCEPT !.listDepth = 0]
                     ELSE [q EXCEPT !.listDepth = q.listDepth - 1]
  BY DEF CloseList
<1> HIDE DEF q, emitted
<1>6. [emitted EXCEPT !.listDepth = 0] \in Parser
  BY <1>4 DEF Parser
<1>7. q.listDepth > 1 => [q EXCEPT !.listDepth = q.listDepth - 1] \in Parser
  BY <1>0, <1>1 DEF Parser
<1>8. QED
  BY <1>2, <1>5, <1>6, <1>7

LEMMA CloseTableType ==
  ASSUME NEW p \in Parser
  PROVE  CloseTable(p) \in Parser
<1> DEFINE q == CloseRow(Flush(p))
           emitted == IF q.rows = <<>> THEN q
                      ELSE [AddBlock(q, "table", q.rows) EXCEPT !.rows = <<>>]
<1>1. q \in Parser
  BY FlushType, CloseRowType
<1>2. q.rows \in Text /\ q.tableDepth \in Nat
  BY <1>1 DEF Parser
<1>3. AddBlock(q, "table", q.rows) \in Parser
  <2> HIDE DEF q
  <2> QED
    BY <1>1, <1>2, AddBlockType
<1>4. emitted \in Parser
  <2> HIDE DEF q
  <2> QED
    BY <1>1, <1>3, Texts DEF Parser
<1>0. q.tableDepth > 1 => q.tableDepth - 1 \in Nat
  <2> HIDE DEF q
  <2> QED
    BY <1>2
<1>5. CloseTable(p) = IF q.tableDepth <= 1 THEN [emitted EXCEPT !.tableDepth = 0]
                      ELSE [q EXCEPT !.tableDepth = q.tableDepth - 1]
  BY DEF CloseTable
<1> HIDE DEF q, emitted
<1>6. [emitted EXCEPT !.tableDepth = 0] \in Parser
  BY <1>4 DEF Parser
<1>7. q.tableDepth > 1 => [q EXCEPT !.tableDepth = q.tableDepth - 1] \in Parser
  BY <1>0, <1>1 DEF Parser
<1>8. QED
  BY <1>2, <1>5, <1>6, <1>7

LEMMA SkipTypes ==
  ASSUME NEW p \in Parser
  PROVE  /\ [p EXCEPT !.skipDepth = @ + 1] \in Parser
         /\ p.skipDepth > 0 => ExitSkip(p) \in Parser
         /\ \A t \in SkipTags : EnterSkip(p, t) \in Parser
<1> DEFINE q == Flush(p)
<1>1. q \in Parser
  BY FlushType
<1>0. p.skipDepth \in Nat /\ p.skipTag \in SkipTags \cup {""}
  BY FieldTypes
<1>2. p.skipDepth + 1 \in Nat /\ (p.skipDepth > 0 => p.skipDepth - 1 \in Nat)
  <2>1. p.skipDepth \in Nat
    BY <1>0
  <2>2. QED
    BY <2>1
<1>3. [p EXCEPT !.skipDepth = @ + 1] \in Parser
  <2>1. \A d \in Nat : [p EXCEPT !.skipDepth = d] \in Parser
    BY DEF Parser
  <2>2. QED
    BY <1>2, <2>1
<1>4. p.skipDepth > 0 => ExitSkip(p) \in Parser
  <2>1. \A d \in Nat, t \in SkipTags \cup {""} :
          [p EXCEPT !.skipDepth = d, !.skipTag = t] \in Parser
    BY DEF Parser
  <2>2. QED
    BY <1>0, <1>2, <2>1 DEF ExitSkip
<1>5. ASSUME NEW t \in SkipTags
      PROVE  EnterSkip(p, t) \in Parser
  <2>0. q.nonContent \in Nat
    BY <1>1, FieldTypes
  <2>1. q.nonContent + 1 \in Nat
    <3> HIDE DEF q
    <3> QED
      BY <2>0
  <2>2. EnterSkip(p, t)
          = [q EXCEPT !.skipTag = t, !.skipDepth = 1, !.nonContent = @ + 1]
    BY DEF EnterSkip
  <2> HIDE DEF q
  <2>3. \A n \in Nat :
          [q EXCEPT !.skipTag = t, !.skipDepth = 1, !.nonContent = n] \in Parser
    BY <1>1 DEF Parser
  <2>4. QED
    BY <2>1, <2>2, <2>3
<1>6. QED
  BY <1>3, <1>4, <1>5

LEMMA NestingTypes ==
  ASSUME NEW p \in Parser
  PROVE  /\ [Flush(p) EXCEPT !.listDepth = @ + 1] \in Parser
         /\ [Flush(p) EXCEPT !.tableDepth = @ + 1] \in Parser
         /\ \A t \in ChromeTags : [Flush(p) EXCEPT !.chromes = Append(@, t)] \in Parser
<1> DEFINE q == Flush(p)
<1>1. q \in Parser
  BY FlushType
<1>0. q.listDepth \in Nat /\ q.tableDepth \in Nat
  BY <1>1, FieldTypes
<1>2. q.listDepth + 1 \in Nat /\ q.tableDepth + 1 \in Nat
  <2> HIDE DEF q
  <2> QED
    BY <1>0
<1>3. \A t \in ChromeTags : Append(q.chromes, t) \in Seq(ChromeTags)
  <2>1. q.chromes \in Seq(ChromeTags)
    BY <1>1, FieldTypes
  <2>2. QED
    BY <2>1, AppendProperties
<1> HIDE DEF q
<1>4. /\ [q EXCEPT !.listDepth = @ + 1] \in Parser
      /\ [q EXCEPT !.tableDepth = @ + 1] \in Parser
      /\ \A t \in ChromeTags : [q EXCEPT !.chromes = Append(@, t)] \in Parser
  BY <1>1, <1>2, <1>3 DEF Parser
<1>5. QED
  BY <1>4 DEF q

LEMMA FormTypes ==
  ASSUME NEW p \in Parser
  PROVE  OpenForm(p) \in Parser /\ CloseForm(p) \in Parser
<1> DEFINE q == Flush(p)
           form == [fields |-> <<>>, buttons |-> <<>>]
<1>1. q \in Parser
  BY FlushType
<1>2. q.forms \in Seq(Form) /\ q.formStack \in Seq(Nat)
  BY <1>1, FieldTypes
<1>3. form \in Form
  BY DEF Form
<1>4. Append(q.forms, form) \in Seq(Form)
  BY <1>2, <1>3, AppendProperties
<1>5. Len(q.forms) + 1 \in Nat
  BY <1>2, LenProperties
<1>6. Append(q.formStack, Len(q.forms) + 1) \in Seq(Nat)
  BY <1>2, <1>5, AppendProperties
<1>7. q.formStack # <<>> => Pop(q.formStack) \in Seq(Nat)
  BY <1>2, PopSeq
<1>8. /\ OpenForm(p) = [q EXCEPT !.forms = Append(@, form),
                                 !.formStack = Append(@, Len(q.forms) + 1)]
      /\ CloseForm(p) = IF q.formStack = <<>> THEN q
                        ELSE [q EXCEPT !.formStack = Pop(@)]
  BY DEF OpenForm, CloseForm
<1> HIDE DEF q, form
<1>9. \A fs \in Seq(Form), st \in Seq(Nat) :
        [q EXCEPT !.forms = fs, !.formStack = st] \in Parser
  BY <1>1 DEF Parser
<1>10. \A st \in Seq(Nat) : [q EXCEPT !.formStack = st] \in Parser
  BY <1>1 DEF Parser
<1>11. QED
  BY <1>1, <1>4, <1>6, <1>7, <1>8, <1>9, <1>10

LEMMA CurrentFormType ==
  ASSUME NEW p \in Parser
  PROVE  CurrentForm(p) \in Nat
<1>1. p.formStack \in Seq(Nat)
  BY FieldTypes
<1>2. p.formStack # <<>> => Last(p.formStack) \in Nat
  BY <1>1, PopSeq
<1>3. QED
  BY <1>2 DEF CurrentForm

\* What registering a control in the current form makes of the parser.
LEMMA RegisterTypes ==
  ASSUME NEW p \in Parser, NEW i \in Nat
  PROVE  RegisterField(p, i) \in Parser /\ RegisterButton(p, i) \in Parser
<1> DEFINE f == CurrentForm(p)
           fs == [p.forms EXCEPT ![f].fields = Append(@, i)]
           bs == [p.forms EXCEPT ![f].buttons = Append(@, i)]
<1>1. p.forms \in Seq(Form)
  BY FieldTypes
<1>2. fs \in Seq(Form)
  <2>1. f \in DOMAIN p.forms =>
          [p.forms[f] EXCEPT !.fields = Append(@, i)] \in Form
    <3> HIDE DEF f
    <3>1. f \in DOMAIN p.forms => p.forms[f] \in Form
      BY <1>1
    <3>2. QED
      BY <3>1, AppendProperties DEF Form
  <2>2. fs = [p.forms EXCEPT ![f] = [p.forms[f] EXCEPT !.fields = Append(@, i)]]
    OBVIOUS
  <2> HIDE DEF f, fs
  <2>3. QED
    BY <1>1, <2>1, <2>2, UpdateSeq
<1>3. bs \in Seq(Form)
  <2>1. f \in DOMAIN p.forms =>
          [p.forms[f] EXCEPT !.buttons = Append(@, i)] \in Form
    <3> HIDE DEF f
    <3>1. f \in DOMAIN p.forms => p.forms[f] \in Form
      BY <1>1
    <3>2. QED
      BY <3>1, AppendProperties DEF Form
  <2>2. bs = [p.forms EXCEPT ![f] = [p.forms[f] EXCEPT !.buttons = Append(@, i)]]
    OBVIOUS
  <2> HIDE DEF f, bs
  <2>3. QED
    BY <1>1, <2>1, <2>2, UpdateSeq
<1>4. /\ RegisterField(p, i) = IF p.formStack = <<>> THEN p ELSE [p EXCEPT !.forms = fs]
      /\ RegisterButton(p, i) = IF p.formStack = <<>> THEN p ELSE [p EXCEPT !.forms = bs]
  BY DEF RegisterField, RegisterButton, Parser
<1> HIDE DEF fs, bs, f
<1>5. \A s \in Seq(Form) : [p EXCEPT !.forms = s] \in Parser
  BY DEF Parser
<1>6. QED
  BY <1>2, <1>3, <1>4, <1>5

LEMMA ControlTypes ==
  ASSUME NEW p \in Parser, NEW key \in Keys \cup {NoKey}
  PROVE  /\ AddField(p, key) \in Parser
         /\ AddButton(p) \in Parser
         /\ \A tag \in ControlTextTags : OpenControl(p, tag, key) \in Parser
<1> DEFINE f == CurrentForm(p)
           fields == Append(p.fields, [id |-> key, form |-> f])
           buttons == Append(p.buttons, [text |-> <<>>, form |-> f])
<1>1. [id |-> key, form |-> f] \in Field /\ [text |-> <<>>, form |-> f] \in Button
  BY CurrentFormType, Texts DEF Field, Button
<1>2. p.fields \in Seq(Field) /\ p.buttons \in Seq(Button)
  BY FieldTypes
<1>3. fields \in Seq(Field) /\ buttons \in Seq(Button)
  BY <1>1, <1>2, AppendProperties
<1>4. [p EXCEPT !.fields = fields] \in Parser /\ [p EXCEPT !.buttons = buttons] \in Parser
  <2> HIDE DEF fields, buttons
  <2> QED
    BY <1>3 DEF Parser
<1>5. /\ AddField(p, key) \in Parser
      /\ AddButton(p) \in Parser
  <2>1. /\ AddField(p, key) = RegisterField([p EXCEPT !.fields = fields], Len(fields))
        /\ AddButton(p) = RegisterButton([p EXCEPT !.buttons = buttons], Len(buttons))
    BY DEF AddField, AddButton, Parser
  <2>2. Len(fields) \in Nat /\ Len(buttons) \in Nat
    <3> HIDE DEF fields, buttons
    <3> QED
      BY <1>3, LenProperties
  <2> HIDE DEF fields, buttons
  <2>3. QED
    BY <1>4, <2>1, <2>2, RegisterTypes
<1>6. ASSUME NEW tag \in ControlTextTags
      PROVE  OpenControl(p, tag, key) \in Parser
  <2> DEFINE q == CASE tag = "button" -> AddButton(p)
                    [] tag = "textarea" -> AddField(p, key)
                    [] OTHER -> p
             c == [tag |-> tag, text |-> <<>>,
                   key |-> IF tag = "label" THEN key ELSE NoKey,
                   button |-> IF tag = "button" THEN Len(q.buttons) ELSE 0]
  <2>1. q \in Parser
    BY <1>5
  <2>2. Len(q.buttons) \in Nat
    <3> HIDE DEF q
    <3>1. q.buttons \in Seq(Button)
      BY <2>1, FieldTypes
    <3>2. QED
      BY <3>1, LenProperties
  <2>3. c \in Control
    <3> HIDE DEF q
    <3> QED
      BY <2>2, Texts DEF Control
  <2>4. Append(q.controls, c) \in Seq(Control)
    <3> HIDE DEF q, c
    <3>1. q.controls \in Seq(Control)
      BY <2>1, FieldTypes
    <3>2. QED
      BY <2>3, <3>1, AppendProperties
  <2>5. OpenControl(p, tag, key) = [q EXCEPT !.controls = Append(@, c)]
    BY DEF OpenControl
  <2> HIDE DEF q, c
  <2>6. QED
    BY <2>1, <2>4, <2>5 DEF Parser
<1>7. QED
  BY <1>5, <1>6

LEMMA CloseControlType ==
  ASSUME NEW p \in Parser, p.controls # <<>>
  PROVE  CloseControl(p) \in Parser
<1> DEFINE c == Last(p.controls)
           q == [p EXCEPT !.controls = Pop(@)]
           labels == [p.labels EXCEPT ![c.key] = c.text]
           buttons == [p.buttons EXCEPT ![c.button].text = c.text]
<1>1. p.controls \in Seq(Control)
  BY FieldTypes
<1>2. c \in Control /\ Pop(p.controls) \in Seq(Control)
  BY <1>1, PopSeq
<1>3. q \in Parser
  BY <1>2 DEF Parser
<1>4. c.text \in Text
  <2> HIDE DEF c
  <2> QED
    BY <1>2 DEF Control
<1>5. labels \in [Keys -> Text]
  <2>1. p.labels \in [Keys -> Text]
    BY FieldTypes
  <2> HIDE DEF c
  <2>2. QED
    BY <1>4, <2>1
<1>6. buttons \in Seq(Button)
  <2>1. p.buttons \in Seq(Button)
    BY FieldTypes
  <2> HIDE DEF c
  <2>2. c.button \in DOMAIN p.buttons =>
          [p.buttons[c.button] EXCEPT !.text = c.text] \in Button
    <3>1. c.button \in DOMAIN p.buttons => p.buttons[c.button] \in Button
      BY <2>1
    <3>2. QED
      BY <1>4, <3>1 DEF Button
  <2>3. buttons = [p.buttons EXCEPT ![c.button]
                     = [p.buttons[c.button] EXCEPT !.text = c.text]]
    OBVIOUS
  <2> HIDE DEF buttons
  <2>4. QED
    BY <2>1, <2>2, <2>3, UpdateSeq
<1>7. p.labelled \in SUBSET Keys
  BY FieldTypes
<1>8. /\ q.labels = p.labels /\ q.labelled = p.labelled
      /\ q.buttons = p.buttons /\ q.title = p.title
  BY DEF Parser
<1>9. CloseControl(p) \in
        {q, [q EXCEPT !.title = c.text],
         IF c.key \in Keys
           THEN [q EXCEPT !.labels = labels, !.labelled = p.labelled \cup {c.key}]
           ELSE q,
         [q EXCEPT !.buttons = buttons]}
  <2> HIDE DEF c
  <2>1. /\ [q EXCEPT !.labels[c.key] = c.text, !.labelled = @ \cup {c.key}]
             = [q EXCEPT !.labels = labels, !.labelled = p.labelled \cup {c.key}]
        /\ [q EXCEPT !.buttons[c.button].text = c.text] = [q EXCEPT !.buttons = buttons]
    <3> HIDE DEF q
    <3> QED
      BY <1>8
  <2>2. CloseControl(p) =
          CASE c.tag = "title" /\ p.title = <<>> -> [q EXCEPT !.title = c.text]
            [] c.tag = "label" /\ c.key \in Keys \ p.labelled ->
                 [q EXCEPT !.labels[c.key] = c.text, !.labelled = @ \cup {c.key}]
            [] c.tag = "button" -> [q EXCEPT !.buttons[c.button].text = c.text]
            [] OTHER -> q
    BY DEF CloseControl, c
  <2> HIDE DEF q, labels, buttons
  <2>3. QED
    BY <2>1, <2>2
<1> HIDE DEF c, q, labels, buttons
<1>10. \A t \in Text : [q EXCEPT !.title = t] \in Parser
  BY <1>3 DEF Parser
<1>11. \A ls \in [Keys -> Text], ks \in SUBSET Keys :
         [q EXCEPT !.labels = ls, !.labelled = ks] \in Parser
  BY <1>3 DEF Parser
<1>12. \A bs \in Seq(Button) : [q EXCEPT !.buttons = bs] \in Parser
  BY <1>3 DEF Parser
<1>13. QED
  BY <1>3, <1>4, <1>5, <1>6, <1>7, <1>9, <1>10, <1>11, <1>12

LEMMA AnchorTypes ==
  ASSUME NEW p \in Parser
  PROVE  OpenAnchor(p) \in Parser /\ CloseAnchor(p) \in Parser
<1>1. p.links \in Seq(Text) /\ p.anchors \in Seq(Anchor)
  BY FieldTypes
<1>2. OpenAnchor(p) \in Parser
  <2> DEFINE links == Append(p.links, <<>>)
             a == [link |-> Len(links), text |-> <<>>]
             anchors == Append(p.anchors, a)
  <2>1. links \in Seq(Text) /\ Len(links) \in Nat
    BY <1>1, Texts, AppendProperties, LenProperties
  <2>2. a \in Anchor
    <3> HIDE DEF links
    <3> QED
      BY <2>1, Texts DEF Anchor
  <2>3. anchors \in Seq(Anchor)
    <3> HIDE DEF a
    <3> QED
      BY <1>1, <2>2, AppendProperties
  <2>4. OpenAnchor(p) = [p EXCEPT !.links = links, !.anchors = anchors]
    BY DEF OpenAnchor, Parser
  <2> HIDE DEF links, anchors
  <2>5. QED
    BY <2>1, <2>3, <2>4 DEF Parser
<1>3. ASSUME p.anchors # <<>>
      PROVE  CloseAnchor(p) \in Parser
  <2> DEFINE a == Last(p.anchors)
             links == [p.links EXCEPT ![a.link] = a.text]
  <2>1. a \in Anchor /\ Pop(p.anchors) \in Seq(Anchor)
    BY <1>1, <1>3, PopSeq
  <2>2. a.text \in Text
    <3> HIDE DEF a
    <3> QED
      BY <2>1 DEF Anchor
  <2>3. links \in Seq(Text)
    <3> HIDE DEF a
    <3> QED
      BY <1>1, <2>2, UpdateSeq
  <2>4. CloseAnchor(p) = [p EXCEPT !.links = links, !.anchors = Pop(@)]
    BY <1>3 DEF CloseAnchor
  <2> HIDE DEF a, links
  <2>5. QED
    BY <2>1, <2>3, <2>4 DEF Parser
<1>4. p.anchors = <<>> => CloseAnchor(p) \in Parser
  BY DEF CloseAnchor
<1>5. QED
  BY <1>2, <1>3, <1>4

-----------------------------------------------------------------------------
(* Steps.  A turn is what a tag, or the closing of one control or link at  *)
(* the end, makes of the parser.                                           *)

FormTurn(p, q) ==
  \/ q = OpenForm(p) \/ q = CloseForm(p) \/ q = AddButton(p)
  \/ \E key \in Keys \cup {NoKey} :
       q = AddField(p, key) \/ \E t \in ControlTextTags : q = OpenControl(p, t, key)
  \/ p.controls # <<>> /\ q = CloseControl(p)

TextTurn(p, q) ==
  \/ q = Flush(p) \/ q = CloseRow(Flush(p)) \/ q = CloseList(p) \/ q = CloseTable(p)
  \/ q = [Flush(p) EXCEPT !.listDepth = @ + 1]
  \/ q = [Flush(p) EXCEPT !.tableDepth = @ + 1]
  \/ \E t \in LeafTags : q = OpenLeaf(p, t) \/ q = CloseLeaf(p, t)
  \/ \E t \in ChromeTags :
       q = [Flush(p) EXCEPT !.chromes = Append(@, t)] \/ q = CloseChrome(p, t)
  \/ \E t \in SkipTags : q = EnterSkip(p, t)

AsideTurn(p, q) ==
  \/ q = p
  \/ q = [p EXCEPT !.skipDepth = @ + 1]
  \/ p.skipDepth > 0 /\ q = ExitSkip(p)
  \/ q = OpenAnchor(p) \/ q = CloseAnchor(p)

Turn(p, q) == FormTurn(p, q) \/ TextTurn(p, q) \/ AsideTurn(p, q)

LEMMA StartTurns ==
  ASSUME Start
  PROVE  Turn(parser, parser') /\ Fed /\ UNCHANGED <<phase, words, readable>>
<1>1. CASE StartAnchor
  BY <1>1 DEF StartAnchor, Outside, Tag, Turn, AsideTurn
<1>2. CASE StartForm
  BY <1>2 DEF StartForm, Outside, Tag, Turn, FormTurn
<1>3. CASE StartButtonInput
  BY <1>3 DEF StartButtonInput, Outside, Tag, Turn, FormTurn
<1>4. CASE StartTable
  BY <1>4 DEF StartTable, Outside, Tag, Turn, TextTurn
<1>5. ASSUME NEW t \in Tags, StartSame(t) \/ StartSkipped(t) \/ StartLeaf(t)
                 \/ StartList(t) \/ StartChrome(t) \/ StartOther(t)
      PROVE  Turn(parser, parser') /\ Fed /\ UNCHANGED <<phase, words, readable>>
  <2>1. CASE StartSame(t)
    <3>1. AsideTurn(parser, parser')
      BY <2>1, Zenon DEF StartSame, AsideTurn
    <3>2. QED
      BY <2>1, <3>1 DEF StartSame, Tag, Turn
  <2>2. CASE StartSkipped(t)
    BY <2>2 DEF StartSkipped, Outside, Tag, Turn, TextTurn
  <2>3. CASE StartLeaf(t)
    BY <2>3 DEF StartLeaf, Outside, Tag, Turn, TextTurn
  <2>4. CASE StartList(t)
    BY <2>4 DEF StartList, Outside, Tag, Turn, TextTurn
  <2>5. CASE StartChrome(t)
    BY <2>5 DEF StartChrome, Outside, Tag, Turn, TextTurn
  <2>6. CASE StartOther(t)
    BY <2>6 DEF StartOther, Outside, Tag, Turn, TextTurn
  <2>7. QED
    BY <1>5, <2>1, <2>2, <2>3, <2>4, <2>5, <2>6
<1>6. ASSUME NEW t \in Tags, NEW key \in Keys \cup {NoKey},
             StartControl(t, key) \/ StartField(t, key)
      PROVE  Turn(parser, parser') /\ Fed /\ UNCHANGED <<phase, words, readable>>
  BY <1>6 DEF StartControl, StartField, Outside, Tag, Turn, FormTurn
<1>7. QED
  BY <1>1, <1>2, <1>3, <1>4, <1>5, <1>6 DEF Start

LEMMA EndTurns ==
  ASSUME End
  PROVE  Turn(parser, parser') /\ Fed /\ UNCHANGED <<phase, words, readable>>
<1>1. CASE EndAnchor
  BY <1>1 DEF EndAnchor, Outside, Tag, Turn, AsideTurn
<1>2. CASE EndRow
  BY <1>2 DEF EndRow, Outside, Tag, Turn, TextTurn
<1>3. CASE EndTable
  BY <1>3 DEF EndTable, Outside, Tag, Turn, TextTurn
<1>4. CASE EndForm
  BY <1>4 DEF EndForm, Outside, Tag, Turn, FormTurn
<1>5. ASSUME NEW t \in Tags, EndSkipped(t) \/ EndControl(t) \/ EndLeaf(t)
                 \/ EndList(t) \/ EndChrome(t) \/ EndOther(t)
      PROVE  Turn(parser, parser') /\ Fed /\ UNCHANGED <<phase, words, readable>>
  <2>1. CASE EndSkipped(t)
    BY <2>1 DEF EndSkipped, Skipping, Tag, Turn, AsideTurn
  <2>2. CASE EndControl(t)
    BY <2>2 DEF EndControl, ClosesControl, Outside, Tag, Turn, FormTurn
  <2>3. CASE EndLeaf(t)
    BY <2>3 DEF EndLeaf, Outside, Tag, Turn, TextTurn
  <2>4. CASE EndList(t)
    BY <2>4 DEF EndList, Outside, Tag, Turn, TextTurn
  <2>5. CASE EndChrome(t)
    BY <2>5 DEF EndChrome, Outside, Tag, Turn, TextTurn
  <2>6. CASE EndOther(t)
    BY <2>6 DEF EndOther, Outside, Tag, Turn, TextTurn
  <2>7. QED
    BY <1>5, <2>1, <2>2, <2>3, <2>4, <2>5, <2>6
<1>6. QED
  BY <1>1, <1>2, <1>3, <1>4, <1>5 DEF End

\* A step is a word, the closing of the document, or a turn of the parser that
\* adds no word.
LEMMA StepCases ==
  ASSUME Next
  PROVE  \/ Word
         \/ Close
         \/ /\ Turn(parser, parser')
            /\ UNCHANGED <<words, readable>>
            /\ phase # "closed" /\ phase' # "closed"
            /\ phase' \in {"open", "closing"}
            /\ tokens' = tokens \/ Fed
<1>1. CASE Start
  BY <1>1, StartTurns DEF Fed
<1>2. CASE End
  BY <1>2, EndTurns DEF Fed
<1>3. CASE EndOfDocument
  BY <1>3 DEF EndOfDocument, Turn, AsideTurn
<1>4. CASE CloseOpenOne
  BY <1>4 DEF CloseOpenOne, Turn, AsideTurn, FormTurn
<1>5. QED
  BY <1>1, <1>2, <1>3, <1>4 DEF Next

LEMMA TurnType ==
  ASSUME NEW p \in Parser, NEW q, Turn(p, q)
  PROVE  q \in Parser
<1>1. CASE FormTurn(p, q)
  BY <1>1, FormTypes, ControlTypes, CloseControlType DEF FormTurn
<1>2. CASE TextTurn(p, q)
  <2>1. Flush(p) \in Parser
    BY FlushType
  <2>2. QED
    BY <1>2, <2>1, CloseRowType, CloseListType, CloseTableType, NestingTypes,
       OpenLeafType, CloseLeafType, CloseChromeType, SkipTypes DEF TextTurn
<1>3. CASE AsideTurn(p, q)
  BY <1>3, SkipTypes, AnchorTypes DEF AsideTurn
<1>4. QED
  BY <1>1, <1>2, <1>3 DEF Turn

\* What close() leaves of the parser.
Ended(p) == OutermostTable(OutermostList(CloseRow(Flush(p))))

LEMMA EndedType ==
  ASSUME NEW p \in Parser
  PROVE  Ended(p) \in Parser
<1>1. CloseRow(Flush(p)) \in Parser
  BY FlushType, CloseRowType
<1>2. ASSUME NEW q \in Parser
      PROVE  OutermostList(q) \in Parser /\ OutermostTable(q) \in Parser
  <2>1. [q EXCEPT !.listDepth = 1] \in Parser /\ [q EXCEPT !.tableDepth = 1] \in Parser
    BY DEF Parser
  <2>2. QED
    BY <2>1, CloseListType, CloseTableType DEF OutermostList, OutermostTable
<1>3. QED
  BY <1>1, <1>2 DEF Ended

\* For any document: the parser's state has its type, its depths are never
\* below zero, and readable words are words that were met.
\* (class _PageParser)
THEOREM TypeCorrect == Spec => []TypeOK
<1> DEFINE T == parser \in Parser /\ phase \in {"open", "closing", "closed"}
                /\ tokens \in 0 .. MaxTokens /\ words \in 0 .. tokens
                /\ readable \subseteq 1 .. words
<1>1. Init => T
  BY NewParserType, BoundsAssumption DEF Init
<1>2. T /\ [Next]_vars => T'
  <2> SUFFICES ASSUME T, [Next]_vars
               PROVE  T'
    OBVIOUS
  <2>1. CASE UNCHANGED vars
    BY <2>1 DEF vars
  <2>2. CASE Word
    <3>1. words + 1 \in Nat
      OBVIOUS
    <3>2. parser' \in Parser
      BY <2>2, <3>1, HandleDataType DEF Word
    <3>3. tokens' \in 0 .. MaxTokens /\ words' \in 0 .. tokens'
      BY <2>2, BoundsAssumption DEF Word, Fed
    <3>4. readable' \subseteq 1 .. words'
      BY <2>2 DEF Word, Fed
    <3>5. QED
      BY <2>2, <3>2, <3>3, <3>4 DEF Word
  <2>3. CASE Close
    BY <2>3, EndedType DEF Close, Ended
  <2>4. CASE /\ Turn(parser, parser') /\ UNCHANGED <<words, readable>>
             /\ phase' \in {"open", "closing"}
             /\ tokens' = tokens \/ Fed
    <3>1. parser' \in Parser
      BY <2>4, TurnType
    <3>2. tokens' \in 0 .. MaxTokens /\ words' \in 0 .. tokens'
      BY <2>4, BoundsAssumption DEF Fed
    <3>3. QED
      BY <2>4, <3>1, <3>2
  <2>5. QED
    BY <2>1, <2>2, <2>3, <2>4, StepCases
<1>3. T <=> TypeOK
  BY DEF TypeOK, Parser, Anchor, Field, Button, Form
<1>4. QED
  BY <1>1, <1>2, <1>3, PTL DEF Spec

-----------------------------------------------------------------------------
(* Forms and their controls *)

\* The form each control is in, and the controls each form lists: a control is
\* on the list of its form and on no other, and a list holds nothing else.
Agrees(at, lists, n) ==
  /\ \A i \in DOMAIN at : at[i] <= n
  /\ \A f \in 1 .. n : WordsOf(lists[f]) = {i \in DOMAIN at : at[i] = f}

FieldForms(p) == [i \in DOMAIN p.fields |-> p.fields[i].form]
FieldLists(p) == [f \in DOMAIN p.forms |-> p.forms[f].fields]
ButtonForms(p) == [i \in DOMAIN p.buttons |-> p.buttons[i].form]
ButtonLists(p) == [f \in DOMAIN p.forms |-> p.forms[f].buttons]

FormsKnown(p) ==
  /\ \A k \in DOMAIN p.formStack : p.formStack[k] \in 1 .. Len(p.forms)
  /\ Agrees(FieldForms(p), FieldLists(p), Len(p.forms))
  /\ Agrees(ButtonForms(p), ButtonLists(p), Len(p.forms))

\* A control that enters a form, or none.
Entered(lists, f, i) ==
  IF f = 0 THEN lists ELSE [lists EXCEPT ![f] = Append(@, i)]

LEMMA WordsOfAppend ==
  ASSUME NEW s \in Seq(Nat), NEW w \in Nat
  PROVE  WordsOf(Append(s, w)) = WordsOf(s) \cup {w}
<1>1. DOMAIN Append(s, w) = 1 .. Len(s) + 1 /\ DOMAIN s = 1 .. Len(s) /\ Len(s) \in Nat
  OBVIOUS
<1>2. /\ \A i \in 1 .. Len(s) : Append(s, w)[i] = s[i]
      /\ Append(s, w)[Len(s) + 1] = w
  OBVIOUS
<1>3. WordsOf(Append(s, w)) \subseteq WordsOf(s) \cup {w}
  BY <1>1, <1>2 DEF WordsOf
<1>4. WordsOf(s) \cup {w} \subseteq WordsOf(Append(s, w))
  BY <1>1, <1>2 DEF WordsOf
<1>5. QED
  BY <1>3, <1>4

LEMMA ControlEnters ==
  ASSUME NEW n \in Nat, NEW at \in Seq(Nat), NEW lists \in [1 .. n -> Seq(Nat)],
         NEW f \in 0 .. n, Agrees(at, lists, n)
  PROVE  Agrees(Append(at, f), Entered(lists, f, Len(at) + 1), n)
<1> DEFINE more == Append(at, f)
           i == Len(at) + 1
           held == Entered(lists, f, i)
<1>1. i \in Nat /\ i \notin DOMAIN at /\ DOMAIN more = DOMAIN at \cup {i}
  OBVIOUS
<1>2. more[i] = f /\ \A k \in DOMAIN at : more[k] = at[k]
  OBVIOUS
<1>3. \A k \in DOMAIN more : more[k] <= n
  <2> HIDE DEF more, i
  <2> QED
    BY <1>1, <1>2 DEF Agrees
<1>4. ASSUME NEW g \in 1 .. n
      PROVE  WordsOf(held[g]) = {k \in DOMAIN more : more[k] = g}
  <2>1. WordsOf(lists[g]) = {k \in DOMAIN at : at[k] = g}
    BY DEF Agrees
  <2>2. CASE g = f
    <3>1. held[g] = Append(lists[g], i)
      <4> HIDE DEF i
      <4> QED
        BY <2>2 DEF Entered
    <3>2. WordsOf(held[g]) = WordsOf(lists[g]) \cup {i}
      <4> HIDE DEF i, held
      <4> QED
        BY <1>1, <3>1, WordsOfAppend
    <3> HIDE DEF i, held, more
    <3>3. QED
      BY <1>1, <1>2, <2>1, <2>2, <3>2
  <2>3. CASE g # f
    <3>1. held[g] = lists[g]
      <4> HIDE DEF i
      <4> QED
        BY <2>3 DEF Entered
    <3> HIDE DEF i, held, more
    <3>2. QED
      BY <1>1, <1>2, <2>1, <2>3, <3>1
  <2>4. QED
    BY <2>2, <2>3
<1>5. QED
  <2> HIDE DEF more, held, i
  <2>1. Agrees(more, held, n)
    BY <1>3, <1>4 DEF Agrees
  <2>2. QED
    BY <2>1 DEF more, held, i

\* A form that opens lists nothing yet.
LEMMA FormEnters ==
  ASSUME NEW n \in Nat, NEW at \in Seq(Nat), NEW lists, NEW more,
         Agrees(at, lists, n), more[n + 1] = <<>>, \A f \in 1 .. n : more[f] = lists[f]
  PROVE  Agrees(at, more, n + 1)
<1>1. \A i \in DOMAIN at : at[i] \in Nat /\ at[i] <= n /\ at[i] <= n + 1 /\ at[i] # n + 1
  BY DEF Agrees
<1>2. WordsOf(more[n + 1]) = {}
  BY DEF WordsOf
<1>3. ASSUME NEW f \in 1 .. n + 1
      PROVE  WordsOf(more[f]) = {i \in DOMAIN at : at[i] = f}
  <2>1. CASE f = n + 1
    BY <1>1, <1>2, <2>1
  <2>2. CASE f # n + 1
    BY <2>2 DEF Agrees
  <2>3. QED
    BY <2>1, <2>2
<1>4. QED
  BY <1>1, <1>3 DEF Agrees

SameForms(p, q) ==
  /\ q.forms = p.forms /\ q.formStack = p.formStack
  /\ q.fields = p.fields /\ ButtonForms(q) = ButtonForms(p)

LEMMA SameFormsKnown ==
  ASSUME NEW p, NEW q, SameForms(p, q), FormsKnown(p)
  PROVE  FormsKnown(q)
  BY DEF SameForms, FormsKnown, FieldForms, FieldLists, ButtonLists

LEMMA FlushSameForms ==
  ASSUME NEW p \in Parser
  PROVE  SameForms(p, Flush(p))
<1> DEFINE emptied == [p EXCEPT !.buffer = <<>>]
           q == Flush(p)
           kind == IF Role(p) \in {"heading", "code"} THEN Role(p) ELSE "paragraph"
<1>1. emptied \in Parser
  BY Texts DEF Parser
<1>2. /\ emptied.forms = p.forms /\ emptied.formStack = p.formStack
      /\ emptied.fields = p.fields /\ emptied.buttons = p.buttons
  BY DEF Parser
<1>3. q \in {p, [emptied EXCEPT !.cells = @ \o p.buffer],
             [emptied EXCEPT !.items = @ \o p.buffer],
             [emptied EXCEPT !.blocks =
               Append(@, [kind |-> kind, text |-> p.buffer,
                          chrome |-> emptied.chromes # <<>>])]}
  BY DEF Flush, AddBlock
<1>4. /\ q.forms = p.forms /\ q.formStack = p.formStack
      /\ q.fields = p.fields /\ q.buttons = p.buttons
  <2> HIDE DEF emptied, q, kind
  <2> QED
    BY <1>1, <1>2, <1>3 DEF Parser
<1>5. QED
  BY <1>4 DEF SameForms, ButtonForms

LEMMA SameFormsChain ==
  ASSUME NEW p, NEW q, NEW r, SameForms(p, q), SameForms(q, r)
  PROVE  SameForms(p, r)
  BY DEF SameForms

LEMMA CloseRowSameForms ==
  ASSUME NEW p \in Parser
  PROVE  SameForms(p, CloseRow(p))
<1>1. CloseRow(p) \in {p, [p EXCEPT !.rows = @ \o p.cells, !.cells = <<>>]}
  BY DEF CloseRow
<1>2. QED
  BY <1>1 DEF SameForms, ButtonForms, Parser

LEMMA LayoutSameForms ==
  ASSUME NEW q \in Parser, NEW v
  PROVE  /\ SameForms(q, [q EXCEPT !.blocks = v])
         /\ SameForms(q, [q EXCEPT !.items = v]) /\ SameForms(q, [q EXCEPT !.rows = v])
         /\ SameForms(q, [q EXCEPT !.listDepth = v])
         /\ SameForms(q, [q EXCEPT !.tableDepth = v])
  BY DEF SameForms, ButtonForms, Parser

LEMMA CloseListSameForms ==
  ASSUME NEW p \in Parser
  PROVE  SameForms(p, CloseList(p))
<1> DEFINE q == Flush(p)
           added == AddBlock(q, "list", q.items)
           emitted == IF q.items = <<>> THEN q ELSE [added EXCEPT !.items = <<>>]
<1>1. q \in Parser /\ SameForms(p, q)
  BY FlushType, FlushSameForms
<1>2. added \in Parser /\ SameForms(q, added)
  <2> HIDE DEF q
  <2>1. q.items \in Text
    BY <1>1, FieldTypes
  <2>2. QED
    BY <1>1, <2>1, AddBlockType, LayoutSameForms DEF AddBlock
<1>3. emitted \in Parser /\ SameForms(p, emitted)
  <2> HIDE DEF q, added
  <2>1. [added EXCEPT !.items = <<>>] \in Parser
    BY <1>2, Texts DEF Parser
  <2>2. SameForms(added, [added EXCEPT !.items = <<>>])
    BY <1>2, LayoutSameForms
  <2>3. QED
    BY <1>1, <1>2, <2>1, <2>2, SameFormsChain
<1>4. CloseList(p) = IF q.listDepth <= 1 THEN [emitted EXCEPT !.listDepth = 0]
                     ELSE [q EXCEPT !.listDepth = q.listDepth - 1]
  BY DEF CloseList
<1> HIDE DEF q, emitted
<1>5. SameForms(emitted, [emitted EXCEPT !.listDepth = 0])
  BY <1>3, LayoutSameForms
<1>6. SameForms(q, [q EXCEPT !.listDepth = q.listDepth - 1])
  BY <1>1, LayoutSameForms
<1>7. QED
  BY <1>1, <1>3, <1>4, <1>5, <1>6, SameFormsChain

LEMMA CloseTableSameForms ==
  ASSUME NEW p \in Parser
  PROVE  SameForms(p, CloseTable(p))
<1> DEFINE q == CloseRow(Flush(p))
           added == AddBlock(q, "table", q.rows)
           emitted == IF q.rows = <<>> THEN q ELSE [added EXCEPT !.rows = <<>>]
<1>1. q \in Parser /\ SameForms(p, q)
  BY FlushType, FlushSameForms, CloseRowType, CloseRowSameForms, SameFormsChain
<1>2. added \in Parser /\ SameForms(q, added)
  <2> HIDE DEF q
  <2>1. q.rows \in Text
    BY <1>1, FieldTypes
  <2>2. QED
    BY <1>1, <2>1, AddBlockType, LayoutSameForms DEF AddBlock
<1>3. emitted \in Parser /\ SameForms(p, emitted)
  <2> HIDE DEF q, added
  <2>1. [added EXCEPT !.rows = <<>>] \in Parser
    BY <1>2, Texts DEF Parser
  <2>2. SameForms(added, [added EXCEPT !.rows = <<>>])
    BY <1>2, LayoutSameForms
  <2>3. QED
    BY <1>1, <1>2, <2>1, <2>2, SameFormsChain
<1>4. CloseTable(p) = IF q.tableDepth <= 1 THEN [emitted EXCEPT !.tableDepth = 0]
                      ELSE [q EXCEPT !.tableDepth = q.tableDepth - 1]
  BY DEF CloseTable
<1> HIDE DEF q, emitted
<1>5. SameForms(emitted, [emitted EXCEPT !.tableDepth = 0])
  BY <1>3, LayoutSameForms
<1>6. SameForms(q, [q EXCEPT !.tableDepth = q.tableDepth - 1])
  BY <1>1, LayoutSameForms
<1>7. QED
  BY <1>1, <1>3, <1>4, <1>5, <1>6, SameFormsChain

LEMMA TextTurnSameForms ==
  ASSUME NEW p \in Parser, NEW q, TextTurn(p, q)
  PROVE  SameForms(p, q)
<1> DEFINE f == Flush(p)
<1>1. f \in Parser /\ SameForms(p, f)
  BY FlushType, FlushSameForms
<1>2. CASE q = f
  BY <1>1, <1>2
<1>3. CASE q = CloseRow(f)
  <2> HIDE DEF f
  <2> QED
    BY <1>1, <1>3, CloseRowSameForms, SameFormsChain
<1>4. CASE q = CloseList(p) \/ q = CloseTable(p)
  BY <1>4, CloseListSameForms, CloseTableSameForms
<1>5. CASE \E d : q = [f EXCEPT !.listDepth = d] \/ q = [f EXCEPT !.tableDepth = d]
  <2> HIDE DEF f
  <2>1. PICK d : q = [f EXCEPT !.listDepth = d] \/ q = [f EXCEPT !.tableDepth = d]
    BY <1>5
  <2>2. SameForms(f, q)
    BY <1>1, <2>1, LayoutSameForms
  <2>3. QED
    BY <1>1, <2>2, SameFormsChain
<1>6. CASE \E a, b, c : q = [f EXCEPT !.leaves = a] \/ q = [f EXCEPT !.chromes = a]
                       \/ q = [f EXCEPT !.skipTag = a, !.skipDepth = b, !.nonContent = c]
  <2> HIDE DEF f
  <2>1. SameForms(f, q)
    BY <1>1, <1>6 DEF SameForms, ButtonForms, Parser
  <2>2. QED
    BY <1>1, <2>1, SameFormsChain
<1>7. \/ q = f \/ q = CloseRow(f) \/ q = CloseList(p) \/ q = CloseTable(p)
      \/ \E d : q = [f EXCEPT !.listDepth = d] \/ q = [f EXCEPT !.tableDepth = d]
      \/ \E a, b, c : q = [f EXCEPT !.leaves = a] \/ q = [f EXCEPT !.chromes = a]
                     \/ q = [f EXCEPT !.skipTag = a, !.skipDepth = b, !.nonContent = c]
  BY Zenon DEF TextTurn, OpenLeaf, CloseLeaf, CloseChrome, EnterSkip
<1>8. QED
  BY <1>2, <1>3, <1>4, <1>5, <1>6, <1>7

LEMMA AsideShape ==
  ASSUME NEW p \in Parser, NEW q, AsideTurn(p, q)
  PROVE  \E a, b : \/ q = p \/ q = [p EXCEPT !.skipDepth = a]
                  \/ q = [p EXCEPT !.skipDepth = a, !.skipTag = b]
                  \/ q = [[p EXCEPT !.links = a] EXCEPT !.anchors = b]
                  \/ q = [p EXCEPT !.links = a, !.anchors = b]
<1>1. CASE q = OpenAnchor(p)
  BY <1>1 DEF OpenAnchor
<1>2. CASE q = CloseAnchor(p)
  BY <1>2 DEF CloseAnchor
<1>3. CASE q = ExitSkip(p)
  BY <1>3 DEF ExitSkip
<1>4. CASE q = [p EXCEPT !.skipDepth = @ + 1]
  BY <1>4
<1>5. QED
  BY <1>1, <1>2, <1>3, <1>4 DEF AsideTurn

LEMMA AsideSameForms ==
  ASSUME NEW p \in Parser, NEW q, AsideTurn(p, q)
  PROVE  SameForms(p, q)
<1>1. PICK a, b : \/ q = p \/ q = [p EXCEPT !.skipDepth = a]
                  \/ q = [p EXCEPT !.skipDepth = a, !.skipTag = b]
                  \/ q = [[p EXCEPT !.links = a] EXCEPT !.anchors = b]
                  \/ q = [p EXCEPT !.links = a, !.anchors = b]
  BY AsideShape
<1>2. QED
  BY <1>1 DEF SameForms, ButtonForms, Parser

\* A field or a button that is added is in the current form, if there is one.
LEMMA CurrentFormKnown ==
  ASSUME NEW p \in Parser, FormsKnown(p)
  PROVE  /\ CurrentForm(p) \in 0 .. Len(p.forms)
         /\ p.formStack = <<>> <=> CurrentForm(p) = 0
         /\ Len(p.forms) \in Nat
<1>1. p.formStack \in Seq(Nat) /\ p.forms \in Seq(Form)
  BY FieldTypes
<1>2. Len(p.forms) \in Nat
  BY <1>1
<1>3. p.formStack # <<>> => Last(p.formStack) \in 1 .. Len(p.forms)
  <2>1. p.formStack # <<>> => Len(p.formStack) \in DOMAIN p.formStack
    BY <1>1, PopSeq
  <2>2. QED
    BY <2>1 DEF FormsKnown, Last
<1>4. QED
  BY <1>2, <1>3 DEF CurrentForm

LEMMA FormViews ==
  ASSUME NEW p \in Parser
  PROVE  /\ FieldForms(p) \in Seq(Nat) /\ Len(FieldForms(p)) = Len(p.fields)
         /\ ButtonForms(p) \in Seq(Nat) /\ Len(ButtonForms(p)) = Len(p.buttons)
         /\ FieldLists(p) \in [1 .. Len(p.forms) -> Seq(Nat)]
         /\ ButtonLists(p) \in [1 .. Len(p.forms) -> Seq(Nat)]
<1>1. p.fields \in Seq(Field) /\ p.buttons \in Seq(Button) /\ p.forms \in Seq(Form)
  BY FieldTypes
<1>0. /\ \A i \in DOMAIN p.fields : p.fields[i] \in Field
      /\ \A i \in DOMAIN p.buttons : p.buttons[i] \in Button
      /\ \A f \in DOMAIN p.forms : p.forms[f] \in Form
  BY <1>1
<1>2. \A i \in DOMAIN p.fields : p.fields[i].form \in Nat
  BY <1>0 DEF Field
<1>3. \A i \in DOMAIN p.buttons : p.buttons[i].form \in Nat
  BY <1>0 DEF Button
<1>4. \A f \in DOMAIN p.forms :
        p.forms[f].fields \in Seq(Nat) /\ p.forms[f].buttons \in Seq(Nat)
  BY <1>0 DEF Form
<1>5. /\ Len(p.fields) \in Nat /\ DOMAIN p.fields = 1 .. Len(p.fields)
      /\ Len(p.buttons) \in Nat /\ DOMAIN p.buttons = 1 .. Len(p.buttons)
      /\ Len(p.forms) \in Nat /\ DOMAIN p.forms = 1 .. Len(p.forms)
  BY <1>1, LenProperties
<1>6. FieldForms(p) \in Seq(Nat) /\ Len(FieldForms(p)) = Len(p.fields)
  BY <1>2, <1>5 DEF FieldForms
<1>7. ButtonForms(p) \in Seq(Nat) /\ Len(ButtonForms(p)) = Len(p.buttons)
  BY <1>3, <1>5 DEF ButtonForms
<1>8. QED
  BY <1>4, <1>5, <1>6, <1>7 DEF FieldLists, ButtonLists

LEMMA AddFieldKnown ==
  ASSUME NEW p \in Parser, FormsKnown(p), NEW key \in Keys \cup {NoKey}
  PROVE  FormsKnown(AddField(p, key))
<1> DEFINE f == CurrentForm(p)
           field == [id |-> key, form |-> f]
           fields == Append(p.fields, field)
           i == Len(p.fields) + 1
           forms == IF f = 0 THEN p.forms
                    ELSE [p.forms EXCEPT ![f].fields = Append(@, i)]
           q == AddField(p, key)
           n == Len(p.forms)
<1>1. f \in 0 .. n /\ n \in Nat /\ (p.formStack = <<>> <=> f = 0)
  BY CurrentFormKnown
<1>2. p.fields \in Seq(Field) /\ field \in Field /\ p.forms \in Seq(Form)
  BY FieldTypes, CurrentFormType DEF Field
<1>3. /\ Len(fields) = i /\ DOMAIN fields = 1 .. i /\ fields[i] = field
      /\ DOMAIN p.fields = 1 .. i - 1 /\ i \in Nat
      /\ \A k \in 1 .. i - 1 : fields[k] = p.fields[k]
  <2> HIDE DEF field
  <2>1. /\ Len(p.fields) \in Nat /\ DOMAIN p.fields = 1 .. Len(p.fields)
        /\ Len(fields) = Len(p.fields) + 1 /\ DOMAIN fields = 1 .. Len(fields)
        /\ fields[Len(p.fields) + 1] = field
        /\ \A k \in 1 .. Len(p.fields) : fields[k] = p.fields[k]
    BY <1>2, AppendProperties, LenProperties
  <2>2. QED
    BY <2>1
<1>4. /\ q.forms = forms /\ q.formStack = p.formStack
      /\ q.fields = fields /\ q.buttons = p.buttons
  <2> DEFINE r == [p EXCEPT !.fields = fields]
  <2>1. /\ r.fields = fields /\ r.formStack = p.formStack /\ r.forms = p.forms
        /\ r.buttons = p.buttons /\ r \in Parser
    <3>1. fields \in Seq(Field)
      <4> HIDE DEF field
      <4> QED
        BY <1>2, AppendProperties
    <3> HIDE DEF fields
    <3>2. QED
      BY <3>1 DEF Parser
  <2>2. CurrentForm(r) = f
    <3> HIDE DEF r
    <3> QED
      BY <2>1 DEF CurrentForm
  <2>3. q = RegisterField(r, i)
    <3>1. q = RegisterField(r, Len(r.fields))
      BY DEF AddField
    <3> HIDE DEF r, q, fields, i
    <3>2. QED
      BY <1>3, <2>1, <3>1
  <2>4. q = IF p.formStack = <<>> THEN r
            ELSE [r EXCEPT !.forms = [p.forms EXCEPT ![f].fields = Append(@, i)]]
    <3> HIDE DEF r, q, fields, i, f
    <3>1. q = IF p.formStack = <<>> THEN r
              ELSE [r EXCEPT !.forms = [r.forms EXCEPT ![f].fields = Append(@, i)]]
      BY <2>1, <2>2, <2>3 DEF RegisterField
    <3>2. QED
      BY <2>1, <3>1
  <2> HIDE DEF r, q, fields, i, f
  <2>5. QED
    BY <1>1, <2>1, <2>4 DEF Parser
<1>5. Len(forms) = n /\ DOMAIN forms = 1 .. n /\ DOMAIN p.forms = 1 .. n
  <2>1. DOMAIN p.forms = 1 .. n /\ DOMAIN forms = DOMAIN p.forms
    BY <1>2
  <2>2. Len(forms) = n
    <3> HIDE DEF f, i
    <3>1. f # 0 => Len(forms) = n
      <4>1. f # 0 => f \in DOMAIN p.forms /\ p.forms[f] \in Form
        BY <1>1, <1>2, <2>1
      <4>2. f # 0 => [p.forms[f] EXCEPT !.fields = Append(@, i)] \in Form
        BY <1>3, <4>1, AppendProperties DEF Form
      <4>3. QED
        BY <1>2, <4>2, UpdateSeq
    <3>2. QED
      BY <3>1
  <2>3. QED
    BY <2>1, <2>2
<1>6. FieldForms(q) = Append(FieldForms(p), f) /\ ButtonForms(q) = ButtonForms(p)
  <2>1. ButtonForms(q) = ButtonForms(p)
    BY <1>4 DEF ButtonForms
  <2>2. FieldForms(p) \in Seq(Nat) /\ Len(FieldForms(p)) = i - 1 /\ f \in Nat
    BY <1>1, <1>3, FormViews
  <2>3. /\ DOMAIN FieldForms(q) = 1 .. i
        /\ FieldForms(q) = [k \in 1 .. i |-> fields[k].form]
    <3> HIDE DEF fields, q, i
    <3> QED
      BY <1>3, <1>4 DEF FieldForms
  <2>4. \A k \in 1 .. i - 1 : fields[k].form = FieldForms(p)[k]
    <3> HIDE DEF fields, i, q
    <3> QED
      BY <1>3 DEF FieldForms
  <2>5. fields[i].form = f
    <3> HIDE DEF fields, i, q
    <3> QED
      BY <1>3
  <2>6. Append(FieldForms(p), f) = [k \in 1 .. i |-> fields[k].form]
    <3> DEFINE a == Append(FieldForms(p), f)
               b == [k \in 1 .. i |-> fields[k].form]
    <3> HIDE DEF fields, q, f, i
    <3>1. a \in Seq(Nat) /\ Len(a) = i /\ \A k \in 1 .. i : a[k] = fields[k].form
      BY <1>3, <2>2, <2>4, <2>5, AppendProperties
    <3>2. b \in Seq(Nat) /\ Len(b) = i /\ \A k \in 1 .. i : b[k] = fields[k].form
      BY <1>3, <2>2, <2>4, <2>5
    <3> HIDE DEF a, b
    <3>3. a = b
      BY <3>1, <3>2, SeqEqual
    <3>4. QED
      BY <3>3 DEF a, b
  <2>7. QED
    BY <2>1, <2>3, <2>6
<1>7. /\ ButtonLists(q) = ButtonLists(p)
      /\ FieldLists(q) = Entered(FieldLists(p), f, i)
  <2> HIDE DEF q, fields, i, f
  <2>1. DOMAIN q.forms = DOMAIN p.forms
    BY <1>4, <1>5
  <2>2. \A g \in DOMAIN p.forms : q.forms[g].buttons = p.forms[g].buttons
    <3>1. \A g \in DOMAIN p.forms : p.forms[g] \in Form
      BY <1>2
    <3>2. QED
      BY <1>4, <3>1 DEF Form
  <2>3. \A g \in DOMAIN p.forms :
          q.forms[g].fields = IF f # 0 /\ g = f THEN Append(p.forms[g].fields, i)
                              ELSE p.forms[g].fields
    <3>1. \A g \in DOMAIN p.forms : p.forms[g] \in Form
      BY <1>2
    <3>2. QED
      BY <1>4, <3>1 DEF Form
  <2>4. QED
    BY <2>1, <2>2, <2>3 DEF FieldLists, ButtonLists, Entered
<1>8. Agrees(FieldForms(q), FieldLists(q), Len(q.forms))
  <2>1. Agrees(FieldForms(p), FieldLists(p), n)
    BY DEF FormsKnown
  <2>2. /\ FieldForms(p) \in Seq(Nat) /\ Len(FieldForms(p)) + 1 = i
        /\ FieldLists(p) \in [1 .. n -> Seq(Nat)]
    BY FormViews
  <2> HIDE DEF q, i, f, n, fields, forms
  <2>3. Agrees(Append(FieldForms(p), f), Entered(FieldLists(p), f, i), n)
    BY <1>1, <2>1, <2>2, ControlEnters
  <2>4. QED
    BY <1>4, <1>5, <1>6, <1>7, <2>3
<1>9. QED
  <2> HIDE DEF q, i, f, fields, forms
  <2>1. Len(q.forms) = n
    BY <1>4, <1>5
  <2>2. \A k \in DOMAIN q.formStack : q.formStack[k] \in 1 .. Len(q.forms)
    BY <1>4, <2>1 DEF FormsKnown
  <2>3. Agrees(ButtonForms(q), ButtonLists(q), Len(q.forms))
    BY <1>6, <1>7, <2>1 DEF FormsKnown
  <2>4. QED
    BY <1>8, <2>2, <2>3 DEF FormsKnown, q

LEMMA AddButtonKnown ==
  ASSUME NEW p \in Parser, FormsKnown(p)
  PROVE  FormsKnown(AddButton(p))
<1> DEFINE f == CurrentForm(p)
           button == [text |-> <<>>, form |-> f]
           buttons == Append(p.buttons, button)
           i == Len(p.buttons) + 1
           forms == IF f = 0 THEN p.forms
                    ELSE [p.forms EXCEPT ![f].buttons = Append(@, i)]
           q == AddButton(p)
           n == Len(p.forms)
<1>1. f \in 0 .. n /\ n \in Nat /\ (p.formStack = <<>> <=> f = 0)
  BY CurrentFormKnown
<1>2. p.buttons \in Seq(Button) /\ button \in Button /\ p.forms \in Seq(Form)
  BY FieldTypes, CurrentFormType, Texts DEF Button
<1>3. /\ Len(buttons) = i /\ DOMAIN buttons = 1 .. i /\ buttons[i] = button
      /\ DOMAIN p.buttons = 1 .. i - 1 /\ i \in Nat
      /\ \A k \in 1 .. i - 1 : buttons[k] = p.buttons[k]
  <2> HIDE DEF button
  <2>1. /\ Len(p.buttons) \in Nat /\ DOMAIN p.buttons = 1 .. Len(p.buttons)
        /\ Len(buttons) = Len(p.buttons) + 1 /\ DOMAIN buttons = 1 .. Len(buttons)
        /\ buttons[Len(p.buttons) + 1] = button
        /\ \A k \in 1 .. Len(p.buttons) : buttons[k] = p.buttons[k]
    BY <1>2, AppendProperties, LenProperties
  <2>2. QED
    BY <2>1
<1>4. /\ q.forms = forms /\ q.formStack = p.formStack
      /\ q.buttons = buttons /\ q.fields = p.fields
  <2> DEFINE r == [p EXCEPT !.buttons = buttons]
  <2>1. /\ r.buttons = buttons /\ r.formStack = p.formStack /\ r.forms = p.forms
        /\ r.fields = p.fields /\ r \in Parser
    <3>1. buttons \in Seq(Button)
      <4> HIDE DEF button
      <4> QED
        BY <1>2, AppendProperties
    <3> HIDE DEF buttons
    <3>2. QED
      BY <3>1 DEF Parser
  <2>2. CurrentForm(r) = f
    <3> HIDE DEF r
    <3> QED
      BY <2>1 DEF CurrentForm
  <2>3. q = RegisterButton(r, i)
    <3>1. q = RegisterButton(r, Len(r.buttons))
      BY DEF AddButton
    <3> HIDE DEF r, q, buttons, i
    <3>2. QED
      BY <1>3, <2>1, <3>1
  <2>4. q = IF p.formStack = <<>> THEN r
            ELSE [r EXCEPT !.forms = [p.forms EXCEPT ![f].buttons = Append(@, i)]]
    <3> HIDE DEF r, q, buttons, i, f
    <3>1. q = IF p.formStack = <<>> THEN r
              ELSE [r EXCEPT !.forms = [r.forms EXCEPT ![f].buttons = Append(@, i)]]
      BY <2>1, <2>2, <2>3 DEF RegisterButton
    <3>2. QED
      BY <2>1, <3>1
  <2> HIDE DEF r, q, buttons, i, f
  <2>5. QED
    BY <1>1, <2>1, <2>4 DEF Parser
<1>5. Len(forms) = n /\ DOMAIN forms = 1 .. n /\ DOMAIN p.forms = 1 .. n
  <2>1. DOMAIN p.forms = 1 .. n /\ DOMAIN forms = DOMAIN p.forms
    BY <1>2
  <2>2. Len(forms) = n
    <3> HIDE DEF f, i
    <3>1. f # 0 => Len(forms) = n
      <4>1. f # 0 => f \in DOMAIN p.forms /\ p.forms[f] \in Form
        BY <1>1, <1>2, <2>1
      <4>2. f # 0 => [p.forms[f] EXCEPT !.buttons = Append(@, i)] \in Form
        BY <1>3, <4>1, AppendProperties DEF Form
      <4>3. QED
        BY <1>2, <4>2, UpdateSeq
    <3>2. QED
      BY <3>1
  <2>3. QED
    BY <2>1, <2>2
<1>6. ButtonForms(q) = Append(ButtonForms(p), f) /\ FieldForms(q) = FieldForms(p)
  <2>1. FieldForms(q) = FieldForms(p)
    BY <1>4 DEF FieldForms
  <2>2. ButtonForms(p) \in Seq(Nat) /\ Len(ButtonForms(p)) = i - 1 /\ f \in Nat
    BY <1>1, <1>3, FormViews
  <2>3. /\ DOMAIN ButtonForms(q) = 1 .. i
        /\ ButtonForms(q) = [k \in 1 .. i |-> buttons[k].form]
    <3> HIDE DEF buttons, q, i
    <3> QED
      BY <1>3, <1>4 DEF ButtonForms
  <2>4. \A k \in 1 .. i - 1 : buttons[k].form = ButtonForms(p)[k]
    <3> HIDE DEF buttons, i, q
    <3> QED
      BY <1>3 DEF ButtonForms
  <2>5. buttons[i].form = f
    <3> HIDE DEF buttons, i, q
    <3> QED
      BY <1>3
  <2>6. Append(ButtonForms(p), f) = [k \in 1 .. i |-> buttons[k].form]
    <3> DEFINE a == Append(ButtonForms(p), f)
               b == [k \in 1 .. i |-> buttons[k].form]
    <3> HIDE DEF buttons, q, f, i
    <3>1. a \in Seq(Nat) /\ Len(a) = i /\ \A k \in 1 .. i : a[k] = buttons[k].form
      BY <1>3, <2>2, <2>4, <2>5, AppendProperties
    <3>2. b \in Seq(Nat) /\ Len(b) = i /\ \A k \in 1 .. i : b[k] = buttons[k].form
      BY <1>3, <2>2, <2>4, <2>5
    <3> HIDE DEF a, b
    <3>3. a = b
      BY <3>1, <3>2, SeqEqual
    <3>4. QED
      BY <3>3 DEF a, b
  <2>7. QED
    BY <2>1, <2>3, <2>6
<1>7. /\ FieldLists(q) = FieldLists(p)
      /\ ButtonLists(q) = Entered(ButtonLists(p), f, i)
  <2> HIDE DEF q, buttons, i, f
  <2>1. DOMAIN q.forms = DOMAIN p.forms
    BY <1>4, <1>5
  <2>2. \A g \in DOMAIN p.forms : q.forms[g].fields = p.forms[g].fields
    <3>1. \A g \in DOMAIN p.forms : p.forms[g] \in Form
      BY <1>2
    <3>2. QED
      BY <1>4, <3>1 DEF Form
  <2>3. \A g \in DOMAIN p.forms :
          q.forms[g].buttons = IF f # 0 /\ g = f THEN Append(p.forms[g].buttons, i)
                              ELSE p.forms[g].buttons
    <3>1. \A g \in DOMAIN p.forms : p.forms[g] \in Form
      BY <1>2
    <3>2. QED
      BY <1>4, <3>1 DEF Form
  <2>4. QED
    BY <2>1, <2>2, <2>3 DEF ButtonLists, FieldLists, Entered
<1>8. Agrees(ButtonForms(q), ButtonLists(q), Len(q.forms))
  <2>1. Agrees(ButtonForms(p), ButtonLists(p), n)
    BY DEF FormsKnown
  <2>2. /\ ButtonForms(p) \in Seq(Nat) /\ Len(ButtonForms(p)) + 1 = i
        /\ ButtonLists(p) \in [1 .. n -> Seq(Nat)]
    BY FormViews
  <2> HIDE DEF q, i, f, n, buttons, forms
  <2>3. Agrees(Append(ButtonForms(p), f), Entered(ButtonLists(p), f, i), n)
    BY <1>1, <2>1, <2>2, ControlEnters
  <2>4. QED
    BY <1>4, <1>5, <1>6, <1>7, <2>3
<1>9. QED
  <2> HIDE DEF q, i, f, buttons, forms
  <2>1. Len(q.forms) = n
    BY <1>4, <1>5
  <2>2. \A k \in DOMAIN q.formStack : q.formStack[k] \in 1 .. Len(q.forms)
    BY <1>4, <2>1 DEF FormsKnown
  <2>3. Agrees(FieldForms(q), FieldLists(q), Len(q.forms))
    BY <1>6, <1>7, <2>1 DEF FormsKnown
  <2>4. QED
    BY <1>8, <2>2, <2>3 DEF FormsKnown, q

LEMMA FormKnown ==
  ASSUME NEW p \in Parser, FormsKnown(p)
  PROVE  FormsKnown(OpenForm(p)) /\ FormsKnown(CloseForm(p))
<1> DEFINE q == Flush(p)
           n == Len(q.forms)
           form == [fields |-> <<>>, buttons |-> <<>>]
<1>1. q \in Parser /\ FormsKnown(q)
  BY FlushType, FlushSameForms, SameFormsKnown
<1>2. q.formStack \in Seq(Nat) /\ q.forms \in Seq(Form) /\ form \in Form
  <2>1. form \in Form
    BY DEF Form
  <2> HIDE DEF q
  <2>2. QED
    BY <1>1, <2>1, FieldTypes
<1>3. n \in Nat /\ DOMAIN q.forms = 1 .. n
  <2> HIDE DEF q
  <2> QED
    BY <1>2, LenProperties
<1>4. FormsKnown(CloseForm(p))
  <2> DEFINE r == [q EXCEPT !.formStack = Pop(@)]
  <2>1. CloseForm(p) = IF q.formStack = <<>> THEN q ELSE r
    BY DEF CloseForm
  <2>2. ASSUME q.formStack # <<>>
        PROVE  FormsKnown(r)
    <3> HIDE DEF q
    <3>1. /\ r.forms = q.forms /\ r.fields = q.fields /\ r.buttons = q.buttons
          /\ r.formStack = Pop(q.formStack)
      BY <1>1 DEF Parser
    <3>2. \A k \in DOMAIN Pop(q.formStack) :
            k \in DOMAIN q.formStack /\ Pop(q.formStack)[k] = q.formStack[k]
      BY <1>2, <2>2, PopSeq
    <3> HIDE DEF r
    <3>3. QED
      BY <1>1, <3>1, <3>2 DEF FormsKnown, FieldForms, FieldLists, ButtonForms, ButtonLists
  <2> HIDE DEF q, r
  <2>3. QED
    BY <1>1, <2>1, <2>2
<1>5. FormsKnown(OpenForm(p))
  <2> DEFINE r == OpenForm(p)
             forms == Append(q.forms, form)
  <2>1. /\ r.forms = forms /\ r.formStack = Append(q.formStack, n + 1)
        /\ r.fields = q.fields /\ r.buttons = q.buttons
    <3>1. r = [q EXCEPT !.forms = forms, !.formStack = Append(@, n + 1)]
      BY DEF OpenForm
    <3> HIDE DEF q, r, forms, n
    <3>2. QED
      BY <1>1, <3>1 DEF Parser
  <2>2. /\ forms[n + 1] = form /\ Len(forms) = n + 1 /\ DOMAIN forms = 1 .. n + 1
        /\ \A f \in 1 .. n : forms[f] = q.forms[f]
    <3> HIDE DEF form, q
    <3>1. forms \in Seq(Form) /\ Len(forms) = n + 1
      BY <1>2, <1>3, AppendProperties
    <3>2. DOMAIN forms = 1 .. n + 1
      <4> HIDE DEF forms
      <4> QED
        BY <3>1, LenProperties
    <3>3. QED
      BY <1>2, <1>3, <3>1, <3>2, AppendProperties
  <2>3. FieldForms(r) = FieldForms(q) /\ ButtonForms(r) = ButtonForms(q)
    BY <2>1 DEF FieldForms, ButtonForms
  <2>4. /\ FieldLists(r)[n + 1] = <<>> /\ ButtonLists(r)[n + 1] = <<>>
        /\ \A f \in 1 .. n : /\ FieldLists(r)[f] = FieldLists(q)[f]
                             /\ ButtonLists(r)[f] = ButtonLists(q)[f]
    <3>1. n + 1 \in 1 .. n + 1 /\ \A f \in 1 .. n : f \in 1 .. n + 1
      <4> HIDE DEF n
      <4> QED
        BY <1>3
    <3> HIDE DEF q, r, forms, n
    <3>2. QED
      BY <1>3, <2>1, <2>2, <3>1 DEF FieldLists, ButtonLists
  <2>5. FieldForms(q) \in Seq(Nat) /\ ButtonForms(q) \in Seq(Nat)
    BY <1>1, FormViews
  <2>6. Agrees(FieldForms(q), FieldLists(q), n) /\ Agrees(ButtonForms(q), ButtonLists(q), n)
    BY <1>1 DEF FormsKnown
  <2> HIDE DEF q, r, forms, n
  <2>7. /\ Agrees(FieldForms(q), FieldLists(r), n + 1)
        /\ Agrees(ButtonForms(q), ButtonLists(r), n + 1)
    BY <1>3, <2>4, <2>5, <2>6, FormEnters
  <2>8. \A k \in DOMAIN r.formStack : r.formStack[k] \in 1 .. n + 1
    <3> DEFINE st == Append(q.formStack, n + 1)
    <3>1. /\ DOMAIN st = 1 .. Len(q.formStack) + 1 /\ st[Len(q.formStack) + 1] = n + 1
          /\ \A k \in 1 .. Len(q.formStack) : st[k] = q.formStack[k]
          /\ DOMAIN q.formStack = 1 .. Len(q.formStack)
      BY <1>2
    <3>2. \A k \in DOMAIN q.formStack : q.formStack[k] \in 1 .. n
      BY <1>1 DEF FormsKnown, n
    <3>3. n + 1 \in 1 .. n + 1 /\ \A k \in 1 .. n : k \in 1 .. n + 1
      BY <1>3
    <3> HIDE DEF st
    <3>4. \A k \in DOMAIN st : st[k] \in 1 .. n + 1
      BY <1>2, <3>1, <3>2, <3>3
    <3>5. QED
      BY <2>1, <3>4 DEF st
  <2>9. QED
    BY <2>1, <2>2, <2>3, <2>7, <2>8 DEF FormsKnown, r
<1>6. QED
  BY <1>4, <1>5

LEMMA OpenControlKnown ==
  ASSUME NEW p \in Parser, FormsKnown(p), NEW tag \in ControlTextTags,
         NEW key \in Keys \cup {NoKey}
  PROVE  FormsKnown(OpenControl(p, tag, key))
<1> DEFINE q == CASE tag = "button" -> AddButton(p)
                  [] tag = "textarea" -> AddField(p, key)
                  [] OTHER -> p
<1>1. q \in Parser /\ FormsKnown(q)
  BY ControlTypes, AddButtonKnown, AddFieldKnown
<1>2. \E cs : OpenControl(p, tag, key) = [q EXCEPT !.controls = cs]
  BY DEF OpenControl
<1> HIDE DEF q
<1>3. SameForms(q, OpenControl(p, tag, key))
  BY <1>1, <1>2 DEF SameForms, ButtonForms, Parser
<1>4. QED
  BY <1>1, <1>3, SameFormsKnown

LEMMA CloseControlSameForms ==
  ASSUME NEW p \in Parser, p.controls # <<>>
  PROVE  SameForms(p, CloseControl(p))
<1> DEFINE c == Last(p.controls)
           q == [p EXCEPT !.controls = Pop(@)]
           buttons == [p.buttons EXCEPT ![c.button].text = c.text]
<1>1. q \in Parser
  BY FieldTypes, PopSeq DEF Parser
<1>2. SameForms(p, q) /\ q.buttons = p.buttons
  BY DEF SameForms, ButtonForms, Parser
<1>3. \A i \in DOMAIN buttons : buttons[i].form = p.buttons[i].form
  <2> HIDE DEF c
  <2>1. p.buttons \in Seq(Button)
    BY FieldTypes
  <2>2. \A i \in DOMAIN p.buttons : p.buttons[i] \in Button
    BY <2>1
  <2>3. QED
    BY <2>2 DEF Button
<1>4. \E t, l, k : CloseControl(p) \in
        {q, [q EXCEPT !.title = t], [q EXCEPT !.labels = l, !.labelled = k],
         [q EXCEPT !.buttons = buttons]}
  <2> HIDE DEF c
  <2>1. CloseControl(p) =
          CASE c.tag = "title" /\ p.title = <<>> -> [q EXCEPT !.title = c.text]
            [] c.tag = "label" /\ c.key \in Keys \ p.labelled ->
                 [q EXCEPT !.labels[c.key] = c.text, !.labelled = @ \cup {c.key}]
            [] c.tag = "button" -> [q EXCEPT !.buttons[c.button].text = c.text]
            [] OTHER -> q
    BY DEF CloseControl, c
  <2> HIDE DEF q
  <2>2. QED
    BY <1>2, <2>1
<1> HIDE DEF c, q, buttons
<1>5. PICK t, l, k : CloseControl(p) \in
        {q, [q EXCEPT !.title = t], [q EXCEPT !.labels = l, !.labelled = k],
         [q EXCEPT !.buttons = buttons]}
  BY <1>4
<1>6. /\ SameForms(q, [q EXCEPT !.title = t])
      /\ SameForms(q, [q EXCEPT !.labels = l, !.labelled = k])
  BY <1>1 DEF SameForms, ButtonForms, Parser
<1>7. SameForms(q, [q EXCEPT !.buttons = buttons])
  BY <1>1, <1>2, <1>3 DEF SameForms, ButtonForms, Parser, buttons
<1>8. QED
  BY <1>2, <1>5, <1>6, <1>7, SameFormsChain

LEMMA TurnKnown ==
  ASSUME NEW p \in Parser, NEW q, FormsKnown(p), Turn(p, q)
  PROVE  FormsKnown(q)
<1>1. CASE FormTurn(p, q)
  BY <1>1, FormKnown, AddFieldKnown, AddButtonKnown, OpenControlKnown,
     CloseControlSameForms, SameFormsKnown DEF FormTurn
<1>2. CASE TextTurn(p, q) \/ AsideTurn(p, q)
  BY <1>2, TextTurnSameForms, AsideSameForms, SameFormsKnown
<1>3. QED
  BY <1>1, <1>2 DEF Turn

LEMMA OutermostSameForms ==
  ASSUME NEW p \in Parser
  PROVE  /\ OutermostList(p) \in Parser /\ SameForms(p, OutermostList(p))
         /\ OutermostTable(p) \in Parser /\ SameForms(p, OutermostTable(p))
<1> DEFINE l == [p EXCEPT !.listDepth = 1]
           t == [p EXCEPT !.tableDepth = 1]
<1>1. l \in Parser /\ t \in Parser
  BY DEF Parser
<1>2. SameForms(p, l) /\ SameForms(p, t) /\ SameForms(p, p)
  BY LayoutSameForms DEF SameForms
<1> HIDE DEF l, t
<1>3. /\ CloseList(l) \in Parser /\ SameForms(p, CloseList(l))
      /\ CloseTable(t) \in Parser /\ SameForms(p, CloseTable(t))
  BY <1>1, <1>2, CloseListType, CloseTableType, CloseListSameForms,
     CloseTableSameForms, SameFormsChain
<1>4. QED
  BY <1>2, <1>3 DEF OutermostList, OutermostTable, l, t

LEMMA EndedSameForms ==
  ASSUME NEW p \in Parser
  PROVE  SameForms(p, Ended(p))
<1> DEFINE q == CloseRow(Flush(p))
           r == OutermostList(q)
<1>1. q \in Parser /\ SameForms(p, q)
  BY FlushType, FlushSameForms, CloseRowType, CloseRowSameForms, SameFormsChain
<1>2. r \in Parser /\ SameForms(p, r)
  BY <1>1, OutermostSameForms, SameFormsChain
<1>3. SameForms(p, OutermostTable(r))
  <2> HIDE DEF r
  <2> QED
    BY <1>2, OutermostSameForms, SameFormsChain
<1>4. QED
  BY <1>3 DEF Ended

LEMMA WordSameForms ==
  ASSUME NEW p \in Parser, NEW w
  PROVE  SameForms(p, HandleData(p, w))
<1>1. \E a, b, c : HandleData(p, w) \in
        {p, [p EXCEPT !.controls = c], [p EXCEPT !.buffer = a, !.anchors = b]}
  BY DEF HandleData
<1>2. QED
  BY <1>1 DEF SameForms, ButtonForms, Parser

\* For any document: a field or a button is on the list of the form it names,
\* and of no other form, and a form lists nothing else.
\* (_open_form, _register_field, _register_button)
THEOREM FormsAgree == Spec => []FormsAndControlsAgree
<1> DEFINE K == FormsKnown(parser)
<1>1. Init => K
  <2> SUFFICES ASSUME Init
               PROVE  K
    OBVIOUS
  <2>1. /\ parser.formStack = <<>> /\ parser.forms = <<>>
        /\ parser.fields = <<>> /\ parser.buttons = <<>>
    BY DEF Init, NewParser
  <2>2. QED
    BY <2>1 DEF FormsKnown, Agrees, FieldForms, FieldLists, ButtonForms, ButtonLists
<1>2. TypeOK /\ K /\ [Next]_vars => K'
  <2> SUFFICES ASSUME TypeOK, K, [Next]_vars
               PROVE  K'
    OBVIOUS
  <2>1. parser \in Parser
    BY DEF TypeOK, Parser, Anchor, Field, Button, Form
  <2>2. CASE UNCHANGED vars
    BY <2>2 DEF vars
  <2>3. CASE Word
    BY <2>1, <2>3, WordSameForms, SameFormsKnown DEF Word
  <2>4. CASE Close
    BY <2>1, <2>4, EndedSameForms, SameFormsKnown DEF Close, Ended
  <2>5. CASE Turn(parser, parser')
    BY <2>1, <2>5, TurnKnown
  <2>6. QED
    BY <2>2, <2>3, <2>4, <2>5, StepCases
<1>3. TypeOK /\ K => FormsAndControlsAgree
  <2> SUFFICES ASSUME TypeOK, K, NEW f \in DOMAIN parser.forms
               PROVE  /\ \A i \in DOMAIN parser.fields :
                           (parser.fields[i].form = f)
                             <=> (i \in WordsOf(parser.forms[f].fields))
                      /\ \A i \in DOMAIN parser.buttons :
                           (parser.buttons[i].form = f)
                             <=> (i \in WordsOf(parser.forms[f].buttons))
    BY DEF FormsAndControlsAgree
  <2>1. parser \in Parser
    BY DEF TypeOK, Parser, Anchor, Field, Button, Form
  <2>2. f \in 1 .. Len(parser.forms)
    <3>1. parser.forms \in Seq(Form)
      BY <2>1, FieldTypes
    <3>2. QED
      BY <3>1
  <2>3. /\ WordsOf(FieldLists(parser)[f])
             = {i \in DOMAIN FieldForms(parser) : FieldForms(parser)[i] = f}
        /\ WordsOf(ButtonLists(parser)[f])
             = {i \in DOMAIN ButtonForms(parser) : ButtonForms(parser)[i] = f}
    BY <2>2 DEF FormsKnown, Agrees
  <2>4. QED
    BY <2>3 DEF FieldForms, FieldLists, ButtonForms, ButtonLists
<1>4. QED
  BY <1>1, <1>2, <1>3, TypeCorrect, PTL DEF Spec

-----------------------------------------------------------------------------
(* Words *)

\* Where the words of the parser are: place 0 is the text being gathered, -1
\* the items, -2 the rows and -3 the cells that wait for their end tags, and
\* each block is the place of its own number.
Held(p) ==
  [h \in Int |-> IF h = 0 THEN p.buffer
                 ELSE IF h = -1 THEN p.items
                 ELSE IF h = -2 THEN p.rows
                 ELSE IF h = -3 THEN p.cells
                 ELSE IF h \in DOMAIN p.blocks THEN p.blocks[h].text
                 ELSE <<>>]

\* The words R are spread over the places: each is at one of them, they are in
\* order at each, and the last ones are those of the text being gathered.
Spread(held, R) ==
  /\ \A h, g \in Int : h # g => WordsOf(held[h]) \cap WordsOf(held[g]) = {}
  /\ \A h \in Int : WordsOf(held[h]) \subseteq R
  /\ \A w \in R : \E h \in Int : w \in WordsOf(held[h])
  /\ \A h \in Int : Increasing(held[h])
  /\ \A h \in Int : h # 0 => Before(WordsOf(held[h]), WordsOf(held[0]))

Moved(held, from, to) ==
  [held EXCEPT ![to] = held[to] \o held[from], ![from] = <<>>]

InFlow(blocks) ==
  \A c \in DOMAIN blocks :
    /\ blocks[c].text # <<>>
    /\ blocks[c].kind \notin {"list", "table"} =>
         \A b \in 1 .. c - 1 : Before(WordsOf(blocks[b].text), WordsOf(blocks[c].text))

\* What waits for an end tag waits inside what that tag ends.
Waits(p) ==
  /\ p.items # <<>> => p.listDepth > 0
  /\ p.rows # <<>> \/ p.cells # <<>> => p.tableDepth > 0

WordsKept(p, R) ==
  /\ Spread(Held(p), R)
  /\ Before(WordsOf(p.rows), WordsOf(p.cells))
  /\ InFlow(p.blocks)
  /\ Waits(p)

LEMMA WordsOfConcat ==
  ASSUME NEW s \in Text, NEW t \in Text
  PROVE  WordsOf(s \o t) = WordsOf(s) \cup WordsOf(t)
<1>1. s \in Seq(Nat) /\ t \in Seq(Nat)
  BY DEF Text
<1> DEFINE c == s \o t
           m == Len(s)
           n == Len(t)
<1>2. /\ m \in Nat /\ n \in Nat /\ DOMAIN s = 1 .. m /\ DOMAIN t = 1 .. n
      /\ DOMAIN c = 1 .. m + n
      /\ \A i \in 1 .. m + n : c[i] = IF i <= m THEN s[i] ELSE t[i - m]
  BY <1>1, ConcatProperties, LenProperties
<1> HIDE DEF c, m, n
<1>3. /\ \A i \in 1 .. m : i \in 1 .. m + n /\ c[i] = s[i]
      /\ \A i \in 1 .. n : i + m \in 1 .. m + n /\ c[i + m] = t[i]
  <2>1. ASSUME NEW i \in 1 .. n
        PROVE  i + m \in 1 .. m + n /\ ~(i + m <= m) /\ (i + m) - m = i
    BY <1>2
  <2>2. QED
    BY <1>2, <2>1
<1>4. WordsOf(s) \cup WordsOf(t) \subseteq WordsOf(c)
  BY <1>2, <1>3 DEF WordsOf
<1>5. WordsOf(c) \subseteq WordsOf(s) \cup WordsOf(t)
  <2>1. \A i \in 1 .. m + n : i <= m => i \in 1 .. m
    BY <1>2
  <2>2. \A i \in 1 .. m + n : ~(i <= m) => i - m \in 1 .. n
    BY <1>2
  <2>3. QED
    BY <1>2, <2>1, <2>2 DEF WordsOf
<1>6. QED
  BY <1>4, <1>5 DEF c

LEMMA IncreasingConcat ==
  ASSUME NEW s \in Text, NEW t \in Text, Increasing(s), Increasing(t),
         Before(WordsOf(s), WordsOf(t))
  PROVE  Increasing(s \o t)
<1>1. s \in Seq(Nat) /\ t \in Seq(Nat)
  BY DEF Text
<1> DEFINE c == s \o t
           m == Len(s)
           n == Len(t)
<1>2. /\ m \in Nat /\ n \in Nat /\ DOMAIN s = 1 .. m /\ DOMAIN t = 1 .. n
      /\ DOMAIN c = 1 .. m + n
      /\ \A i \in 1 .. m + n : c[i] = IF i <= m THEN s[i] ELSE t[i - m]
  BY <1>1, ConcatProperties, LenProperties
<1> HIDE DEF c, m, n
<1>3. SUFFICES ASSUME NEW i \in 1 .. m + n, NEW j \in 1 .. m + n, i < j
               PROVE  c[i] < c[j]
  BY <1>2 DEF Increasing, c
<1>4. CASE j <= m
  <2>1. i \in DOMAIN s /\ j \in DOMAIN s /\ i <= m
    BY <1>2, <1>3, <1>4
  <2>2. QED
    BY <1>2, <1>3, <1>4, <2>1 DEF Increasing
<1>5. CASE i <= m /\ ~(j <= m)
  <2>1. i \in DOMAIN s /\ j - m \in DOMAIN t
    BY <1>2, <1>3, <1>5
  <2>2. s[i] \in WordsOf(s) /\ t[j - m] \in WordsOf(t)
    BY <2>1 DEF WordsOf
  <2>3. QED
    BY <1>2, <1>5, <2>2 DEF Before
<1>6. CASE ~(i <= m)
  <2>1. i - m \in DOMAIN t /\ j - m \in DOMAIN t /\ i - m < j - m /\ ~(j <= m)
    BY <1>2, <1>3, <1>6
  <2>2. QED
    BY <1>2, <1>6, <2>1 DEF Increasing
<1>7. QED
  BY <1>2, <1>4, <1>5, <1>6

LEMMA NoWords == WordsOf(<<>>) = {} /\ Increasing(<<>>)
  BY DEF WordsOf, Increasing

LEMMA SomeWords ==
  ASSUME NEW s \in Text
  PROVE  /\ WordsOf(s) \subseteq Nat
         /\ s # <<>> => WordsOf(s) # {}
<1>1. s \in Seq(Nat)
  BY DEF Text
<1>2. s # <<>> => 1 \in DOMAIN s
  BY <1>1
<1>3. QED
  BY <1>1, <1>2 DEF WordsOf

\* All the words of a place go to the end of another, which they come after.
LEMMA MovedSpread ==
  ASSUME NEW held \in [Int -> Text], NEW R, Spread(held, R),
         NEW from \in Int, NEW to \in Int, from # to, to # 0,
         Before(WordsOf(held[to]), WordsOf(held[from]))
  PROVE  Spread(Moved(held, from, to), R)
<1> DEFINE m == Moved(held, from, to)
           both == held[to] \o held[from]
<1>1. /\ m[from] = <<>> /\ m[to] = both
      /\ \A h \in Int : h # from /\ h # to => m[h] = held[h]
  BY DEF Moved
<1>2. WordsOf(both) = WordsOf(held[to]) \cup WordsOf(held[from])
  BY WordsOfConcat
<1>3. Increasing(both)
  BY IncreasingConcat DEF Spread
<1> HIDE DEF m, both
<1>4. /\ WordsOf(m[from]) = {}
      /\ WordsOf(m[to]) = WordsOf(held[to]) \cup WordsOf(held[from])
      /\ \A h \in Int : h # from /\ h # to => WordsOf(m[h]) = WordsOf(held[h])
  BY <1>1, <1>2, NoWords
<1>5. \A h, g \in Int : h # g => WordsOf(m[h]) \cap WordsOf(m[g]) = {}
  <2>1. \A h, g \in Int : h # g => WordsOf(held[h]) \cap WordsOf(held[g]) = {}
    BY DEF Spread
  <2>2. QED
    BY <1>4, <2>1
<1>6. \A h \in Int : WordsOf(m[h]) \subseteq R
  <2>1. \A h \in Int : WordsOf(held[h]) \subseteq R
    BY DEF Spread
  <2>2. QED
    BY <1>4, <2>1
<1>7. \A w \in R : \E h \in Int : w \in WordsOf(m[h])
  <2>1. ASSUME NEW w \in R
        PROVE  \E h \in Int : w \in WordsOf(m[h])
    <3>1. PICK h \in Int : w \in WordsOf(held[h])
      BY DEF Spread
    <3>2. CASE h = from \/ h = to
      BY <1>4, <3>1, <3>2
    <3>3. CASE h # from /\ h # to
      BY <1>4, <3>1, <3>3
    <3>4. QED
      BY <3>2, <3>3
  <2>2. QED
    BY <2>1
<1>8. \A h \in Int : Increasing(m[h])
  <2>1. \A h \in Int : Increasing(held[h])
    BY DEF Spread
  <2>2. QED
    BY <1>1, <1>3, <2>1, NoWords
<1>9. \A h \in Int : h # 0 => Before(WordsOf(m[h]), WordsOf(m[0]))
  <2>1. \A h \in Int : h # 0 => Before(WordsOf(held[h]), WordsOf(held[0]))
    BY DEF Spread
  <2>2. CASE from = 0
    BY <1>4, <2>2 DEF Before
  <2>3. CASE from # 0
    <3>1. WordsOf(m[0]) = WordsOf(held[0])
      BY <1>4, <2>3
    <3>2. QED
      BY <1>4, <2>1, <2>3, <3>1 DEF Before
  <2>4. QED
    BY <2>2, <2>3
<1>10. QED
  BY <1>5, <1>6, <1>7, <1>8, <1>9 DEF Spread, m

\* A word that is met is the last one.
LEMMA MetSpread ==
  ASSUME NEW held \in [Int -> Text], NEW R, NEW w \in Nat, Spread(held, R),
         \A v \in R : v \in Nat /\ v < w
  PROVE  Spread([held EXCEPT ![0] = Append(held[0], w)], R \cup {w})
<1> DEFINE m == [held EXCEPT ![0] = Append(held[0], w)]
           more == Append(held[0], w)
<1>1. m[0] = more /\ \A h \in Int : h # 0 => m[h] = held[h]
  OBVIOUS
<1>2. held[0] \in Seq(Nat)
  BY DEF Text
<1>3. WordsOf(more) = WordsOf(held[0]) \cup {w}
  BY <1>2, WordsOfAppend
<1>4. \A h \in Int : WordsOf(held[h]) \subseteq R
  BY DEF Spread
<1>5. Increasing(more)
  <2> DEFINE n == Len(held[0])
  <2>1. /\ n \in Nat /\ DOMAIN held[0] = 1 .. n /\ DOMAIN more = 1 .. n + 1
        /\ more[n + 1] = w /\ \A i \in 1 .. n : more[i] = held[0][i]
    BY <1>2
  <2>2. \A i \in 1 .. n : held[0][i] < w
    <3>1. \A i \in 1 .. n : held[0][i] \in R
      BY <1>4, <2>1 DEF WordsOf
    <3>2. QED
      BY <3>1
  <2> HIDE DEF n, more
  <2>3. Increasing(held[0])
    BY DEF Spread
  <2>4. SUFFICES ASSUME NEW i \in 1 .. n + 1, NEW j \in 1 .. n + 1, i < j
                 PROVE  more[i] < more[j]
    BY <2>1 DEF Increasing
  <2>5. i \in 1 .. n
    BY <2>1, <2>4
  <2>6. CASE j = n + 1
    BY <2>1, <2>2, <2>5, <2>6
  <2>7. CASE j # n + 1
    <3>1. j \in 1 .. n
      BY <2>1, <2>7
    <3>2. QED
      BY <2>1, <2>3, <2>4, <2>5, <3>1 DEF Increasing
  <2>8. QED
    BY <2>6, <2>7
<1> HIDE DEF m, more
<1>6. \A h, g \in Int : h # g => WordsOf(m[h]) \cap WordsOf(m[g]) = {}
  <2>1. \A h, g \in Int : h # g => WordsOf(held[h]) \cap WordsOf(held[g]) = {}
    BY DEF Spread
  <2>2. w \notin R
    OBVIOUS
  <2>3. QED
    BY <1>1, <1>3, <1>4, <2>1, <2>2
<1>7. \A h \in Int : WordsOf(m[h]) \subseteq R \cup {w}
  BY <1>1, <1>3, <1>4
<1>8. \A v \in R \cup {w} : \E h \in Int : v \in WordsOf(m[h])
  <2>1. ASSUME NEW v \in R
        PROVE  \E h \in Int : v \in WordsOf(m[h])
    <3>1. PICK h \in Int : v \in WordsOf(held[h])
      BY DEF Spread
    <3>2. v \in WordsOf(m[h])
      BY <1>1, <1>3, <3>1
    <3>3. QED
      BY <3>2
  <2>2. w \in WordsOf(m[0]) /\ 0 \in Int
    BY <1>1, <1>3
  <2>3. QED
    BY <2>1, <2>2
<1>9. \A h \in Int : Increasing(m[h])
  <2>1. \A h \in Int : Increasing(held[h])
    BY DEF Spread
  <2>2. QED
    BY <1>1, <1>5, <2>1
<1>10. \A h \in Int : h # 0 => Before(WordsOf(m[h]), WordsOf(m[0]))
  <2>1. \A h \in Int : h # 0 => Before(WordsOf(held[h]), WordsOf(held[0]))
    BY DEF Spread
  <2>2. \A h \in Int : \A v \in WordsOf(held[h]) : v < w
    BY <1>4
  <2>3. QED
    BY <1>1, <1>3, <2>1, <2>2 DEF Before
<1>11. QED
  BY <1>6, <1>7, <1>8, <1>9, <1>10 DEF Spread, m

LEMMA HeldValues ==
  ASSUME NEW p \in Parser
  PROVE  /\ Held(p) \in [Int -> Text]
         /\ Held(p)[0] = p.buffer /\ Held(p)[-1] = p.items
         /\ Held(p)[-2] = p.rows /\ Held(p)[-3] = p.cells
         /\ \A b \in DOMAIN p.blocks : b \in Int /\ Held(p)[b] = p.blocks[b].text
         /\ Held(p)[Len(p.blocks) + 1] = <<>>
<1>1. p.blocks \in Seq(Block) /\ p.buffer \in Text /\ p.items \in Text
      /\ p.rows \in Text /\ p.cells \in Text
  BY FieldTypes
<1>2. Len(p.blocks) \in Nat /\ DOMAIN p.blocks = 1 .. Len(p.blocks)
  BY <1>1, LenProperties
<1>3. \A b \in DOMAIN p.blocks : p.blocks[b].text \in Text
  <2>1. \A b \in DOMAIN p.blocks : p.blocks[b] \in Block
    BY <1>1
  <2>2. QED
    BY <2>1 DEF Block
<1>4. Held(p) \in [Int -> Text]
  BY <1>1, <1>3, Texts DEF Held
<1>5. \A b \in DOMAIN p.blocks : b \in Int /\ b > 0
  BY <1>2
<1>6. /\ Len(p.blocks) + 1 \in Int /\ Len(p.blocks) + 1 > 0
      /\ Len(p.blocks) + 1 \notin DOMAIN p.blocks
  BY <1>2
<1>7. QED
  BY <1>4, <1>5, <1>6 DEF Held

SameTexts(p, q) ==
  /\ q.blocks = p.blocks /\ q.buffer = p.buffer /\ q.items = p.items
  /\ q.rows = p.rows /\ q.cells = p.cells
  /\ q.listDepth = p.listDepth /\ q.tableDepth = p.tableDepth

LEMMA SameTextsKept ==
  ASSUME NEW p, NEW q, SameTexts(p, q)
  PROVE  /\ Held(q) = Held(p)
         /\ \A R : WordsKept(p, R) => WordsKept(q, R)
  BY DEF SameTexts, WordsKept, Held, Waits

\* A block that is added holds nothing yet and has the number after the last.
LEMMA BlockAdded ==
  ASSUME NEW p \in Parser, NEW text \in Text,
         NEW kind \in {"heading", "code", "paragraph", "list", "table"}
  PROVE  LET q == AddBlock(p, kind, text)
             n == Len(p.blocks)
         IN  /\ n \in Nat /\ DOMAIN p.blocks = 1 .. n
             /\ Len(q.blocks) = n + 1 /\ DOMAIN q.blocks = 1 .. n + 1
             /\ \A b \in 1 .. n : q.blocks[b] = p.blocks[b]
             /\ q.blocks[n + 1].text = text /\ q.blocks[n + 1].kind = kind
             /\ q.buffer = p.buffer /\ q.items = p.items
             /\ q.rows = p.rows /\ q.cells = p.cells
             /\ q.listDepth = p.listDepth /\ q.tableDepth = p.tableDepth
<1> DEFINE block == [kind |-> kind, text |-> text, chrome |-> p.chromes # <<>>]
           n == Len(p.blocks)
           blocks == Append(p.blocks, block)
           q == AddBlock(p, kind, text)
<1>1. block \in Block /\ block.text = text /\ block.kind = kind
  BY DEF Block
<1>2. p.blocks \in Seq(Block)
  BY FieldTypes
<1>3. n \in Nat /\ DOMAIN p.blocks = 1 .. n
  BY <1>2, LenProperties
<1>4. /\ Len(blocks) = n + 1 /\ blocks \in Seq(Block) /\ blocks[n + 1] = block
      /\ \A b \in 1 .. n : blocks[b] = p.blocks[b]
  <2> HIDE DEF block
  <2> QED
    BY <1>1, <1>2, AppendProperties
<1>5. DOMAIN blocks = 1 .. n + 1
  <2> HIDE DEF blocks
  <2> QED
    BY <1>4, LenProperties
<1>6. q = [p EXCEPT !.blocks = blocks]
  BY DEF AddBlock
<1> HIDE DEF block, blocks, q
<1>7. /\ q.blocks = blocks
      /\ q.buffer = p.buffer /\ q.items = p.items /\ q.rows = p.rows /\ q.cells = p.cells
      /\ q.listDepth = p.listDepth /\ q.tableDepth = p.tableDepth
  BY <1>6 DEF Parser
<1>8. QED
  BY <1>1, <1>3, <1>4, <1>5, <1>7 DEF q

LEMMA InFlowAdded ==
  ASSUME NEW p \in Parser, NEW text \in Text, text # <<>>,
         NEW kind \in {"heading", "code", "paragraph", "list", "table"},
         InFlow(p.blocks),
         kind \in {"list", "table"} \/ \A b \in DOMAIN p.blocks :
                                         Before(WordsOf(p.blocks[b].text), WordsOf(text))
  PROVE  InFlow(AddBlock(p, kind, text).blocks)
<1> DEFINE q == AddBlock(p, kind, text)
           n == Len(p.blocks)
<1>1. /\ n \in Nat /\ DOMAIN p.blocks = 1 .. n /\ DOMAIN q.blocks = 1 .. n + 1
      /\ \A b \in 1 .. n : q.blocks[b] = p.blocks[b]
      /\ q.blocks[n + 1].text = text /\ q.blocks[n + 1].kind = kind
  BY BlockAdded
<1> HIDE DEF q, n
<1>2. ASSUME NEW c \in 1 .. n
      PROVE  /\ q.blocks[c].text # <<>>
             /\ q.blocks[c].kind \notin {"list", "table"} =>
                  \A b \in 1 .. c - 1 : Before(WordsOf(q.blocks[b].text), WordsOf(q.blocks[c].text))
  <2>1. \A b \in 1 .. c - 1 : b \in 1 .. n
    BY <1>1
  <2>2. QED
    BY <1>1, <2>1 DEF InFlow
<1>3. /\ q.blocks[n + 1].text # <<>>
      /\ q.blocks[n + 1].kind \notin {"list", "table"} =>
           \A b \in 1 .. (n + 1) - 1 :
             Before(WordsOf(q.blocks[b].text), WordsOf(q.blocks[n + 1].text))
  <2>1. (n + 1) - 1 = n
    BY <1>1
  <2>2. QED
    BY <1>1, <2>1
<1>4. \A c \in 1 .. n + 1 : c \in 1 .. n \/ c = n + 1
  BY <1>1
<1>5. InFlow(q.blocks)
  BY <1>1, <1>2, <1>3, <1>4 DEF InFlow
<1>6. QED
  BY <1>5 DEF q

\* Words that move into a new block, from the place h whose text they are.
LEMMA BlockTakes ==
  ASSUME NEW p \in Parser, NEW R, Spread(Held(p), R), NEW q \in Parser, NEW h \in {0, -1, -2},
         NEW kind \in {"heading", "code", "paragraph", "list", "table"},
         q.blocks = AddBlock(p, kind, Held(p)[h]).blocks,
         q.buffer = IF h = 0 THEN <<>> ELSE p.buffer,
         q.items = IF h = -1 THEN <<>> ELSE p.items,
         q.rows = IF h = -2 THEN <<>> ELSE p.rows,
         q.cells = p.cells
  PROVE  Spread(Held(q), R)
<1> DEFINE n == Len(p.blocks)
           k == Held(p)
<1>1. k \in [Int -> Text] /\ h \in Int
  BY HeldValues
<1>2. k[h] \in Text
  BY <1>1
<1>3. /\ n \in Nat /\ DOMAIN p.blocks = 1 .. n /\ DOMAIN q.blocks = 1 .. n + 1
      /\ \A b \in 1 .. n : q.blocks[b] = p.blocks[b]
      /\ q.blocks[n + 1].text = k[h]
  BY <1>2, BlockAdded
<1>4. k[n + 1] = <<>> /\ n + 1 \in Int /\ n + 1 > 0
  BY <1>3, HeldValues
<1>5. Moved(k, h, n + 1)[n + 1] = k[h]
  <2>1. <<>> \o k[h] = k[h]
    BY <1>2, ConcatEmptySeq DEF Text
  <2> HIDE DEF n, k
  <2>2. QED
    BY <1>1, <1>4, <2>1 DEF Moved
<1>6. Held(q) = Moved(k, h, n + 1)
  <2>1. Held(q) \in [Int -> Text] /\ Moved(k, h, n + 1) \in [Int -> Text]
    <3> HIDE DEF n, k
    <3>1. k[n + 1] \o k[h] \in Text
      BY <1>1, <1>4, Texts
    <3>2. QED
      BY <1>1, <1>4, <3>1, Texts, HeldValues DEF Moved
  <2>2. ASSUME NEW g \in Int
        PROVE  Held(q)[g] = Moved(k, h, n + 1)[g]
    <3>1. CASE g = n + 1
      <4>1. n + 1 \in DOMAIN q.blocks
        <5> HIDE DEF n
        <5> QED
          BY <1>3
      <4>2. Held(q)[n + 1] = q.blocks[n + 1].text
        BY <4>1, HeldValues
      <4>3. QED
        BY <1>3, <1>5, <3>1, <4>2
    <3>2. CASE g # n + 1 /\ g = h
      <4>1. Held(q)[h] = <<>>
        BY HeldValues
      <4>2. Moved(k, h, n + 1)[h] = <<>>
        <5> HIDE DEF n, k
        <5> QED
          BY <1>1, <1>4, <3>2 DEF Moved
      <4>3. QED
        BY <3>2, <4>1, <4>2
    <3>3. CASE g # n + 1 /\ g # h
      <4>1. Moved(k, h, n + 1)[g] = k[g]
        <5> HIDE DEF n, k
        <5> QED
          BY <1>1, <1>4, <3>3 DEF Moved
      <4>2. g \in DOMAIN q.blocks <=> g \in DOMAIN p.blocks
        <5> HIDE DEF n
        <5> QED
          BY <1>3, <3>3
      <4>3. g \in DOMAIN p.blocks => q.blocks[g] = p.blocks[g]
        BY <1>3
      <4>4. Held(q)[g] = k[g]
        <5> HIDE DEF n
        <5> QED
          BY <3>3, <4>2, <4>3 DEF Held
      <4>5. QED
        BY <4>1, <4>4
    <3>4. QED
      BY <3>1, <3>2, <3>3
  <2> HIDE DEF n, k
  <2>3. QED
    BY <2>1, <2>2
<1> HIDE DEF n, k
<1>7. Before(WordsOf(k[n + 1]), WordsOf(k[h]))
  BY <1>4, NoWords DEF Before
<1>8. QED
  BY <1>1, <1>4, <1>6, <1>7, MovedSpread DEF k

\* Words that wait go to another place where words wait.
LEMMA PlaceTakes ==
  ASSUME NEW p \in Parser, NEW q \in Parser, NEW R, Spread(Held(p), R),
         NEW from \in {0, -3}, NEW to \in {-1, -2, -3}, from # to,
         q.blocks = p.blocks,
         Before(WordsOf(Held(p)[to]), WordsOf(Held(p)[from])),
         Held(q)[to] = Held(p)[to] \o Held(p)[from],
         Held(q)[from] = <<>>,
         \A h \in {0, -1, -2, -3} \ {from, to} : Held(q)[h] = Held(p)[h]
  PROVE  Spread(Held(q), R)
<1> DEFINE k == Held(p)
           m == Moved(k, from, to)
<1>1. k \in [Int -> Text] /\ from \in Int /\ to \in Int /\ to # 0
  BY HeldValues
<1>2. m \in [Int -> Text]
  <2>1. k[to] \o k[from] \in Text
    BY <1>1, Texts
  <2> HIDE DEF k
  <2>2. QED
    BY <1>1, <2>1, Texts DEF Moved
<1>3. Held(q) \in [Int -> Text]
  BY HeldValues
<1>4. ASSUME NEW h \in Int
      PROVE  Held(q)[h] = m[h]
  <2>1. CASE h \in {0, -1, -2, -3}
    <3>1. m[to] = k[to] \o k[from] /\ m[from] = <<>>
      <4> HIDE DEF k
      <4> QED
        BY <1>1 DEF Moved
    <3>2. h \notin {from, to} => m[h] = k[h]
      <4> HIDE DEF k
      <4> QED
        BY <1>1 DEF Moved
    <3> HIDE DEF m
    <3>3. QED
      BY <2>1, <3>1, <3>2
  <2>2. CASE h \notin {0, -1, -2, -3}
    <3>1. m[h] = k[h]
      <4> HIDE DEF k
      <4> QED
        BY <1>1, <2>2 DEF Moved
    <3>2. Held(q)[h] = Held(p)[h]
      BY <2>2 DEF Held
    <3>3. QED
      BY <3>1, <3>2
  <2>3. QED
    BY <2>1, <2>2
<1>5. Held(q) = m
  <2> HIDE DEF m
  <2> QED
    BY <1>2, <1>3, <1>4
<1>6. Spread(m, R)
  <2> HIDE DEF k
  <2>1. Spread(k, R) /\ Before(WordsOf(k[to]), WordsOf(k[from]))
    BY DEF k
  <2>2. QED
    BY <1>1, <2>1, MovedSpread
<1>7. QED
  BY <1>5, <1>6

LEMMA WaitingTypes ==
  ASSUME NEW p \in Parser
  PROVE  /\ p.buffer \in Text /\ p.items \in Text /\ p.rows \in Text /\ p.cells \in Text
         /\ p.blocks \in Seq(Block) /\ p.listDepth \in Nat /\ p.tableDepth \in Nat
  BY DEF Parser

LEMMA FlushWords ==
  ASSUME NEW p \in Parser, NEW R, WordsKept(p, R)
  PROVE  WordsKept(Flush(p), R) /\ Flush(p).buffer = <<>>
<1> DEFINE q == Flush(p)
           emptied == [p EXCEPT !.buffer = <<>>]
           kind == IF Role(p) \in {"heading", "code"} THEN Role(p) ELSE "paragraph"
<1>1. q \in Parser
  BY FlushType
<1>2. p.buffer \in Text /\ p.items \in Text /\ p.rows \in Text /\ p.cells \in Text
  BY WaitingTypes
<1>3. \A h \in Int : h # 0 => Before(WordsOf(Held(p)[h]), WordsOf(p.buffer))
  BY HeldValues DEF WordsKept, Spread
<1>4. CASE p.buffer = <<>>
  BY <1>4 DEF Flush
<1>5. CASE p.buffer # <<>> /\ Role(p) = "cell" /\ p.tableDepth > 0
  <2>1. q = [emptied EXCEPT !.cells = @ \o p.buffer]
    BY <1>5 DEF Flush
  <2>2. /\ q.blocks = p.blocks /\ q.buffer = <<>> /\ q.items = p.items
        /\ q.rows = p.rows /\ q.cells = p.cells \o p.buffer
        /\ q.listDepth = p.listDepth /\ q.tableDepth = p.tableDepth
    <3> HIDE DEF q
    <3> QED
      BY <2>1 DEF Parser
  <2> HIDE DEF q
  <2>3. Spread(Held(q), R)
    <3>1. Spread(Held(p), R) /\ Before(WordsOf(Held(p)[-3]), WordsOf(Held(p)[0]))
      BY <1>3, HeldValues DEF WordsKept
    <3> DEFINE from == 0
               to == -3
    <3>2. /\ Held(q)[to] = Held(p)[to] \o Held(p)[from]
          /\ Held(q)[from] = <<>>
          /\ \A h \in {0, -1, -2, -3} \ {from, to} : Held(q)[h] = Held(p)[h]
      BY <1>1, <2>2, HeldValues
    <3>3. from \in {0, -3} /\ to \in {-1, -2, -3} /\ from # to
      OBVIOUS
    <3>4. Before(WordsOf(Held(p)[to]), WordsOf(Held(p)[from]))
      BY <3>1
    <3> HIDE DEF from, to
    <3>5. QED
      BY <1>1, <2>2, <3>1, <3>2, <3>3, <3>4, PlaceTakes
  <2>4. Before(WordsOf(q.rows), WordsOf(q.cells))
    <3>1. WordsOf(q.cells) = WordsOf(p.cells) \cup WordsOf(p.buffer)
      BY <1>2, <2>2, WordsOfConcat
    <3>2. Before(WordsOf(p.rows), WordsOf(p.buffer))
      BY <1>3, HeldValues
    <3>3. QED
      BY <2>2, <3>1, <3>2 DEF WordsKept, Before
  <2>5. InFlow(q.blocks) /\ Waits(q)
    BY <1>5, <2>2 DEF WordsKept, Waits
  <2>6. QED
    BY <2>2, <2>3, <2>4, <2>5 DEF WordsKept, q
<1>6. CASE p.buffer # <<>> /\ Role(p) = "item" /\ p.listDepth > 0
  <2>1. q = [emptied EXCEPT !.items = @ \o p.buffer]
    BY <1>6 DEF Flush
  <2>2. /\ q.blocks = p.blocks /\ q.buffer = <<>> /\ q.items = p.items \o p.buffer
        /\ q.rows = p.rows /\ q.cells = p.cells
        /\ q.listDepth = p.listDepth /\ q.tableDepth = p.tableDepth
    <3> HIDE DEF q
    <3> QED
      BY <2>1 DEF Parser
  <2> HIDE DEF q
  <2>3. Spread(Held(q), R)
    <3>1. Spread(Held(p), R) /\ Before(WordsOf(Held(p)[-1]), WordsOf(Held(p)[0]))
      BY <1>3, HeldValues DEF WordsKept
    <3> DEFINE from == 0
               to == -1
    <3>2. /\ Held(q)[to] = Held(p)[to] \o Held(p)[from]
          /\ Held(q)[from] = <<>>
          /\ \A h \in {0, -1, -2, -3} \ {from, to} : Held(q)[h] = Held(p)[h]
      BY <1>1, <2>2, HeldValues
    <3>3. from \in {0, -3} /\ to \in {-1, -2, -3} /\ from # to
      OBVIOUS
    <3>4. Before(WordsOf(Held(p)[to]), WordsOf(Held(p)[from]))
      BY <3>1
    <3> HIDE DEF from, to
    <3>5. QED
      BY <1>1, <2>2, <3>1, <3>2, <3>3, <3>4, PlaceTakes
  <2>4. InFlow(q.blocks) /\ Waits(q) /\ Before(WordsOf(q.rows), WordsOf(q.cells))
    BY <1>6, <2>2 DEF WordsKept, Waits
  <2>5. QED
    BY <2>2, <2>3, <2>4 DEF WordsKept, q
<1>7. CASE /\ p.buffer # <<>>
           /\ ~(Role(p) = "cell" /\ p.tableDepth > 0)
           /\ ~(Role(p) = "item" /\ p.listDepth > 0)
  <2>1. q = AddBlock(emptied, kind, p.buffer)
    BY <1>7 DEF Flush
  <2>2. emptied \in Parser /\ kind \in {"heading", "code", "paragraph", "list", "table"}
    BY Texts DEF Parser
  <2>3. /\ emptied.blocks = p.blocks /\ emptied.buffer = <<>> /\ emptied.items = p.items
        /\ emptied.rows = p.rows /\ emptied.cells = p.cells
        /\ emptied.listDepth = p.listDepth /\ emptied.tableDepth = p.tableDepth
        /\ emptied.chromes = p.chromes
    BY DEF Parser
  <2> HIDE DEF q, emptied, kind
  <2>4. /\ q.buffer = <<>> /\ q.items = p.items /\ q.rows = p.rows /\ q.cells = p.cells
        /\ q.listDepth = p.listDepth /\ q.tableDepth = p.tableDepth
    BY <1>2, <2>1, <2>2, <2>3, BlockAdded
  <2>5. q.blocks = AddBlock(p, kind, p.buffer).blocks
    BY <2>1, <2>2, <2>3 DEF AddBlock, Parser
  <2>6. Spread(Held(q), R)
    <3>1. Spread(Held(p), R) /\ Held(p)[0] = p.buffer
      BY HeldValues DEF WordsKept
    <3>2. QED
      BY <1>1, <2>2, <2>4, <2>5, <3>1, BlockTakes
  <2>7. InFlow(q.blocks)
    <3>1. \A b \in DOMAIN p.blocks : Before(WordsOf(p.blocks[b].text), WordsOf(p.buffer))
      <4>1. \A b \in DOMAIN p.blocks : b # 0
        <5>1. p.blocks \in Seq(Block)
          BY WaitingTypes
        <5>2. QED
          BY <5>1
      <4>2. QED
        BY <1>3, <4>1, HeldValues
    <3>2. InFlow(p.blocks)
      BY DEF WordsKept
    <3>3. QED
      BY <1>2, <1>7, <2>2, <2>5, <3>1, <3>2, InFlowAdded
  <2>8. Waits(q) /\ Before(WordsOf(q.rows), WordsOf(q.cells))
    BY <2>4 DEF WordsKept, Waits
  <2>9. QED
    BY <2>4, <2>6, <2>7, <2>8 DEF WordsKept, q
<1>8. QED
  BY <1>4, <1>5, <1>6, <1>7

LEMMA CloseRowWords ==
  ASSUME NEW p \in Parser, NEW R, WordsKept(p, R)
  PROVE  LET q == CloseRow(p)
         IN  /\ WordsKept(q, R) /\ q.cells = <<>>
             /\ q.buffer = p.buffer /\ q.items = p.items
             /\ q.listDepth = p.listDepth /\ q.tableDepth = p.tableDepth
<1> DEFINE q == CloseRow(p)
<1>1. CASE p.cells = <<>>
  BY <1>1 DEF CloseRow
<1>2. CASE p.cells # <<>>
  <2>1. q = [p EXCEPT !.rows = @ \o p.cells, !.cells = <<>>] /\ q \in Parser
    BY <1>2, CloseRowType DEF CloseRow
  <2> HIDE DEF q
  <2>2. /\ q.blocks = p.blocks /\ q.buffer = p.buffer /\ q.items = p.items
        /\ q.rows = p.rows \o p.cells /\ q.cells = <<>>
        /\ q.listDepth = p.listDepth /\ q.tableDepth = p.tableDepth
    BY <2>1 DEF Parser
  <2>3. Spread(Held(q), R)
    <3>1. Spread(Held(p), R) /\ Before(WordsOf(Held(p)[-2]), WordsOf(Held(p)[-3]))
      BY HeldValues DEF WordsKept
    <3> DEFINE from == -3
               to == -2
    <3>2. /\ Held(q)[to] = Held(p)[to] \o Held(p)[from]
          /\ Held(q)[from] = <<>>
          /\ \A h \in {0, -1, -2, -3} \ {from, to} : Held(q)[h] = Held(p)[h]
      BY <2>1, <2>2, HeldValues
    <3>3. from \in {0, -3} /\ to \in {-1, -2, -3} /\ from # to
      OBVIOUS
    <3>4. Before(WordsOf(Held(p)[to]), WordsOf(Held(p)[from]))
      BY <3>1
    <3> HIDE DEF from, to
    <3>5. QED
      BY <2>1, <2>2, <3>1, <3>2, <3>3, <3>4, PlaceTakes
  <2>4. Before(WordsOf(q.rows), WordsOf(q.cells))
    BY <2>2, NoWords DEF Before
  <2>5. InFlow(q.blocks) /\ Waits(q)
    BY <1>2, <2>2 DEF WordsKept, Waits
  <2>6. QED
    BY <2>2, <2>3, <2>4, <2>5 DEF WordsKept, q
<1>3. QED
  BY <1>1, <1>2

LEMMA DepthWords ==
  ASSUME NEW p \in Parser, NEW R, WordsKept(p, R), NEW d \in Nat
  PROVE  /\ (p.items # <<>> => d > 0) => WordsKept([p EXCEPT !.listDepth = d], R)
         /\ (p.rows # <<>> \/ p.cells # <<>> => d > 0)
              => WordsKept([p EXCEPT !.tableDepth = d], R)
<1> DEFINE l == [p EXCEPT !.listDepth = d]
           t == [p EXCEPT !.tableDepth = d]
<1>1. /\ l.blocks = p.blocks /\ l.buffer = p.buffer /\ l.items = p.items
      /\ l.rows = p.rows /\ l.cells = p.cells
      /\ l.listDepth = d /\ l.tableDepth = p.tableDepth
  BY DEF Parser
<1>2. /\ t.blocks = p.blocks /\ t.buffer = p.buffer /\ t.items = p.items
      /\ t.rows = p.rows /\ t.cells = p.cells
      /\ t.listDepth = p.listDepth /\ t.tableDepth = d
  BY DEF Parser
<1> HIDE DEF l, t
<1>3. Held(l) = Held(p) /\ Held(t) = Held(p)
  BY <1>1, <1>2 DEF Held
<1>4. (p.items # <<>> => d > 0) => WordsKept(l, R)
  BY <1>1, <1>3 DEF WordsKept, Waits
<1>5. (p.rows # <<>> \/ p.cells # <<>> => d > 0) => WordsKept(t, R)
  BY <1>2, <1>3 DEF WordsKept, Waits
<1>6. QED
  BY <1>4, <1>5 DEF l, t

\* A list's items, or a table's rows, become a block.
LEMMA ListEmitted ==
  ASSUME NEW p \in Parser, NEW R, WordsKept(p, R), p.items # <<>>
  PROVE  LET q == [AddBlock(p, "list", p.items) EXCEPT !.items = <<>>]
         IN  /\ q \in Parser /\ WordsKept(q, R) /\ q.items = <<>>
             /\ q.buffer = p.buffer /\ q.rows = p.rows /\ q.cells = p.cells
             /\ q.listDepth = p.listDepth /\ q.tableDepth = p.tableDepth
<1> DEFINE a == AddBlock(p, "list", p.items)
           q == [a EXCEPT !.items = <<>>]
<1>1. p.items \in Text /\ Held(p)[-1] = p.items
  BY WaitingTypes, HeldValues
<1>2. /\ a \in Parser /\ a.buffer = p.buffer /\ a.rows = p.rows /\ a.cells = p.cells
      /\ a.listDepth = p.listDepth /\ a.tableDepth = p.tableDepth
  BY <1>1, AddBlockType, BlockAdded
<1> HIDE DEF a
<1>3. /\ q \in Parser /\ q.blocks = a.blocks /\ q.items = <<>>
      /\ q.buffer = p.buffer /\ q.rows = p.rows /\ q.cells = p.cells
      /\ q.listDepth = p.listDepth /\ q.tableDepth = p.tableDepth
  BY <1>2, Texts DEF Parser
<1> HIDE DEF q
<1>4. Spread(Held(q), R)
  <2> DEFINE h == -1
  <2>1. /\ h \in {0, -1, -2} /\ q.blocks = AddBlock(p, "list", Held(p)[h]).blocks
        /\ q.buffer = IF h = 0 THEN <<>> ELSE p.buffer
        /\ q.items = IF h = -1 THEN <<>> ELSE p.items
        /\ q.rows = IF h = -2 THEN <<>> ELSE p.rows
    BY <1>1, <1>3 DEF a
  <2>2. Spread(Held(p), R)
    BY DEF WordsKept
  <2> HIDE DEF h
  <2>3. QED
    BY <1>3, <2>1, <2>2, BlockTakes
<1>5. InFlow(q.blocks)
  BY <1>1, <1>3, InFlowAdded DEF WordsKept, a
<1>6. WordsKept(q, R)
  BY <1>3, <1>4, <1>5 DEF WordsKept, Waits
<1>7. QED
  BY <1>3, <1>6 DEF q, a

LEMMA TableEmitted ==
  ASSUME NEW p \in Parser, NEW R, WordsKept(p, R), p.rows # <<>>
  PROVE  LET q == [AddBlock(p, "table", p.rows) EXCEPT !.rows = <<>>]
         IN  /\ q \in Parser /\ WordsKept(q, R) /\ q.rows = <<>>
             /\ q.buffer = p.buffer /\ q.items = p.items /\ q.cells = p.cells
             /\ q.listDepth = p.listDepth /\ q.tableDepth = p.tableDepth
<1> DEFINE a == AddBlock(p, "table", p.rows)
           q == [a EXCEPT !.rows = <<>>]
<1>1. p.rows \in Text /\ Held(p)[-2] = p.rows
  BY WaitingTypes, HeldValues
<1>2. /\ a \in Parser /\ a.buffer = p.buffer /\ a.items = p.items /\ a.cells = p.cells
      /\ a.listDepth = p.listDepth /\ a.tableDepth = p.tableDepth
  BY <1>1, AddBlockType, BlockAdded
<1> HIDE DEF a
<1>3. /\ q \in Parser /\ q.blocks = a.blocks /\ q.rows = <<>>
      /\ q.buffer = p.buffer /\ q.items = p.items /\ q.cells = p.cells
      /\ q.listDepth = p.listDepth /\ q.tableDepth = p.tableDepth
  BY <1>2, Texts DEF Parser
<1> HIDE DEF q
<1>4. Spread(Held(q), R)
  <2> DEFINE h == -2
  <2>1. /\ h \in {0, -1, -2} /\ q.blocks = AddBlock(p, "table", Held(p)[h]).blocks
        /\ q.buffer = IF h = 0 THEN <<>> ELSE p.buffer
        /\ q.items = IF h = -1 THEN <<>> ELSE p.items
        /\ q.rows = IF h = -2 THEN <<>> ELSE p.rows
    BY <1>1, <1>3 DEF a
  <2>2. Spread(Held(p), R)
    BY DEF WordsKept
  <2> HIDE DEF h
  <2>3. QED
    BY <1>3, <2>1, <2>2, BlockTakes
<1>5. InFlow(q.blocks)
  BY <1>1, <1>3, InFlowAdded DEF WordsKept, a
<1>6. Before(WordsOf(q.rows), WordsOf(q.cells))
  BY <1>3, NoWords DEF Before
<1>7. WordsKept(q, R)
  BY <1>3, <1>4, <1>5, <1>6 DEF WordsKept, Waits
<1>8. QED
  BY <1>3, <1>7 DEF q, a

LEMMA CloseListWords ==
  ASSUME NEW p \in Parser, NEW R, WordsKept(p, R)
  PROVE  LET q == CloseList(p)
         IN  /\ WordsKept(q, R)
             /\ p.buffer = <<>> /\ p.listDepth <= 1 =>
                  /\ q.items = <<>> /\ q.buffer = <<>>
                  /\ q.rows = p.rows /\ q.cells = p.cells /\ q.tableDepth = p.tableDepth
<1> DEFINE f == Flush(p)
           emitted == IF f.items = <<>> THEN f
                      ELSE [AddBlock(f, "list", f.items) EXCEPT !.items = <<>>]
           ended == [emitted EXCEPT !.listDepth = 0]
           inner == [f EXCEPT !.listDepth = @ - 1]
           q == CloseList(p)
<1>1. f \in Parser /\ WordsKept(f, R) /\ f.buffer = <<>> /\ (p.buffer = <<>> => f = p)
  BY FlushType, FlushWords DEF Flush
<1>2. q = IF f.listDepth <= 1 THEN ended ELSE inner
  BY DEF CloseList
<1> HIDE DEF f, q
<1>3. /\ emitted \in Parser /\ WordsKept(emitted, R) /\ emitted.items = <<>>
      /\ emitted.buffer = <<>> /\ emitted.rows = f.rows /\ emitted.cells = f.cells
      /\ emitted.tableDepth = f.tableDepth
  BY <1>1, ListEmitted
<1> HIDE DEF emitted
<1>4. /\ WordsKept(ended, R) /\ ended.items = <<>> /\ ended.buffer = <<>>
      /\ ended.rows = f.rows /\ ended.cells = f.cells /\ ended.tableDepth = f.tableDepth
  <2>1. WordsKept(ended, R)
    BY <1>3, DepthWords
  <2>2. QED
    BY <1>3, <2>1 DEF Parser
<1>5. f.listDepth > 1 => WordsKept(inner, R)
  <2>1. f.listDepth \in Nat
    BY <1>1, WaitingTypes
  <2>2. f.listDepth > 1 => f.listDepth - 1 \in Nat /\ f.listDepth - 1 > 0
    BY <2>1
  <2>3. QED
    BY <1>1, <2>2, DepthWords
<1>6. f.listDepth \in Nat
  BY <1>1, WaitingTypes
<1> HIDE DEF ended, inner
<1>7. WordsKept(q, R)
  BY <1>2, <1>4, <1>5, <1>6
<1>8. p.buffer = <<>> /\ p.listDepth <= 1 => q = ended /\ f = p
  BY <1>1, <1>2
<1>9. QED
  BY <1>4, <1>7, <1>8 DEF q

LEMMA CloseTableWords ==
  ASSUME NEW p \in Parser, NEW R, WordsKept(p, R)
  PROVE  LET q == CloseTable(p)
         IN  /\ WordsKept(q, R)
             /\ p.buffer = <<>> /\ p.cells = <<>> /\ p.tableDepth <= 1 =>
                  /\ q.rows = <<>> /\ q.buffer = <<>> /\ q.cells = <<>>
                  /\ q.items = p.items
<1> DEFINE g == Flush(p)
           f == CloseRow(g)
           emitted == IF f.rows = <<>> THEN f
                      ELSE [AddBlock(f, "table", f.rows) EXCEPT !.rows = <<>>]
           ended == [emitted EXCEPT !.tableDepth = 0]
           inner == [f EXCEPT !.tableDepth = @ - 1]
           q == CloseTable(p)
<1>1. g \in Parser /\ WordsKept(g, R) /\ g.buffer = <<>> /\ (p.buffer = <<>> => g = p)
  BY FlushType, FlushWords DEF Flush
<1>2. q = IF f.tableDepth <= 1 THEN ended ELSE inner
  BY DEF CloseTable
<1> HIDE DEF g, q
<1>3. /\ f \in Parser /\ WordsKept(f, R) /\ f.buffer = <<>> /\ f.cells = <<>>
      /\ f.items = g.items /\ f.tableDepth = g.tableDepth
  BY <1>1, CloseRowType, CloseRowWords
<1> HIDE DEF f
<1>4. /\ emitted \in Parser /\ WordsKept(emitted, R) /\ emitted.rows = <<>>
      /\ emitted.buffer = <<>> /\ emitted.items = f.items /\ emitted.cells = <<>>
  BY <1>3, TableEmitted
<1> HIDE DEF emitted
<1>5. /\ WordsKept(ended, R) /\ ended.rows = <<>> /\ ended.buffer = <<>>
      /\ ended.items = f.items /\ ended.cells = <<>>
  <2>1. WordsKept(ended, R)
    BY <1>4, DepthWords
  <2>2. QED
    BY <1>4, <2>1 DEF Parser
<1>6. f.tableDepth \in Nat
  BY <1>3, WaitingTypes
<1>7. f.tableDepth > 1 => WordsKept(inner, R)
  <2>1. f.tableDepth > 1 => f.tableDepth - 1 \in Nat /\ f.tableDepth - 1 > 0
    BY <1>6
  <2>2. QED
    BY <1>3, <2>1, DepthWords
<1> HIDE DEF ended, inner
<1>8. WordsKept(q, R)
  BY <1>2, <1>5, <1>6, <1>7
<1>9. p.buffer = <<>> /\ p.cells = <<>> /\ p.tableDepth <= 1 => q = ended /\ f.items = p.items
  BY <1>1, <1>2, <1>3
<1>10. QED
  BY <1>5, <1>8, <1>9 DEF q

LEMMA TextTurnWords ==
  ASSUME NEW p \in Parser, NEW q, NEW R, WordsKept(p, R), TextTurn(p, q)
  PROVE  WordsKept(q, R)
<1> DEFINE f == Flush(p)
<1>1. f \in Parser /\ WordsKept(f, R)
  BY FlushType, FlushWords
<1>2. CASE q = f
  BY <1>1, <1>2
<1>3. CASE q = CloseRow(f)
  BY <1>1, <1>3, CloseRowWords
<1>4. CASE q = CloseList(p) \/ q = CloseTable(p)
  BY <1>4, CloseListWords, CloseTableWords
<1>5. CASE \/ q = [f EXCEPT !.listDepth = @ + 1]
           \/ q = [f EXCEPT !.tableDepth = @ + 1]
  <2> HIDE DEF f
  <2>1. f.listDepth \in Nat /\ f.tableDepth \in Nat
    BY <1>1, WaitingTypes
  <2>2. /\ f.listDepth + 1 \in Nat /\ f.listDepth + 1 > 0
        /\ f.tableDepth + 1 \in Nat /\ f.tableDepth + 1 > 0
    BY <2>1
  <2>3. QED
    BY <1>1, <1>5, <2>2, DepthWords
<1>6. CASE \E a, b, c : q = [f EXCEPT !.leaves = a] \/ q = [f EXCEPT !.chromes = a]
                       \/ q = [f EXCEPT !.skipTag = a, !.skipDepth = b, !.nonContent = c]
  <2> HIDE DEF f
  <2>1. SameTexts(f, q)
    BY <1>1, <1>6 DEF SameTexts, Parser
  <2>2. QED
    BY <1>1, <2>1, SameTextsKept
<1>7. \/ q = f \/ q = CloseRow(f) \/ q = CloseList(p) \/ q = CloseTable(p)
      \/ q = [f EXCEPT !.listDepth = @ + 1] \/ q = [f EXCEPT !.tableDepth = @ + 1]
      \/ \E a, b, c : q = [f EXCEPT !.leaves = a] \/ q = [f EXCEPT !.chromes = a]
                     \/ q = [f EXCEPT !.skipTag = a, !.skipDepth = b, !.nonContent = c]
  BY Zenon DEF TextTurn, OpenLeaf, CloseLeaf, CloseChrome, EnterSkip
<1>8. QED
  BY <1>2, <1>3, <1>4, <1>5, <1>6, <1>7

LEMMA AsideWords ==
  ASSUME NEW p \in Parser, NEW q, NEW R, WordsKept(p, R), AsideTurn(p, q)
  PROVE  WordsKept(q, R)
<1>1. \E a, b : \/ q = p \/ q = [p EXCEPT !.skipDepth = a]
                \/ q = [p EXCEPT !.skipDepth = a, !.skipTag = b]
                \/ q = [[p EXCEPT !.links = a] EXCEPT !.anchors = b]
                \/ q = [p EXCEPT !.links = a, !.anchors = b]
  BY AsideShape
<1>2. SameTexts(p, q)
  BY <1>1 DEF SameTexts, Parser
<1>3. QED
  BY <1>2, SameTextsKept

LEMMA SameTextsChain ==
  ASSUME NEW p, NEW q, NEW r, SameTexts(p, q), SameTexts(q, r)
  PROVE  SameTexts(p, r)
  BY DEF SameTexts

LEMMA BesideTexts ==
  ASSUME NEW p \in Parser, NEW v, NEW u
  PROVE  /\ SameTexts(p, [p EXCEPT !.fields = v]) /\ SameTexts(p, [p EXCEPT !.buttons = v])
         /\ SameTexts(p, [p EXCEPT !.forms = v]) /\ SameTexts(p, [p EXCEPT !.controls = v])
         /\ SameTexts(p, [p EXCEPT !.title = v])
         /\ SameTexts(p, [p EXCEPT !.labels = v, !.labelled = u])
  BY DEF SameTexts, Parser

LEMMA ControlSameTexts ==
  ASSUME NEW p \in Parser, NEW key \in Keys \cup {NoKey}
  PROVE  /\ SameTexts(p, AddField(p, key)) /\ SameTexts(p, AddButton(p))
         /\ \A tag \in ControlTextTags : SameTexts(p, OpenControl(p, tag, key))
         /\ p.controls # <<>> => SameTexts(p, CloseControl(p))
<1>1. SameTexts(p, p)
  BY DEF SameTexts
<1>2. SameTexts(p, AddField(p, key))
  <2> DEFINE x == Append(p.fields, [id |-> key, form |-> CurrentForm(p)])
             r == [p EXCEPT !.fields = x]
  <2>1. SameTexts(p, r)
    BY BesideTexts
  <2>2. r \in Parser
    <3>1. p.fields \in Seq(Field)
      BY FieldTypes
    <3>2. [id |-> key, form |-> CurrentForm(p)] \in Field
      BY CurrentFormType DEF Field
    <3>3. x \in Seq(Field)
      BY <3>1, <3>2, AppendProperties
    <3> HIDE DEF x
    <3>4. QED
      BY <3>3 DEF Parser
  <2>3. AddField(p, key) = RegisterField(r, Len(r.fields))
    BY DEF AddField
  <2> HIDE DEF r
  <2>4. PICK v : AddField(p, key) \in {r, [r EXCEPT !.forms = v]}
    BY <2>3 DEF RegisterField
  <2>5. SameTexts(r, [r EXCEPT !.forms = v])
    BY <2>2, BesideTexts
  <2>6. QED
    BY <2>1, <2>4, <2>5, SameTextsChain
<1>3. SameTexts(p, AddButton(p))
  <2> DEFINE x == Append(p.buttons, [text |-> <<>>, form |-> CurrentForm(p)])
             r == [p EXCEPT !.buttons = x]
  <2>1. SameTexts(p, r)
    BY BesideTexts
  <2>2. r \in Parser
    <3>1. p.buttons \in Seq(Button)
      BY FieldTypes
    <3>2. [text |-> <<>>, form |-> CurrentForm(p)] \in Button
      BY CurrentFormType, Texts DEF Button
    <3>3. x \in Seq(Button)
      BY <3>1, <3>2, AppendProperties
    <3> HIDE DEF x
    <3>4. QED
      BY <3>3 DEF Parser
  <2>3. AddButton(p) = RegisterButton(r, Len(r.buttons))
    BY DEF AddButton
  <2> HIDE DEF r
  <2>4. PICK v : AddButton(p) \in {r, [r EXCEPT !.forms = v]}
    BY <2>3 DEF RegisterButton
  <2>5. SameTexts(r, [r EXCEPT !.forms = v])
    BY <2>2, BesideTexts
  <2>6. QED
    BY <2>1, <2>4, <2>5, SameTextsChain
<1>4. ASSUME NEW tag \in ControlTextTags
      PROVE  SameTexts(p, OpenControl(p, tag, key))
  <2> DEFINE r == CASE tag = "button" -> AddButton(p)
                    [] tag = "textarea" -> AddField(p, key)
                    [] OTHER -> p
  <2>1. r \in Parser /\ SameTexts(p, r)
    BY <1>1, <1>2, <1>3, ControlTypes
  <2>2. PICK v : OpenControl(p, tag, key) = [r EXCEPT !.controls = v]
    BY DEF OpenControl
  <2> HIDE DEF r
  <2>3. SameTexts(r, [r EXCEPT !.controls = v])
    BY <2>1, BesideTexts
  <2>4. QED
    BY <2>1, <2>2, <2>3, SameTextsChain
<1>5. ASSUME p.controls # <<>>
      PROVE  SameTexts(p, CloseControl(p))
  <2> DEFINE c == Last(p.controls)
             r == [p EXCEPT !.controls = Pop(@)]
  <2>1. r \in Parser /\ SameTexts(p, r)
    BY <1>5, BesideTexts, FieldTypes, PopSeq DEF Parser
  <2>2. CloseControl(p) =
          CASE c.tag = "title" /\ p.title = <<>> -> [r EXCEPT !.title = c.text]
            [] c.tag = "label" /\ c.key \in Keys \ p.labelled ->
                 [r EXCEPT !.labels[c.key] = c.text, !.labelled = @ \cup {c.key}]
            [] c.tag = "button" -> [r EXCEPT !.buttons[c.button].text = c.text]
            [] OTHER -> r
    BY DEF CloseControl
  <2> HIDE DEF c, r
  <2>3. PICK t, u : CloseControl(p) \in
          {r, [r EXCEPT !.title = t], [r EXCEPT !.labels = t, !.labelled = u],
           [r EXCEPT !.buttons = t]}
    BY <2>2
  <2>4. /\ SameTexts(r, [r EXCEPT !.title = t]) /\ SameTexts(r, [r EXCEPT !.buttons = t])
        /\ SameTexts(r, [r EXCEPT !.labels = t, !.labelled = u])
    BY <2>1, BesideTexts
  <2>5. QED
    BY <2>1, <2>3, <2>4, SameTextsChain
<1>6. QED
  BY <1>2, <1>3, <1>4, <1>5

LEMMA FormTurnWords ==
  ASSUME NEW p \in Parser, NEW q, NEW R, WordsKept(p, R), FormTurn(p, q)
  PROVE  WordsKept(q, R)
<1>1. CASE q = OpenForm(p) \/ q = CloseForm(p)
  <2> DEFINE f == Flush(p)
  <2>1. f \in Parser /\ WordsKept(f, R)
    BY FlushType, FlushWords
  <2>2. \E a, b : q = f \/ q = [f EXCEPT !.forms = a, !.formStack = b]
                       \/ q = [f EXCEPT !.formStack = b]
    BY <1>1 DEF OpenForm, CloseForm
  <2> HIDE DEF f
  <2>3. SameTexts(f, q)
    BY <2>1, <2>2 DEF SameTexts, Parser
  <2>4. QED
    BY <2>1, <2>3, SameTextsKept
<1>2. CASE ~(q = OpenForm(p) \/ q = CloseForm(p))
  <2>1. NoKey \in Keys \cup {NoKey}
    OBVIOUS
  <2>2. SameTexts(p, q)
    BY <1>2, <2>1, ControlSameTexts DEF FormTurn
  <2>3. QED
    BY <2>2, SameTextsKept
<1>3. QED
  BY <1>1, <1>2

LEMMA TurnWords ==
  ASSUME NEW p \in Parser, NEW q, NEW R, WordsKept(p, R), Turn(p, q)
  PROVE  WordsKept(q, R)
  BY TextTurnWords, AsideWords, FormTurnWords DEF Turn

\* A word is met: outside controls it is the page's text.
LEMMA MetWords ==
  ASSUME NEW p \in Parser, NEW R, WordsKept(p, R), NEW w \in Nat,
         \A v \in R : v \in Nat /\ v < w
  PROVE  WordsKept(HandleData(p, w),
                   IF p.skipDepth > 0 \/ p.controls # <<>> THEN R ELSE R \cup {w})
<1> DEFINE q == HandleData(p, w)
<1>1. CASE p.skipDepth > 0 \/ p.controls # <<>>
  <2>1. \E c : q = p \/ q = [p EXCEPT !.controls = c]
    BY <1>1 DEF HandleData
  <2>2. SameTexts(p, q)
    BY <2>1 DEF SameTexts, Parser
  <2>3. QED
    BY <1>1, <2>2, SameTextsKept
<1>2. CASE ~(p.skipDepth > 0) /\ p.controls = <<>>
  <2>1. \E a : q = [p EXCEPT !.buffer = Append(@, w), !.anchors = a]
    BY <1>2 DEF HandleData
  <2> HIDE DEF q
  <2>2. /\ q.blocks = p.blocks /\ q.buffer = Append(p.buffer, w) /\ q.items = p.items
        /\ q.rows = p.rows /\ q.cells = p.cells
        /\ q.listDepth = p.listDepth /\ q.tableDepth = p.tableDepth
    BY <2>1 DEF Parser
  <2>3. Held(q) = [Held(p) EXCEPT ![0] = Append(Held(p)[0], w)]
    <3> DEFINE m == [Held(p) EXCEPT ![0] = Append(Held(p)[0], w)]
               b == Append(p.buffer, w)
    <3>1. Held(p)[0] = p.buffer
      BY HeldValues
    <3>2. m = [h \in Int |-> IF h = 0 THEN b ELSE Held(p)[h]]
      <4>1. DOMAIN Held(p) = Int
        BY DEF Held
      <4>2. QED
        BY <3>1, <4>1
    <3> HIDE DEF b
    <3>3. Held(q) = [h \in Int |-> IF h = 0 THEN b ELSE Held(p)[h]]
      BY <2>2 DEF Held, b
    <3> HIDE DEF m
    <3>4. Held(q) = m
      BY <3>2, <3>3
    <3>5. QED
      BY <3>4 DEF m
  <2>4. Spread(Held(q), R \cup {w})
    <3> DEFINE k == Held(p)
    <3>1. k \in [Int -> Text] /\ Spread(k, R)
      BY HeldValues DEF WordsKept
    <3> HIDE DEF k
    <3>2. Spread([k EXCEPT ![0] = Append(k[0], w)], R \cup {w})
      BY <3>1, MetSpread
    <3>3. QED
      BY <2>3, <3>2 DEF k
  <2>5. WordsKept(q, R \cup {w})
    BY <2>2, <2>4 DEF WordsKept, Waits
  <2>6. QED
    BY <1>2, <2>5 DEF q
<1>3. QED
  BY <1>1, <1>2

\* Nothing waits once close() is over.
NothingWaits(p) == p.buffer = <<>> /\ p.items = <<>> /\ p.rows = <<>> /\ p.cells = <<>>

LEMMA EndedWords ==
  ASSUME NEW p \in Parser, NEW R, WordsKept(p, R)
  PROVE  WordsKept(Ended(p), R) /\ NothingWaits(Ended(p))
<1> DEFINE f == CloseRow(Flush(p))
           l == OutermostList(f)
           t == OutermostTable(l)
<1>1. /\ f \in Parser /\ WordsKept(f, R) /\ f.buffer = <<>> /\ f.cells = <<>>
  BY FlushType, FlushWords, CloseRowType, CloseRowWords
<1> HIDE DEF f
<1>2. f.listDepth \in Nat
  BY <1>1, WaitingTypes
<1>3. /\ l \in Parser /\ WordsKept(l, R) /\ l.items = <<>>
      /\ l.buffer = <<>> /\ l.cells = <<>>
  <2>1. CASE f.listDepth = 0
    BY <1>1, <2>1, OutermostSameForms DEF OutermostList, WordsKept, Waits
  <2>2. CASE f.listDepth # 0
    <3> DEFINE g == [f EXCEPT !.listDepth = 1]
    <3>1. /\ g.buffer = <<>> /\ g.cells = <<>> /\ g.listDepth = 1 /\ g \in Parser
      BY <1>1 DEF Parser
    <3>2. WordsKept(g, R)
      <4>1. \A d \in Nat : d > 0 => WordsKept([f EXCEPT !.listDepth = d], R)
        BY <1>1, DepthWords
      <4>2. QED
        BY <4>1
    <3>3. l = CloseList(g)
      BY <2>2 DEF OutermostList
    <3> HIDE DEF g, l
    <3>4. QED
      BY <1>1, <3>1, <3>2, <3>3, CloseListWords, CloseListType
  <2>3. QED
    BY <2>1, <2>2
<1> HIDE DEF l
<1>4. l.tableDepth \in Nat
  BY <1>3, WaitingTypes
<1>5. WordsKept(t, R) /\ NothingWaits(t)
  <2>1. CASE l.tableDepth = 0
    BY <1>3, <2>1 DEF OutermostTable, WordsKept, Waits, NothingWaits
  <2>2. CASE l.tableDepth # 0
    <3> DEFINE g == [l EXCEPT !.tableDepth = 1]
    <3>1. /\ g.buffer = <<>> /\ g.cells = <<>> /\ g.items = <<>> /\ g.tableDepth = 1
          /\ g \in Parser
      BY <1>3 DEF Parser
    <3>2. WordsKept(g, R)
      <4>1. \A d \in Nat : d > 0 => WordsKept([l EXCEPT !.tableDepth = d], R)
        BY <1>3, DepthWords
      <4>2. QED
        BY <4>1
    <3>3. t = CloseTable(g)
      BY <2>2 DEF OutermostTable
    <3> HIDE DEF g, t
    <3>4. QED
      BY <3>1, <3>2, <3>3, CloseTableWords DEF NothingWaits
  <2>3. QED
    BY <2>1, <2>2
<1>6. QED
  BY <1>5 DEF Ended, f, l

WordInv ==
  /\ WordsKept(parser, readable)
  /\ phase = "closed" => NothingWaits(parser)

LEMMA InitWords == Init => WordInv
<1> SUFFICES ASSUME Init
             PROVE  WordInv
  OBVIOUS
<1>1. /\ parser.blocks = <<>> /\ parser.buffer = <<>> /\ parser.items = <<>>
      /\ parser.rows = <<>> /\ parser.cells = <<>> /\ readable = {} /\ phase = "open"
  BY DEF Init, NewParser
<1>2. \A h \in Int : Held(parser)[h] = <<>>
  BY <1>1 DEF Held
<1>3. Spread(Held(parser), readable)
  BY <1>1, <1>2, NoWords DEF Spread, Before
<1>4. Before(WordsOf(parser.rows), WordsOf(parser.cells))
  BY <1>1, NoWords DEF Before
<1>5. InFlow(parser.blocks) /\ Waits(parser)
  BY <1>1 DEF InFlow, Waits
<1>6. QED
  BY <1>1, <1>3, <1>4, <1>5 DEF WordInv, WordsKept

LEMMA NextWords == TypeOK /\ WordInv /\ [Next]_vars => WordInv'
<1> SUFFICES ASSUME TypeOK, WordInv, [Next]_vars
             PROVE  WordInv'
  OBVIOUS
<1>1. parser \in Parser
  BY DEF TypeOK, Parser, Anchor, Field, Button, Form
<1>2. CASE UNCHANGED vars
  BY <1>2 DEF vars, WordInv
<1>3. CASE Word
  <2>0. /\ words \in 0 .. tokens /\ tokens \in 0 .. MaxTokens
        /\ readable \subseteq 1 .. words
    BY DEF TypeOK
  <2>1. words \in Nat /\ words + 1 \in Nat
    BY <2>0
  <2>2. \A v \in readable : v \in Nat /\ v < words + 1
    BY <2>0, <2>1
  <2>3. parser' = HandleData(parser, words + 1) /\ phase' = "open"
    BY <1>3 DEF Word, Fed
  <2>4. readable' = IF parser.skipDepth > 0 \/ parser.controls # <<>> THEN readable
                    ELSE readable \cup {words + 1}
    BY <1>3 DEF Word, Skipping
  <2>5. WordsKept(parser, readable)
    BY DEF WordInv
  <2>6. WordsKept(parser', readable')
    BY <1>1, <2>1, <2>2, <2>3, <2>4, <2>5, MetWords
  <2>7. QED
    BY <2>3, <2>6 DEF WordInv
<1>4. CASE Close
  <2>1. parser' = Ended(parser) /\ readable' = readable
    BY <1>4 DEF Close, Ended
  <2>2. QED
    BY <1>1, <2>1, EndedWords DEF WordInv
<1>5. CASE /\ Turn(parser, parser') /\ UNCHANGED readable /\ phase' # "closed"
  BY <1>1, <1>5, TurnWords DEF WordInv
<1>6. QED
  BY <1>2, <1>3, <1>4, <1>5, StepCases

\* For any document: however its tags are nested, crossed or left open, every
\* word of it outside skipped elements and controls is in exactly one block
\* once it is closed.  (_flush, _close_list, _close_table, close)
THEOREM WordsPlaced == Spec => []EveryWordInOneBlock
<1>1. TypeOK /\ WordInv => EveryWordInOneBlock
  <2> SUFFICES ASSUME TypeOK, WordInv, phase = "closed"
               PROVE  /\ \A w \in readable : \E b \in DOMAIN parser.blocks :
                           /\ w \in BlockWords(parser, b)
                           /\ \A c \in DOMAIN parser.blocks \ {b} :
                                w \notin BlockWords(parser, c)
                      /\ \A b \in DOMAIN parser.blocks :
                           /\ BlockWords(parser, b) \subseteq readable
                           /\ Len(parser.blocks[b].text) > 0
    BY DEF EveryWordInOneBlock
  <2>1. parser \in Parser
    BY DEF TypeOK, Parser, Anchor, Field, Button, Form
  <2>2. Spread(Held(parser), readable) /\ InFlow(parser.blocks) /\ NothingWaits(parser)
    BY DEF WordInv, WordsKept
  <2>3. \A b \in DOMAIN parser.blocks :
          b \in Int /\ BlockWords(parser, b) = WordsOf(Held(parser)[b])
    BY <2>1, HeldValues DEF BlockWords
  <2>4. ASSUME NEW w \in readable
        PROVE  \E b \in DOMAIN parser.blocks :
                 /\ w \in BlockWords(parser, b)
                 /\ \A c \in DOMAIN parser.blocks \ {b} : w \notin BlockWords(parser, c)
    <3>1. PICK h \in Int : w \in WordsOf(Held(parser)[h])
      BY <2>2 DEF Spread
    <3>2. Held(parser)[h] # <<>>
      BY <3>1, NoWords
    <3>3. h \in DOMAIN parser.blocks
      BY <2>2, <3>2 DEF Held, NothingWaits
    <3>4. ASSUME NEW c \in DOMAIN parser.blocks \ {h}
          PROVE  w \notin BlockWords(parser, c)
      BY <2>2, <2>3, <3>1, <3>4 DEF Spread
    <3>5. QED
      BY <2>3, <3>1, <3>3, <3>4
  <2>5. ASSUME NEW b \in DOMAIN parser.blocks
        PROVE  /\ BlockWords(parser, b) \subseteq readable
               /\ Len(parser.blocks[b].text) > 0
    <3>1. BlockWords(parser, b) \subseteq readable
      BY <2>2, <2>3 DEF Spread
    <3>2. parser.blocks[b].text # <<>>
      BY <2>2 DEF InFlow
    <3>3. parser.blocks[b].text \in Seq(Nat)
      <4>1. parser.blocks \in Seq(Block)
        BY <2>1, WaitingTypes
      <4>2. parser.blocks[b] \in Block
        BY <4>1
      <4>3. QED
        BY <4>2 DEF Block, Text
    <3>4. Len(parser.blocks[b].text) > 0
      BY <3>2, <3>3
    <3>5. QED
      BY <3>1, <3>4
  <2>6. QED
    BY <2>4, <2>5
<1>2. QED
  BY <1>1, InitWords, NextWords, TypeCorrect, PTL DEF Spec

\* For any document, at any time: words keep their order inside a block, and
\* only the block of a list or a table comes later than its words do.
\* (_flush, _close_list, _close_table)
THEOREM FlowInOrder == Spec => []FlowKeepsOrder
<1>1. TypeOK /\ WordInv => FlowKeepsOrder
  <2> SUFFICES ASSUME TypeOK, WordInv, NEW c \in DOMAIN parser.blocks
               PROVE  /\ Increasing(parser.blocks[c].text)
                      /\ parser.blocks[c].kind \notin {"list", "table"} =>
                           \A b \in 1..c - 1 :
                             Before(BlockWords(parser, b), BlockWords(parser, c))
    BY DEF FlowKeepsOrder
  <2>1. parser \in Parser
    BY DEF TypeOK, Parser, Anchor, Field, Button, Form
  <2>2. Spread(Held(parser), readable) /\ InFlow(parser.blocks)
    BY DEF WordInv, WordsKept
  <2>3. c \in Int /\ Held(parser)[c] = parser.blocks[c].text
    BY <2>1, HeldValues
  <2>4. Increasing(parser.blocks[c].text)
    BY <2>2, <2>3 DEF Spread
  <2>5. QED
    BY <2>2, <2>4 DEF InFlow, BlockWords
<1>2. QED
  BY <1>1, InitWords, NextWords, TypeCorrect, PTL DEF Spec
=============================================================================
