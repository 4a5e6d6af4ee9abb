---------------------------- MODULE PageReading ----------------------------
(***************************************************************************)
(* What becomes of a document's raw blocks: extract_page collapses and cuts *)
(* them and declares what it left out (webglass/extraction.py), the service *)
(* retains the snapshot (webglass/service.py), and readers take its blocks  *)
(* a budget at a time, handing back the cursor they were given              *)
(* (webglass/pages.py, webglass/references.py).                             *)
(*                                                                         *)
(* A block's reference is its position among the raw blocks and keeps it.   *)
(* A snapshot's id is its place in the order of the observations: ids are   *)
(* never reused.                                                            *)
(***************************************************************************)
EXTENDS Naturals, Sequences, FiniteSets

CONSTANTS Pages,         \* the raw blocks a page may have, as sequences
          Chars,         \* how long each text is
          Cuts,          \* the budgets an extraction may have
          Budgets,       \* the budgets a read may have
          NoLimit,       \* a dimension without a limit
          Reader,
          NoCursor,
          Retention,     \* how many snapshots the registry retains
          MaxSnapshots   \* bound on the observations

Limit == Nat \cup {NoLimit}
Budget == [blocks : Limit, chars : Limit, tokens : Limit]

ASSUME PagesAssumption ==
  \A raw \in Pages :
    /\ raw \in Seq([kind : {"heading", "paragraph", "list", "table", "code"},
                    level : 0..6, text : DOMAIN Chars, chrome : BOOLEAN])
    /\ \A i \in DOMAIN raw : (raw[i].kind = "heading") <=> (raw[i].level > 0)
ASSUME LimitsAssumption ==
  /\ NoLimit \notin Nat
  /\ Cuts \subseteq Budget /\ Budgets \subseteq Budget
  /\ Retention \in Nat \ {0} /\ MaxSnapshots \in Nat
  /\ NoCursor \notin [snapshot : Nat, index : Nat]

VARIABLES snapshots,   \* every snapshot there was
          retained,    \* the ids the registry holds, oldest first
          reader       \* what each reader has, and how its last read ended

vars == <<snapshots, retained, reader>>

-----------------------------------------------------------------------------
(***************************************************************************)
(* Extraction.                                                             *)
(***************************************************************************)
MinOccurrences == 2

\* The blocks with the text of block i.  Headings are never compared.
Alike(raw, i) ==
  {j \in DOMAIN raw : raw[j].kind # "heading" /\ raw[j].text = raw[i].text}

Repeated(raw) ==
  {i \in DOMAIN raw : /\ raw[i].kind # "heading"
                      /\ Cardinality(Alike(raw, i)) >= MinOccurrences}
AllChrome(raw, i) == \A j \in Alike(raw, i) : raw[j].chrome
Leads(raw, i) == \A j \in Alike(raw, i) : i <= j

\* Mutant: one block on page chrome makes its whole group boilerplate.
CollapsedAnyChrome(raw, i) ==
  IF \E j \in Alike(raw, i) : raw[j].chrome
  THEN [kind |-> "boilerplate", refs |-> Alike(raw, i)]
  ELSE [kind |-> "duplicate", refs |-> Alike(raw, i) \ {i}]

\* What _collapse drops for the group block i leads, and why.
Collapsed(raw, i) ==
  IF AllChrome(raw, i) THEN [kind |-> "boilerplate", refs |-> Alike(raw, i)]
  ELSE [kind |-> "duplicate", refs |-> Alike(raw, i) \ {i}]

Collapses(raw) == {Collapsed(raw, i) : i \in {j \in Repeated(raw) : Leads(raw, j)}}

Dropped(raw) == UNION {c.refs : c \in Collapses(raw)}

\* A set of positions in ascending order.
Ascending(S) ==
  [k \in 1..Cardinality(S) |->
     CHOOSE i \in S : Cardinality({j \in S : j <= i}) = k]

-----------------------------------------------------------------------------
(***************************************************************************)
(* Budgets.  Both loops take blocks one by one until one is too many; the   *)
(* first is taken even when it alone is over the budget's characters or     *)
(* tokens, but not when the budget allows no block.                         *)
(***************************************************************************)
Tokens(text) == Chars[text] \div 4

\* Characters and tokens of the n blocks from position `from` on.
CharsUpTo(raw, blocks, from, n) ==
  LET sum[k \in 0..n] == IF k = 0 THEN 0
                         ELSE sum[k - 1] + Chars[raw[blocks[from + k - 1]].text]
  IN  sum[n]
TokensUpTo(raw, blocks, from, n) ==
  LET sum[k \in 0..n] == IF k = 0 THEN 0
                         ELSE sum[k - 1] + Tokens(raw[blocks[from + k - 1]].text)
  IN  sum[n]

Within(amount, limit) == limit = NoLimit \/ amount <= limit

Fits(raw, blocks, from, n, budget) ==
  /\ Within(CharsUpTo(raw, blocks, from, n), budget.chars)
  /\ Within(TokensUpTo(raw, blocks, from, n), budget.tokens)

\* Mutant: a first block that alone is over the budget is not taken.
TakesNothing(raw, blocks, from, n, budget) ==
  Within(n, budget.blocks) /\ Fits(raw, blocks, from, n, budget)

Takes(raw, blocks, from, n, budget) ==
  Within(n, budget.blocks) /\ (n = 1 \/ Fits(raw, blocks, from, n, budget))

\* How many blocks are taken from position `from` on.
Taken(raw, blocks, from, budget) ==
  Cardinality({n \in 1..Len(blocks) + 1 - from :
                 \A k \in 1..n : Takes(raw, blocks, from, k, budget)})

\* The snapshot extract_page makes of a page, and what it declares missing.
Snapshot(raw, cut) ==
  LET kept == Ascending(DOMAIN raw \ Dropped(raw))
      n == Taken(raw, kept, 1, cut)
      rest == {kept[k] : k \in n + 1..Len(kept)}
  IN  [raw |-> raw,
       blocks |-> SubSeq(kept, 1, n),
       omissions |-> Collapses(raw) \cup
         (IF rest = {} THEN {} ELSE {[kind |-> "budget", refs |-> rest]})]

-----------------------------------------------------------------------------
(***************************************************************************)
(* The outline: each heading under the last one before it that is still     *)
(* open when headings of its level and below are closed.                    *)
(***************************************************************************)
Headings(snap) ==
  LET at == Ascending({k \in DOMAIN snap.blocks :
                         snap.raw[snap.blocks[k]].kind = "heading"})
  IN  [k \in DOMAIN at |-> snap.blocks[at[k]]]

\* Mutant: a heading of the same level stays open.
CloseBelow(snap, stack, level) ==
  LET open == {k \in 1..Len(stack) : snap.raw[stack[k]].level <= level}
  IN  SubSeq(stack, 1, IF open = {} THEN 0 ELSE CHOOSE k \in open : \A m \in open : m <= k)

\* The stack without the headings at its top that are of this level or below.
CloseFrom(snap, stack, level) ==
  LET open == {k \in 1..Len(stack) : snap.raw[stack[k]].level < level}
  IN  SubSeq(stack, 1, IF open = {} THEN 0 ELSE CHOOSE k \in open : \A m \in open : m <= k)

\* The parent of each heading, 0 for a root.
Outline(snap) ==
  LET hs == Headings(snap)
      level(k) == snap.raw[hs[k]].level
      stack[k \in 0..Len(hs)] ==
        IF k = 0 THEN <<>>
        ELSE Append(CloseFrom(snap, stack[k - 1], level(k)), hs[k])
      under(k) == CloseFrom(snap, stack[k - 1], level(k))
  IN  [k \in DOMAIN hs |-> IF under(k) = <<>> THEN 0 ELSE under(k)[Len(under(k))]]

-----------------------------------------------------------------------------
(***************************************************************************)
(* The registry and its readers.                                           *)
(***************************************************************************)
Unread == [on |-> 0, got |-> <<>>, left |-> {}, cursor |-> NoCursor, state |-> "fresh"]

Init ==
  /\ snapshots = <<>>
  /\ retained = <<>>
  /\ reader = [r \in Reader |-> Unread]

\* Mutant: nothing is evicted.
PutAll(id) == Append(retained, id)

\* SnapshotRegistry.put: the newest entry, without the oldest ones over the bound.
Put(id) ==
  LET all == Append(retained, id)
  IN  IF Len(all) > Retention THEN Tail(all) ELSE all

Retains(id) == \E k \in DOMAIN retained : retained[k] = id

\* The block a cursor names, in the snapshot the read is of; 0 for none.
CursorIndex(snap, cursor) ==
  LET at == {k \in DOMAIN snap.blocks : snap.blocks[k] = cursor.index}
  IN  IF cursor = NoCursor THEN 1
      ELSE IF at = {} THEN 0 ELSE CHOOSE k \in at : TRUE

\* Mutant: a cursor is taken against whatever is at its index now.
InAnyScope(id, cursor) == TRUE

InScope(id, cursor) == cursor = NoCursor \/ cursor.snapshot = id

\* PageSnapshot.read from position `from`: what the reader has afterwards.
ReadFrom(r, id, snap, from, budget) ==
  LET n == Taken(snap.raw, snap.blocks, from, budget)
      taken == SubSeq(snap.blocks, from, from + n - 1)
      rest == {snap.blocks[k] : k \in from + n..Len(snap.blocks)}
  IN  [on |-> id,
       got |-> reader[r].got \o taken,
       left |-> rest,
       cursor |-> IF rest = {} THEN NoCursor
                  ELSE [snapshot |-> id, index |-> snap.blocks[from + n]],
       state |-> IF rest = {} THEN "done" ELSE "reading"]

Refused(r) == [reader[r] EXCEPT !.state = "refused"]

\* page.read of snapshot id with the reader's cursor.
Read(r, id, snap, budget) ==
  LET cursor == reader[r].cursor
      from == CursorIndex(snap, cursor)
  IN  reader' = [reader EXCEPT ![r] =
        IF InScope(id, cursor) /\ from # 0 THEN ReadFrom(r, id, snap, from, budget)
        ELSE Refused(r)]

Reads(r) == reader[r].state \in {"fresh", "reading"}

\* A page is observed by someone else; its snapshot is retained.
Observe(raw, cut) ==
  /\ Len(snapshots) < MaxSnapshots
  /\ snapshots' = Append(snapshots, Snapshot(raw, cut))
  /\ retained' = Put(Len(snapshots) + 1)
  /\ UNCHANGED reader

\* A read that names a snapshot.
ReadRetained(r, id, budget) ==
  /\ Reads(r)
  /\ Retains(id)
  /\ Read(r, id, snapshots[id], budget)
  /\ UNCHANGED <<snapshots, retained>>

\* The snapshot was evicted, or never was.
ReadUnknown(r, id) ==
  /\ Reads(r)
  /\ ~Retains(id)
  /\ reader' = [reader EXCEPT ![r] = Refused(r)]
  /\ UNCHANGED <<snapshots, retained>>

\* A read that names a URL or only its session: the page is observed first.
ReadLive(r, raw, cut, budget) ==
  /\ Reads(r)
  /\ Len(snapshots) < MaxSnapshots
  /\ snapshots' = Append(snapshots, Snapshot(raw, cut))
  /\ retained' = Put(Len(snapshots) + 1)
  /\ Read(r, Len(snapshots) + 1, Snapshot(raw, cut), budget)

Next ==
  \/ \E raw \in Pages, cut \in Cuts :
       \/ Observe(raw, cut)
       \/ \E r \in Reader, budget \in Budgets : ReadLive(r, raw, cut, budget)
  \/ \E r \in Reader, id \in 1..MaxSnapshots :
       \/ ReadUnknown(r, id)
       \/ \E budget \in Budgets : ReadRetained(r, id, budget)

\* A reader keeps asking for the page it reads.
Reading(r) ==
  \E budget \in Budgets :
    /\ reader[r].state = "reading"
    /\ ReadRetained(r, reader[r].on, budget) \/ ReadUnknown(r, reader[r].on)

Spec == Init /\ [][Next]_vars /\ \A r \in Reader : WF_vars(Reading(r))

-----------------------------------------------------------------------------
(***************************************************************************)
(* Properties.                                                             *)
(***************************************************************************)
In(s) == {s[k] : k \in DOMAIN s}

TypeOK ==
  /\ Len(snapshots) <= MaxSnapshots
  /\ \A id \in DOMAIN snapshots :
       /\ snapshots[id].raw \in Pages
       /\ snapshots[id].blocks \in Seq(DOMAIN snapshots[id].raw)
  /\ retained \in Seq(1..MaxSnapshots) /\ Len(retained) <= Retention
  /\ \A r \in Reader :
       /\ reader[r].on \in 0..Len(snapshots)
       /\ reader[r].state \in {"fresh", "reading", "done", "refused"}

\* Every block of a page is either retained or named by exactly one omission,
\* and no text goes unread for being repeated: collapsing leaves the first block
\* of a text to be retained unless all of them are on page chrome.
NothingLostUndeclared ==
  \A id \in DOMAIN snapshots :
    LET snap == snapshots[id]
        kept == In(snap.blocks)
        gone == UNION {o.refs : o \in snap.omissions}
        collapsed == UNION {o.refs : o \in {p \in snap.omissions : p.kind # "budget"}}
    IN  /\ kept \cup gone = DOMAIN snap.raw
        /\ kept \cap gone = {}
        /\ \A o, p \in snap.omissions : o # p => o.refs \cap p.refs = {}
        /\ \A i \in collapsed :
             \/ AllChrome(snap.raw, i) /\ Alike(snap.raw, i) \subseteq collapsed
             \/ \E j \in Alike(snap.raw, i) \ collapsed : j < i

\* A reader that follows its cursors has the retained blocks of one snapshot
\* in order, each once, and is told exactly the ones it does not have yet.
ReadsInOrderOnce ==
  \A r \in Reader :
    LET re == reader[r]
        blocks == snapshots[re.on].blocks
    IN  re.on # 0 =>
          /\ Len(re.got) <= Len(blocks)
          /\ re.got = SubSeq(blocks, 1, Len(re.got))
          /\ re.left = {blocks[k] : k \in Len(re.got) + 1..Len(blocks)}
          /\ re.state = "reading" =>
               /\ Len(re.got) < Len(blocks)
               /\ re.cursor = [snapshot |-> re.on, index |-> blocks[Len(re.got) + 1]]
          /\ re.state = "done" => re.got = blocks

\* A heading's parent is the nearest heading before it of a lower level among
\* those with no heading of a still lower or equal level between the two.
OutlineNests ==
  \A id \in DOMAIN snapshots :
    LET snap == snapshots[id]
        hs == Headings(snap)
        level(k) == snap.raw[hs[k]].level
        outline == Outline(snap)
    IN  \A k \in DOMAIN hs :
          LET lower == {m \in 1..k - 1 : level(m) < level(k)}
          IN  outline[k] = IF lower = {} THEN 0
                           ELSE hs[CHOOSE m \in lower : \A l \in lower : l <= m]

\* A reader that keeps asking gets to the end or is refused.  Budgets allow a block
\* at least: with max_blocks 0 the code returns no block and the same cursor again,
\* although a read is said to return one always ("so a reader always makes progress").
ReadingEnds == \A r \in Reader : reader[r].state = "reading" ~> reader[r].state # "reading"
=============================================================================
