# A verification of webglass

WebGlass is a command-line program and library that performs web operations for
agents under a policy: it opens pages in a headless Chromium, reads them through
lenses, and keeps browser sessions alive between one-shot invocations.  This
directory holds TLA+ models of its parts, checks of them with TLC, and proofs
about them with TLAPS.  All paths below are relative to `src/`.

## 1. Inventory

| Component | State it keeps | Operations | Talks to |
|---|---|---|---|
| File session store (`webglass/adapters/session_store.py`) | one JSON record per session, a profile directory, a `.lock` file; a browser process whose pid the record names | create, get, list, acquire_lease, release_lease, bump_generation, record_navigated_urls, close, clean, endpoint_for | other processes, through the files; Chromium, by pid |
| In-memory session store (`webglass/sessions.py`) | a dict of records under one RLock | the same protocol without browsers | the service |
| Session provisioning (`webglass/cli/_factory.py`) | none of its own; owner token of a flow in the environment | find_reusable_session, ephemeral_session, sweep_session_store | the store, before and after an operation |
| Operation service (`webglass/service.py`) | budget ledgers per scope, retained snapshots | execute: preflight, policy, lease, budget reserve, backend, record hosts, charge, snapshot | store, policy, backends |
| Snapshots and references (`webglass/pages.py`, `references.py`, `service.py`) | bounded map of snapshots, each with a generation | put, get, resolve, read with cursor and budget | the service's lenses |
| Policy (`webglass/policy.py`) | a profile, or the error that replaces it | evaluate, evaluate_redirect_chain, evaluate_resolved | the service and the backend |
| Playwright backend (`webglass/adapters/playwright.py`) | a connection per session id for the life of the process | open, press, screenshot, current, close | Chromium, the store's endpoint_for |
| Extraction (`webglass/extraction.py`) | none | extract_page, extract_selector | the service |
| Search, fetch, artifacts (`webglass/adapters/`) | none, or an in-memory fake | search, fetch, put, get | the network |
| Rendering, doctor, explain (`webglass/cli/`) | none | output only | - |

Processes meet only in the session store: every command-line invocation is a
process of its own, and any of them may create, use, close and sweep any
session.  Threads meet in the service (ledgers, snapshots) when it is used as a
library.

**What is hard.**  A caller reads its clock and only then waits for the
session's lock, so operations work with a `now` that others have overtaken.  A
browser is started before the record that names it is written, and stopped
before the record that says so; a process can die in between.  A purge deletes
the lock file it holds while other processes wait on it.  Sweeps run inside
other callers' invocations, stop when their time is up, and kill browsers on the
evidence of a lease and a pid.  Pids are reused.  Leases last 30 seconds and are
not renewed by a long operation.  Budgets, cancellation and deadlines are looked
at between steps only.  Snapshots are evicted and their generation is read after
the navigation they show.

**What makes each component correct.**
- *File store*: a granted lease is kept until it expires; grants exclude one
  another; using a session never shortens its life; a browser is always
  reachable through its record and never outlives its session; an abandoned
  session is reaped in the end; host sets are complete or say they are not; no
  update is lost.
- *In-memory store*: the same promises to callers as the file store.
- *Provisioning*: a throwaway session is closed by the invocation that made it,
  whatever happens; the sweep never reaps the session the invocation is about
  to use; a flow reuses only its own sessions and old references go stale.
- *Service*: no request without policy, lease and budget; what was spent is
  charged exactly once; an operation ends in exactly one lifecycle state.
- *Snapshots and references*: a reference resolves to the observation it was
  minted for or fails; reading on from a cursor returns every block once.
- *Policy*: malformed policy denies; every hop is judged; metadata addresses are
  allowed to nobody (but for one spelling, section 5).
- *Backend*: a result belongs to the session it was asked for.

`PROJECT.json` lists the hazards at their lines, those no property covers yet
with the reason.

## 2. Plan

What was built, in this order, the most important behaviour first; each with its
runs, and with proofs where the table of section 6 has them.

1. **Session store**: `SessionRecord`, `SessionStore`, its abstract specification
   `LeasedSession`, `StoreLocking` with its abstract specification
   `SerialRecord`.
2. **Provisioning**: `SessionFlow`, the factory's reuse, creation, sweep and
   close composed with the decisions of `SessionRecord` and the service's attach.
3. **Operation lifecycle**: `OperationService`, threads executing operations with
   the ledgers, sessions and snapshot registry they share, cancellation and
   deadlines.
4. **Reading**: `DocumentParser`, tags to blocks; `PageReading`, blocks to
   snapshots to readers with budgets and cursors.
5. **Policy and backend**: `WebPolicy`, the decision as functions, and
   `BrowserBackend`, which composes it with launches, connections, pages and
   navigations of several processes.
6. **Proofs**: type correctness, every safety invariant and every action property
   of the components, the two refinements, and the theorems about the policy.

Left: the selector grammar of `extract_selector` (a recursive descent over a
string, worth a reference definition of its own).

Parameters are constants with named assumptions, every operation is an action,
invariants are conjunctions of named parts and no module uses RECURSIVE.

## 3. The modules

**`SessionRecord`** is one record and the decisions taken on it under the lock,
as functions of a record and a time: `Leased` and `LeaseRefused` are
`acquire_lease`, `SlidExpiry` is `_slid_expiry`, `Expires`, `DropsLease` and
`Purges` are the jobs of `_clean_one_unlocked` (1; 2; 3 and 4), `Reapable` its
filters, `Merges` and `WithHosts` are `_merge_hosts` and the truncation flag.
Fields nothing here depends on (owner, task, sandbox, ...) are left out.

**`SessionStore`** is `FileSessionStore` used by the processes `Proc`.
`Call(p, v, s)` is the caller reading its clock; the action of the verb happens
later, when the session's lock is free, with that old reading in `op[p].now`.
Everything under the lock is one step, except that `CreateLaunches` and
`CreateWrites`, `CloseKills` and `CloseWrites`, `SweepKills` and `SweepExpires`
are two: the process table `os` changes in the first, the record in the second,
and `Dies` may come in between.  A sweep visits the records it listed in any
order and may stop at any point, which is what the random start of
`_sweep_order` and the time budget amount to.  Lease, record and clock times are
integers.  `grant` is what the callers were told and `visited` what they
reported; the code keeps neither, they are there to state properties.  A
`create` whose launcher fails leaves nothing (`_launch`'s except branch).
`os[q]` says whose browser runs at pid q; `Stranger` and `Foreign` stand for
another program of this user and of another user: `_pid_liveness` tells only the
second apart, so the first is signalled and ends.

**`LeasedSession`** is what callers rely on: sessions open, taken by one holder,
ended when idle or by a deliberate close.  `SessionStore` is mapped to it by
reading the record with the wall clock (`Phase`, `HolderAt`).

**`StoreLocking`** is the lock below that: `_locked` opens the path, gets an
inode, waits for its flock; the operation reads and writes; a purge unlinks the
record and the lock file.  It is checked against **`SerialRecord`**, where every
write is one step on the record as it stands: a write made from an old copy, or
by a process that was not alone, is no step of it.  `SessionStore` may treat the
critical section as exclusive because of this result, for ids that are created
once; minted ids are.

**`SessionFlow`** is one level up: command-line invocations `Proc`, each walking
through the `Stages` `provide_session` and the service give it.  A verb without a
session opens a throwaway one (`OpenAnonymously`) or, inside a flow, lists the flow's
sessions (`OpenInFlow`), tries them newest first (`Continue`, `PassOver`), stamps the
one it takes with a new generation (`Bump`) or makes one (`Create`); then it sweeps
the other records (`StartSweep`, `SweepOne`, `EndSweep`), attaches, takes a lease,
navigates and stores a snapshot, and closes what it opened for itself (`Leave`,
`LeaveOpen`).  `Interrupted` is the exception of Ctrl-C, with the `finally` blocks it
runs; `Killed` is a death that runs none.  It uses the record and the decisions of
`SessionRecord`, so the two levels cannot disagree about what a lease or an expiry is.
What it abstracts: `store.list()` and the clock reading after it are one step, since
the code bases nothing on the order of the two; ids are minted, never reused; files
are not damaged; one holder name, as the command line has; a budget, policy or
deadline that halts the verb is a nondeterministic end of it; `--fresh-session` is the
anonymous opening; the browser is a flag of the record, because pids and two-step
windows are `SessionStore`'s.

**`OperationService`** is one service object used by threads, one per operation:
`execute` of every search, page and action operation.  `Plan` says which phases
each kind of operation goes through (resolve a reference, navigate, observe a
live session, project a snapshot, capture, press), and a phase goes through
stages, so that every use of something shared is a step: the clock and the
cancellation handle (`StepHalts`, `Dispatches`, `Charge`), the session and its
lease (`Attach`, `TakeLease`), the ledger of the scope (`Reserve`, `Charge`,
one dimension at a time), the registry (`Resolve`, `Retain` with its eviction).
The fields `used`, `late`, `cut` and `since` of a run are bookkeeping for the
properties.  What it abstracts: "halted" stands for failed, denied, blocked and
previewed, which differ only in the result; what policy, arguments and pages
decide is a free choice; a page is its size in bytes and tokens.  Issuing the
call is one step with the reservation before it, and the step boundary after a
call one with the charge of its seconds; between the merged parts the code
touches nothing another operation does.  Requests that differ only in policy
share a phase; the generation stamp, the recorded hosts and `session.*` are
`SessionFlow`'s; a session ends by anybody's hand (`SessionEnds`).

**`DocumentParser`** is `_DocumentParser`, a token a step: any sequence of start
tags, end tags and words.  Each handler is an operator on the parser's state
(`Flush`, `OpenLeaf`, `CloseLeaf`, `CloseList`, `CloseTable`, `OpenControl`,
`CloseControl`, `EnterSkip`, ...) with the name and the guards of its method;
`Close` is `close()`, whose loops over controls and links are `CloseOpenOne`.  A
text is the sequence of its words' numbers, so that "which words, in which order"
is all that is left of it.  What it abstracts: whitespace and the separators
between cells and items, attributes other than a label's `for` and an id, inline
tags and everything inside a skipped element, which change nothing.

**`PageReading`** takes over with the raw blocks: `Collapses` is `_collapse`,
`Snapshot` the extraction budget and the omissions `extract_page` declares,
`Put` the registry, `ReadRetained` `PageSnapshot.read` from a cursor, `ReadLive`
a fresh observation, `Headings` and `Outline` the tree of headings.  `Takes` is the one rule of
both budget loops: the first block is taken however large it is, unless no block
is allowed.  A reader keeps what it was given since it began, and hands back the
cursor it got, also one of another snapshot or beyond the end.

**`WebPolicy`** is `policy.py` as functions: `ParseTarget`, `WellFormed`,
`FromData` and `BuildEvaluator` from data to an evaluator, `Evaluate` with its
layers in the code's order (shape, scheme, target, default),
`EvaluateRedirectChain` and `EvaluateResolved`.  Which range an address is in and
which table a name is in are constants; scheme sets, default ports and the order
of the classes are the code's.  Nothing under `src/` calls `evaluate_resolved`;
it is modelled as the function it is, with a theorem.

**`BrowserBackend`** is one session directory with its browsers and the processes
that drive them.  `Spawn`, `PollEndpoint`, `PollExited` and `LaunchTimeout` are
`launch_detached`; `Attach`, `Adopted` and `AttachFails` are `_state` and
`_adopt_page`.  An operation is begun (`Begin`, with the policy check before it) and
goes through stages: an open is `Goto`, `Navigated`, `Reads`; a live read is
`ReadUrl`, `Reads`; the rest are `Screenshot`, `PressKey` and `Pressed`.
`CallFails` and `NavigationFails` are the errors a call comes back with, a deadline
passed among them.  What the service judges is `CheckNavigation` of the chain that
`open` or `current` returned.  The URL and the content are two steps, as in the
code: what a process knows of its page is `conn.url`, the client's copy, brought up
to date when a call returns (`Heard`), and the content is the page as it stands when
`Reads` happens.  `conn.moved` says whether the page has left the place the process
last heard of; the code does not keep it, the property speaks of it.  Browsers are
actors: their navigations `Commit` when the server answers, also after the operation
has given up; their pages may `Wander`, at any time; they may hang
(`BrowserHangs`, which stands as well for a page whose thread never comes free) or
die.  Calls without a deadline return only if the browser `Answers`.  `Exit` runs
the cleanup of a process, `Crash` does not.  Processes may drive one page at the same
time, since the lease keeps no two invocations of the command line apart.  What it
abstracts: popups and further windows, console and error capture.

**`MCSessionStore`**, **`MCSessionFlow`**, **`MCOperationService`**,
**`MCPageReading`** and **`MCBrowserBackend`** hold the holder maps, filters,
scopes, limits, pages, webs, policies and symmetry of the runs.

Operators whose comment begins with "Wrong" or "Mutant" are plausible slips of
the code (a dropped guard, a missing max, ...); nothing uses them except the
mutation entries of `PROJECT.json`, which show that each property can fail.

## 4. The runs

| Run | Instance | What it shows |
|---|---|---|
| `store_leases` | 1 session, 2 processes, 1 pid, 2 hosts with a cap of 1, clock 0..3, session TTL 1, lease TTL 2, a filter by site and age, one crash between a kill and its write | All the safety properties of the store and its implementation of `LeasedSession` |
| `store_sweep` | 1 session, 2 processes, clock 0..1, one fault of any kind, adopted endpoints, a record from before hosts were tracked, retention 0, under fairness | An abandoned session is reaped or taken up again |
| `locking` | 3 processes, 3 inodes, ids created once, updates stop after two writes | Mutual exclusion over a record and serial writes in spite of unlinked lock files |
| `locking_reuse` | the same, ids created again | *violated*: a lost update |
| `flow` | 2 invocations of all five kinds, 1 session, 1 flow, clock 0..3, session TTL 2, lease TTL 1, a continuation examining 1 candidate, kills and Ctrl-C at any stage | A throwaway session ends with its invocation; a sweep never reaps a session in use; a session has one owner; references from before a continuation no longer resolve |
| `shared_holder` | two processes with one holder name | *violated*: both attached |
| `orphan` | a crash between launch and record, under fairness | *violated*: a browser nobody reaps |
| `operation` | 2 operations (search, read by reference, screenshot of a URL), of one scope with limits of 1 or one of them without limits; 1 session, 1 retained snapshot, clock 0..1, lease TTL 1, a timeout of 0 or 1 or a cancellation handle | Budgets hold across operations, charges are neither lost nor doubled, a cut operation does not succeed and starts at most one more call, tasks keep apart |
| `unleased` | 3 operations (read of a live session, screenshot by reference, press), 1 session | *violated*: two tasks drive one session |
| `parsing` | documents of up to 6 tags and words over 13 tags, one per handler, and 1 field id | No readable word is lost, doubled or moved, except that a list or table waits for its end; fields, buttons and forms agree |
| `reading` | pages of 4 blocks, of two texts that repeat in every way or of three heading levels; 2 extraction budgets, 3 reading budgets, 2 snapshots, 1 retained, 1 reader | Every block is kept or declared missing once; a reader gets the blocks of one snapshot once and in order; reading ends; the outline nests |
| `browse` | 2 processes, 2 browsers, 2 pages, 3 operations, 4 redirect chains over 4 URLs, 3 policies (none, one that declares targets, one that contradicts itself), 1 page navigating itself, hangs and deaths anywhere, under fairness | No URL is asked for or told of as a success that the policy does not admit, and the content is of an admitted page unless the page moved; a launch reports its own browser; a new process takes up the page last worked on; every operation ends unless it waits for a browser that hangs |

**Bounds.**  One session is enough for what the store promises about a session:
its operations work on one record, under its own lock, and a sweep handles its
records one at a time; what two sessions can do to each other goes through
reused pids and is listed as an open hazard.  Two processes make every race of
two operations, and because a process calls again and again the sequences of
operations are not bounded by their number; locking has three, since the
stranded waiter, the purger and the newcomer are three.  The clock of
`store_leases` reaches past a session's life, a lease and the retention one after
the other.  Two hosts at a cap of one make the merge drop a host and see it
again.  `MaxFaults` is 1 per run: what two faults do together is left to the
proofs, which bound nothing.  `MaxGeneration` bounds the generation, which nothing
in the store reads:
`store_leases` leaves bumps out (0), `store_sweep` has them.  `MaxWrites` bounds
the write count of `StoreLocking` by not calling updates any more; creates and
purges go on.  In `flow` one session is enough, because what threatens a session in use is
another invocation's sweep, close or continuation of that same session, and an
anonymous invocation and a step of the flow contend for whose it is; the clock
runs past the lease and past the session's life while either invocation is at any
stage.  What a second session adds (a flow with one to prefer) is left to the
proofs, which bound nothing.
In `operation` two operations are enough for one to come between any two steps
of the other; limits of one with sizes of one make the second reservation and the
second charge of a scope the ones that cross.  Two scopes differ in their task,
so that they contend for the session's lease, which runs out when the clock moves.
A deadline of zero is passed from the start and one of one is passed on the way.
In `parsing` six tokens are enough to open three elements and end them in any
order, or to open one, cross it with another and leave a third open; each
handler and each pair of them is met, and documents are cut anywhere.
In `reading` four blocks make groups of two and three repeats, on page chrome or
not, and a budget that cuts between them; one text is longer than every budget of
characters, so that a block is taken in excess, and one of the cuts falls before the
repeats.  One retained snapshot makes the second observation evict the one a
reader has a cursor of.
In `browse` two browsers and two processes are a launch after another's, in the
same directory, with the report of the first still there; two pages make a process
that connects choose; the four chains are a plain page, a redirect into a metadata
endpoint, a chain through a declared application with more redirects than the
operation allows (1) and the profile (0), one hop of which leads to where it was, and
a metadata address in an old numeric spelling; a policy declares the application, the
endpoint and the number.  One page navigating itself once is enough to come between
any two steps of an operation.
Deadlock checking is on except in `operation`, `unleased`, `parsing`, `reading`
and `browse`, where operations, documents and observations are bounded and the
system really stops; the other models never stop because a process can always call.

**Fairness** (`FairSpec`).  A process that has called goes on: nothing under the
lock waits for anything but the lock, and a process that dies leaves through
`Dies`.  Unfiltered sweeps come again and again, since every invocation that
provisions a session runs one (`sweep_session_store`) besides `session clean`.
Each record is visited again and again by unfiltered sweeps although each may stop
early, because each begins at a random place of the list (`_sweep_order`); that
is a statement with probability one, taken as strong fairness per session.  The
clock is not assumed to go on: sessions past their expiry stay so.
`store_sweep` has no symmetry, which liveness checking does not allow.
In `reading` a reader that has a cursor keeps asking with it (`ReadingEnds` is about
a reader that wants the whole page, with budgets of at least a block).  In `browse`
every process goes on with its launch and its operation.  Polling, the connection, the
navigation and the screenshot have deadlines, so each of these comes back, if only with
a timeout.  A new page (`playwright.py`:826), a key (:731), a response (:907) and the
content (:851) have none: their steps are enabled only while the browser answers or is
gone, so nothing is assumed of a browser that hangs, and `OperationsEnd` lets an
operation wait for one (`Waits`).  The browser, the server and the pages are not
assumed to do anything.

## 5. What the code does and its documentation denies

`PROJECT.json` "findings" quotes the lines.
- **Lost updates when an id is reused** (`locking_reuse`).  A purge unlinks the
  `.lock` file under its waiters.  `session create --session-id X` after X was
  purged can meet such a waiter.  With minted ids it cannot happen, which is
  proved.
- **One holder name for the whole command line** (`shared_holder`).  Two
  invocations on one `--session-id` both get a grant: to `acquire_lease` the
  second is a renewal.
- **A crash between launch and record** (`orphan`) leaves a browser no record
  names, so no sweep reaps it.
- **A screenshot of a retained snapshot's session takes no lease** (`unleased`),
  so two tasks drive one browser session at once.

Met on the way, and no run of their own.

*Store and flow.*  Ctrl-C while the provisioning sweep runs leaves a throwaway
session open, since the sweep comes after the session was made and before the
`try` whose `finally` closes it; the next sweep after its expiry reaps it.  A lease
is not capped to the record's life, against the comment of `_slid_expiry`.  An
acquirer that read its clock early and is served late makes the lifetime
`_slid_expiry` reads off the record longer than the TTL it was made with.  The
in-memory store's `clean` expires a leased session and its `acquire_lease` leaves
the expiry alone; the file store's do neither.

*Service.*  A second operation of the same task that renews the lease with an older
clock reading shortens it, which is why `TasksKeepApart` speaks of tasks with one
operation.  The browser seconds of a call that came back cancelled or too late are
never charged.  The byte budget's comment (`service.py`:1814-1816) promises never
more bytes than asked for, which holds for one byte a character.  A read with
`max_blocks` 0 makes no progress, and is left out of the run's budgets.

*Extraction and reading.*  The text of a `<label>` without `for`, of an `<option>`
and of a `<textarea>` is dropped without an omission, and so is all that follows an
`<option>` whose end tag the document leaves out, although `OmissionKind` says that
nothing is ever dropped silently.  A list or table becomes a block where it ends, so
a paragraph inside it comes before it, against "in source order".  A landmark's end
tag that crosses another leaves the page marked as chrome.  The `resume_cursor` of
an extraction-budget omission names a block the snapshot does not retain.
`explain/catalog.py`:311 shows `--cursor block:3`, which the reader always rejects.
A cursor handed to a later command-line invocation is always stale, because the
registry it was minted in is gone.

*Policy.*  A metadata address spelled as an old-style number is allowed to a policy
that declares a target with that spelling (`http://2852039166`): the metadata rule
(`policy.py`:1012) does not know the number for an address, the declared target comes
next, and the legacy spelling would be refused after it (:855), against "refused even
when declared" (:31-32) and "refused unconditionally" (:162-165).
`MetadataOnlyByDeclaredNumber` proves that it is the only way.  `build_evaluator`'s
docstring says that no input allows more than the default; declared targets do, as
they are meant to.  `_chain_urls` says "exactly once" and drops only consecutive
repeats.

*Backend.*  The content of a success can be of a URL nobody judged.  `open` reads it
(`playwright.py`:708) after the page had time to settle, and judges the chain of the
navigation; `current` looks up `page.url`, a copy the client keeps, and fetches the
content in a further call (:776-779).  A page whose script navigates it in between
hands over another document, against `service.py`:1734-1738.
`ReportsOnlyWhatPolicyIntends` says how far this can go: the content is of an admitted
URL unless the page moved since its navigation committed or since the process last
heard of it.  A live read over a kept connection whose browser has died succeeds if the
URL last heard is admitted, with no content (`_content` answers an error with the empty
string).  A key press, a new page, a response or a content that is never answered holds
the operation for good, since the calls have no deadline and the service looks at its
own between steps only, against "enforces its timeout"
(`docs/specs/2026-08-07-implement-webglass-issue-1.md`:76-78).  A page whose navigation timed
out may commit later, and if the browser has a second page by then the next process
may take that one up.  A page whose navigation ends at about:blank counts as no page
(`_adopt_page` skips blank ones), so that a process which connects later takes up
another one, or a new one, although that page was the last one worked on.

## 6. The proofs

Every theorem is about the specification with any values of the constants its
named assumptions (`RecordAssumption`, `StoreAssumption`, `LockingAssumption`,
`FlowAssumption`, `ServiceAssumption`, `HostsAssumption`, `BackendAssumption`,
`BoundsAssumption`, `PagesAssumption`, `LimitsAssumption`, ...) allow, and without
the bounds of the runs: any number of processes, operations, tokens and blocks.
What a theorem assumes beyond them is named with it below.

| Component | Proved for every instance | Only model-checked |
|---|---|---|
| Store | types, `LockInv`, `GrantHonoured`, `OneProcessAttached`, `NoOrphanBrowser`, `EndedHasNoBrowser`, `UseNeverShortensLife`, `HostsAccountedFor`, `GrantedBrowserStoppedByCloseOnly`, `ImplementsLeasedSession` | `OverdueEnds` |
| Lock | types, `LockHeldInsideOnly`, `ExclusiveOverARecord`, `ImplementsSerialRecord` | - |
| Flow | types, `SweepSparesInUse`, `NotShared`, `ThrowawayEnds`, `ReferencesGoStale` | - |
| Service | types, `AtMostOneLateCall`, `NoSuccessWhenCut`, `TasksKeepApart`, `RequestsWithinBudget`, `SuccessesFitBudget`, `LedgerMatchesUse` | - |
| Parser | types, `FormsAndControlsAgree`, `EveryWordInOneBlock`, `FlowKeepsOrder` | - |
| Reading | types, `NothingLostUndeclared`, `ReadsInOrderOnce`, `OutlineNests`, what a budget lets through | `ReadingEnds` |
| Policy | seven theorems about the decision, `AllowedIsAdmitted` the widest | - |
| Backend | types, `LaunchReportsItsOwn`, `ReportsOnlyWhatPolicyIntends`, `ReattachesToWorkingPage` | `OperationsEnd` |

`SessionStoreProofs`:
- `TypeCorrect`.  Record-valued helpers have typing lemmas of their own.
- `LockRespected`: a process past its launch or its kill is alone on its session
  (two such processes are one), and the record it will write over is still
  absent, or active, respectively.  The properties below are not inductive without it:
  `CreateWrites` and the two `...Writes` after a kill write a record without
  looking at it again.
- `GrantsHonoured`: `GrantHonoured` is inductive over `LockRespected`.  The
  interesting case is an acquirer or a sweep with an old `now`: a lease that is
  live by the wall clock is live by any earlier reading, so both leave it alone.
  `AttachedAlone` follows, since a record names one holder.  Assumed: processes
  have holder names of their own (`OwnHolders`) and files are not damaged; the
  run `shared_holder` shows the first is needed.
- `BrowsersAccountedFor` and `EndedSessionsHaveNoBrowser` through the
  strengthening `Accounted`, which says where each browser is in the two-step
  windows.  Assumed: no damaged files and no crash right after a launch, the
  fault the run `orphan` has.
- `GrantedBrowsersStopOnClose` through `Bound`, the converse of `Accounted`: the
  pid an active record names is its own browser's.  A kill therefore stops its own
  session's browser, and a sweep that kills has seen no live lease by an earlier
  reading, which `GrantHonoured` excludes under a grant.  Assumed: besides
  `OwnHolders`, that no pid is freed behind its record's back (`PidsStay`).  This
  is needed: a browser that exited, or was killed by a process that then died,
  frees a pid another session's browser may get, and the next sweep of the first
  session's record stops that one.
- `LifeNeverShortened`, from `TypeCorrect` alone: the max in `_slid_expiry`.
- `HostsAreAccountedFor`, one record at a time: a record that can be read after a
  write could be read before and names the same hosts (`SameHosts`), or it is new,
  or it is a merge.  It holds under every fault.
- `StoreImplementsLeasedSession`, the refinement.  Each step either leaves the
  records alone, or rewrites one in a way classified by `Writes`, or moves the
  clock, which is `Lapse` of the leases that run out.  Assumed: no damaged files.

`StoreLockingProofs`: `LockingTypeCorrect` and `LocksHeldInside` hold whatever
ids are reused.  If they are not (`~Reuse`), `LockingInvariant` adds that at most
one create was ever called, that a process with the lock of a file that is no
longer the lock file finds no record there, and that a process about to write
knows the record as it is.  From it `ExclusiveWhereItMatters` and
`RecordIsSerial`.

`SessionRecordProofs` holds the typing lemmas of the record's helpers, which both
levels cite.

`SessionFlowProofs`:
- `FlowTypeCorrect`.
- `SweepIsSafe`: `SweepSparesInUse`.  The invariant is `InUseInv`: clock readings
  are not in the future (`NowPast`), an invocation with a session works on an id
  that was minted (`Born`), a live record's expiry is at least its last use plus
  the shortest lifetime (`Lively`), and the record of a session in use expires no
  earlier than that lifetime after the reading its invocation made or leased it
  with (`UsedAlive`).  `NowPast` makes the sweep's old clock harmless: whatever
  reading a sweep holds, it is not later than the clock, so an expiry it finds
  passed is passed, and other leases only move the expiry forward
  (`_slid_expiry`).
- `SessionsNotShared`, `ThrowawaysEnd` and `OldReferencesStale`, over `InUseInv`, by
  one more invariant, `OwnInv`: what an invocation holds and what it may still pick
  is stored under its token (`OwnersHold`); a throwaway session is one invocation's
  (`ThrowawaysApart`); and no stamp is ahead of its record's generation
  (`StampsPast`), which only rises while the record exists (`Rises`).  The step that
  needs all of it is `Bump`: it raises the generation above every stamp there is,
  and those stamps are what `before` remembers.

`OperationServiceProofs`, from the invariants `Inv` and `BudgetInv`:
- `OperationTypeCorrect`.
- `OneLateCall` and `CutNeverSucceeds`.  They need to know where a late or cut run
  may be: `Sound` says that a call begun too late is in flight or just back, that a
  run that came back cut is at the step boundary that will halt it, that the phases
  left are not empty, and that clock readings are past.  It speaks of one run and
  the clock alone, so a step has to keep it only for the record it writes
  (`Writes`, one lemma per action) and `Tick` for all (`SoundLater`: an interrupted
  run stays interrupted).
- `TasksApart`: `TasksKeepApart`.  `LeaseStands` says that the session of a run
  whose lease has not run out names the run's task and that lease, or has ended;
  `LeasedApart` that two tasks with leases on one session are never both in time.
  The one hard step is `TakeLease` with an old reading (`LeaseTaken`): if it is not
  refused, the other task's lease had run out by that reading, hence by now.
- `RequestsBudgeted`, `SuccessesBudgeted` and `LedgerHoldsUse`: the three budget
  properties, by `BudgetInv`.  The ledger of a scope is a sum that does not say who
  paid what, and an operation halted at a charge leaves some of what it consumed
  uncharged, so that neither the ledger nor the consumption follows from the other.
  `BudgetInv` therefore claims that there is a record `paid` of what each operation
  paid, with which everything is `Balanced`: the ledger is the `Total` of what was
  paid, an operation that was not halted has paid all it used but what it still
  owes, and the operations that were not halted fit the limits.  The last part is kept
  because a charge that takes the ledger past a limit halts the operation that made it,
  and a charge that does not compares the ledger, which counts the halted operations
  too, with the limit.  `Owes` says at which stage which dimensions may be owed.  Each action is shown to pay
  (`Pays`, one lemma per action), and `PaysBalanced` is the one argument about
  sums.  `Total` counts the units of all amounts as a set of pairs, so that it grows
  by a disjoint union (`TotalRises`) and no induction over the operations is needed.

`DocumentParserProofs`.  What a tag does is a `Turn` of one of three kinds: it moves
text, it concerns a control or form, or it only counts (`StepCases`); the lemmas go
by those kinds.
- `TypeCorrect`.
- `FormsAgree`: the invariant `FormsKnown` adds that the stack of open forms names
  forms there are, so that a control found in a form is listed by a form that
  exists, also after forms that were crossed or never closed.
- `WordsPlaced` and `FlowInOrder`, by `WordInv`.  `Held` lists the places where a
  word can be (the text being gathered, the open list, the open table, its open row,
  each block) and `Spread` says that every readable word is at one of them, in order
  at each, and that the text being gathered has the last ones.  Every handler then
  is a few moves of all of one place to the end of another (`MovedSpread`), whichever
  way the tags cross.  That nothing stays behind needs `Waits`: items without a list
  that is open, or rows without a table, do not exist, so `close` empties every
  place (`EndedWords`).

`PageReadingProofs`:
- `TakenIsLongestRun`: what either budget loop lets through is the longest run of
  blocks of which every beginning is within the budget (with the first block taken in
  any case).
- `TypeCorrect` and `ReadsFollowCursor`, by `IInv`: the registry holds snapshots
  that are `Snapshot` of some page and some budget (`RegistryInv`), and what a reader
  has is a beginning of its snapshot's blocks, its cursor the next one (`Follows`).
  A cursor is a block's number in the page, not its place in the list; it leads to
  one place because the list of kept blocks ascends (`CursorLeads`).  A read of a
  snapshot that was evicted is refused, as is an old cursor on a new observation.
- `EveryBlockAccounted`: a group of repeats has one leader (`OneLeader`), groups are
  apart, what the budget leaves out is the rest of the leaders, so each block is in
  exactly one of: kept, collapsed, cut (`SnapshotComplete`).
- `HeadingsNest`: the parent the stack of open headings gives is the nearest earlier
  heading of a lower level.  `Stacked` is the invariant of the loop: the stack lists,
  in order, places of headings met, among them every one that no later heading has
  closed.

`BrowserBackendProofs`:
- The decision: `MetadataOnlyByDeclaredNumber`, `MandatorySchemesDenied`,
  `MalformedAllowsNothing`, `UndeclaredStaysPublic`, `ResolvingOnlyNarrows`, and
  `ChainAllowedWhole`, that a chain without a refusal was examined to its end.
  `AllowedIsAdmitted` compares `evaluate` with `Admits`: `Intended`, a definition of
  the same policy that has no rule order, no parsed targets and no defaults, or
  `DisguisedMetadata`, the case of section 5, named apart because nobody intends it.
- `TypeCorrect`, by `Typed` and `Fine`, which ties the driver, the connection and
  the stage of a process.
- `LaunchesReportTheirOwn`, by `LaunchInv`: one process polls at a time
  (`OnePolls`), only a browser that was up wrote the port file (`PortIsReported`),
  and as long as no launch was cut short a browser that is starting is the poller's
  (`NoStranger`), so that after the stale file is unlinked nobody else can write it.
- `OnlyAdmittedIsReported`, by two invariants and the theorems about the decision.
  `PolicyInv`: a process past `Begin` has a policy that loads and, for an open, a URL
  it allows; an operation under way has no result yet.  `PlaceInv`, for the content:
  as long as a page has not moved, a navigation's page is where its chain ends and any
  other connected page is where its process last heard it was.  It has to follow
  navigations of several processes that replace each other on one page
  (`page[i].by`): while the page goes where a process sent it, it goes along that
  process's chain, and no other commit makes the process land.  The end of the chain
  is one of the URLs that were judged (`LastIsTold`), and so admitted.
- `TakesUpWorkingPage`: `ReattachesToWorkingPage`, by `WorkInv`: the working page is
  open and not blank, and unless the browser came to have a second page, it is the
  only such page of its browser.  A process that connects chooses among those
  (`ConnectsByAttaching`), so there is one to choose.  Assumed: no chain of the web
  passes about:blank (`~LeadsNowhere`), which a connecting process takes for no page
  at all; section 5 says what happens otherwise.

**Induction and sums.**  The library's induction theorems take a predicate as a
parameter, which the provers cannot instantiate.  Where a proof follows a recursive
function it uses a fact about a set instead: a nonempty set of naturals has a least
element (`LeastElement`, from the well-foundedness of strict inclusion among finite
sets), hence a set that contains 0 and with each number the next contains all
(`SetInduction`).  `PageReadingProofs` proves in this way that the recursive outline
is defined and what is on its stack; the order of kept blocks goes by ranks
(`Rank`, `AscendingLists`).  Budgets of the service are counted, not summed (above);
the sums of characters in `PageReading` enter the proofs only through `Takes`, which
compares them with a budget: what is proved holds whatever they are.

**Only model-checked.**  Liveness (`OverdueEnds`, `ReadingEnds`, `OperationsEnd`),
because fairness needs ENABLED, which is out of the prover's reach.

## 7. Not modelled

- Of the store: readers without a lock (`get`, `list`, `endpoint_for`), which
  change nothing; the JSON encoding; SIGTERM before SIGKILL; directories'
  permissions.
- The in-memory session store, which only the tests construct: every operation is
  one step under one lock.
- Of the service: the effect-class resolvers of actions other than press (a free
  refusal), artifact storage and the wording of results and evidence.
- Of the extraction: `extract_selector` with its selector grammar
  (`extraction.py`:875-1100), a search in a tree that has no state; metadata and
  text normalisation.
- Of the backend: popups and further windows, console and error capture,
  `DetachedBrowser.terminate`, installation checks.
- For good: Chromium, the network, the tokenizer of Python's `html.parser`, search
  and fetch adapters, rendering and diagnostics, which are external, stateless or
  wording; exploration and memory, which hold no behaviour yet.
