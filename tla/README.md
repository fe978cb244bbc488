# A verification project for SCF Studio

SCF Studio keeps a film's *Story Context Framework* in one SQLite file, a
`.scf`. A desktop window edits it; agents (MCP clients) read and change the
same file while the person works. This directory models the part of the
program that makes that safe, and the parts whose writes are hard to get right:
who may write a file, when a write is refused, what an agent may apply, who is
told; how a pipe survives a reload of the page; how the script in the editor
becomes scenes, spans, numbers and shots; how media boards share, split and
undo; how the window moves between films; and what the film answers when it is
asked about a scene or a shot. The models are TLA+; TLC checks them on small
instances, and TLAPS proves the safety properties of all but the answers for
every instance.

    tlc -config MCSession_copy.cfg MCSession     # any run: PROJECT.json lists them
    tlapm SessionProofs.tla                      # the proofs

`PROJECT.json` holds the machine-readable side: the components, the runs, for
every property the slip of the code that would break it ("mutants"), the source
lines of every definition ("map"), the findings, the hazards and the theorems.

## 1. Inventory

### The parts and how they meet

```
 views ── store.ts ── hostClient.ts ──┐                        (the window's page)
                                      ├── HostCore ── Film ── Session ── SqlExec
 agent ── pipe.rs ── mcp_relay.rs ──  │    core.ts            session.ts     │
   (stdio)   (TCP)     (events) windowMcp.ts                                 │
               mcpServer.ts ── projectCache.ts ── HostClient                 │
               writeTools.ts                                          the .scf file
```

Everything between the pipe and the driver runs in one page, on one event loop:
two pieces of code never run at once, but everything that awaits may be overtaken
by anything else. SQLite and the file system are behind the desktop shell
(`sql.rs`, `files.rs`), so each statement and each file operation really waits.
Other programs may edit, replace or delete the file at any time; the shell may
reload the page, and the app may be closed or crash.

| component | its state | its operations | what is hard | what makes it correct |
|---|---|---|---|---|
| **Session** `scf-core/src/session.ts` | revision, savedRevision, the promise chain `queue`, `persisting`, the file's fingerprint `known` | write (with expectedRevision, with a dry run), noteWrite, reset, persist, hasExternalChange, close | callers overlap at each await; refreshes of `known` overlap; an edit lands during a save; a close meets queued writes | one write at a time; no write on unread rows; not dirty means nothing to lose; an alarm is somebody else's change; close cuts nothing off and ends |
| **Host core** `scf-host/src/core.ts` | open films and those being opened, clients per film, the revision of a path across closes | open, create, close, saveAs, reload, query, op, call, dry run, detach; broadcasts | two opens of a path; the last client leaves while another comes; gates asked before a wait and needed after it; reload over queued writes; failure half way | one film and one writing session per file; revisions rise; everyone on a film hears; a file is held only for clients |
| **Host client** `scf-host/src/client.ts` | the revision it believes | requests and their answers, events | answers and events of overlapping writes | it knows the revision when nothing is under way |
| **Agent tools** `scf-mcp/src/writeTools.ts`, `projectCache.ts` | none between calls (the plan is made again) | plan, confirm, elicit, apply; a connection per call | everything may move between plan and apply; two confirmations; a restart | what is applied is what was approved, once |
| **Integrity gate** `scf-core/src/ops/integrityGate.ts` | findings before and after; savepoints | run an op, roll it back when it adds a finding | dry run and apply are on different rows; nested transactions | an agent's write adds no finding |
| **Transactions** `scf-core/src/db.ts` | a queue per connection | withTransaction | waiting for oneself; rollback of another's work | all of a write or nothing; every caller gets its turn |
| **MCP relay** `mcp_relay.rs`, `pipe.rs`, `windowMcp.ts`, `lib.rs` | pipes, held events, kept lines, the listening page | add, received, closed, mcp_listen, mcp_send, mcp_close, exit when unused | the page reloads at any point; two locks taken in turn | every pipe is answered once and in order, and a resumed server is where the agent left it |
| **MCP server** `mcpServer.ts` | the current film and roots | open, set_root, the read tools | open awaits before it takes effect | the film opened last is the current one |
| **Window store** `scf-app/src/state/store.ts`, `App.tsx`, `useQuery.ts` | phase, film, asset folder, revision, what a refresh resumes | open, new, demo, resume, saveAs, close, attach a folder | each act goes on from await to await while the writer does the next; the page is refreshed at any of them | what is shown belongs to the connected film; a refresh comes back to it; nothing spins for ever |
| **Script editor** `scf-app/src/ui/ScriptView.tsx` | the document, the blocks last committed, a debounce timer, a queue of commits | type, delete, save, commit and review, move, copy, remove a scene, leave | the plan of a commit is made from what moves on under it; the answer does not carry what the host worked out | every change reaches the film, once; the script and the records agree |
| **Screenplay commit and numbering** `ops/calls.ts`, `features.ts`, `structureCommit.ts`, `sceneNumbers.ts`, `shots.ts`, `structure.ts` | lines, scenes, spans, memberships, shots, the numbering policy | commit, delete a scene, move a boundary or a shot, add a shot | numbers, spans and codes derived from each other's order in one transaction | one heading per scene, every scene in one span, numbers settle, fixed means fixed |
| **Media** `ops/mediaOps.ts`, `relatedMediaOps.ts`, `bundling.ts` | assets, bundles and their members, bindings, related media, anchors | drop, share, split, detach, reorder, repurpose, confirm, poster | a bundle is shared by several owners; panels act on tables read some writes ago | what others use is not changed unasked; orders do not collide |
| **Undo** `ops/undoDelete.ts`, `undoChange.ts` | the rows before and after | capture, undo | the undo comes after other writes | the film as it was, or a refusal |
| **App store** `scf-host/src/appStore.ts` | app.db: recent films, roots, preferences | upserts, open-verify-move aside | two processes | nothing intact is moved aside |
| **Caches** `objectUrlCache.ts`, `thumbnailCache.ts` | object URLs by reference count, loads in flight | acquire, release, revokeAll | release during a load, a grace period | no URL is revoked while held, none is leaked |
| **Resolution and queries** `resolution.ts`, `presence.ts`, `canonicalQueries.ts`, `readiness.ts`, `shotContext.ts` | none: reads of the open film | the canonical queries Q00–Q15, the composites about a shot | what is cut is reached by a dozen joins; story order is not scene order; filters, precedence, replacement, variants and anchors meet in one answer | cut rows are gone, nothing is told early, what an answer leaves out has no bearing on it |
| **Import and parsers; views; registry and tooling** | — | text, rendering, generated tables | — | left to the corpus tests |

`PROJECT.json` lists these with their status, and the hazards, each at its line,
with the properties that would catch it or the reason why none does.

## 2. What is modelled

| module | models | composes |
|---|---|---|
| `Session` | one open film, all of `session.ts` but its listeners, with both kinds of driver | — |
| `SessionProofs` | — | theorems about `Session` |
| `FilmHost` | `core.ts` and the client's revision: any number of connections, request slots and paths | a session in outline: tickets issued and served, revision, fingerprint |
| `FilmHostProofs` | — | theorems about `FilmHost` |
| `OptimisticFilm` | the promise the host makes about one film | — |
| `FilmHostPromise` | `FilmHost` as an implementation of `OptimisticFilm`: the refinement mapping | `FilmHost`, `OptimisticFilm` |
| `FilmHostPromiseProofs` | — | theorems about one queue per file, who hears of a write, and the refinement |
| `AgentWrites` | `writeTools.ts` over `projectCache.ts`, the gate's verdict and the row ops | the host in outline: a revision, a queue of one, gates before it |
| `AgentWritesProofs` | — | theorems about `AgentWrites` |
| `McpRelay` | `mcp_relay.rs`, `pipe.rs`, `windowMcp.ts`, and the current film and roots of `mcpServer.ts` and `projectCache.ts` | agent, shell and page as three processes |
| `SceneOrder` | the order of scenes and what follows from it: spans, numbers, shot codes | operators of `Screenplay` |
| `Screenplay` | the host's writes to script, scenes, spans, shots and memberships, each one operator | over `SceneOrder` |
| `ScriptReports` | what the writer is told of the structure: findings about spans and sections, the preview of derived numbers | over `Screenplay` |
| `ScriptView` | the script editor, its saves and commits, and the writes of other sections and an agent next to it | over `ScriptReports` |
| `ScriptViewProofs` | — | theorems about `ScriptView` and the film below it |
| `MediaOps` | the host's writes to assets, bundles, bindings and related media, and the change that undoes each | — |
| `MediaWindow` | the panels that ask for them, from tables read earlier, with undo | over `MediaOps` |
| `MediaWindowProofs` | — | theorems about `MediaWindow` and the tables below it |
| `WindowStore` | the life of a film in the window: open, new, demo, resume, Save As, close, the asset folder, refresh | the host as the film the connection has, and app.db |
| `WindowStoreProofs` | — | theorems about `WindowStore` |
| `McpRelayProofs` | — | theorems about `McpRelay` |
| `Resolution` | what the film says at a position: story order, the description, direction and media cascades, variants, presence, Q02–Q07, Q09, Q10, Q12, Q13 | over `SceneOrder`; operators of `Readiness` |
| `Readiness` | Q14, what is missing for a query to answer well | operators of `ShotContext` |
| `ShotContext` | the composites about a shot: its frame, its media, its readiness | operators of `FilmAnswers` |
| `FilmAnswers` | a film that is edited, and asked after every edit | over `ShotContext` |
| `MC*` | — | instances for TLC |

The window's parts meet the host in three places, and each module takes the
others in outline: a `call` of `FilmHost` is one operator of `Screenplay` or
`MediaOps` (one transaction, one at a time: `OneWriteAtATime`), sent as a JSON copy
and answered later; `open` and `close` in `WindowStore` are the requests of the same
name in `FilmHost`; the server in `McpRelay` uses connections as `AgentWrites` does.

### How code becomes state and actions

*Steps.* An action is the code between two awaits that really wait: for a
statement, a file, the queue, the person. A continuation that only passes through
the microtask queue is part of the step that resolves it, because nothing else
can run before it. So `session.write` is: take a ticket (`Write`); at the head of
the chain check the revision and start (`StartWrite`) or refuse (`RefuseStale`);
rows change (`Commit`); fn settles, the revision moves and a refresh starts
(`Settle`); the refresh comes back and the next write may run (`FinishWrite`).

*Locks.* In the shell (Rust threads) a step is what is done under one hold of the
lock: `received` keeps the line under one and `emit` sends it under the next
(`Say`, `Emit`), and a page may start to listen in between. The shell's
channel to the page is one queue per pipe: what the page does at an event of one pipe
reads nothing of another's.

*The queue* is a chain of promises; it is kept as two counters, tickets `issued`
and number `served`. `close` awaits the chain as it is when called, hence
`closeAt == issued`. Where a write and a `close` await the same promise the one
that asked first is resumed first (`BehindClose`).

*Operations of the host* on script and media run in one transaction on one
connection, so each is an operator from a film to a film (`CommitScript`,
`DeleteScene`, `Split`, ...); what interleaves is the window: a panel's or the
editor's plan, the run on the host, the answer. The editor is the document
(`doc`), the blocks it last sent (`prev`), the timer, the queue and the one commit
under way with its stage (`job`). A panel is `seen`, the tables it last read.

*Jobs.* In `WindowStore` each act of the writer is a job with a stage per await; two
may be under way. What a job carries is what its closure captured.

*Rows* are a version number that every committed change moves, in the modules
about who writes when: there what matters is whether they are the rows somebody
read. `AgentWrites` has one row with a value per field. `Screenplay` and `MediaOps`
have the tables, with row ids that SQLite hands out once (`next`); a line's text is
the number of the edit that wrote it, a scene number is a natural number.

*Answers.* The queries change nothing, so `Resolution`, `Readiness` and `ShotContext`
are operators from a film to an answer: a film is a record of tables, an answer a
record of row ids, in the code's order where it has one. What `rows` excludes is
`InFilm`; a join that does not go through it reads the whole table, as in the code.
Text a filter compares is a small value. Messages, the envelope and the projection of
ids to uuids are left out. The state is `FilmAnswers`' film: one row is written, cut or
brought back, or two scenes change places in the script, and everything is asked again.

*Fingerprints* are mtime and size: a stamp that no two changes share. Sampling it
and hearing the answer are two steps in `Session`, where the order of overlapping
refreshes matters, and one step in `FilmHost`.

*Requests.* `FilmHost` keeps for each actor (a request slot of a connection) the
place in its handler, `req[a].pc`, and the locals the handler still needs: the
film and session it took, the revision before, the ticket. A handler's
synchronous stretch is one action; `Leave` and `Attach` are the parts shared by
`open`, `create`, `close`, `saveAs` and `detach`. `write()` in `core.ts` is
`AskWrite` (gates; asks for an outside change), `Checked`, `Snapshotted`, then the
session's queue, `Settle`, `FinishWrite` (the journal is written, the next write
may run) and `Announce`.

*Failures.* A snapshot, a build of a film, the file to be reopened, the op itself,
an export and a person may each fail or decline at their step. The client may
vanish at any time (`Drop`): its requests are still handled, as in the code.

*Slips.* Beside some helpers stands a variant the code does *not* have
(`WatermarkLate`, `AtHeadUnqueued`, `HeadingSceneSame`, ...), labelled `Slip`: the plausible bug that
the property named in `PROJECT.json` catches. No action uses them.

*History variables* record what a property needs and the code does not keep:
`seen` and `view` (what a caller last read), `given`, `blind`, `repeated`,
`applied`, `raced`, `overlapped`, `tangled`, the `from` and `to` of a change that
can be undone. No guard of an action that models
code reads them, but for `seen` and `view`, from which a caller takes the
revision it expects.

## 3. What the runs check

| run | instance | question | result |
|---|---|---|---|
| `session_in_place` | 2 callers, 2 counted writes, 1 outside edit or removal, 1 check each | on a driver that edits the file: is every alarm about another program's change, does close wait and end, is everyone answered | holds, under fairness |
| `session_copy` | 2 callers, revision to 3, 2 writes, all methods but the check | on a driver that edits a copy: are writes serial, is a clean session stored, are stale writes refused | holds |
| `host_writes` | window and agent, 1 film, 5 requests: open, close, read, op, call, dry run | one writer, everyone hears, and the refinement of `OptimisticFilm` | holds |
| `host_moves` | 2 paths, 4 requests: create, saveAs, reload, migrating open, an outside edit, failures | does only a reload bring a revision down, and only to the one it worked out (`OnlyReloadsLower`) | holds |
| `host_live` | 5 requests, the window may vanish, reloads | is every request answered, and every film that was left closed | holds, under fairness |
| `agent_tools` | 2 calls at a time, 3 in all, 1 window write, 1 outside edit, 1 restart | is what is applied what was approved, once, without a new finding | holds |
| `mcp_relay` | 1 pipe, 2 films, 2 roots, with or without --scf, 4 lines of handshake, open and set_root, 2 calls kept, 1 reload | are lines served in order and answered once; is a resumed server in the film its agent last opened and with the root last given, while the `open` is still kept; is a pipe no page was told of told, and a call answered, by a page that stays | holds, under fairness |
| `script_typing` | 4 lines, 2 edits of any kind, saves, commits and reviews between them | one heading per scene, numbers that settle, everything typed reaches the film | holds, under fairness |
| `script_records` | 2 writes of other sections or the agent, deletes with undo, both numbering policies, the section left once | is what the preview and the findings say so, does undo give back, do fixed numbers stay | holds |
| `media_boards` | 2 subjects that share a set, exceptions, a strip, a poster; 2 acts, any undo, 2 calls under way | are others asked, does undo restore, do ranks stay apart, do moves keep order | holds |
| `window_store` | 4 paths, 2 folders, 2 jobs at a time, 3 acts, 1 refresh, failing opens | is the film shown the one connected, does a refresh come back to it, does loading end, are folders kept | holds, under fairness |
| `film_answers` | a film of 3 scenes told in the order 2, 1, 3, one to six rows a table; any 2 of 44 edits | asked at every scene and shot: is what is cut gone, is nothing told early, has what is left out no bearing | holds |

### The disagreements

Where the code does other than a line of the repository says, the module states what
that line says as a definition, and a configuration checks it and fails. They are kept
here and under "findings", apart from the runs that pass. Where a configuration names
several, TLC stops at the first: strike the others to see the one in question (with
`-continue` TLC goes on to the rest, if they are invariants).

| definition | configuration | what happens |
|---|---|---|
| `LinksAreKept` | `MCScriptView_commits.cfg` | a commit links a new heading on the host; the window's next save, from its own rows, takes the link off |
| `QuietFingerprintIsCurrent` | `MCSession_stuck_alarm.cfg` | `refreshFingerprint` assigns `known` whenever its driver call returns; an older sample that arrives last stays, and every write is then refused as `external_change` |
| `NeverOverwrites` | `MCFilmHost_overwrite.cfg` | the host asks once for an outside change, before snapshot and queue; an edit in between is written over |
| `ReloadIsNew` | `MCFilmHost_reload.cfg` | `reload` computes its revision before it drains the queue; a drained write reaches the same number |
| `RevisionNeverFalls` | `MCFilmHost_falls.cfg` | a reload works out N+1 and waits; two calls of the agent are answered N+1 and N+2 before the film reopens at N+1 |
| `OneQueuePerPath` | `MCFilmHost_drops.cfg` | a connection that vanishes, or makes two requests at once, leaves a queued write on a session whose film is closed and opened again: two sessions of one file have writes to run |
| `HeldOnlyForClients` | `MCFilmHost_drops.cfg` | a connection that closes while its `open` is under way is attached when the film is ready, and never taken off |
| `OnlyGivenFieldsChange` | `MCAgentWrites_renumber.cfg` | moving a shot by `update_row` renumbers it; the plan shows the given field only |
| `LookupsKeepTheOrder` | `MCMcpRelay_disagreements.cfg` | an `open` that has app.db to ask, or that of `--scf`, takes effect after a later one |
| `SetRootsKeepTheFilm` | `MCMcpRelay_disagreements.cfg` | as many `set_root` calls as are kept push the `open` out, and a page that takes over has no film |
| `EveryPipeIsTold` | `MCMcpRelay_disagreements.cfg` | a pipe announced to a page that goes before it answers is resumed by the next, which sends it no ok |
| `NumbersFollowScript` | `MCScriptView_commits.cfg` | scene numbers follow the rows of the commit before |
| `PreviewIsExact` | `MCScriptView_reports.cfg` | a boundary moved in the Structure tab goes back at the next commit, and the preview of derived numbers does not count it |
| `UnnumberedSortsLast` | `MCScriptView_reports.cfg` | a span reported to sort after every numbered scene stands before one |
| `LowerIdKeepsItsScenes` | `MCScriptView_reports.cfg` | of two spans on one scene the lower row id is the empty one |
| `SpanNumbersFollow` | `MCScriptView_reports.cfg` | an act made under fixed numbering has no number, against the comment on `renumberSpans` |
| `TypedStays` | `MCScriptView_commits.cfg` | what is typed while a reviewed commit is under way is put back |
| `TextIsNotUndone` | `MCScriptView_commits.cfg` | the section is left and entered again during a save, and the older text stored |
| `StripIsInOrder` | `MCMediaWindow_strip.cfg` | two moves in a row, the second from old tiles, leave two files at one place |
| `ViewsAreCurrent` | `MCWindowStore_disagreements.cfg` | after Save As the views miss writes until the copy's revision has caught up |
| `RootIsItsOwn` | `MCWindowStore_disagreements.cfg` | a folder looked up for one film is applied to the next |
| `OnlyChoicesReplaceRoots` | `MCWindowStore_disagreements.cfg` | a folder chosen during an open's bookkeeping is overwritten by it |
| `ClosedStaysClosed` | `MCWindowStore_disagreements.cfg` | of two opens one is answered and its film closed; the other is answered then, and the start screen goes |
| `HeldOnlyWhileHad` | `MCWindowStore_disagreements.cfg` | two overlapping opens leave the first film held |
| `SpineCountsCarriers` | `MCFilmAnswers_disagreements.cfg` | the spine of a theme counts a motif twice where it appears to eye and ear |
| `CutMotifIsGone` | `MCFilmAnswers_disagreements.cfg` | the manifest of a scene still lists the appearance of a cut motif |
| `FindingsAreOfTheFilm` | `MCFilmAnswers_disagreements.cfg` | the shot row of a cut character is reported |
| `OnlyTheFilmIsThin` | `MCFilmAnswers_disagreements.cfg` | readiness asks for the look of a cut character |
| `NoOneIsSeenNowhere` | `MCFilmAnswers_disagreements.cfg` | readiness at a shot of a cut scene still asks how those in it look |
| `ReferencesAreReady` | `MCFilmAnswers_disagreements.cfg` | a subject pinned by an anchor alone is a blocker, though Q13 gives the reference |
| `AnchorsAreSwept` | `MCFilmAnswers_disagreements.cfg` | the media of a shot never asks for a look that only an anchor holds |

`PROJECT.json` quotes the line each one disagrees with.

### Bounds, and why they are enough

- **Callers, connections: two.** What is at stake is always the order of one
  request with respect to one other: the write before mine, the client that
  leaves as I come. A third adds no new pair. `SessionProofs` shows the session's
  safety for any number.
- **Requests.** Five on one film are enough for open twice, a read, a write and a stale
  write with the other's in between, or a close and a reopen; four over two paths for a film
  moved, made, reloaded and left. `MaxFilms` counts film objects and sessions: each
  reopen takes one, and `Room` refuses a request that could need one more.
- **One slot per connection** (`OneSlotEach`). A window may have several requests in
  flight; see section 7 for what that leaves out. Two connections with one slot
  each give every interleaving of two handlers on one film.
- **MaxRevision, MaxTickets, MaxRefreshes.** A save with an edit in it and a reset
  around it need three counted changes; two tickets are one write in the other's
  way. The alarm run needs one counted write beside the refresh of the opening.
- **Two fields, two or three values.** `scene` and `number` are the two that are
  tied to each other; `bad` is the value that is an integrity finding; `agent_renumber`
  has a second good number for the shot to be given.
- **One pipe** in the relay's run: pipes share the shell's lock and nothing else. `StateKept` is 2
  where the code keeps 32, so that four lines pass the limit: an `open` may be pushed out by a
  later one or by `set_root`s, or stay with one `set_root` behind it. One reload meets every step
  of a session: a pipe told by the page before, one told by none, lines held and lines lost. Two
  films and two roots tell the last from the one before; one film is opened as app.db says, and
  may be that of --scf, and the other with a root (`FewLines`). Calls that only read, and every
  other `open`, are said in the disagreements' run and covered by the theorems, which hold for
  any `Lines` and `Args`.
- **MaxEdits 2, MaxWrites 2, MaxScenes 3, MaxLeaves 1** on a script of two scenes and four
  lines. Duplicate headings take a scene and its copy; a number that is off by one
  commit shows at the second; `MaxQueue` 1 is one commit waiting behind one under way,
  and another could only repeat it.
- **MaxAsks 2, MaxQueue 2** on a board: an act, an act planned before it ran, and the
  undo of either. **MaxActs 3, Jobs 2** in the store: what is shown, what overlaps it, and
  what comes after both.
- **Three scenes, any two edits** in `film_answers`. Story order differs from scene
  numbers and from row ids; two edits cut a row and what it displaced, or move a scene
  and rewrite a range over it. Each table has the rows that compete: bindings that
  replace, tie and are filtered out, an anchor per variant, states that stack.
- **Symmetry** on callers and on slots, in the runs without liveness. Nothing orders them.
- `CHECK_DEADLOCK FALSE` in the session, agent, relay, script, media, store and answers runs: once the
  bounds on what people do are used up and everything is answered, the system rests. `FilmHost` has
  `Rest` instead: a host with a request unanswered or a film half closed may *not* rest,
  so its runs check deadlock. In the others the liveness properties say what must not
  be left standing.

### Fairness

Assumed, weakly: a continuation whose promise is settled is run (the event loop),
and SQLite, the file system and the journal answer, with a result or an error. That
is `WF` on the steps of a handler, of a refresh, of a save, of closing; on the relay's
threads and the page's events (`McpRelay`); on each job of the store (`GoingOn`). In
`ScriptView` the debounce is restarted by each keystroke, hence `SF` on `TimerFires`
(a writer who pauses now and then for as long as the timer lasts), and a call to the host is
answered sooner or later: `[]<>(job.stage # "sent")`, since the answer may be either of two
actions. Not assumed: that callers call, a person answers a review or a plan, a client
vanishes, another program edits, a snapshot or an open succeeds, a page reloads. So in `host_live`
a film that cannot be reopened stays as it is, and its requests are answered with errors.

## 4. What is proved

Eight modules hold proofs. Each theorem is about the specification that the runs check,
for every value of the constants its module's assumption allows: `SessionAssumption`
(methods are methods, flags Booleans, bounds natural numbers), `FilmHostAssumption`
(there is a path, and finitely many request slots, since `Room` counts them),
`BoundsAssumption` of `WindowStore`, the assumption of `AgentWrites` on its bounds and
sets, `RelayAssumption` (at least one call is kept, the bounds are natural numbers, the value
for absent is no film and no root, and --scf gives a film or nothing), `LinesAssumption` (agents
say lines the relay and the server know of),
`NoneAssumption` (the value for absent is no session and no server), and of `ScriptView` its
`BoundsAssumption`, `LineTypesAssumption` (lines are headings, sections or action) and
`OpeningAssumption` (the film that is opened is one a commit could have stored: its lines name
scenes it has, none of them from two headings), and of `MediaWindow` its `BoundsAssumption`,
`FirstFilmAssumption` (rows have ids that were given out, orders and ranks are natural numbers, a
member and a binding name a bundle's id) and `WhenAssumption` (the condition of an exception is one:
`filterValues` refuses an exception that sets no filter). Some theorems have a hypothesis besides; it is in their statement, and said here.

| module | theorem | states |
|---|---|---|
| `SessionProofs` | `TypeCorrect` | `Spec => []TypeOK` |
| | `WritesAreSerial` | `Spec => []OneWriteAtATime` |
| | `SavedMeansStored` | `Spec => []NothingLost` |
| | `CloseCutsNothingOff` | `Spec => []CloseDrains` |
| | `StaleWritesAreRefused` | `Spec => NoLostUpdate` (an action property) |
| | `AlarmTheorem` | where nobody calls `noteWrite`, `Spec => []AlarmIsForeign` |
| `FilmHostProofs` | `TypeCorrect` | `Spec => []TypeOK` |
| | `OneFilmTheorem` | `Spec => []OneFilmPerPath` |
| | `OnlyReloadsTheorem` | `Spec => OnlyReloadsLower` (an action property) |
| `FilmHostPromiseProofs` | `OneWriterTheorem` | `OneAtATime => (Spec => []OneWriterPerFile)` |
| | `HearsTheorem` | `OneAtATime => (Spec => []EveryoneHears)` |
| | `PromiseTheorem` | where also no other program edits, `Spec => KeepsItsPromise` (the refinement) |
| `WindowStoreProofs` | `TypeCorrect` | `Spec => []TypeOK` |
| | `RefreshTheorem` | `Spec => []RefreshComesBack` |
| | `ConnectedTheorem` | `Spec => []ShownIsConnected` |
| | `NoBounceTheorem` | `Spec => NoBounce` (an action property) |
| | `RootsTheorem` | `Spec => RootsAreNotLost` (an action property) |
| `AgentWritesProofs` | `TypeCorrect` | `Spec => []TypeOK` |
| | `AppliedOnceTheorem` | `Spec => []AppliedOnce` |
| | `NoFindingTheorem` | `Spec => NoFindingAdded` (an action property) |
| | `ApprovedTheorem` | `Spec => AppliedAsApproved` (an action property) |
| `McpRelayProofs` | `TypeCorrect` | `Spec => []TypeOK` |
| | `OrderTheorem` | `Spec => MessagesInOrder` (an action property) |
| | `OnceTheorem` | `Spec => []AnsweredOnce` |
| | `LeftTheorem` | `Spec => []ResumedAsLeft` |
| `ScriptViewProofs` | `TypeCorrect` | `Spec => []TypeOK` |
| | `OneHeadingTheorem` | `Spec => []OneHeadingPerScene` |
| | `UndoTheorem` | `Spec => []UndoGivesBack` |
| | `ReportsTheorem` | `Spec => []ReportsAreTrue` |
| | `FixedTheorem` | `Spec => FixedIsFixed` (an action property) |
| | `SettledTheorem` | `Spec => SettledNumbers` (an action property) |
| `MediaWindowProofs` | `TypeCorrect` | `Spec => []TypeOK` |
| | `UndoTheorem` | `Spec => UndoRestores` (an action property) |
| | `AskedTheorem` | `Spec => OthersAreAsked` (an action property) |
| | `RanksTheorem` | `Spec => RanksStayApart` (an action property) |
| | `OrderTheorem` | `Spec => MovesKeepOrder` (an action property) |

**Session.** None but types is inductive. `IInv` is:

- `QueueInv`: tickets of pending writes are distinct, not yet served, below
  `issued`; whoever is past the head holds the ticket that is up. Serving one
  more ticket then leaves nobody past the head (`LeaveStep`), and a ticket does not
  pass twice. That gives serial writes.
- `CloseInv` and `CloseDrains`: `closeAt` is no more than `issued`, and a write that
  joins later has a ticket at or above it.
- `DataInv`: `SeenInv`, `SaveInv` and `NothingLost`. *While no change waits to be counted*,
  equal revisions mean equal rows: for what a caller has seen, for the copy being
  saved under a watermark, for the file. A change makes the condition false
  (`ChangeStep`), counting it makes the revision new (`CountStep`), and everything
  else touches neither (`QuietStep`). The watermark is what makes `SaveInv`
  inductive: a save marks only the revision it was exported at.

`NoLostUpdate` follows from `IInv` at the one step that begins a write
(`StartsFresh`): it checks the revision in the same step, so the rows are those
read. `AlarmTheorem` has an invariant of its own, `AlarmInv`: as long as no two refreshes
overlapped, only the newest is under way and brings the stamp the session's own last change
left (`PrintInv`); a check that no own change overlapped waits for that one and compares with
what it brought (`CheckInv`). A change noted by hand moves the rows outside the queue, hence
the hypothesis; the sessions that check are the host's, and those never call `noteWrite`.

**FilmHost.** `IInv` is `TypeOK`, `Shape` and `RoomInv`. `Shape` says what records,
sessions, maps and requests may point at: a film in `films` is open and of that
path, one in `opening` is being built for it and has a request that builds it, no third
is either; a connection is on an open film that counts it as a client; a request past its
gates has a film with a session. `RoomInv` — sessions made, and requests that will make
one, are no more than `MaxFilms` — is why `NewFilm` and `NewSession` find something, that
is, why the bound stops no handler half way. `OneFilmPerPath` is part of `Shape`.
`OnlyReloadsTheorem` goes through the steps once: between openings `lastRev` has what
`RevisionOf` had, an opening starts its base there, and sessions only count up, so that
only `ReloadOpens` can assign anything lower.

**FilmHostPromise.** These three are about clients that make one request at a time and
stay, and neither copy nor reload (`OneAtATime`); `host_writes` is such an instance. The hypothesis is needed:
two requests of one connection, or one that vanishes, leave a write in the queue of a film that is
closed and opened again (`MCFilmHost_drops.cfg`); a copy is counted but told
to nobody; a reload may bring the revision down (`MCFilmHost_falls.cfg`). The agent's
tools are such clients, and so is the window as long as its own requests do not overlap. `HInv` strengthens:

- `HereInv`: a write under way has the film its connection is on, and that film's session:
  nobody closes it, so the film it was checked against is the one it runs on.
- `TicketInv`: a session's tickets from `served` to `issued` are each held by one write, and one
  that has begun holds the first. A session with work to do therefore has a write, its film is
  in `films`, and there is one of those per path: `OneWriterPerFile`. Two writes cannot
  both be past the head, which the refinement needs too.
- `HeardInv`: a client whose revision is behind its film's is owed it by a write that has counted or
  recorded but not announced. `BeforeInv` and `MembersInv` make it inductive: the write will find
  the revision it started from behind, hence announce, and the film's client set is who is on it.
- `ViewInv` and `PlanInv` (`Fresh`): rows read at a revision are the rows as long as the path is
  at that revision and no change waits to be counted — carried across a close and a reopen,
  where the film, the session and the base are other ones.

Each step either leaves every write where it is (`Bystands`) or moves one write and no film
(`Works`); an invariant is shown kept once for the first kind and per step for the second.
A step maps to the promise so: `AskWrite` plans; a refusal or an answer gives up; `Commit` and
`RunInVain` change, on the planned rows because the queue's check compares the revision that
`PlanInv` ties to them, and alone because of `TicketInv`; `Settle` counts; a migrating open
renews; the rest stutters. With outside edits rows move without a revision
(`MCFilmHost_overwrite.cfg`), hence `MaxOutside = 0`.

**WindowStore.** `JobInv` says what a job has at each of its stages: a path where the next
step opens or records one, the film it copies from, a folder to store. With it `RefreshComesBack`
and `ShownIsConnected` are inductive; `NoBounce` needs `LeftInv` (after a close auto-resume is
disarmed and no open is shown as loading), which the same proof carries along. `NoBounce` says
that after a close a film comes on the screen by a new act of the writer or by the answer to an open
he had under way; that such an answer still comes is the code's (`ClosedStaysClosed`).

**AgentWrites.** `PlanInv`: what a call confirms is a plan the agent was shown, made at the
revision the call has, from the row it read. `ReadInv`: while the revision has not moved, no
change waits to be counted and no other program's edit shows, the row is as the call read it — to the
gate before the queue and to the one in it, which see different things of an outside edit. `AppliedInv`:
a plan that was applied is behind the revision, or about to be, so that a second confirmation is stale.
`NoFindingAdded` follows at the one step that applies: gate and write are in one turn of the queue.

**McpRelay.** `IInv` speaks of each pipe by itself; a step of one pipe leaves the rest alone
(`Elsewhere`), and those of all pipes (`AnnounceHeld`, `mcp_listen`, a reload) do the same to each.
Its parts:

- `PipeInv`: who knows of a pipe. A page that is not listened to has heard nothing and has no
  server; what is kept, replayed, waiting or owed are lines that were said.
- `OrderInv`: `Ordered` queues have an `open` only in front, `closed` only at the end and the lines
  between them one after the other, and `UpTo` says how far they reach. What is held for a page
  that has not heard of the pipe ends with the last line that `emit` was called with, and then the
  channel is empty; once it has, what the channel ends with is that line, or the server was given it.
  `announce_held` moves one queue behind an empty one, which is why order survives the two locks.
- `OnceInv`: `OwedInv` is what makes "answered once" inductive. A request that a server owes was not
  answered; a replayed line it owes as well, and whose answer is no longer to be swallowed, was the
  one whose first answer was swallowed: the answers change places but not their number. What is
  still in the channel comes after all of them (`Later`), so it was not answered either.

For `LeftTheorem` `Left` is added. `StateInv`: what a session keeps are the latest calls of its
agent, each later than all that went (`Keeps`), so it has the last `open` as long as fewer than
`StateKept` calls follow it (`Due`; `LastKept`). `FilmInv`: a server, or the `open` event it will
come from, has taken up everything to some line `k` of the `open`s and `m` of the calls (`Took`), and
what is later, or due, is still in its queue or at `emit` (`Rest`). A message may repeat a line
that the replay had, never one before it, which is why the film does not go back. When nothing is
on its way `k` is the last `open` and `m` the last call. The theorem, like the property, is of agents
whose opens name their roots, because one without waits for app.db and may overtake
(`LookupsKeepTheOrder`); of those without `--scf`, because a server that starts with one awaits and
may hear lines before its replay; and of opens that are still kept (`SetRootsKeepTheFilm`).

**ScriptView.** `IInv` is `TypeOK`, `NamesInv` and `OneHeadingPerScene`. `TypeOK` has more than
types in it: `FilmOK` says that row ids are never given out twice and that a line of the film is of
a scene the film has. `NamesInv` is about what is *not* in the film: every scene the window
remembers for a line, and every scene a plan under way names, is below the next scene id. Without
it `OneHeadingPerScene` is not inductive: linking leaves a heading its scene unless an earlier one
has claimed it and gives the others ids from the next one on, so a plan that named an id of the
future could meet the scene created for another heading. The plan may be as old as it likes: the
scenes it names may have been deleted meanwhile (then the host refuses it), never reused.

The proof has two layers. Below, each write of the host is shown to lead from a film with `FilmOK`
to one (`CommitScriptType`, `DeleteSceneType`, `RestoreType`, ...), with what it leaves alone; a
film is taken apart into its tables once (`FilmShape`). Above, a step of the window either leaves
the film alone (`WindowStep`) or is one such write (`FilmWrite`).

- `UndoTheorem` is a lemma about any film with `FilmOK` (`DeleteAndBack`): handing a boundary on
  changes only spans that started at the scene, and those are what the capture has.
- `FixedTheorem`: every step of `film` is a commit or one of seven writes (`FilmSteps`), and each keeps
  numbers (`CommitFixed`, `WriteFixed`); a shot moved to another scene is outside the property.
- `SettledTheorem`: only `StoreCommit` stores (`StoringStep`). The commit numbers by the order of
  the headings it found; where that is the order it leaves, and no scene came in, positions before
  and after are the same function, and numbers of spans follow from their starts (`StartsDecide`).
- `ReportsTheorem`: the scenes of a film are in a strict total order and a position is the number of
  scenes before it (`ScenesOrdered`), so positions differ (`PositionsDiffer`) and the starts of spans
  are ordered, by scene and then by id. Hence a scene is in one span (`OneSpan`), in none only if it is
  before all (`SomeSpan`), and a span is empty only if another starts where it does (`EmptySpan`,
  `SharedSpan`). For the preview, the next commit of the stored script creates nothing and
  is not refused (`StoredCommit`, which needs `OneHeadingPerScene`: each heading
  keeps its scene, `LinkedAgain`), moves no boundary (`StartsStay`), and so
  rewrites what the preview names (`PreviewCounts`).

**MediaWindow.** Here too the proof has two layers. Below, `Recorded(f, c)` is what a change under
way keeps true of the film `f` it began from: ids it gave out are new, what it made is among them,
what it altered or took away is kept as it was in `f` (once, and never a row of its own), and every
other row is untouched. Begin, insert, update and delete each keep it, and with it
`ApplyUndoChange(c.t, c) = f.t` (`RecordedUndo`): so every operation built from them is undone,
however many rows and tables it goes through. An operation writes rows by set, not row by row:
`Place` counts the rows before one in an order (`StrictOrder`), which is what makes moves and
renumbering provable without induction (`PlaceOrder`, `PlaceNext`). For each operation `Sound` then
adds to `Recorded` that no baseline stops being one and no other row becomes one (`SamePure`), and
that ranks that were apart stay so.

Above, `Inv` is `TypeOK` and: there is one set `P` of binding ids such that in the film, in what the
panels show, in every change that is kept or queued to be undone, the baselines are the bindings in `P`
(`Marked`). It is needed because calls are old when they run. A condition given to an
exception must not be given to a baseline: the panel saw an exception with that id, ids are not
given out twice, and an undo brings a row back as what it was, so it is still one. A step that
makes bindings goes on with a larger `P` that agrees below the next id (`MarkedOn`). What queued
undos hold is carried along as `ChangeOK`, and that two tiles of a move are of one sequence and are
not the same is in `CallOK`.

- `UndoTheorem`: the queued change satisfies `ChangeOK`, established by `RecordedUndo` when it was
  settled (`SettledUndo`: the assets a drop registered before are counted as made).
- `AskedTheorem`: the set is made ready in one of three ways (`Readied`): a new baseline, a copy, or the
  set that is there, which nobody else uses unless the writer said "for everyone"
  (`ReadiedBundle`). In the first two the bundle has an id no binding has. So the files go where no
  other owner's baseline points (`LookOfOthers`), and the owner's look has at least what it had (`LookGrows`).
- `RanksTheorem`: a new exception is above the maximum (`AddExceptionSound`), a move gives each
  exception a place of its own (`MoveExceptionSound`), and a removed one leaves the others.
- `OrderTheorem`: the new order is a strict one that agrees with the old on every other row and has the
  two next to each other (`PastOrder`), and writing the places back makes it the stored
  one (`MoveTileOrder`).

### Only model-checked

- Everything temporal with fairness (`CallsAreAnswered`, `CloseCompletes`,
  `RequestsAreAnswered`, `LeftFilmsClose`, `LoadingEnds`, the relay's and the editor's): this prover does
  neither liveness under fairness nor `ENABLED`.
- `FilmAnswers`: its answers are sequences that are sorted, selected from, flattened and
  summed (`SetToSortSeq`, `SelectSeq`, `FlattenSeq`, the folds), so the library defines
  them by recursion over the data, and its three properties say that two films give the
  same sequences. That is again an induction over data, and an equality of selections
  under two predicates. It is checked on a bounded film after every sequence of edits
  up to the bound.

## 5. Plan

Done: `Session`, `FilmHost` with `OptimisticFilm`, `AgentWrites`, `WindowStore`, `McpRelay`, `ScriptView` (with `SceneOrder`, `Screenplay` and
`ScriptReports` below it) and `MediaWindow` (with `MediaOps`) with their proofs; `Resolution`,
`Readiness`, `ShotContext`, `FilmAnswers`. Left, in order:

1. **Proofs.** The cascades of `Resolution` as sets and orders instead of sequences, as `MediaOps`
   has them, so that `CutIsGone` can be proved of each.
2. **AppStore**: two processes that open, verify and move aside; **Start and exit** of the app
   (`lib.rs`, `mcp.json`).
3. **Screenplay**, the parts left out: cast and location links, renames, tags, shoot days.
4. `db.ts` with the gate's savepoints, if an operation ever nests transactions.

## 6. What is simplified

- `ReportsAreTrue` asks where no commit is under way, and of the preview only where numbering
  is fixed (the dialog is about leaving that) and no section line is about to move a boundary
  (where one is, `PreviewIsExact` shows what happens). Findings and preview are sets of rows;
  the wording and the counts are left out, and so are findings of other parts of the film.
- `notify`/`subscribe` of a session hand out two numbers and change no state.
- Roots (a check of a path), `hello`, `ops`, `journal`, `status` and `shutdown` of the
  host. A shutdown is every film closed by the steps `LeftFilmsClose` is about.
- The files a snapshot writes: only that it waits, may fail, and a failure writes
  nothing.
- Of the seven tools, `create_row` and `update_row`: the others go through the same
  plan, confirmation and gate with other ops.
- The client's and server's protocol is a function call in the one page; messages
  between them are neither lost nor reordered (`windowHost.ts`).
- Stamps never repeat: two writes of equal size within the file system's clock
  resolution are outside the model, as they are outside what mtime and size can tell.
- Script: a scene number is a natural number, the only label the program itself
  writes. Act and sequence are one table of spans. Left out: cast and location links,
  renames, `unlinkUuids`, annotations and tags, and the awaits of `syncPropScenes` and
  `refreshAnnotations`, which write other tables.
- Media: one board for the four of a workspace, which differ in the intent of their
  bundles. Left out: a tile's role, region, clip, label and note, the setting `replaces`,
  drops on a variant or on an exception, and the import of a dropped file. The answer of
  a call is taken with its run (a panel can only queue more calls meanwhile).
- Store: a folder is attached in one step, choosers answer at once, the asset locator
  is the root it was given, the host's close is asked with the click. Left out: a second
  window, reconnect (the host is in the page), reload after an outside edit.
- Answers: Q00, the dossier of Q01 and its uses, Q11 and Q15; costumes as subjects of
  media, arcs (read as relations are), assets related to a shot or scene, which lines a
  shot covers (`speakers` is given), a connection's own cut flag (`thematic_connection`).
- Relay: tokens and the handshake, the app's start and idle exit, two pages of one shell.

### Not modelled

Parsers and importers (text, character by character, in one transaction), rendering,
generated tables and build checks: they have no state that interleaves, and the
repository's corpus tests reach them. The shell's SQL and file commands are seen
as a driver that answers later. `db.ts`: operations do not nest transactions, and a queue of
whole writes is what `Session` has. Object URL and thumbnail caches: a model of the former
found one thing, listed below, and is not kept. `PROJECT.json` gives the reason for each
component. The map covers a small share of the lines of the repository: most of them
are views, parsers, tables and the assembly of answers.

## 7. Seen while modelling, without a run

Behaviours the models have or the code shows, which no sentence of the repository
contradicts outright, or which the instances above leave out:

- Between a commit and the refresh that follows it, a check finds the session's own
  write and reports it as foreign. `AlarmIsForeign` therefore speaks of checks that no
  own change overlapped.
- A `persist` in flight over a `reset` leaves a session dirty that holds what the file
  holds.
- A queued write that is refused as stale still announces, under its own client's
  name, the revision another client reached meanwhile.
- One connection that closes its film with a write of its own still queued and
  reopens it at once: `lastRevisions` was taken before the drain, so revisions of the
  old and the new session overlap. Needs two slots on one connection.
- Two overlapping reloads each open a fresh session, and one of them is never closed.
- `saveAs` moves the revision of the film that is left, and tells nobody.
- After a restart revisions begin at 0, so a create plan made at revision 0 of the
  life before may be applied once more.
- A page that reloads between being told of a pipe and answering it: the next page is
  told `resumed` and sends no `ok` (windowMcp.ts:142).
- The app may decide to exit for want of pipes while one connects
  (mcp_relay.rs:189-202, lib.rs:90-101).
- objectUrlCache.ts:83-87: of two acquirers that share a load, the second may get back
  the URL the first has just revoked.
- `undoDelete` and `undoLastChange` clear the entry after their await, and so drop a newer one
  (store.ts:928-957). A failed resume or open throws the window off a film opened
  meanwhile (479-481, 609-616). The demo is checked in whatever film is open then (586).
- Two processes that both find app.db damaged: the second removes the `.bak` of the first
  (appStore.ts:161-173).
- thumbnailCache.ts:259-300: a file that changes while its thumbnail is made leaves newer
  bytes under the older stamp, or older under newer.
- ScriptView.tsx:765-769: a duplicated scene's block gets no `type`. An agent that deletes a
  scene while the script is open makes each save fail on a foreign key (rowModel.ts:195).
  ScriptView.tsx:229: the UPDATE of `validateTags` is refused by the read guard.
- structure.ts:227-229: the comment says the lower id wins a shared boundary; the code gives
  the scenes to the higher.
- mediaOps.ts: `copyMembers` puts NULL orders first; `setMediaType` may make a duplicate; a tile
  dropped on a removed exception leaves a member of no bundle; `setPoster` with a vanished asset
  throws; a failed drop on a variant leaves its exception (ElementTabs.tsx:126-152).
- integrityGate.ts:93: the savepoint depth is off by one after a failed RELEASE.
- resolution.ts, a binding's range: cutting the scene it starts at takes the lower bound
  away, and the binding is in force before that scene as well.
- presence.ts: a shot may show as heard or seen who the scene has as named or heard; only
  named-but-seen is reported.
- readiness.ts:110: a thin vocal profile is a `warning` at a `required` step that is met, for
  which the table of spec 12.9.1 has `ok`. readinessQ02 counts the states of a relationship
  that is cut. canonicalQueries.ts: Q01 and Q02 list connections to a cut motif or theme.
- db.ts: an operation that called withTransaction inside another's would wait for itself.
