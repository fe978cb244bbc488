------------------------------ MODULE Session ------------------------------
(***************************************************************************)
(* One open .scf file: scf-core/src/session.ts.                            *)
(*                                                                         *)
(* Callers share one session.  A write joins a promise chain, `queue`, and *)
(* runs when every write issued before it has settled; we keep the chain   *)
(* as two counters, the tickets `issued` and the number `served` so far.   *)
(* A step is the code between two awaits that really wait (for the         *)
(* database, the file system or another caller); continuations that only   *)
(* pass through the microtask queue belong to the step that resolves them. *)
(*                                                                         *)
(* The rows of the database are abstracted to `content`, a version number  *)
(* that moves with every committed change, and the file's mtime-and-size   *)
(* fingerprint to `stamp`, which never repeats.                            *)
(***************************************************************************)
EXTENDS Integers, FiniteSets

CONSTANTS
  Callers,      \* who holds the session: views, or the host's requests
  Calls,        \* which of the session's methods they use in this instance
  ReadOnly,     \* SessionOptions.readOnly
  InPlace,      \* the Node and Tauri drivers edit the file itself and have a
                \* fingerprint; the browser's edits a copy and has none
  MaxRevision,  \* bound: no counted call once the revision would pass it
  MaxTickets,   \* bound: writes ever issued
  MaxOutside,   \* bound: edits of the file by other programs
  MaxChecks,    \* bound: hasExternalChange calls made by one caller
  MaxRefreshes  \* bound: no persist() once so many refreshes have begun

CallNames ==
  {"read", "write", "dryRun", "noteWrite", "reset", "persist", "check",
   "close"}

ASSUME SessionAssumption ==
  /\ Calls \subseteq CallNames
  /\ ReadOnly \in BOOLEAN
  /\ InPlace \in BOOLEAN
  /\ {MaxRevision, MaxTickets, MaxOutside, MaxChecks, MaxRefreshes} \subseteq Nat

NoCheck    == -1   \* WriteOptions.expectedRevision is undefined
NotClosed  == -1   \* close() has not been called
NotTaken   == -1   \* no fingerprint sampled yet: `known` is undefined
Unreadable == 0    \* driver.fingerprint threw: `known` is "unreadable"

VARIABLES
  revision, savedRevision,
  issued, served,          \* the promise chain `queue`
  pc, ticket, expected,    \* per caller: its pending call
  counts,                  \* per caller: WriteOptions.counts
  seen,                    \* per caller: the revision and rows it last read
  content, stored,         \* versions of the working copy and of the file
  save,                    \* `persisting`, with its watermark
  stamp, foreign, outside, \* the file's fingerprint; those that other
                           \* programs' edits produced; how many edits
  known,                   \* the fingerprint the session believes is its own
  started, flying,         \* refreshes: how many began, those not yet back
  awaits,                  \* per caller: the refresh its call waits for
  sample, answer, checks,  \* per caller: hasExternalChange
  closeAt, closed,         \* close(): the queue it awaits, the driver
  resets,                  \* history: how often the database was replaced
  overlapped, tangled      \* history: see OwnWriteInWindow and StartRefresh

queueVars == <<issued, served>>
callVars  == <<pc, ticket, expected, counts>>
saveVars  == <<savedRevision, save, resets>>
fileVars  == <<content, stored, stamp, foreign, outside>>
printVars == <<known, started, flying, tangled>>
checkVars == <<sample, answer, checks, overlapped>>
closeVars == <<closeAt, closed>>
vars == <<revision, queueVars, callVars, seen, saveVars, fileVars, printVars,
          awaits, checkVars, closeVars>>

\* Slip: nobody asks the driver again after the session was opened.
SamplingOnce(id) ==
  IF InPlace /\ id = 1 THEN {[id |-> id, stamp |-> NotTaken]} ELSE {}

\* driver.fingerprint() being awaited.  Without one nothing is.
Sampling(id) == IF InPlace THEN {[id |-> id, stamp |-> NotTaken]} ELSE {}

NoSave == [phase |-> "none", at |-> 0, copy |-> 0, epoch |-> 0]

Init ==
  /\ revision = 0 /\ savedRevision = 0
  /\ issued = 0 /\ served = 0
  /\ pc = [c \in Callers |-> "idle"]
  /\ ticket = [c \in Callers |-> 0]
  /\ expected = [c \in Callers |-> NoCheck]
  /\ counts = [c \in Callers |-> TRUE]
  /\ seen = [c \in Callers |-> [revision |-> 0, content |-> 0]]
  /\ content = 0 /\ stored = 0
  /\ save = NoSave
  /\ stamp = 1 /\ foreign = {Unreadable} /\ outside = 0
  /\ known = NotTaken
  /\ started = (IF InPlace THEN 1 ELSE 0) /\ flying = Sampling(started)
  /\ awaits = [c \in Callers |-> 0]
  /\ sample = [c \in Callers |-> NotTaken]
  /\ answer = [c \in Callers |-> "none"]
  /\ checks = [c \in Callers |-> 0]
  /\ closeAt = NotClosed /\ closed = FALSE
  /\ resets = 0
  /\ overlapped = [c \in Callers |-> FALSE] /\ tangled = FALSE

-----------------------------------------------------------------------------
(* The fingerprint *)

\* refreshFingerprint(): the newest refresh is the promise `fingerprinted`.
\* `tangled` remembers that one began while another was still under way.
StartRefresh ==
  /\ started' = IF InPlace THEN started + 1 ELSE started
  /\ flying' = flying \cup Sampling(started')
  /\ tangled' = (tangled \/ flying # {})
  /\ UNCHANGED known

\* `overlapped` remembers, per caller, that this session changed the file or
\* `known` during the caller's latest check.
Overlap ==
  /\ overlapped' = [c \in Callers |-> TRUE]
  /\ UNCHANGED <<sample, answer, checks>>

Arrived(id) == \A f \in flying : f.id # id

\* The file system reads the stamp ...
SampleRefresh(f) ==
  /\ f.stamp = NotTaken
  /\ flying' = (flying \ {f}) \cup {[f EXCEPT !.stamp = stamp]}
  /\ UNCHANGED <<revision, queueVars, callVars, seen, saveVars, fileVars,
                 known, started, tangled, awaits, checkVars, closeVars>>

\* ... and the answer comes back.
FinishRefresh(f) ==
  /\ f.stamp # NotTaken
  /\ known' = f.stamp
  /\ flying' = flying \ {f}
  /\ UNCHANGED <<revision, queueVars, callVars, seen, saveVars, fileVars,
                 started, tangled, awaits, checkVars, closeVars>>

OwnWriteInWindow == \E c \in Callers : pc[c] \in {"committed", "refreshing"}

\* Neither own changes nor other programs' ever repeat a stamp.
NextStamp == content + outside + 2

\* One committed change to the rows by this session.  A file another program
\* removed stays removed for the fingerprint, which names it by its path.
ChangeRows ==
  /\ content' = content + 1
  /\ stored' = IF InPlace THEN content + 1 ELSE stored
  /\ stamp' = IF InPlace /\ stamp # Unreadable THEN NextStamp ELSE stamp
  /\ UNCHANGED <<foreign, outside>>

\* Slips: the chain loses its place, or goes back.
PassedNot  == served
PassedBack == served - 1
Passed     == served + 1

\* A write is over, and the next one may run.
LeaveQueue(c) ==
  /\ pc' = [pc EXCEPT ![c] = "idle"]
  /\ ticket' = [ticket EXCEPT ![c] = 0]
  /\ expected' = [expected EXCEPT ![c] = NoCheck]
  /\ counts' = [counts EXCEPT ![c] = TRUE]
  /\ awaits' = [awaits EXCEPT ![c] = 0]
  /\ served' = Passed

-----------------------------------------------------------------------------
(* write() *)

\* A caller reads the rows together with the revision they belong to.
Read(c) ==
  /\ "read" \in Calls /\ pc[c] = "idle"
  /\ seen' = [seen EXCEPT ![c] = [revision |-> revision, content |-> content]]
  /\ UNCHANGED <<revision, queueVars, callVars, saveVars, fileVars, printVars,
                 awaits, checkVars, closeVars>>

\* Counted calls under way, so that the bound on `revision` holds for all.
Pending ==
  Cardinality({c \in Callers :
    \/ pc[c] \in {"queued", "running", "committed"} /\ counts[c]
    \/ pc[c] = "noting"})

\* write(fn, options): joins the queue.  A read-only session rejects it.
Write(c, e, k) ==
  /\ (IF k THEN "write" ELSE "dryRun") \in Calls
  /\ ~ReadOnly /\ pc[c] = "idle"
  /\ e \in {NoCheck, seen[c].revision}
  /\ issued < MaxTickets
  /\ k => revision + Pending < MaxRevision
  /\ pc' = [pc EXCEPT ![c] = "queued"]
  /\ ticket' = [ticket EXCEPT ![c] = issued]
  /\ expected' = [expected EXCEPT ![c] = e]
  /\ counts' = [counts EXCEPT ![c] = k]
  /\ issued' = issued + 1
  /\ UNCHANGED <<revision, served, seen, saveVars, fileVars, printVars,
                 awaits, checkVars, closeVars>>

\* `close` awaits the same promise as the next write, and asked first.
BehindClose(t) == closeAt # NotClosed /\ ~closed /\ t >= closeAt

\* Slip: a write that does not wait for the ones before it.
AtHeadUnqueued(c) == pc[c] = "queued" /\ ~BehindClose(ticket[c])

AtHead(c) == pc[c] = "queued" /\ ticket[c] = served /\ ~BehindClose(ticket[c])

\* Slip: only a revision from the future is refused.
IsStaleLoose(c) == expected[c] # NoCheck /\ expected[c] > revision

IsStale(c) == expected[c] # NoCheck /\ expected[c] # revision

\* StaleRevisionError: thrown in the queue, before fn, and not a write.
RefuseStale(c) ==
  /\ AtHead(c) /\ IsStale(c)
  /\ LeaveQueue(c)
  /\ UNCHANGED <<revision, issued, seen, saveVars, fileVars, printVars,
                 checkVars, closeVars>>

StartWrite(c) ==
  /\ AtHead(c) /\ ~IsStale(c)
  /\ pc' = [pc EXCEPT ![c] = "running"]
  /\ UNCHANGED <<revision, queueVars, ticket, expected, counts, seen, saveVars,
                 fileVars, printVars, awaits, checkVars, closeVars>>

\* fn changes rows.  It may still throw afterwards; a dry run never does this,
\* because what it did is rolled back; and a closed driver refuses.
Commit(c) ==
  /\ pc[c] = "running" /\ counts[c] /\ ~closed
  /\ pc' = [pc EXCEPT ![c] = "committed"]
  /\ ChangeRows /\ Overlap
  /\ UNCHANGED <<revision, queueVars, ticket, expected, counts, seen, saveVars,
                 printVars, awaits, closeVars>>

\* fn settled, with or without an error, having changed rows or not: the
\* `finally` counts it and takes the fingerprint before the next write runs.
Settle(c) ==
  /\ pc[c] \in {"running", "committed"} /\ counts[c]
  /\ revision' = revision + 1
  /\ pc' = [pc EXCEPT ![c] = "refreshing"]
  /\ StartRefresh /\ Overlap
  /\ awaits' = [awaits EXCEPT ![c] = started']
  /\ UNCHANGED <<queueVars, ticket, expected, counts, seen, saveVars, fileVars,
                 closeVars>>

SettleDryRun(c) ==
  /\ pc[c] = "running" /\ ~counts[c]
  /\ LeaveQueue(c)
  /\ UNCHANGED <<revision, issued, seen, saveVars, fileVars, printVars,
                 checkVars, closeVars>>

FinishWrite(c) ==
  /\ pc[c] = "refreshing" /\ Arrived(awaits[c])
  /\ LeaveQueue(c)
  /\ UNCHANGED <<revision, issued, seen, saveVars, fileVars, printVars,
                 checkVars, closeVars>>

-----------------------------------------------------------------------------
(* noteWrite() and reset(): changes made outside the queue *)

\* A view calls an op directly on `exec` ...
ChangeDirectly(c) ==
  /\ "noteWrite" \in Calls
  /\ pc[c] = "idle" /\ ~closed /\ revision + Pending < MaxRevision
  /\ pc' = [pc EXCEPT ![c] = "noting"]
  /\ ChangeRows /\ Overlap
  /\ UNCHANGED <<revision, queueVars, ticket, expected, counts, seen, saveVars,
                 printVars, awaits, closeVars>>

\* ... and records it.
NoteWrite(c) ==
  /\ pc[c] = "noting"
  /\ pc' = [pc EXCEPT ![c] = "idle"]
  /\ revision' = revision + 1
  /\ UNCHANGED <<queueVars, ticket, expected, counts, seen, saveVars, fileVars,
                 printVars, awaits, checkVars, closeVars>>

\* The database was replaced wholesale; the refresh is not awaited.
Reset(c) ==
  /\ "reset" \in Calls
  /\ pc[c] = "idle" /\ ~closed /\ revision + Pending < MaxRevision
  /\ revision' = revision + 1
  /\ savedRevision' = revision + 1
  /\ content' = content + 1 /\ stored' = content + 1
  /\ stamp' = IF InPlace THEN NextStamp ELSE stamp
  /\ resets' = resets + 1
  /\ StartRefresh /\ Overlap
  /\ UNCHANGED <<queueVars, callVars, seen, save, foreign, outside, awaits,
                 closeVars>>

-----------------------------------------------------------------------------
(* persist() *)

\* The watermark is taken first.  A call while a save is in flight joins it.
Persist ==
  /\ "persist" \in Calls
  /\ ~ReadOnly /\ save.phase = "none" /\ ~closed /\ started < MaxRefreshes
  /\ save' = [NoSave EXCEPT !.phase = "exporting", !.at = revision]
  /\ UNCHANGED <<revision, queueVars, callVars, seen, savedRevision, resets,
                 fileVars, printVars, awaits, checkVars, closeVars>>

\* driver.persist reads the working copy ...
ExportCopy ==
  /\ save.phase = "exporting"
  /\ save' = [save EXCEPT !.phase = "exported", !.copy = content,
                          !.epoch = resets]
  /\ UNCHANGED <<revision, queueVars, callVars, seen, savedRevision, resets,
                 fileVars, printVars, awaits, checkVars, closeVars>>

\* Slip: the watermark is what the revision is once the save is done.
WatermarkLate == revision
Watermark     == save.at

\* ... and writes it to the file, which is another file after a reset.
PersistDone ==
  /\ save.phase = "exported"
  /\ savedRevision' = Watermark
  /\ stored' = IF save.epoch = resets /\ ~InPlace THEN save.copy ELSE stored
  /\ StartRefresh /\ Overlap
  /\ save' = [save EXCEPT !.phase = "refreshing", !.at = started']
  /\ UNCHANGED <<revision, queueVars, callVars, seen, resets, content,
                 stamp, foreign, outside, awaits, closeVars>>

\* The user cancelled, or the driver threw: `finally` clears `persisting`.
PersistDeclined ==
  /\ save.phase \in {"exporting", "exported"}
  /\ save' = NoSave
  /\ UNCHANGED <<revision, queueVars, callVars, seen, savedRevision, resets,
                 fileVars, printVars, awaits, checkVars, closeVars>>

FinishPersist ==
  /\ save.phase = "refreshing" /\ Arrived(save.at)
  /\ save' = NoSave
  /\ UNCHANGED <<revision, queueVars, callVars, seen, savedRevision, resets,
                 fileVars, printVars, awaits, checkVars, closeVars>>

-----------------------------------------------------------------------------
(* hasExternalChange() and close() *)

\* Awaits the refresh that is the newest one now.  A session whose driver has no
\* fingerprint answers that nothing changed, and there is nothing to model.
Check(c) ==
  /\ "check" \in Calls /\ InPlace
  /\ pc[c] = "idle" /\ checks[c] < MaxChecks
  /\ pc' = [pc EXCEPT ![c] = "awaiting"]
  /\ awaits' = [awaits EXCEPT ![c] = started]
  /\ answer' = [answer EXCEPT ![c] = "none"]
  /\ sample' = [sample EXCEPT ![c] = NotTaken]
  /\ checks' = [checks EXCEPT ![c] = @ + 1]
  /\ overlapped' = [overlapped EXCEPT ![c] = OwnWriteInWindow]
  /\ UNCHANGED <<revision, queueVars, ticket, expected, counts, seen, saveVars,
                 fileVars, printVars, closeVars>>

CheckSample(c) ==
  /\ pc[c] = "awaiting" /\ Arrived(awaits[c])
  /\ pc' = [pc EXCEPT ![c] = "sampled"]
  /\ sample' = [sample EXCEPT ![c] = stamp]
  /\ UNCHANGED <<revision, queueVars, ticket, expected, counts, seen, saveVars,
                 fileVars, printVars, awaits, answer, checks, overlapped,
                 closeVars>>

\* `known` is read again when the sample is back.
CheckAnswer(c) ==
  /\ pc[c] = "sampled"
  /\ pc' = [pc EXCEPT ![c] = "idle"]
  /\ awaits' = [awaits EXCEPT ![c] = 0]
  /\ answer' = [answer EXCEPT ![c] =
                  IF sample[c] # known THEN "changed" ELSE "same"]
  /\ UNCHANGED <<revision, queueVars, ticket, expected, counts, seen, saveVars,
                 fileVars, printVars, sample, checks, overlapped,
                 closeVars>>

\* close(): waits for the queue as it is now, then closes the driver.
Close ==
  /\ "close" \in Calls
  /\ closeAt = NotClosed
  /\ closeAt' = issued
  /\ UNCHANGED <<revision, queueVars, callVars, seen, saveVars, fileVars,
                 printVars, awaits, checkVars, closed>>

\* Slips: nothing is waited for, or one write more than was queued.
DrainedAtOnce  == TRUE
DrainedTooLate == served > closeAt
Drained        == served >= closeAt

CloseDriver ==
  /\ closeAt # NotClosed /\ ~closed /\ Drained
  /\ closed' = TRUE
  /\ UNCHANGED <<revision, queueVars, callVars, seen, saveVars, fileVars,
                 printVars, awaits, checkVars, closeAt>>

-----------------------------------------------------------------------------
(* Other programs *)

OutsideEdit ==
  /\ InPlace /\ outside < MaxOutside
  /\ outside' = outside + 1
  /\ stamp' = NextStamp
  /\ foreign' = foreign \cup {NextStamp}
  /\ UNCHANGED <<revision, queueVars, callVars, seen, saveVars, content,
                 stored, printVars, awaits, checkVars, closeVars>>

OutsideRemove ==
  /\ InPlace /\ outside < MaxOutside /\ stamp # Unreadable
  /\ outside' = outside + 1
  /\ stamp' = Unreadable
  /\ UNCHANGED <<revision, queueVars, callVars, seen, saveVars, content,
                 stored, foreign, printVars, awaits, checkVars, closeVars>>

-----------------------------------------------------------------------------
WriteStep(c) ==
  \/ RefuseStale(c) \/ StartWrite(c) \/ Commit(c) \/ Settle(c)
  \/ SettleDryRun(c) \/ FinishWrite(c)

CheckStep(c) == CheckSample(c) \/ CheckAnswer(c)

RefreshStep == \E f \in flying : SampleRefresh(f) \/ FinishRefresh(f)

PersistStep == ExportCopy \/ PersistDone \/ PersistDeclined \/ FinishPersist

Request(c) ==
  \/ Read(c) \/ ChangeDirectly(c) \/ Reset(c) \/ Check(c)
  \/ \E e \in {NoCheck, seen[c].revision}, k \in BOOLEAN : Write(c, e, k)

Next ==
  \/ \E c \in Callers :
       Request(c) \/ WriteStep(c) \/ CheckStep(c) \/ NoteWrite(c)
  \/ RefreshStep \/ PersistStep \/ Persist
  \/ Close \/ CloseDriver
  \/ OutsideEdit \/ OutsideRemove

Spec == Init /\ [][Next]_vars

\* The event loop runs every continuation whose promise has resolved, and the
\* database and the file system answer.  Calling is up to the callers.
Fairness ==
  /\ \A c \in Callers :
       WF_vars(WriteStep(c)) /\ WF_vars(CheckStep(c)) /\ WF_vars(NoteWrite(c))
  /\ WF_vars(RefreshStep) /\ WF_vars(PersistStep) /\ WF_vars(CloseDriver)

FairSpec == Spec /\ Fairness

-----------------------------------------------------------------------------
(* Properties *)

InQueue == {"queued", "running", "committed", "refreshing"}
Active  == {"running", "committed", "refreshing"}

\* Type invariant of the session's state.
TypeOK ==
  /\ revision \in Nat /\ savedRevision \in Nat
  /\ issued \in Nat /\ served \in Nat
  /\ pc \in [Callers -> {"idle", "noting", "awaiting", "sampled"} \cup InQueue]
  /\ ticket \in [Callers -> Nat]
  /\ expected \in [Callers -> Nat \cup {NoCheck}]
  /\ counts \in [Callers -> BOOLEAN]
  /\ seen \in [Callers -> [revision : Nat, content : Nat]]
  /\ content \in Nat /\ stored \in Nat
  /\ save \in [phase : {"none", "exporting", "exported", "refreshing"},
               at : Nat, copy : Nat, epoch : Nat]
  /\ stamp \in Nat /\ foreign \subseteq Nat /\ outside \in Nat
  /\ known \in Nat \cup {NotTaken}
  /\ started \in Nat
  /\ flying \subseteq [id : Nat, stamp : Nat \cup {NotTaken}]
  /\ awaits \in [Callers -> Nat]
  /\ sample \in [Callers -> Nat \cup {NotTaken}]
  /\ answer \in [Callers -> {"none", "same", "changed"}]
  /\ checks \in [Callers -> Nat]
  /\ closeAt \in Nat \cup {NotClosed} /\ closed \in BOOLEAN
  /\ resets \in Nat
  /\ overlapped \in [Callers -> BOOLEAN] /\ tangled \in BOOLEAN

\* Two writes never interleave (session.ts:22-23): at most one caller is past
\* the head of the queue, and it is the one whose turn it is.
OneWriteAtATime ==
  \A c, d \in Callers :
    /\ pc[c] \in Active => ticket[c] = served
    /\ pc[c] \in Active /\ pc[d] \in Active => c = d

\* Rows changed that no revision accounts for yet.
Uncounted == \E c \in Callers : pc[c] \in {"committed", "noting"}

\* expectedRevision does its work (session.ts:168-173): when a write that
\* named the revision its caller read begins to run, this session has changed
\* nothing since that read.  A view that changes rows outside the queue is
\* covered from the moment it calls noteWrite.
NoLostUpdate ==
  [][\A c \in Callers :
       /\ pc[c] = "queued" /\ pc'[c] = "running"
       /\ expected[c] = seen[c].revision
       /\ ~Uncounted
       => content = seen[c].content]_vars

\* "Differ exactly when there is something to lose", one way round
\* (session.ts:17-20): a session that is not dirty holds nothing the file
\* lacks, whatever was written, noted, replaced or saved meanwhile.
NothingLost ==
  revision = savedRevision /\ ~Uncounted => stored = content

\* Only a change the session did not make is external (session.ts:139-141), as
\* far as the code achieves it: a check that no own change overlapped, in a
\* session whose refreshes never overlapped either, reports only stamps that
\* another program produced.
AlarmIsForeign ==
  \A c \in Callers :
    answer[c] = "changed" /\ ~overlapped[c] /\ ~tangled => sample[c] \in foreign

\* close() lets every write issued before it settle (session.ts:238-241).
CloseDrains ==
  closed => \A c \in Callers : pc[c] \in InQueue => ticket[c] >= closeAt

\* Every call is answered: a write, whether it runs, throws, is refused or
\* meets a closed driver, and a check, however many refreshes begin meanwhile.
CallsAreAnswered == \A c \in Callers : pc[c] # "idle" ~> pc[c] = "idle"

\* A close that was asked for happens, writes issued after it or not.
CloseCompletes == closeAt # NotClosed ~> closed

\* Only a change the session did not make is external (session.ts:139-141):
\* when nothing is under way any more, the last refresh and the last write
\* included, and no other program wrote, what the session believes is what the
\* file has.
QuietFingerprintIsCurrent ==
  outside = 0 /\ flying = {} /\ (\A c \in Callers : pc[c] = "idle") =>
    known = stamp

=============================================================================
