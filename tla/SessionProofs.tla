--------------------------- MODULE SessionProofs ---------------------------
(***************************************************************************)
(* Session, for every set of callers, every choice of methods and driver,  *)
(* and every bound: the write queue runs one write at a time, a write that *)
(* names the revision it read cannot overwrite an unread change, a session *)
(* that is not dirty has nothing to lose, close() cuts nothing off, and a  *)
(* check nothing overlapped reports only what another program did.         *)
(***************************************************************************)
EXTENDS Session, TLAPS

\* The tickets of the pending writes are distinct and not yet served; only
\* the caller whose ticket is up is past the head of the queue.
QueueInv ==
  /\ served <= issued
  /\ \A c \in Callers :
       pc[c] \in InQueue => served <= ticket[c] /\ ticket[c] < issued
  /\ \A c \in Callers : pc[c] \in Active => ticket[c] = served
  /\ \A c, d \in Callers :
       pc[c] \in InQueue /\ pc[d] \in InQueue /\ ticket[c] = ticket[d] => c = d

\* What a caller read under the current revision is what the session holds,
\* unless a change is waiting to be counted.
SeenInv ==
  \A c \in Callers :
    /\ seen[c].revision <= revision
    /\ seen[c].revision = revision /\ ~Uncounted => seen[c].content = content

\* A copy exported under a watermark that is still the revision is current.
SaveInv ==
  /\ savedRevision <= revision
  /\ InPlace => stored = content
  /\ save.phase \in {"exporting", "exported"} => save.at <= revision
  /\ save.phase = "exported" /\ save.at = revision /\ ~Uncounted =>
       save.copy = content /\ save.epoch = resets

\* close() awaits the writes that were issued before it.
CloseInv ==
  /\ closeAt # NotClosed => closeAt <= issued
  /\ closed => closeAt # NotClosed

-----------------------------------------------------------------------------
(* Type correctness *)

LEMMA TypeInit == Init => TypeOK
<1> SUFFICES ASSUME Init PROVE TypeOK
  OBVIOUS
<1> USE SessionAssumption
    DEF Init, NoSave, NotTaken, NoCheck, NotClosed, Unreadable, InQueue
<1>1. started \in Nat /\ flying \subseteq [id : Nat, stamp : Nat \cup {NotTaken}]
  BY DEF Sampling
<1>2. seen \in [Callers -> [revision : Nat, content : Nat]]
  OBVIOUS
<1>3. save \in [phase : {"none", "exporting", "exported", "refreshing"},
               at : Nat, copy : Nat, epoch : Nat]
  OBVIOUS
<1> QED
  BY <1>1, <1>2, <1>3 DEF TypeOK

LEMMA TypeStep == TypeOK /\ [Next]_vars => TypeOK'
<1> SUFFICES ASSUME TypeOK, [Next]_vars PROVE TypeOK'
  OBVIOUS
<1> USE SessionAssumption
    DEF TypeOK, NotTaken, NoCheck, NotClosed, Unreadable, InQueue, NextStamp,
        queueVars, callVars, saveVars, fileVars, printVars, checkVars,
        closeVars, vars
<1>1. ASSUME NEW c \in Callers, Request(c) PROVE TypeOK'
  <2>1. CASE Read(c)
    BY <2>1 DEF Read
  <2>2. CASE ChangeDirectly(c)
    BY <2>2 DEF ChangeDirectly, ChangeRows, Overlap
  <2>3. CASE Reset(c)
    BY <2>3 DEF Reset, StartRefresh, Sampling, Overlap
  <2>4. CASE Check(c)
    BY <2>4 DEF Check, OwnWriteInWindow
  <2>5. ASSUME NEW e \in {NoCheck, seen[c].revision}, NEW k \in BOOLEAN,
               Write(c, e, k)
        PROVE TypeOK'
    BY <2>5 DEF Write
  <2> QED
    BY <1>1, <2>1, <2>2, <2>3, <2>4, <2>5 DEF Request
<1>2. ASSUME NEW c \in Callers, WriteStep(c) PROVE TypeOK'
  <2>1. CASE RefuseStale(c)
    BY <2>1 DEF RefuseStale, LeaveQueue, Passed
  <2>2. CASE StartWrite(c)
    BY <2>2 DEF StartWrite
  <2>3. CASE Commit(c)
    BY <2>3 DEF Commit, ChangeRows, Overlap
  <2>4. CASE Settle(c)
    BY <2>4 DEF Settle, StartRefresh, Sampling, Overlap
  <2>5. CASE SettleDryRun(c)
    BY <2>5 DEF SettleDryRun, LeaveQueue, Passed
  <2>6. CASE FinishWrite(c)
    BY <2>6 DEF FinishWrite, LeaveQueue, Passed
  <2> QED
    BY <1>2, <2>1, <2>2, <2>3, <2>4, <2>5, <2>6 DEF WriteStep
<1>3. ASSUME NEW c \in Callers, CheckStep(c) PROVE TypeOK'
  <2>1. CASE CheckSample(c)
    BY <2>1 DEF CheckSample
  <2>2. CASE CheckAnswer(c)
    BY <2>2 DEF CheckAnswer
  <2> QED
    BY <1>3, <2>1, <2>2 DEF CheckStep
<1>4. ASSUME NEW c \in Callers, NoteWrite(c) PROVE TypeOK'
  BY <1>4 DEF NoteWrite
<1>5. CASE RefreshStep
  BY <1>5 DEF RefreshStep, SampleRefresh, FinishRefresh
<1>6. CASE PersistStep
  <2>1. CASE ExportCopy
    BY <2>1 DEF ExportCopy
  <2>2. CASE PersistDone
    <3>1. started' \in Nat /\ flying' \subseteq [id : Nat, stamp : Nat \cup {NotTaken}]
      BY <2>2 DEF PersistDone, StartRefresh, Sampling
    <3>2. save' \in [phase : {"none", "exporting", "exported", "refreshing"},
                    at : Nat, copy : Nat, epoch : Nat]
      BY <2>2, <3>1 DEF PersistDone
    <3> QED
      BY <2>2, <3>1, <3>2 DEF PersistDone, Watermark, StartRefresh, Overlap
  <2>3. CASE PersistDeclined
    BY <2>3 DEF PersistDeclined, NoSave
  <2>4. CASE FinishPersist
    BY <2>4 DEF FinishPersist, NoSave
  <2> QED
    BY <1>6, <2>1, <2>2, <2>3, <2>4 DEF PersistStep
<1>7. CASE Persist
  BY <1>7 DEF Persist, NoSave
<1>8. CASE Close \/ CloseDriver
  BY <1>8 DEF Close, CloseDriver
<1>9. CASE OutsideEdit \/ OutsideRemove
  <2>1. NextStamp \in Nat
    OBVIOUS
  <2>2. CASE OutsideEdit
    <3>1. foreign' \subseteq Nat
      BY <2>1, <2>2 DEF OutsideEdit
    <3> QED
      BY <2>1, <2>2, <3>1 DEF OutsideEdit
  <2>3. CASE OutsideRemove
    BY <2>3 DEF OutsideRemove
  <2> QED
    BY <1>9, <2>2, <2>3
<1>10. CASE UNCHANGED vars
  BY <1>10
<1> QED
  BY <1>1, <1>2, <1>3, <1>4, <1>5, <1>6, <1>7, <1>8, <1>9, <1>10 DEF Next

\* Every variable of a session keeps its type, whatever its callers do.
THEOREM TypeCorrect == Spec => []TypeOK
  BY TypeInit, TypeStep, PTL DEF Spec

-----------------------------------------------------------------------------
(* The queue *)

LEMMA QueueInit == Init => QueueInv /\ CloseInv /\ CloseDrains
  BY DEF Init, QueueInv, CloseInv, CloseDrains, InQueue, Active, NotClosed

\* The caller that leaves the queue is the one whose ticket is up.
LEMMA LeaveStep ==
  ASSUME TypeOK, QueueInv, CloseInv, CloseDrains,
         NEW c \in Callers, pc[c] \in InQueue, ticket[c] = served,
         LeaveQueue(c), UNCHANGED <<issued, closeAt, closed>>
  PROVE  QueueInv' /\ CloseInv' /\ CloseDrains'
<1> USE DEF TypeOK, QueueInv, InQueue, Active, LeaveQueue, Passed
<1>1. \A d \in Callers : pc'[d] \in InQueue =>
        d # c /\ pc'[d] = pc[d] /\ ticket'[d] = ticket[d] /\ ticket[d] # served
  OBVIOUS
<1>2. QueueInv'
  BY <1>1
<1>3. CloseInv' /\ CloseDrains'
  BY <1>1 DEF CloseInv, CloseDrains
<1> QED
  BY <1>2, <1>3

\* A step that moves nobody along the queue, or the head within it.
LEMMA StayStep ==
  ASSUME TypeOK, TypeOK', QueueInv, CloseInv, CloseDrains,
         UNCHANGED <<issued, served, ticket, closeAt, closed>>,
         \A d \in Callers :
           /\ pc'[d] \in InQueue => pc[d] \in InQueue
           /\ pc'[d] \in Active => pc[d] \in Active \/ ticket[d] = served
  PROVE  QueueInv' /\ CloseInv' /\ CloseDrains'
  BY DEF TypeOK, QueueInv, CloseInv, CloseDrains, InQueue, Active

LEMMA QueueStep ==
  TypeOK /\ TypeOK' /\ QueueInv /\ CloseInv /\ CloseDrains /\ [Next]_vars =>
    QueueInv' /\ CloseInv' /\ CloseDrains'
<1> SUFFICES ASSUME TypeOK, TypeOK', QueueInv, CloseInv, CloseDrains, [Next]_vars
             PROVE  QueueInv' /\ CloseInv' /\ CloseDrains'
  OBVIOUS
<1> DEFINE Stays ==
      /\ UNCHANGED <<issued, served, ticket, closeAt, closed>>
      /\ \A d \in Callers :
           /\ pc'[d] \in InQueue => pc[d] \in InQueue
           /\ pc'[d] \in Active => pc[d] \in Active \/ ticket[d] = served
<1>0. ASSUME Stays PROVE QueueInv' /\ CloseInv' /\ CloseDrains'
  BY <1>0, StayStep
<1> USE DEF InQueue, Active, queueVars, callVars, closeVars
<1>1. ASSUME NEW c \in Callers, NEW e \in {NoCheck, seen[c].revision},
             NEW k \in BOOLEAN, Write(c, e, k)
      PROVE  QueueInv' /\ CloseInv' /\ CloseDrains'
  <2>1. /\ issued' = issued + 1 /\ UNCHANGED <<served, closeAt, closed>>
        /\ pc' = [pc EXCEPT ![c] = "queued"]
        /\ ticket' = [ticket EXCEPT ![c] = issued]
    BY <1>1 DEF Write
  <2>2. \A d \in Callers : d # c => pc'[d] = pc[d] /\ ticket'[d] = ticket[d]
    BY <2>1 DEF TypeOK
  <2>3. pc'[c] = "queued" /\ ticket'[c] = issued
    BY <2>1 DEF TypeOK
  <2>4. served <= issued
    BY <1>1 DEF Write, TypeOK, QueueInv
  <2> QED
    BY <2>1, <2>2, <2>3, <2>4 DEF TypeOK, QueueInv, CloseInv, CloseDrains
<1>2. ASSUME NEW c \in Callers, Request(c)
      PROVE  QueueInv' /\ CloseInv' /\ CloseDrains'
  <2>1. CASE Read(c)
    <3>1. Stays
      BY <2>1 DEF Read
    <3> QED
      BY <3>1, <1>0
  <2>2. CASE ChangeDirectly(c) \/ Reset(c) \/ Check(c)
    <3>1. Stays
      BY <2>2 DEF ChangeDirectly, Reset, Check, TypeOK
    <3> QED
      BY <3>1, <1>0
  <2> QED
    BY <1>1, <1>2, <2>1, <2>2 DEF Request
<1>3. ASSUME NEW c \in Callers, WriteStep(c)
      PROVE  QueueInv' /\ CloseInv' /\ CloseDrains'
  <2>1. CASE RefuseStale(c)
    BY <2>1, LeaveStep DEF RefuseStale, AtHead
  <2>2. CASE SettleDryRun(c)
    BY <2>2, LeaveStep DEF SettleDryRun, QueueInv
  <2>3. CASE FinishWrite(c)
    BY <2>3, LeaveStep DEF FinishWrite, QueueInv
  <2>4. CASE StartWrite(c) \/ Commit(c) \/ Settle(c)
    <3>1. Stays
      BY <2>4 DEF StartWrite, AtHead, Commit, Settle, TypeOK
    <3> QED
      BY <3>1, <1>0
  <2> QED
    BY <1>3, <2>1, <2>2, <2>3, <2>4 DEF WriteStep
<1>4. ASSUME NEW c \in Callers, CheckStep(c) \/ NoteWrite(c)
      PROVE  QueueInv' /\ CloseInv' /\ CloseDrains'
  <2>1. Stays
    BY <1>4 DEF CheckStep, CheckSample, CheckAnswer, NoteWrite,
                TypeOK
  <2> QED
    BY <2>1, <1>0
<1>5. CASE RefreshStep \/ PersistStep \/ Persist \/ OutsideEdit \/ OutsideRemove
           \/ UNCHANGED vars
  <2>1. Stays
    BY <1>5 DEF RefreshStep, SampleRefresh, FinishRefresh, PersistStep,
                ExportCopy, PersistDone, PersistDeclined, FinishPersist,
                Persist, OutsideEdit, OutsideRemove, vars
  <2> QED
    BY <2>1, <1>0
<1>6. CASE Close
  BY <1>6 DEF Close, TypeOK, QueueInv, CloseInv, CloseDrains, NotClosed
<1>7. CASE CloseDriver
  BY <1>7 DEF CloseDriver, Drained, TypeOK, QueueInv, CloseInv, CloseDrains, NotClosed
<1> QED
  BY <1>2, <1>3, <1>4, <1>5, <1>6, <1>7 DEF Next

-----------------------------------------------------------------------------
(* What was read, and what was saved *)

DataInv == SeenInv /\ SaveInv /\ NothingLost

LEMMA DataInit == Init => DataInv
  BY DEF Init, DataInv, SeenInv, SaveInv, NothingLost, Uncounted, NoSave

\* A step that changes no row, counts nothing and lets no change be counted.
LEMMA QuietStep ==
  ASSUME TypeOK, DataInv,
         UNCHANGED <<revision, savedRevision, content, stored, save, resets>>,
         UNCHANGED seen \/ \E c \in Callers :
           seen' = [seen EXCEPT ![c] = [revision |-> revision, content |-> content]],
         \A c \in Callers : pc[c] \in {"committed", "noting"} <=>
                            pc'[c] \in {"committed", "noting"}
  PROVE  DataInv'
<1>1. Uncounted' = Uncounted
  BY DEF Uncounted
<1>2. SeenInv'
  BY <1>1 DEF DataInv, SeenInv, TypeOK
<1> QED
  BY <1>1, <1>2 DEF DataInv, SaveInv, NothingLost

\* A change to the rows that waits to be counted.
LEMMA ChangeStep ==
  ASSUME TypeOK, DataInv, ChangeRows, NEW c \in Callers,
         pc'[c] \in {"committed", "noting"},
         UNCHANGED <<revision, savedRevision, save, resets, seen>>
  PROVE  DataInv'
<1>1. Uncounted'
  BY DEF Uncounted
<1> QED
  BY <1>1 DEF DataInv, SeenInv, SaveInv, NothingLost, ChangeRows, TypeOK

\* A counted change: every reader and every watermark is now behind.
LEMMA CountStep ==
  ASSUME TypeOK, DataInv, revision' = revision + 1,
         UNCHANGED <<savedRevision, content, stored, save, resets, seen>>
  PROVE  DataInv'
  BY DEF DataInv, SeenInv, SaveInv, NothingLost, TypeOK

LEMMA DataStep == TypeOK /\ DataInv /\ [Next]_vars => DataInv'
<1> SUFFICES ASSUME TypeOK, DataInv, [Next]_vars PROVE DataInv'
  OBVIOUS
<1> DEFINE Quiet ==
      /\ UNCHANGED <<revision, savedRevision, content, stored, save, resets>>
      /\ UNCHANGED seen \/ \E c \in Callers :
           seen' = [seen EXCEPT ![c] = [revision |-> revision, content |-> content]]
      /\ \A c \in Callers : pc[c] \in {"committed", "noting"} <=>
                            pc'[c] \in {"committed", "noting"}
<1>0. ASSUME Quiet PROVE DataInv'
  BY <1>0, QuietStep
<1> USE DEF queueVars, callVars, saveVars, fileVars
<1>1. ASSUME NEW c \in Callers, Request(c) PROVE DataInv'
  <2>1. CASE Read(c)
    <3>1. Quiet
      BY <2>1 DEF Read
    <3> QED
      BY <3>1, <1>0
  <2>2. CASE ChangeDirectly(c)
    <3>1. pc'[c] = "noting"
      BY <2>2 DEF ChangeDirectly, TypeOK
    <3> QED
      BY <2>2, <3>1, ChangeStep DEF ChangeDirectly
  <2>3. CASE Reset(c)
    <3>1. /\ revision' = revision + 1 /\ savedRevision' = revision + 1
          /\ content' = content + 1 /\ stored' = content + 1
          /\ UNCHANGED <<save, seen>>
      BY <2>3 DEF Reset
    <3> QED
      BY <3>1 DEF DataInv, SeenInv, SaveInv, NothingLost, TypeOK
  <2>4. CASE Check(c)
    <3>1. Quiet
      BY <2>4 DEF Check, TypeOK
    <3> QED
      BY <3>1, <1>0
  <2>5. ASSUME NEW e \in {NoCheck, seen[c].revision}, NEW k \in BOOLEAN,
               Write(c, e, k)
        PROVE DataInv'
    <3>1. Quiet
      BY <2>5 DEF Write, TypeOK
    <3> QED
      BY <3>1, <1>0
  <2> QED
    BY <1>1, <2>1, <2>2, <2>3, <2>4, <2>5 DEF Request
<1>2. ASSUME NEW c \in Callers, WriteStep(c) PROVE DataInv'
  <2>1. CASE RefuseStale(c) \/ StartWrite(c) \/ SettleDryRun(c) \/ FinishWrite(c)
    <3>1. Quiet
      BY <2>1 DEF RefuseStale, StartWrite, AtHead, SettleDryRun, FinishWrite,
                  LeaveQueue, TypeOK
    <3> QED
      BY <3>1, <1>0
  <2>2. CASE Commit(c)
    <3>1. pc'[c] = "committed"
      BY <2>2 DEF Commit, TypeOK
    <3> QED
      BY <2>2, <3>1, ChangeStep DEF Commit
  <2>3. CASE Settle(c)
    BY <2>3, CountStep DEF Settle
  <2> QED
    BY <1>2, <2>1, <2>2, <2>3 DEF WriteStep
<1>3. ASSUME NEW c \in Callers, CheckStep(c) PROVE DataInv'
  <2>1. Quiet
    BY <1>3 DEF CheckStep, CheckSample, CheckAnswer, TypeOK
  <2> QED
    BY <2>1, <1>0
<1>4. ASSUME NEW c \in Callers, NoteWrite(c) PROVE DataInv'
  BY <1>4, CountStep DEF NoteWrite
<1>5. CASE RefreshStep \/ Close \/ CloseDriver \/ OutsideEdit \/ OutsideRemove
           \/ UNCHANGED vars
  <2>1. Quiet
    BY <1>5 DEF RefreshStep, SampleRefresh, FinishRefresh, Close, CloseDriver,
                OutsideEdit, OutsideRemove, vars
  <2> QED
    BY <2>1, <1>0
<1>6. CASE PersistStep \/ Persist
  <2>1. /\ UNCHANGED <<revision, content, resets, seen, pc>>
        /\ Uncounted' = Uncounted
    BY <1>6 DEF PersistStep, ExportCopy, PersistDone, PersistDeclined,
                FinishPersist, Persist, Uncounted
  <2>2. SeenInv'
    BY <2>1 DEF DataInv, SeenInv
  <2>3. ASSUME UNCHANGED <<savedRevision, stored>>,
               \/ save'.phase = "exporting" /\ save'.at = revision
               \/ /\ save.phase = "exporting" /\ save'.phase = "exported"
                  /\ save'.at = save.at
                  /\ save'.copy = content /\ save'.epoch = resets
               \/ save'.phase = "none"
        PROVE  DataInv'
    BY <2>1, <2>2, <2>3 DEF DataInv, SaveInv, NothingLost, TypeOK
  <2>4. CASE Persist
    BY <2>4, <2>3 DEF Persist, NoSave
  <2>5. CASE ExportCopy
    BY <2>5, <2>3 DEF ExportCopy, TypeOK
  <2>6. CASE PersistDeclined \/ FinishPersist
    BY <2>6, <2>3 DEF PersistDeclined, FinishPersist, NoSave
  <2>7. CASE PersistDone
    <3>1. /\ save.phase = "exported" /\ savedRevision' = save.at
          /\ stored' = IF save.epoch = resets /\ ~InPlace THEN save.copy ELSE stored
          /\ save'.phase = "refreshing"
      BY <2>7 DEF PersistDone, Watermark, TypeOK
    <3> QED
      BY <2>1, <2>2, <3>1 DEF DataInv, SaveInv, NothingLost, TypeOK
  <2> QED
    BY <1>6, <2>4, <2>5, <2>6, <2>7 DEF PersistStep
<1> QED
  BY <1>1, <1>2, <1>3, <1>4, <1>5, <1>6 DEF Next

-----------------------------------------------------------------------------
(* The theorems *)

IInv == TypeOK /\ QueueInv /\ CloseInv /\ CloseDrains /\ DataInv

LEMMA Inductive == Spec => []IInv
<1>1. Init => IInv
  BY TypeInit, QueueInit, DataInit DEF IInv
<1>2. IInv /\ [Next]_vars => IInv'
  BY TypeStep, QueueStep, DataStep DEF IInv
<1> QED
  BY <1>1, <1>2, PTL DEF Spec

\* Writes never interleave, however many callers there are (session.ts:22-23).
THEOREM WritesAreSerial == Spec => []OneWriteAtATime
<1>1. IInv => OneWriteAtATime
  BY DEF IInv, QueueInv, OneWriteAtATime, InQueue, Active
<1> QED
  BY <1>1, Inductive, PTL

\* A session that is not dirty has nothing to lose (session.ts:17-20).
THEOREM SavedMeansStored == Spec => []NothingLost
<1>1. IInv => NothingLost
  BY DEF IInv, DataInv
<1> QED
  BY <1>1, Inductive, PTL

\* close() cuts off no write issued before it (session.ts:238-241).
THEOREM CloseCutsNothingOff == Spec => []CloseDrains
<1>1. IInv => CloseDrains
  BY DEF IInv
<1> QED
  BY <1>1, Inductive, PTL

\* Only StartWrite takes a caller from the queue into its write.
LEMMA StartsFresh ==
  ASSUME TypeOK, Next, NEW c \in Callers, pc[c] = "queued", pc'[c] = "running"
  PROVE  ~IsStale(c)
<1> USE DEF TypeOK, callVars
<1>1. ASSUME NEW d \in Callers, Request(d) PROVE FALSE
  BY <1>1 DEF Request, Read, ChangeDirectly, Reset, Check, Write
<1>2. ASSUME NEW d \in Callers, WriteStep(d) PROVE ~IsStale(c)
  <2>1. CASE StartWrite(d)
    <3>1. d = c
      BY <2>1 DEF StartWrite
    <3> QED
      BY <2>1, <3>1 DEF StartWrite
  <2>2. CASE RefuseStale(d) \/ SettleDryRun(d) \/ FinishWrite(d)
    BY <2>2 DEF RefuseStale, SettleDryRun, FinishWrite, LeaveQueue
  <2>3. CASE Commit(d) \/ Settle(d)
    BY <2>3 DEF Commit, Settle
  <2> QED
    BY <1>2, <2>1, <2>2, <2>3 DEF WriteStep
<1>3. ASSUME NEW d \in Callers, CheckStep(d) \/ NoteWrite(d) PROVE FALSE
  BY <1>3 DEF CheckStep, CheckSample, CheckAnswer, NoteWrite
<1>4. CASE RefreshStep \/ PersistStep \/ Persist \/ Close \/ CloseDriver
           \/ OutsideEdit \/ OutsideRemove
  BY <1>4 DEF RefreshStep, SampleRefresh, FinishRefresh, PersistStep,
              ExportCopy, PersistDone, PersistDeclined, FinishPersist, Persist,
              Close, CloseDriver, OutsideEdit, OutsideRemove
<1> QED
  BY <1>1, <1>2, <1>3, <1>4 DEF Next

\* A write that names the revision it read begins only if this session has
\* changed nothing since (session.ts:168-173).
THEOREM StaleWritesAreRefused == Spec => NoLostUpdate
<1> DEFINE A == \A c \in Callers :
                  /\ pc[c] = "queued" /\ pc'[c] = "running"
                  /\ expected[c] = seen[c].revision
                  /\ ~Uncounted
                  => content = seen[c].content
<1>1. IInv /\ [Next]_vars => [A]_vars
  <2> SUFFICES ASSUME IInv, Next, NEW c \in Callers,
                      pc[c] = "queued", pc'[c] = "running",
                      expected[c] = seen[c].revision, ~Uncounted
               PROVE  content = seen[c].content
    BY DEF A
  <2>1. ~IsStale(c)
    BY StartsFresh DEF IInv
  <2>2. expected[c] # NoCheck
    BY DEF IInv, TypeOK, NoCheck
  <2> QED
    BY <2>1, <2>2 DEF IsStale, IInv, DataInv, SeenInv
<1> QED
  BY <1>1, Inductive, PTL DEF Spec, NoLostUpdate

-----------------------------------------------------------------------------
(* The fingerprint *)

\* Only the newest refresh can still be under way, as long as none overlapped; and
\* once no own change waits to be counted, a stamp of the session's own is the one
\* it knows or is about to know.
PrintInv ==
  /\ Unreadable \in foreign
  /\ ~tangled /\ InPlace =>
       /\ \A f \in flying : f.id = started
       /\ stamp \notin foreign /\ (\A c \in Callers : pc[c] # "committed") =>
            /\ flying = {} => known = stamp
            /\ \A f \in flying : f.stamp \in {NotTaken, stamp}

\* A check that no own change overlapped awaits the newest refresh, takes its
\* sample when that has arrived, and finds `known` as it was then.
CheckInv ==
  \A c \in Callers :
    /\ pc[c] \in {"awaiting", "sampled"} => InPlace /\ answer[c] = "none"
    /\ ~overlapped[c] /\ ~tangled =>
         /\ pc[c] \in {"awaiting", "sampled"} => \A d \in Callers : pc[d] # "committed"
         /\ pc[c] = "awaiting" => awaits[c] = started
         /\ pc[c] = "sampled" => flying = {} /\ sample[c] \in foreign \cup {known}
         /\ answer[c] = "changed" => sample[c] \in foreign

AlarmInv == TypeOK /\ PrintInv /\ CheckInv

LEMMA AlarmInit == Init => AlarmInv
<1> SUFFICES ASSUME Init PROVE PrintInv /\ CheckInv
  BY TypeInit DEF AlarmInv
<1>1. ASSUME InPlace
      PROVE  flying # {} /\ \A f \in flying : f.id = started /\ f.stamp = NotTaken
  <2>1. flying = {[id |-> started, stamp |-> NotTaken]}
    BY <1>1 DEF Init, Sampling
  <2> QED
    BY <2>1
<1>2. PrintInv
  BY <1>1 DEF Init, PrintInv
<1>3. CheckInv
  BY DEF Init, CheckInv
<1> QED
  BY <1>2, <1>3

\* A step in which nobody checks, no row changes and no refresh begins or ends, and
\* nobody comes to hold a change that is not counted.
LEMMA ElsewhereStep ==
  ASSUME AlarmInv, UNCHANGED <<known, started, flying, tangled, stamp, foreign, checkVars>>,
         \A c \in Callers :
           /\ pc'[c] = "committed" => pc[c] = "committed"
           /\ pc[c] = "committed" => pc'[c] = "committed"
           /\ pc'[c] \in {"awaiting", "sampled"} => pc'[c] = pc[c] /\ awaits'[c] = awaits[c]
  PROVE  PrintInv' /\ CheckInv'
<1>1. PrintInv'
  BY DEF AlarmInv, PrintInv
<1>2. CheckInv'
  BY DEF AlarmInv, CheckInv, checkVars
<1> QED
  BY <1>1, <1>2

\* A step of the session's own that changes the file or begins a refresh: no check
\* that is under way counts any more.
LEMMA OwnStep ==
  ASSUME AlarmInv, TypeOK', Overlap, UNCHANGED foreign,
         \A c \in Callers :
           pc'[c] \in {"awaiting", "sampled"} => pc'[c] = pc[c],
         \/ /\ UNCHANGED <<known, started, flying, tangled>>
            /\ \E c \in Callers : pc'[c] = "committed"
         \/ StartRefresh
  PROVE  PrintInv' /\ CheckInv'
<1>1. CheckInv'
  BY DEF AlarmInv, CheckInv, Overlap, TypeOK
<1>2. CASE /\ UNCHANGED <<known, started, flying, tangled>>
           /\ \E c \in Callers : pc'[c] = "committed"
  <2>1. PrintInv'
    BY <1>2 DEF AlarmInv, PrintInv
  <2> QED
    BY <1>1, <2>1
<1>3. CASE StartRefresh
  <2>1. ASSUME ~tangled', InPlace
        PROVE  flying' # {} /\ \A f \in flying' : f.id = started' /\ f.stamp = NotTaken
    <3>1. flying' = {[id |-> started', stamp |-> NotTaken]}
      BY <1>3, <2>1 DEF StartRefresh, Sampling
    <3> QED
      BY <3>1
  <2>2. PrintInv'
    BY <2>1 DEF AlarmInv, PrintInv
  <2> QED
    BY <1>1, <2>2
<1> QED
  BY <1>1, <1>2, <1>3

LEMMA AlarmStep ==
  ASSUME "noteWrite" \notin Calls, AlarmInv, [Next]_vars
  PROVE  AlarmInv'
<1> USE DEF AlarmInv
<1>0. TypeOK'
  BY TypeStep
<1>1. CASE UNCHANGED vars
  BY <1>0, <1>1, ElsewhereStep DEF vars, printVars, fileVars, checkVars, callVars
<1>2. ASSUME NEW c \in Callers,
             \/ Read(c) \/ RefuseStale(c) \/ StartWrite(c) \/ SettleDryRun(c)
             \/ FinishWrite(c) \/ NoteWrite(c)
             \/ \E e \in {NoCheck, seen[c].revision}, k \in BOOLEAN : Write(c, e, k)
      PROVE  AlarmInv'
  <2>1. UNCHANGED <<known, started, flying, tangled, stamp, foreign, checkVars>>
    BY <1>2 DEF Read, RefuseStale, StartWrite, SettleDryRun, FinishWrite, NoteWrite, Write,
       printVars, fileVars
  <2>2. /\ pc[c] \notin {"committed", "awaiting", "sampled"}
        /\ pc'[c] \notin {"committed", "awaiting", "sampled"}
        /\ \A d \in Callers \ {c} : pc'[d] = pc[d] /\ awaits'[d] = awaits[d]
    BY <1>2 DEF Read, RefuseStale, StartWrite, SettleDryRun, FinishWrite, NoteWrite, Write,
       LeaveQueue, AtHead, callVars, TypeOK
  <2> QED
    BY <1>0, <2>1, <2>2, ElsewhereStep
<1>3. ASSUME NEW c \in Callers, Commit(c) \/ Settle(c) \/ Reset(c)
      PROVE  AlarmInv'
  <2>1. /\ Overlap /\ UNCHANGED foreign
        /\ \A d \in Callers \ {c} : pc'[d] = pc[d]
        /\ pc'[c] \in {"awaiting", "sampled"} => pc'[c] = pc[c]
    BY <1>3 DEF Commit, Settle, Reset, callVars, fileVars, ChangeRows, TypeOK
  <2>2. \/ /\ UNCHANGED <<known, started, flying, tangled>>
           /\ \E d \in Callers : pc'[d] = "committed"
        \/ StartRefresh
    BY <1>3 DEF Commit, Settle, Reset, printVars, TypeOK
  <2> QED
    BY <1>0, <2>1, <2>2, OwnStep
<1>4. ASSUME NEW c \in Callers, Check(c)
      PROVE  AlarmInv'
  <2>1. /\ InPlace /\ pc[c] = "idle" /\ pc' = [pc EXCEPT ![c] = "awaiting"]
        /\ awaits' = [awaits EXCEPT ![c] = started]
        /\ answer' = [answer EXCEPT ![c] = "none"]
        /\ sample' = [sample EXCEPT ![c] = NotTaken]
        /\ overlapped' = [overlapped EXCEPT ![c] = OwnWriteInWindow]
        /\ UNCHANGED <<known, started, flying, tangled, stamp, foreign>>
    BY <1>4 DEF Check, printVars, fileVars
  <2>2. /\ pc'[c] = "awaiting" /\ awaits'[c] = started /\ answer'[c] = "none"
        /\ ~overlapped'[c] => ~OwnWriteInWindow
        /\ \A d \in Callers \ {c} :
             /\ pc'[d] = pc[d] /\ awaits'[d] = awaits[d] /\ answer'[d] = answer[d]
             /\ sample'[d] = sample[d] /\ overlapped'[d] = overlapped[d]
    BY <2>1 DEF TypeOK
  <2>3. \A d \in Callers : pc'[d] = "committed" <=> pc[d] = "committed"
    BY <2>1, <2>2
  <2>4. PrintInv'
    BY <2>1, <2>3 DEF PrintInv
  <2>5. CheckInv'
    BY <2>1, <2>2, <2>3 DEF CheckInv, OwnWriteInWindow
  <2> QED
    BY <1>0, <2>4, <2>5
<1>5. ASSUME NEW c \in Callers, CheckSample(c)
      PROVE  AlarmInv'
  <2>1. /\ pc[c] = "awaiting" /\ Arrived(awaits[c]) /\ pc' = [pc EXCEPT ![c] = "sampled"]
        /\ sample' = [sample EXCEPT ![c] = stamp]
        /\ UNCHANGED <<known, started, flying, tangled, stamp, foreign, awaits, answer,
                       overlapped>>
    BY <1>5 DEF CheckSample, printVars, fileVars
  <2>2. /\ pc'[c] = "sampled" /\ sample'[c] = stamp
        /\ \A d \in Callers \ {c} : pc'[d] = pc[d] /\ sample'[d] = sample[d]
    BY <2>1 DEF TypeOK
  <2>3. \A d \in Callers : pc'[d] = "committed" <=> pc[d] = "committed"
    BY <2>1, <2>2
  <2>4. ~overlapped[c] /\ ~tangled => flying = {} /\ stamp \in foreign \cup {known}
    BY <2>1 DEF PrintInv, CheckInv, Arrived
  <2>5. PrintInv'
    BY <2>1, <2>3 DEF PrintInv
  <2>6. CheckInv'
    BY <2>1, <2>2, <2>3, <2>4 DEF CheckInv
  <2> QED
    BY <1>0, <2>5, <2>6
<1>6. ASSUME NEW c \in Callers, CheckAnswer(c)
      PROVE  AlarmInv'
  <2>1. /\ pc[c] = "sampled" /\ pc' = [pc EXCEPT ![c] = "idle"]
        /\ awaits' = [awaits EXCEPT ![c] = 0]
        /\ answer' = [answer EXCEPT ![c] =
                        IF sample[c] # known THEN "changed" ELSE "same"]
        /\ UNCHANGED <<known, started, flying, tangled, stamp, foreign, sample, overlapped>>
    BY <1>6 DEF CheckAnswer, printVars, fileVars
  <2>2. /\ pc'[c] = "idle" /\ (answer'[c] = "changed" => sample[c] # known)
        /\ \A d \in Callers \ {c} :
             pc'[d] = pc[d] /\ awaits'[d] = awaits[d] /\ answer'[d] = answer[d]
    BY <2>1 DEF TypeOK
  <2>3. \A d \in Callers : pc'[d] = "committed" <=> pc[d] = "committed"
    BY <2>1, <2>2
  <2>4. PrintInv'
    BY <2>1, <2>3 DEF PrintInv
  <2>5. CheckInv'
    BY <2>1, <2>2, <2>3 DEF CheckInv
  <2> QED
    BY <1>0, <2>4, <2>5
<1>7. CASE RefreshStep
  <2>1. PICK f \in flying : SampleRefresh(f) \/ FinishRefresh(f)
    BY <1>7 DEF RefreshStep
  <2>2. UNCHANGED <<pc, awaits, started, tangled, stamp, foreign, sample, answer, overlapped>>
    BY <2>1 DEF SampleRefresh, FinishRefresh, callVars, fileVars, checkVars
  <2>3. CheckInv'
    <3>1. flying # {}
      OBVIOUS
    <3> QED
      BY <2>2, <3>1 DEF CheckInv
  <2>4. CASE SampleRefresh(f)
    <3>1. f \in [id : Nat, stamp : Nat \cup {NotTaken}]
      BY DEF TypeOK
    <3> DEFINE g == [f EXCEPT !.stamp = stamp]
    <3>2. g.id = f.id /\ g.stamp = stamp
      BY <3>1
    <3>3. flying' = (flying \ {f}) \cup {g} /\ known' = known
      BY <2>4 DEF SampleRefresh
    <3> HIDE DEF g
    <3>4. PrintInv'
      BY <2>2, <3>2, <3>3 DEF PrintInv
    <3> QED
      BY <1>0, <2>3, <3>4
  <2>5. CASE FinishRefresh(f)
    <3>1. known' = f.stamp /\ flying' = flying \ {f} /\ f.stamp # NotTaken
      BY <2>5 DEF FinishRefresh
    <3>2. PrintInv'
      BY <2>2, <3>1 DEF PrintInv
    <3> QED
      BY <1>0, <2>3, <3>2
  <2> QED
    BY <2>1, <2>4, <2>5
<1>8. CASE PersistDone
  BY <1>0, <1>8, OwnStep DEF PersistDone, callVars
<1>9. CASE ExportCopy \/ PersistDeclined \/ FinishPersist \/ Persist \/ Close \/ CloseDriver
  <2>1. UNCHANGED <<known, started, flying, tangled, stamp, foreign, checkVars, pc, awaits>>
    BY <1>9 DEF ExportCopy, PersistDeclined, FinishPersist, Persist, Close, CloseDriver,
       printVars, fileVars, callVars
  <2> QED
    BY <1>0, <2>1, ElsewhereStep
<1>10. CASE OutsideEdit \/ OutsideRemove
  <2>1. /\ UNCHANGED <<known, started, flying, tangled, checkVars, pc, awaits>>
        /\ foreign \subseteq foreign' /\ stamp' \in foreign'
    <3>1. CASE OutsideEdit
      BY <3>1 DEF OutsideEdit, printVars, callVars
    <3>2. CASE OutsideRemove
      BY <3>2 DEF OutsideRemove, printVars, callVars, PrintInv
    <3> QED
      BY <1>10, <3>1, <3>2
  <2>2. PrintInv'
    BY <2>1 DEF PrintInv
  <2>3. CheckInv'
    BY <2>1 DEF CheckInv, checkVars
  <2> QED
    BY <1>0, <2>2, <2>3
<1> QED
  BY <1>1, <1>2, <1>3, <1>4, <1>5, <1>6, <1>7, <1>8, <1>9, <1>10
     DEF Next, Request, ChangeDirectly, WriteStep, CheckStep, PersistStep

\* A check that no own change overlapped reports only what another program did
\* (session.ts:139-141), in a session whose rows nobody changes outside the queue:
\* the host's sessions, which are the ones that check, never call noteWrite.
THEOREM AlarmTheorem == "noteWrite" \notin Calls => (Spec => []AlarmIsForeign)
<1> SUFFICES ASSUME "noteWrite" \notin Calls PROVE Spec => []AlarmIsForeign
  OBVIOUS
<1>1. AlarmInv => AlarmIsForeign
  BY DEF AlarmInv, CheckInv, AlarmIsForeign
<1>2. AlarmInv /\ [Next]_vars => AlarmInv'
  BY AlarmStep
<1> QED
  BY <1>1, <1>2, AlarmInit, PTL DEF Spec
=============================================================================
