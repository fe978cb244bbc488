------------------------------ MODULE ScriptView ------------------------------
(***************************************************************************)
(* The script editor of the window over the film it edits:                 *)
(* scf-app/src/ui/ScriptView.tsx with scf-core/src/screenplay/blocks.ts    *)
(* and sceneMove.ts, and the writes of Screenplay.tla that other views and *)
(* an agent make next to it.                                               *)
(*                                                                         *)
(* The editor holds the document (doc) and the blocks it last committed    *)
(* (prev).  A commit is a plan made from both, sent to the host, stored    *)
(* there some time later and answered; commits queue behind each other.    *)
(* The request and its answer are JSON copies (client.ts, overTheWire), so *)
(* what the host works out in the rows it was sent stays with the host.    *)
(*                                                                         *)
(* A line's text is the number of the edit that wrote it.                  *)
(***************************************************************************)
EXTENDS ScriptReports

CONSTANTS
  Lines,       \* line identities
  LineTypes,   \* the types a line may have, of "heading", "section", "action"
  Opening,     \* the film the window opens
  MaxEdits,    \* bound: edits to the document
  MaxWrites,   \* bound: writes of other views and of an agent
  MaxScenes,   \* bound: scene row ids
  MaxQueue,    \* bound: commits waiting their turn
  MaxLeaves,   \* bound: how often the writer leaves the section
  AgentDeletes \* may an agent delete a scene while the script is open

Types == {"heading", "section", "action"}
Row   == [id : Lines, type : Types, text : Nat, scene : Nat, ref : Nat]
Code  == [num : Nat, letter : Nat]
Shot  == [scene : Nat, code : Code]
Span  == [name : Nat, start : Nat, num : Nat]

\* A table: a function from row ids that no later insert gives out again.
IsTable(table, rows, next) ==
  /\ next \in Nat \ {0}
  /\ table \in [DOMAIN table -> rows]
  /\ DOMAIN table \subseteq 1..(next - 1)

\* A film as the host may store it; a line is of a scene the film has, or of
\* none (the foreign key of screenplay_lines).
FilmOK(f) ==
  /\ f = [rows |-> f.rows, scenes |-> f.scenes, spans |-> f.spans,
          shots |-> f.shots, members |-> f.members, policy |-> f.policy,
          next |-> [scene |-> f.next.scene, span |-> f.next.span,
                    shot |-> f.next.shot]]
  /\ f.rows \in Seq(Row)
  /\ IsTable(f.scenes, Nat, f.next.scene)
  /\ IsTable(f.spans, Span, f.next.span)
  /\ IsTable(f.shots, Shot, f.next.shot)
  /\ f.members \in [DOMAIN f.members -> Nat]
  /\ f.policy \in {"derived", "fixed"}
  /\ \A i \in DOMAIN f.rows : f.rows[i].scene \in DOMAIN f.scenes \cup {None}

\* A scene belongs to one heading of a script.
OneHeadingEach(rows) ==
  \A i, j \in HeadingsOf(rows) :
    rows[i].scene = rows[j].scene /\ rows[i].scene # None => i = j

ASSUME BoundsAssumption ==
  /\ MaxEdits \in Nat /\ MaxWrites \in Nat /\ MaxScenes \in Nat
  /\ MaxQueue \in Nat \ {0}
  /\ MaxLeaves \in Nat /\ AgentDeletes \in BOOLEAN

ASSUME LineTypesAssumption == LineTypes \subseteq Types

\* What a commit has stored.
ASSUME OpeningAssumption == FilmOK(Opening) /\ OneHeadingEach(Opening.rows)

VARIABLES
  film,     \* the film, as the host stores it
  doc,      \* the editor's lines: a sequence of [id, type, text]
  prev,     \* prevBlocksRef: line id -> [type, text, scene, ref]
  mounted,  \* is the script section on screen
  timer,    \* is a debounced commit scheduled
  queue,    \* commitQueue: the kinds of the commits waiting
  job,      \* the commit that runs: [kind, stage, plan]
  stray,    \* a plan sent before the section was left, not yet stored
  review,   \* is the commit review open
  undo,     \* the store's undo entry
  edits, writes, leaves

window == <<doc, prev, mounted, timer, queue, job, stray, review, leaves>>
vars   == <<film, doc, prev, mounted, timer, queue, job, stray, review, undo,
            edits, writes, leaves>>

Kinds     == {"save", "explicit", "create", "confirm"}
NoPlan    == [new |-> FALSE, rows |-> <<>>]
NoUndo    == [scene |-> None]
Idle      == [kind |-> "none", stage |-> "idle", plan |-> <<>>]

LineIds(lines) == {lines[i].id : i \in DOMAIN lines}
NewIds == Lines \ (LineIds(doc) \cup LineIds(film.rows) \cup DOMAIN prev)

-----------------------------------------------------------------------------
(* planCommit: the document's lines with what the last commit knew of each. *)

\* A line that has just become a heading sheds the scene it stood in.
PlanCommit(lines, known) ==
  [i \in DOMAIN lines |->
     LET l      == lines[i]
         old    == l.id \in DOMAIN known
         became == l.type = "heading" /\ (old => known[l.id].type # "heading")
     IN  [id |-> l.id, type |-> l.type, text |-> l.text,
          scene |-> IF old /\ ~became THEN known[l.id].scene ELSE None,
          ref   |-> IF old THEN known[l.id].ref ELSE None]]

\* What the window remembers of a commit: the rows of its own plan.
BlocksOf(rows) ==
  [l \in LineIds(rows) |->
     LET r == rows[CHOOSE i \in DOMAIN rows : rows[i].id = l]
     IN  [type |-> r.type, text |-> r.text, scene |-> r.scene, ref |-> r.ref]]

\* planCommitLinks: what a commit that may create would create.
NewScenes(rows) ==
  {i \in HeadingsOf(rows) : rows[i].scene = None}
NewSpans(rows) ==
  {i \in DOMAIN rows : /\ rows[i].type = "section"
                       /\ SectionAnchor(rows, i) # None
                       /\ NamedSpan(film.spans, rows[i]) = None}

HasRoom == Len(queue) < MaxQueue

-----------------------------------------------------------------------------
Init ==
  /\ film = Opening
  /\ doc = [i \in DOMAIN Opening.rows |->
              [id |-> Opening.rows[i].id, type |-> Opening.rows[i].type,
               text |-> Opening.rows[i].text]]
  /\ prev = BlocksOf(Opening.rows)
  /\ mounted = TRUE /\ timer = FALSE
  /\ queue = <<>> /\ job = Idle /\ stray = NoPlan
  /\ review = FALSE /\ undo = NoUndo
  /\ edits = 0 /\ writes = 0 /\ leaves = 0

(* Typing.  Every change of the document schedules a commit.                *)

Edit(lines) ==
  /\ mounted
  /\ edits < MaxEdits
  /\ edits' = edits + 1
  /\ doc' = lines
  /\ timer' = TRUE
  /\ UNCHANGED <<film, prev, mounted, queue, job, stray, review, undo, writes,
                 leaves>>

AddLine(at, type) ==
  /\ NewIds # {}
  /\ Edit(InsertAt(doc, at, [id |-> CHOOSE l \in NewIds : TRUE,
                             type |-> type, text |-> edits + 1]))

EditText(i) == Edit([doc EXCEPT ![i].text = edits + 1])

Retype(i, type) ==
  /\ doc[i].type # type
  /\ Edit([doc EXCEPT ![i].type = type])

\* A join: the earlier line keeps its identity.
DeleteLine(i) == i > 1 /\ Edit(RemoveAt(doc, i))

-----------------------------------------------------------------------------
(* The commits of the window, one at a time.                                *)

\* Slip: a save is skipped while another commit runs.
TimerFiresWhenIdle ==
  /\ timer /\ HasRoom
  /\ timer' = FALSE
  /\ queue' = IF job = Idle THEN Append(queue, "save") ELSE queue
  /\ UNCHANGED <<film, doc, prev, mounted, job, stray, review, undo, edits,
                 writes, leaves>>

TimerFires ==
  /\ timer /\ HasRoom
  /\ timer' = FALSE
  /\ queue' = Append(queue, "save")
  /\ UNCHANGED <<film, doc, prev, mounted, job, stray, review, undo, edits,
                 writes, leaves>>

\* The button and its key commit.  Leaving the text saves at once, which is the
\* timer firing early.
AskToCommit(kind) ==
  /\ mounted
  /\ HasRoom
  /\ kind = "confirm" => review
  /\ queue' = Append(queue, kind)
  /\ UNCHANGED <<film, doc, prev, mounted, timer, job, stray, review, undo,
                 edits, writes, leaves>>

CancelReview ==
  /\ review
  /\ review' = FALSE
  /\ UNCHANGED <<film, doc, prev, mounted, timer, queue, job, stray, undo,
                 edits, writes, leaves>>

\* A confirmed review runs even when it has been closed since: the commit sees
\* the review of the moment it was confirmed.
StartCommit ==
  /\ job = Idle
  /\ queue # <<>>
  /\ queue' = Tail(queue)
  /\ job' = [kind |-> Head(queue), stage |-> "sent",
             plan |-> PlanCommit(doc, prev)]
  /\ UNCHANGED <<film, doc, prev, mounted, timer, stray, review, undo, edits,
                 writes, leaves>>

Creates(kind) == kind \in {"create", "confirm"}

\* The host runs the call.
StoreCommit ==
  /\ job.stage = "sent"
  /\ LET r == CommitScript(film, job.plan, Creates(job.kind))
     IN  /\ r.film.next.scene <= MaxScenes + 1
         /\ film' = r.film
         /\ job' = [job EXCEPT !.stage = IF r.ok THEN "stored" ELSE "refused"]
  /\ UNCHANGED <<doc, prev, mounted, timer, queue, stray, review, undo, edits,
                 writes, leaves>>

\* The answer.  The window takes its own plan for what is now stored.
Remembered(plan) == BlocksOf(plan)

\* confirmReviewInner, for cues the host has renamed: a line whose text is not
\* the one that was sent gets that text, at the place the line was sent from.
Reflected(lines, plan) ==
  LET text(i)  == lines[CHOOSE j \in DOMAIN lines : lines[j].id = plan[i].id].text
      place(i) == IF i <= Len(lines) THEN i ELSE Len(lines)
      put(k)   == {i \in DOMAIN plan : /\ plan[i].id \in LineIds(lines)
                                       /\ text(i) # plan[i].text
                                       /\ place(i) = k}
  IN  [k \in DOMAIN lines |->
         IF put(k) = {} THEN lines[k]
         ELSE [lines[k] EXCEPT !.text = plan[LastOf(put(k))].text]]

CommitAnswered ==
  /\ job.stage = "stored"
  /\ prev' = Remembered(job.plan)
  /\ doc' = IF job.kind = "confirm" THEN Reflected(doc, job.plan) ELSE doc
  /\ timer' = (timer \/ doc' # doc)
  /\ job' = IF job.kind = "explicit" THEN [job EXCEPT !.stage = "settled"]
            ELSE Idle
  /\ review' = (review /\ job.kind # "confirm")
  /\ UNCHANGED <<film, mounted, queue, stray, undo, edits, writes, leaves>>

\* A call that threw ends the commit; the next one is not held up.
CommitRefused ==
  /\ job.stage = "refused"
  /\ job' = Idle
  /\ UNCHANGED <<film, doc, prev, mounted, timer, queue, stray, review, undo,
                 edits, writes, leaves>>

\* The second half of an explicit commit: what is new is created, after a
\* review when it is more than scenes (asks: a new cast member or location).
PlanCreation(asks) ==
  /\ job.stage = "settled"
  /\ LET plan == PlanCommit(doc, prev)
     IN  IF NewSpans(plan) # {} \/ (asks /\ NewScenes(plan) # {})
         THEN review' = TRUE /\ job' = Idle
         ELSE /\ review' = review
              /\ job' = IF NewScenes(plan) = {} THEN Idle
                        ELSE [kind |-> "create", stage |-> "sent",
                              plan |-> plan]
  /\ UNCHANGED <<film, doc, prev, mounted, timer, queue, stray, undo, edits,
                 writes, leaves>>

-----------------------------------------------------------------------------
(* Whole scenes: move and duplicate.                                        *)

\* A scene's block: its heading and the lines down to the next heading.
BlockFrom(lines, h) ==
  LET after == {j \in HeadingsOf(lines) : j > h}
  IN  h..(IF after = {} THEN Len(lines)
          ELSE (CHOOSE j \in after : \A k \in after : j <= k) - 1)

\* The headings in the document that the window knows a scene for.
SceneHeadings(s) ==
  {i \in HeadingsOf(doc) :
     doc[i].id \in DOMAIN prev /\ prev[doc[i].id].scene = s}

DocOrder ==
  LET known(l) == l.type = "heading" /\ l.id \in DOMAIN prev
                  /\ prev[l.id].scene # None
      lines == SelectSeq(doc, known)
  IN  [i \in DOMAIN lines |-> prev[lines[i].id].scene]

\* planSceneMove: the block of heading h, put before line `at` of the rest.
Moved(lines, h, at) ==
  LET block == SubSeq(lines, h, Cardinality(BlockFrom(lines, h)) + h - 1)
      rest  == SubSeq(lines, 1, h - 1)
                 \o SubSeq(lines, h + Len(block), Len(lines))
      cut   == IF at > h THEN at - Len(block) ELSE at
  IN  SubSeq(rest, 1, cut - 1) \o block \o SubSeq(rest, cut, Len(rest))

\* reanchorSpansForMove over the window's `exec`: that is the host's "query",
\* which answers a SELECT and refuses the UPDATE (readGuard.ts).
ReanchorIsRefused(s) == ReanchorSpans(film.spans, s, DocOrder) # film.spans

MoveScene(h, at) ==
  /\ mounted
  /\ edits < MaxEdits /\ HasRoom
  /\ h \in HeadingsOf(doc)
  /\ doc[h].id \in DOMAIN prev /\ prev[doc[h].id].scene # None
  /\ at \in HeadingsOf(doc) \cup {Len(doc) + 1}
  /\ at \notin BlockFrom(doc, h)
  /\ at # h + Cardinality(BlockFrom(doc, h))
  /\ edits' = edits + 1
  /\ doc' = Moved(doc, h, at)
  /\ timer' = TRUE
  /\ queue' = IF ReanchorIsRefused(prev[doc[h].id].scene) THEN queue
              ELSE Append(queue, "save")
  /\ UNCHANGED <<film, prev, mounted, job, stray, review, undo, writes, leaves>>

\* The copied heading is remembered with its new scene, but under a block
\* whose type is missing: to planCommit the line has just become a heading.
DuplicateBlock(line, s) ==
  [type |-> "none", text |-> line.text, scene |-> s, ref |-> None]

DuplicateScene(h) ==
  /\ mounted
  /\ edits < MaxEdits /\ HasRoom
  /\ h \in HeadingsOf(doc)
  /\ doc[h].id \in DOMAIN prev /\ prev[doc[h].id].scene \in DOMAIN film.scenes
  /\ film.next.scene <= MaxScenes
  /\ LET block == BlockFrom(doc, h)
         last  == h + Cardinality(block) - 1
         ids   == {f \in [block -> NewIds] :
                     \A i, j \in block : f[i] = f[j] => i = j}
         fresh == CHOOSE f \in ids : TRUE
         copy  == [i \in 1..Cardinality(block) |->
                     [doc[h + i - 1] EXCEPT !.id = fresh[h + i - 1]]]
     IN  /\ ids # {}
         /\ film' = DuplicateSceneRow(film)
         /\ doc' = SubSeq(doc, 1, last) \o copy
                     \o SubSeq(doc, last + 1, Len(doc))
         /\ prev' = PutOver(prev, OneRow(copy[1].id,
                                   DuplicateBlock(copy[1], film.next.scene)))
  /\ edits' = edits + 1
  /\ timer' = TRUE
  /\ queue' = Append(queue, "save")
  /\ UNCHANGED <<mounted, job, stray, review, undo, writes, leaves>>

\* removeScene: the record goes, then the lines of its block, then a commit; it
\* also drops the undo entry.  Nothing is typed in between here.  A scene that
\* anchors a span and is not the last cannot be removed: the re-anchoring is
\* refused first.
RemoveScene(h) ==
  /\ mounted
  /\ edits < MaxEdits /\ HasRoom
  /\ h \in HeadingsOf(doc)
  /\ doc[h].id \in DOMAIN prev
  /\ LET s == prev[doc[h].id].scene
     IN  /\ s \in DOMAIN film.scenes
         /\ ~ReanchorIsRefused(s)
         /\ film' = RemoveSceneCascade(film, s)
  /\ doc' = [i \in 1..(Len(doc) - Cardinality(BlockFrom(doc, h))) |->
               IF i < h THEN doc[i]
               ELSE doc[i + Cardinality(BlockFrom(doc, h))]]
  /\ edits' = edits + 1
  /\ undo' = NoUndo
  /\ timer' = TRUE
  /\ queue' = Append(queue, "save")
  /\ UNCHANGED <<prev, mounted, job, stray, review, writes, leaves>>

-----------------------------------------------------------------------------
(* Leaving the section and coming back.  What was sent is still stored; the *)
(* commits that waited find no editor.                                      *)

Leave ==
  /\ mounted
  /\ leaves < MaxLeaves
  /\ leaves' = leaves + 1
  /\ stray = NoPlan
  /\ mounted' = FALSE /\ timer' = FALSE /\ review' = FALSE
  /\ doc' = <<>> /\ prev' = <<>>
  /\ queue' = <<>> /\ job' = Idle
  /\ stray' = IF job.stage = "sent"
              THEN [new |-> Creates(job.kind), rows |-> job.plan] ELSE NoPlan
  /\ UNCHANGED <<film, undo, edits, writes>>

StoreStray ==
  /\ stray # NoPlan
  /\ stray' = NoPlan
  /\ LET r == CommitScript(film, stray.rows, stray.new)
     IN  r.film.next.scene <= MaxScenes + 1 /\ film' = r.film
  /\ UNCHANGED <<doc, prev, mounted, timer, queue, job, review, undo, edits,
                 writes, leaves>>

\* The mount reads the stored script and puts it in the editor, and that is a
\* change of the document: a commit is scheduled.
Return ==
  /\ ~mounted
  /\ mounted' = TRUE
  /\ doc' = [i \in DOMAIN film.rows |->
               [id |-> film.rows[i].id, type |-> film.rows[i].type,
                text |-> film.rows[i].text]]
  /\ prev' = BlocksOf(film.rows)
  /\ timer' = (film.rows # <<>>)
  /\ UNCHANGED <<film, queue, job, stray, review, undo, edits, writes, leaves>>

-----------------------------------------------------------------------------
(* The writes of the other sections, and of an agent.                       *)

Write(f) ==
  /\ writes < MaxWrites
  /\ writes' = writes + 1
  /\ film' = f
  /\ UNCHANGED window

StructureWrite ==
  /\ ~mounted
  /\ \/ \E s \in DOMAIN film.scenes : Write(CreateSpan(film, s))
     \/ \E a \in DOMAIN film.spans, s \in DOMAIN film.scenes \cup {None} :
          film.spans[a].start # s /\ Write(SetSpanBoundary(film, a, s))
  /\ UNCHANGED <<undo, edits>>

ShotWrite ==
  /\ \/ \E s \in DOMAIN film.scenes : Write(AddShot(film, s))
     \/ \E h \in DOMAIN film.shots, s \in DOMAIN film.scenes :
          film.shots[h].scene # s /\ Write(MoveShotTo(film, h, s))
  /\ UNCHANGED <<undo, edits>>

SetPolicy(p) ==
  /\ ~mounted
  /\ film.policy # p
  /\ Write([film EXCEPT !.policy = p])
  /\ UNCHANGED <<undo, edits>>

DeleteSceneRecord(s) ==
  /\ ~mounted
  /\ s \in DOMAIN film.scenes
  /\ Write(DeleteScene(film, s))
  /\ undo' = CaptureForUndo(film, s)
  /\ UNCHANGED edits

AgentDeletesScene(s) ==
  /\ AgentDeletes
  /\ s \in DOMAIN film.scenes
  /\ Write(DeleteScene(film, s))
  /\ UNCHANGED <<undo, edits>>

UndoDelete ==
  /\ undo # NoUndo
  /\ undo' = NoUndo
  /\ film' = RestoreFromUndo(film, undo)
  /\ UNCHANGED <<window, edits, writes>>

-----------------------------------------------------------------------------
Typing ==
  \/ \E at \in 1..(Len(doc) + 1), type \in LineTypes : AddLine(at, type)
  \/ \E i \in DOMAIN doc : EditText(i) \/ DeleteLine(i)
  \/ \E i \in DOMAIN doc, type \in LineTypes : Retype(i, type)
  \/ \E h \in DOMAIN doc, at \in 1..(Len(doc) + 1) : MoveScene(h, at)
  \/ \E h \in DOMAIN doc : DuplicateScene(h) \/ RemoveScene(h)

Committing ==
  \/ TimerFires
  \/ StartCommit
  \/ StoreCommit
  \/ CommitAnswered
  \/ CommitRefused
  \/ \E asks \in BOOLEAN : PlanCreation(asks)
  \/ StoreStray

Next ==
  \/ Typing
  \/ Committing
  \/ \E kind \in {"explicit", "confirm"} : AskToCommit(kind)
  \/ CancelReview
  \/ Leave
  \/ Return
  \/ StructureWrite
  \/ ShotWrite
  \/ \E p \in {"derived", "fixed"} : SetPolicy(p)
  \/ \E s \in DOMAIN film.scenes : DeleteSceneRecord(s) \/ AgentDeletesScene(s)
  \/ UndoDelete

Spec == Init /\ [][Next]_vars

\* The timer fires (SF: MaxQueue can hold it up, the program's queue cannot),
\* the queue is worked off, and the host always comes to run
\* what it is sent (its session's queue, Session.tla): the last is stated of
\* the job itself.
FairSpec ==
  /\ Spec
  /\ SF_vars(TimerFires) /\ WF_vars(StartCommit)
  /\ WF_vars(CommitAnswered) /\ WF_vars(CommitRefused)
  /\ WF_vars(\E asks \in BOOLEAN : PlanCreation(asks))
  /\ []<>(job.stage # "sent")

-----------------------------------------------------------------------------
(* Properties                                                               *)

Block == [type : Types \cup {"none"}, text : Nat, scene : Nat, ref : Nat]
Line  == [id : Lines, type : Types, text : Nat]

\* What a restore may put back into a film.
IsUndo(u, f) ==
  \/ u = NoUndo
  \/ /\ u = [scene |-> u.scene, number |-> u.number, spans |-> u.spans,
             shots |-> u.shots, members |-> u.members]
     /\ IsTable(OneRow(u.scene, u.number), Nat, f.next.scene)
     /\ IsTable(u.spans, Span, f.next.span)
     /\ IsTable(u.shots, Shot, f.next.shot)
     /\ u.members \in [DOMAIN u.members -> Nat]

\* Every variable has its type.
TypeOK ==
  /\ FilmOK(film)
  /\ doc \in Seq(Line)
  /\ prev \in [DOMAIN prev -> Block] /\ DOMAIN prev \subseteq Lines
  /\ mounted \in BOOLEAN /\ timer \in BOOLEAN /\ review \in BOOLEAN
  /\ queue \in Seq(Kinds)
  /\ job \in [kind : Kinds \cup {"none"}, plan : Seq(Row),
             stage : {"idle", "sent", "stored", "refused", "settled"}]
  /\ stray \in [new : BOOLEAN, rows : Seq(Row)]
  /\ IsUndo(undo, film)
  /\ edits \in 0..MaxEdits /\ writes \in 0..MaxWrites
  /\ leaves \in 0..MaxLeaves

\* A scene belongs to one heading of the stored script, whatever was copied,
\* retyped or duplicated in between (features.ts: "a scene entity belongs to
\* exactly ONE heading").
OneHeadingPerScene == OneHeadingEach(film.rows)

\* What a commit of the stored script would renumber were the policy derived.
NextCommit(f) ==
  CommitScript([f EXCEPT !.policy = "derived"], f.rows, FALSE).film

Renumbers(f, g) ==
  [scenes |-> {s \in DOMAIN f.scenes : g.scenes[s] # f.scenes[s]},
   shots  |-> {h \in DOMAIN f.shots : g.shots[h].code # f.shots[h].code},
   spans  |-> {a \in DOMAIN f.spans : g.spans[a].num # f.spans[a].num}]

PreviewForetells(f) ==
  LET hint == SceneOrderHint(f.rows)
      pos  == ScenePositions(hint, f.scenes)
      next == NextCommit(f)
  IN  Preview(f, hint, pos) = Renumbers(f, next)

\* No section line of the stored script moves a boundary at the next commit.
BoundariesAgree(f) ==
  \A i \in DOMAIN f.rows :
    LET span == NamedSpan(f.spans, f.rows[i])
    IN  f.rows[i].type = "section" /\ span # None
          => SectionAnchor(f.rows, i) \in {None, f.spans[span].start}

SpansAreReported(f) ==
  LET shared == SharedBoundary(f)
      pos    == Positions(f)
      empty  == {a \in DOMAIN f.spans : Covers(f, pos, a) = {}}
      before == BeforeFirstSpan(f, pos)
      starts == {pos[f.spans[a].start] : a \in Anchored(f.spans, pos)}
  IN  /\ empty \subseteq NoBoundary(f) \cup DanglingBoundary(f)
                         \cup UNION {{m[1], m[2]} : m \in shared}
      /\ \A m \in shared : m[1] \in empty \/ m[2] \in empty
      /\ \A s \in DOMAIN f.scenes :
           IF s \in before THEN \A n \in starts : pos[s] < n
           ELSE starts # {} => Cardinality(SpanOf(f.spans, pos, s)) = 1

\* What the program tells the writer of the film's structure, while no commit
\* is under way, is so.  The numbers that
\* "derived" is said to rewrite are those the next commit then rewrites, unless
\* a section line moves a boundary in it (structureCommit.test.ts: "it is what
\* the commit then does").  A span that covers no scene is named by a finding,
\* of two said to share a start one is empty, a scene is in one span, and the
\* scenes reported to come before the first are those before every start.
ReportsAreTrue ==
  job = Idle /\ stray = NoPlan =>
    /\ SpansAreReported(film)
    /\ film.policy = "fixed" /\ BoundariesAgree(film) => PreviewForetells(film)

\* Deleting a scene and taking it back leaves scenes, spans, shots and
\* memberships as they were: the capture is made before the boundaries move.
UndoGivesBack ==
  \A s \in DOMAIN film.scenes :
    LET back == RestoreFromUndo(DeleteScene(film, s), CaptureForUndo(film, s))
    IN  /\ back.scenes = film.scenes /\ back.spans = film.spans
        /\ back.shots = film.shots /\ back.members = film.members

Stores == job.stage = "sent" /\ job'.stage = "stored"

NumbersFollow(f) ==
  \A s \in DOMAIN f.scenes :
    f.scenes[s] = IF s \in ScriptScenes(f.rows)
                  THEN SceneOrderHint(f.rows)[s] + 1 ELSE None

\* Under "fixed" nothing renumbers: no commit, boundary or policy change
\* touches a scene number, a span number or the code of a shot that stays in
\* its scene (numbering policy, spec 4.3).
FixedIsFixed ==
  [][film.policy = "fixed" /\ film'.policy = "fixed" /\ undo = undo' =>
       /\ \A s \in DOMAIN film.scenes \cap DOMAIN film'.scenes :
            film'.scenes[s] = film.scenes[s]
       /\ \A a \in DOMAIN film.spans \cap DOMAIN film'.spans :
            film'.spans[a].num = film.spans[a].num
       /\ \A h \in DOMAIN film.shots \cap DOMAIN film'.shots :
            film'.shots[h].scene = film.shots[h].scene
              => film'.shots[h].code = film.shots[h].code]_vars

\* A derived commit that leaves the order of the headings as it was leaves
\* every number in step with the script, whatever happened before it; the
\* spans' too, unless it reorders scenes outside the script by clearing their
\* numbers (commitStructure sorts by the numbers it is about to clear).
SettledNumbers ==
  [][/\ Stores /\ film.policy = "derived"
     /\ SceneOrderHint(film.rows) = SceneOrderHint(film'.rows)
     /\ DOMAIN film.scenes = DOMAIN film'.scenes
     => /\ NumbersFollow(film')
        /\ LET pos == Positions(film')
           IN  pos = Positions(film) =>
               \A a \in Anchored(film'.spans, pos) :
                 film'.spans[a].num = SpanNumber(film'.spans, pos, a)]_vars

\* A change that is waiting to be saved reaches the film, unless the writer
\* leaves the section or a scene the editor still names has been deleted by an
\* agent: a save the host refused, or one that was under way when the change
\* was made, is followed by another.
LinksToAGoneScene ==
  \E l \in LineIds(doc) \cap DOMAIN prev :
    prev[l].scene \notin DOMAIN film.scenes \cup {None}

SavedText(lines, rows) ==
  /\ Len(lines) = Len(rows)
  /\ \A i \in DOMAIN lines :
       /\ rows[i].id = lines[i].id /\ rows[i].text = lines[i].text
       /\ rows[i].type = lines[i].type

TypedIsSaved ==
  timer ~> (SavedText(doc, film.rows) \/ ~mounted \/ LinksToAGoneScene)

-----------------------------------------------------------------------------
(* What the comments say and the program does not.                          *)

\* structureCommit.ts: "SCENE numbers follow the script's order".
NumbersFollowScript ==
  [][Stores /\ film.policy = "derived" => NumbersFollow(film')]_vars

\* A heading the film links to a scene stays linked while it is a heading and
\* the scene exists (ScriptView.tsx on "the ghost scene").
LinksAreKept ==
  [][\A i \in HeadingsOf(film.rows), j \in HeadingsOf(film'.rows) :
       /\ film.rows[i].id = film'.rows[j].id
       /\ film.rows[i].scene \in DOMAIN film'.scenes
       => film'.rows[j].scene = film.rows[i].scene]_vars

\* A line the film stores is never replaced by an older text of itself.
TextIsNotUndone ==
  [][\A i \in DOMAIN film.rows, j \in DOMAIN film'.rows :
       film.rows[i].id = film'.rows[j].id
         => film'.rows[j].text >= film.rows[i].text]_vars

\* Only the writer changes the text of the script on screen.
TypedStays ==
  [][doc' # doc => edits' # edits \/ mounted' # mounted]_vars

\* NumberingPolicyConfirm.tsx: what a switch to "derived" will rewrite,
\* "counted ... from the same rules the commit runs".  Asked where no section
\* line is reported to disagree with its span.
PreviewIsExact ==
  film.policy = "fixed" /\ SectionMismatch(film) = {} => PreviewForetells(film)

\* structure.ts on a span that starts at an unnumbered scene: it "sorts after
\* every numbered one".
UnnumberedSortsLast ==
  LET pos == Positions(film)
  IN  \A a \in UnnumberedBoundary(film), s \in DOMAIN film.scenes :
        film.scenes[s] # None => pos[s] < pos[film.spans[a].start]

\* structure.ts on two spans that start at one scene: "the lower row id wins
\* the boundary and the other collapses to an empty span".
LowerIdKeepsItsScenes ==
  \A m \in SharedBoundary(film) : Covers(film, Positions(film), m[1]) = {}

\* structureCommit.ts on the numbers of acts and sequences: "Unlike scene
\* numbers these are not gated on the numbering mode".
SpanNumbersFollow == SpansRenumbered(film, Positions(film)) = {}
=============================================================================
