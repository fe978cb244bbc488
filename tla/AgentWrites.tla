---------------------------- MODULE AgentWrites ----------------------------
(***************************************************************************)
(* The MCP tools that change a film: scf-mcp/src/writeTools.ts (plan,      *)
(* confirm, apply) over projectCache.ts (a connection per call), between   *)
(* the window's writes, other programs' edits and restarts of the host.    *)
(*                                                                         *)
(* The host is what FilmHost shows of it: a revision, a queue that runs    *)
(* one write at a time, a reader that sees a commit before it is counted.  *)
(* The film is one row, `row`, a shot's, with a value per field, and       *)
(* `made`, how often the row of a creating tool was made.  A field at the  *)
(* value Bad is an integrity finding.                                      *)
(***************************************************************************)
EXTENDS Integers, FiniteSets

CONSTANTS
  Slots,       \* tool calls that may be under way at once
  Fields, Values,
  SceneField,  \* scene_id, and
  NumberField, \* shot_number, which moves with it
  Bad,         \* the value that is a finding
  Elicits,     \* the client can ask the person itself, and may
  MaxCalls,    \* bound: tool calls
  MaxWindow,   \* bound: writes by the window
  MaxOutside,  \* bound: edits by other programs
  MaxRestarts  \* bound: restarts of the host

Nobody == "nobody"
Window == "window"

ASSUME AgentWritesAssumption ==
  /\ {Nobody, Window} \cap Slots = {}
  /\ {SceneField, NumberField} \subseteq Fields /\ SceneField # NumberField
  /\ Bad \in Values /\ Elicits \in BOOLEAN
  /\ {MaxCalls, MaxWindow, MaxOutside, MaxRestarts} \subseteq Nat

VARIABLES
  row, made,     \* the film
  rev,           \* its revision; a restarted host counts from 0
  alien,         \* hasExternalChange: an edit this opening of the film missed
  busy,          \* who holds the queue with a change not counted yet
  window,        \* the window has the film open
  call,          \* per slot: the tool call
  given,         \* the plans the agent has been shown
  calls, edits, outside, restarts,  \* counters for the bounds
  applied        \* history: how often each plan was applied

filmVars == <<row, made>>
hostVars == <<rev, alien, busy, window>>
counters == <<calls, edits, outside, restarts>>
vars == <<filmVars, hostVars, call, given, counters, applied>>

NoPlan == [request |-> [kind |-> "none"], basedOn |-> -1, from |-> "none",
           blocked |-> FALSE]

Updates  == [kind : {"update"}, field : Fields, to : Values]
Creates  == {[kind |-> "create"]}
Requests == Updates \cup Creates

NoCall == [pc |-> "idle", request |-> [kind |-> "none"], confirm |-> NoPlan,
           revision |-> 0, read |-> [f \in Fields |-> "none"], raced |-> FALSE]

\* The film may have findings already.
Init ==
  /\ row \in [Fields -> Values] /\ made = 0
  /\ rev = 0 /\ alien = FALSE /\ busy = Nobody /\ window = FALSE
  /\ call = [s \in Slots |-> NoCall]
  /\ given = {}
  /\ calls = 0 /\ edits = 0 /\ outside = 0 /\ restarts = 0
  /\ applied = [p \in {} |-> 0]

-----------------------------------------------------------------------------
Holders == {s \in Slots : call[s].pc \notin {"idle", "opening"}}
IsOpen  == window \/ Holders # {}

Findings(r) == {f \in Fields : r[f] = Bad}

\* A call that has had its say forgets what it was about.
Goto(s, pc) ==
  call' = [call EXCEPT ![s] =
             [(IF pc \in {"ran", "leaving"} THEN NoCall ELSE call[s]) EXCEPT
                !.pc = pc]]

\* An update sends every field back, the untouched ones as they were read.
Merged(s) ==
  [call[s].read EXCEPT ![call[s].request.field] = call[s].request.to]

\* What running the request of s may make of the row: a shot that changes scene
\* gets the next free number there, whatever number was sent.
Outcomes(s) ==
  IF call[s].request.kind = "create" THEN {row}
  ELSE IF Merged(s)[SceneField] = row[SceneField] THEN {Merged(s)}
  ELSE {[Merged(s) EXCEPT ![NumberField] = n] : n \in Values \ {Bad}}

\* Nothing to do: the row has those values already.
NoOp(r, read) == r.kind = "update" /\ read[r.field] = r.to

\* The integrity findings the write would add now.
WouldAdd(s) == (UNION {Findings(r) : r \in Outcomes(s)}) \ Findings(row)

\* What identifies a plan: the request, the revision it was made at, the value
\* it found and whether it is blocked.  Slip: without the revision.
PlanUnbased(s) ==
  [request |-> call[s].request, basedOn |-> 0,
   from |-> IF call[s].request.kind = "update"
            THEN call[s].read[call[s].request.field] ELSE "none",
   blocked |-> WouldAdd(s) # {}]
PlanOf(s) == [PlanUnbased(s) EXCEPT !.basedOn = call[s].revision]

-----------------------------------------------------------------------------
(* A tool call *)

\* To plan, or to apply a plan it was shown, for the same arguments.
Call(s) ==
  /\ call[s].pc = "idle" /\ calls < MaxCalls
  /\ \/ \E r \in Requests :
          call' = [call EXCEPT ![s] = [NoCall EXCEPT !.pc = "opening",
                                                     !.request = r]]
     \/ \E p \in given :
          call' = [call EXCEPT ![s] = [NoCall EXCEPT !.pc = "opening",
                                         !.request = p.request, !.confirm = p]]
  /\ calls' = calls + 1
  /\ UNCHANGED <<filmVars, hostVars, given, edits, outside, restarts, applied>>

\* withProject: a connection, and the revision the film has at this moment.  A
\* film nobody had open gets a session that takes the file as it is.
OpenFilm(s) ==
  /\ call[s].pc = "opening"
  /\ call' = [call EXCEPT ![s].pc = "reading", ![s].revision = rev]
  /\ alien' = (alien /\ IsOpen)
  /\ UNCHANGED <<filmVars, rev, busy, window, given, counters, applied>>

\* build: the rows the plan is about, through the reader.
ReadRows(s) ==
  /\ call[s].pc = "reading"
  /\ call' = [call EXCEPT
       ![s].read = row,
       ![s].pc = IF NoOp(call[s].request, row) THEN "leaving" ELSE "dryAsked"]
  /\ UNCHANGED <<filmVars, hostVars, given, counters, applied>>

\* The host's gates before a write is queued.
Refused(r) == alien \/ r # rev

AskDryRun(s) ==
  /\ call[s].pc = "dryAsked"
  /\ Goto(s, IF Refused(call[s].revision) THEN "leaving" ELSE "dryQueued")
  /\ UNCHANGED <<filmVars, hostVars, given, counters, applied>>

\* The dry run, in the queue; then the plan, made again however sure the agent
\* is of the one it confirms; only the same one goes on.
Plan(s) ==
  LET plan == PlanOf(s) IN
  /\ call[s].pc = "dryQueued" /\ busy = Nobody
  /\ IF call[s].revision # rev THEN Goto(s, "leaving") /\ UNCHANGED given
     ELSE IF call[s].confirm # plan
     THEN Goto(s, "leaving") /\ given' = given \cup {plan}
     ELSE /\ Goto(s, IF plan.blocked THEN "leaving"
                     ELSE IF Elicits THEN "eliciting" ELSE "asked")
          /\ UNCHANGED given
  /\ UNCHANGED <<filmVars, hostVars, counters, applied>>

\* The person takes their time, and accepts or does not.
PersonAnswers(s, yes) ==
  /\ call[s].pc = "eliciting"
  /\ Goto(s, IF yes THEN "asked" ELSE "leaving")
  /\ UNCHANGED <<filmVars, hostVars, given, counters, applied>>

\* host.op, with the revision the plan was made at; the snapshot may fail.
AskApply(s) ==
  /\ call[s].pc = "asked"
  /\ Goto(s, IF Refused(call[s].revision) THEN "leaving" ELSE "queued")
  /\ UNCHANGED <<filmVars, hostVars, given, counters, applied>>

SnapshotFails(s) ==
  /\ call[s].pc = "asked" /\ ~Refused(call[s].revision)
  /\ Goto(s, "leaving")
  /\ UNCHANGED <<filmVars, hostVars, given, counters, applied>>

\* Slip: the revision is not checked again in the queue.
MovedNever(s) == FALSE
Moved(s)      == call[s].revision # rev

ApplyStale(s) ==
  /\ call[s].pc = "queued" /\ busy = Nobody /\ Moved(s)
  /\ Goto(s, "leaving")
  /\ UNCHANGED <<filmVars, hostVars, given, counters, applied>>

\* Slip: the findings are not counted again when the write is real.
KeptAlways(s) == TRUE
Kept(s)       == WouldAdd(s) = {}

Apply(s) ==
  LET p == call[s].confirm IN
  /\ call[s].pc = "queued" /\ busy = Nobody /\ ~Moved(s) /\ Kept(s)
  /\ row' \in Outcomes(s)
  /\ made' = IF p.request.kind = "create" THEN made + 1 ELSE made
  /\ busy' = s
  /\ Goto(s, "ran")
  /\ applied' = [q \in DOMAIN applied \cup {p} |->
                   IF q \notin DOMAIN applied THEN 1
                   ELSE IF q = p THEN applied[q] + 1 ELSE applied[q]]
  /\ UNCHANGED <<rev, alien, window, given, counters>>

\* The gate or the op throws: rolled back, and counted all the same, like any
\* write that got into the queue.
ApplyFails(s) ==
  /\ call[s].pc = "queued" /\ busy = Nobody /\ ~Moved(s)
  /\ busy' = s
  /\ Goto(s, "ran")
  /\ UNCHANGED <<filmVars, rev, alien, window, given, counters, applied>>

\* The revision moves, and the file's fingerprint is taken as it is now.
CountOne == rev' = rev + 1 /\ busy' = Nobody /\ alien' = FALSE

Counted(s) ==
  /\ call[s].pc = "ran" /\ CountOne
  /\ Goto(s, "leaving")
  /\ UNCHANGED <<filmVars, window, given, counters, applied>>

\* `finally`: the film is closed before the connection, and the answer goes out.
Leave(s) ==
  /\ call[s].pc = "leaving"
  /\ call' = [call EXCEPT ![s] = NoCall]
  /\ UNCHANGED <<filmVars, hostVars, given, counters, applied>>

-----------------------------------------------------------------------------
(* The window, other programs, the host's life *)

WindowOpens ==
  /\ ~window
  /\ window' = TRUE /\ alien' = (alien /\ IsOpen)
  /\ UNCHANGED <<filmVars, rev, busy, call, given, counters, applied>>

WindowCloses ==
  /\ window /\ busy # Window
  /\ window' = FALSE
  /\ UNCHANGED <<filmVars, rev, alien, busy, call, given, counters, applied>>

WindowWrites ==
  /\ window /\ ~alien /\ busy = Nobody
  /\ edits < MaxWindow
  /\ \E f \in Fields, v \in Values : row' = [row EXCEPT ![f] = v]
  /\ busy' = Window /\ edits' = edits + 1
  /\ UNCHANGED <<made, rev, alien, window, call, given, calls, outside,
                 restarts, applied>>

WindowCounted ==
  /\ busy = Window /\ CountOne
  /\ UNCHANGED <<filmVars, window, call, given, counters, applied>>

\* The host reopens the file under the next revision.
WindowReloads ==
  /\ window /\ alien /\ busy = Nobody
  /\ alien' = FALSE /\ rev' = rev + 1
  /\ UNCHANGED <<filmVars, busy, window, call, given, counters, applied>>

\* `raced` remembers that it hit a write that had passed the host's gates.
OutsideEdit ==
  /\ outside < MaxOutside
  /\ \E f \in Fields, v \in Values : v # row[f] /\ row' = [row EXCEPT ![f] = v]
  /\ alien' = IsOpen
  /\ outside' = outside + 1
  /\ call' = [s \in Slots |->
       [call[s] EXCEPT !.raced = @ \/ call[s].pc = "queued"]]
  /\ UNCHANGED <<made, rev, busy, window, given, calls, edits, restarts,
                 applied>>

\* The app is closed or crashes and starts again: calls under way fail, what
\* was committed stays.
Restart ==
  /\ restarts < MaxRestarts
  /\ restarts' = restarts + 1
  /\ rev' = 0 /\ alien' = FALSE /\ busy' = Nobody /\ window' = FALSE
  /\ call' = [s \in Slots |-> NoCall]
  /\ UNCHANGED <<filmVars, given, calls, edits, outside, applied>>

-----------------------------------------------------------------------------
CallStep(s) ==
  \/ OpenFilm(s) \/ ReadRows(s) \/ AskDryRun(s) \/ Plan(s)
  \/ (\E yes \in BOOLEAN : PersonAnswers(s, yes)) \/ AskApply(s)
  \/ SnapshotFails(s) \/ ApplyStale(s) \/ Apply(s) \/ ApplyFails(s)
  \/ Counted(s) \/ Leave(s)

Next ==
  \/ \E s \in Slots : Call(s) \/ CallStep(s)
  \/ WindowOpens \/ WindowCloses \/ WindowWrites \/ WindowCounted
  \/ WindowReloads \/ OutsideEdit \/ Restart

Spec == Init /\ [][Next]_vars

-----------------------------------------------------------------------------
(* Properties *)

PlanType ==
  [request : Requests \cup {NoPlan.request}, basedOn : Int,
   from : Values \cup {"none"}, blocked : BOOLEAN]

CallType ==
  [pc : {"idle", "opening", "reading", "dryAsked", "dryQueued", "eliciting",
         "asked", "queued", "ran", "leaving"},
   request : Requests \cup {NoPlan.request}, confirm : PlanType,
   revision : Nat, read : [Fields -> Values \cup {"none"}], raced : BOOLEAN]

\* Type invariant of the tools' and the film's state.
TypeOK ==
  /\ row \in [Fields -> Values] /\ made \in Nat
  /\ rev \in Nat /\ alien \in BOOLEAN
  /\ busy \in Slots \cup {Nobody, Window} /\ window \in BOOLEAN
  /\ call \in [Slots -> CallType]
  /\ given \subseteq PlanType
  /\ calls \in Nat /\ edits \in Nat /\ outside \in Nat /\ restarts \in Nat
  /\ DOMAIN applied \subseteq PlanType /\ applied \in [DOMAIN applied -> Nat]

\* Slot s applies its plan, and no other program got in between.
Applies(s) ==
  call[s].pc = "queued" /\ applied' # applied /\ busy' = s /\ ~call[s].raced

\* What is applied is what was approved (writeTools.ts:16-21): the plan that
\* was confirmed had been shown, the field holds what it showed and gets the
\* value shown, and no other field changes but the number of a moved shot.
AppliedAsApproved ==
  [][\A s \in Slots : Applies(s) =>
       LET p == call[s].confirm IN
       /\ p \in given /\ ~p.blocked
       /\ p.request.kind = "update" =>
            /\ row[p.request.field] = p.from
            /\ row'[p.request.field] = p.request.to
            /\ \A f \in Fields \ {p.request.field} :
                 row'[f] = row[f]
                 \/ (f = NumberField /\ p.request.field = SceneField)
       /\ p.request.kind = "create" => row' = row]_vars

\* "Only the fields you give change; the rest are kept" (writeTools.ts:430-431).
OnlyGivenFieldsChange ==
  [][\A s \in Slots : Applies(s) =>
       LET r == call[s].confirm.request IN
       r.kind = "update" =>
         \A f \in Fields \ {r.field} : row'[f] = row[f]]_vars

\* A plan is applied once, whatever number of calls confirm it at the same
\* time or afterwards, as long as the host that counted it lives.
AppliedOnce ==
  restarts = 0 => \A p \in DOMAIN applied : applied[p] = 1

\* "A refusal of any write that would add an integrity finding"
\* (writeTools.ts:27-30): the tools leave no finding that was not there.
NoFindingAdded ==
  [][\A s \in Slots :
       busy' = s /\ busy # s => Findings(row') \subseteq Findings(row)]_vars

=============================================================================
