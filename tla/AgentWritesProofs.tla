-------------------------- MODULE AgentWritesProofs --------------------------
(***************************************************************************)
(* AgentWrites, for every set of tool calls, fields and values and every   *)
(* bound: what is applied is what was approved, on the row it was approved *)
(* for, at most once, and it adds no finding.                              *)
(***************************************************************************)
EXTENDS AgentWrites, TLAPS

\* A call that has read the row; one whose plan is the one it confirms.
HasRead == {"dryAsked", "dryQueued", "eliciting", "asked", "queued"}
Approved == {"eliciting", "asked", "queued"}

\* What a call is about, and what it has read.
Coherent(w) ==
  /\ w.pc \in HasRead \cup {"opening", "reading"} => w.request \in Requests
  /\ w.pc \in HasRead => w.read \in [Fields -> Values]

CallInv ==
  /\ \A s \in Slots : Coherent(call[s])
  /\ \A p \in given : p.request \in Requests

\* What a call confirms is a plan the agent was shown, made at the revision the
\* call has, from the row it read.
PlanAt(w) ==
  /\ w.confirm \in given \cup {NoPlan}
  /\ w.pc \in Approved =>
       /\ w.confirm \in given /\ ~w.confirm.blocked
       /\ w.confirm.basedOn = w.revision
       /\ w.confirm.request = w.request
       /\ w.request.kind = "update" => w.confirm.from = w.read[w.request.field]

PlanInv == \A s \in Slots : PlanAt(call[s])

\* As long as the revision has not moved and no change waits to be counted, the
\* row is as a call read it, unless another program's edit shows: to the gate
\* before the queue, and to nobody after it.
Undisturbed(w) ==
  /\ w.revision = rev /\ busy = Nobody
  /\ IF w.pc = "queued" THEN ~w.raced ELSE ~alien

ReadAt(w) ==
  /\ w.pc \in HasRead \cup {"reading"} => w.revision <= rev
  /\ w.pc \in HasRead /\ Undisturbed(w) => w.read = row

ReadInv == \A s \in Slots : ReadAt(call[s])

\* A plan that was applied is behind the revision, or about to be.
AppliedInv ==
  restarts = 0 =>
    \A p \in DOMAIN applied :
      /\ applied[p] = 1
      /\ p.basedOn <= rev
      /\ p.basedOn = rev => busy # Nobody

IInv == TypeOK /\ CallInv /\ PlanInv /\ ReadInv /\ AppliedInv

-----------------------------------------------------------------------------
(* Type correctness *)

LEMMA NoPlanType == NoPlan \in PlanType
BY DEF NoPlan, PlanType

LEMMA NoCallType == NoCall \in CallType /\ Coherent(NoCall)
BY NoPlanType DEF NoCall, CallType, NoPlan, Coherent, HasRead

\* A step of one call, to a state a call may be in, keeps the others'.
LEMMA OneCall ==
  ASSUME TypeOK, CallInv, NEW s \in Slots, NEW w \in CallType, Coherent(w),
         call' = [call EXCEPT ![s] = w]
  PROVE  call' \in [Slots -> CallType] /\ \A t \in Slots : Coherent(call'[t])
BY DEF TypeOK, CallInv

\* The call that Goto leaves behind.
Gone(s, at) ==
  [(IF at \in {"ran", "leaving"} THEN NoCall ELSE call[s]) EXCEPT !.pc = at]

LEMMA GotoType ==
  ASSUME TypeOK, CallInv, NEW s \in Slots,
         NEW at \in {"dryQueued", "eliciting", "asked", "queued", "ran", "leaving"},
         Goto(s, at), at \in {"ran", "leaving"} \/ call[s].pc \in HasRead
  PROVE  /\ call' \in [Slots -> CallType] /\ \A t \in Slots : Coherent(call'[t])
         /\ call'[s] = Gone(s, at)
         /\ \A t \in Slots \ {s} : call'[t] = call[t]
<1>1. call' = [call EXCEPT ![s] = Gone(s, at)]
  BY DEF Goto, Gone
<1>2. call[s] \in CallType /\ Coherent(call[s])
  BY DEF TypeOK, CallInv
<1>3. CASE at \in {"ran", "leaving"}
  <2>1. Gone(s, at) \in CallType /\ Coherent(Gone(s, at))
    BY <1>3, NoCallType DEF Gone, CallType, Coherent, HasRead
  <2> QED
    BY <1>1, <2>1, OneCall DEF TypeOK
<1>4. CASE at \notin {"ran", "leaving"}
  <2>1. Gone(s, at) \in CallType /\ Coherent(Gone(s, at))
    BY <1>2, <1>4 DEF Gone, CallType, Coherent, HasRead
  <2> QED
    BY <1>1, <2>1, OneCall DEF TypeOK
<1> QED
  BY <1>3, <1>4

LEMMA PlanOfType ==
  ASSUME TypeOK, NEW s \in Slots
  PROVE  /\ PlanOf(s) \in PlanType
         /\ PlanOf(s).request = call[s].request
         /\ PlanOf(s).basedOn = call[s].revision
         /\ call[s].request.kind = "update" =>
              PlanOf(s).from = call[s].read[call[s].request.field]
<1>1. call[s] \in CallType
  BY DEF TypeOK
<1> DEFINE from == IF call[s].request.kind = "update"
                   THEN call[s].read[call[s].request.field] ELSE "none"
           adds == WouldAdd(s) # {}
<1>2. from \in Values \cup {"none"}
  <2>1. CASE call[s].request.kind = "update"
    <3>1. call[s].request.field \in Fields
      BY <1>1, <2>1 DEF CallType, Requests, Updates, Creates, NoPlan
    <3> QED
      BY <1>1, <2>1, <3>1 DEF CallType
  <2> QED
    BY <2>1
<1>3. PlanUnbased(s) = [request |-> call[s].request, basedOn |-> 0,
                        from |-> from, blocked |-> adds]
  BY Zenon DEF PlanUnbased
<1>4. adds \in BOOLEAN
  OBVIOUS
<1>5. call[s].request \in Requests \cup {NoPlan.request} /\ call[s].revision \in Int
  BY <1>1 DEF CallType
<1> HIDE DEF adds, from
<1>6. PlanOf(s) = [request |-> call[s].request, basedOn |-> call[s].revision,
                   from |-> from, blocked |-> adds]
  BY <1>3 DEF PlanOf
<1>7. PlanOf(s) \in PlanType
  BY <1>2, <1>4, <1>5, <1>6 DEF PlanType
<1> QED
  BY <1>6, <1>7 DEF from

LEMMA OutcomeType ==
  ASSUME TypeOK, NEW s \in Slots, call[s].request \in Requests,
         call[s].read \in [Fields -> Values], NEW r \in Outcomes(s)
  PROVE  r \in [Fields -> Values]
<1>1. CASE call[s].request \in Updates
  <2>1. Merged(s) \in [Fields -> Values] /\ call[s].request.kind = "update"
    BY <1>1 DEF Merged, Updates
  <2> QED
    BY <2>1 DEF Outcomes
<1>2. CASE call[s].request \in Creates
  BY <1>2 DEF Outcomes, Creates, TypeOK
<1> QED
  BY <1>1, <1>2 DEF Requests

LEMMA CallTypeStep ==
  ASSUME TypeOK, CallInv, NEW s \in Slots, Call(s) \/ CallStep(s)
  PROVE  TypeOK' /\ CallInv'
<1> USE DEF filmVars, hostVars, counters
<1> DEFINE CallOK == call' \in [Slots -> CallType] /\ \A t \in Slots : Coherent(call'[t])
<1>0. call[s] \in CallType /\ Coherent(call[s])
  BY DEF TypeOK, CallInv
<1>1. CASE Call(s)
  <2>1. CallOK
    <3>1. ASSUME NEW r \in Requests,
                 call' = [call EXCEPT ![s] =
                            [NoCall EXCEPT !.pc = "opening", !.request = r]]
          PROVE  CallOK
      <4>1. [NoCall EXCEPT !.pc = "opening", !.request = r] \in CallType
            /\ Coherent([NoCall EXCEPT !.pc = "opening", !.request = r])
        BY NoCallType DEF CallType, Coherent, HasRead
      <4> QED
        BY <3>1, <4>1, OneCall
    <3>2. ASSUME NEW p \in given,
                 call' = [call EXCEPT ![s] =
                            [NoCall EXCEPT !.pc = "opening",
                               !.request = p.request, !.confirm = p]]
          PROVE  CallOK
      <4> DEFINE w == [NoCall EXCEPT !.pc = "opening", !.request = p.request,
                                     !.confirm = p]
      <4>1. p \in PlanType /\ p.request \in Requests
        BY DEF TypeOK, CallInv
      <4>2. w \in CallType /\ Coherent(w)
        BY <4>1, NoCallType DEF CallType, Coherent, HasRead
      <4> QED
        BY <3>2, <4>2, OneCall
    <3> QED
      BY <1>1, <3>1, <3>2 DEF Call
  <2> HIDE DEF CallOK
  <2>2. /\ calls' = calls + 1
        /\ UNCHANGED <<filmVars, hostVars, given, edits, outside, restarts, applied>>
    BY <1>1 DEF Call
  <2> QED
    BY <2>1, <2>2 DEF TypeOK, CallInv, CallOK
<1>2. CASE OpenFilm(s)
  <2> DEFINE w == [call[s] EXCEPT !.pc = "reading", !.revision = rev]
  <2>1. w \in CallType /\ Coherent(w)
    BY <1>0, <1>2 DEF OpenFilm, CallType, TypeOK, Coherent, HasRead
  <2>2. call' = [call EXCEPT ![s] = w]
    BY <1>2 DEF OpenFilm
  <2>3. CallOK
    BY <2>1, <2>2, OneCall
  <2> QED
    BY <1>2, <2>3 DEF OpenFilm, TypeOK, CallInv
<1>3. CASE ReadRows(s)
  <2> DEFINE at == IF NoOp(call[s].request, row) THEN "leaving" ELSE "dryAsked"
             w == [call[s] EXCEPT !.read = row, !.pc = at]
  <2>1. w \in CallType /\ Coherent(w)
    BY <1>0, <1>3 DEF ReadRows, CallType, TypeOK, Coherent, HasRead
  <2>2. call' = [call EXCEPT ![s] = w]
    BY <1>3 DEF ReadRows
  <2>3. CallOK
    BY <2>1, <2>2, OneCall
  <2> QED
    BY <1>3, <2>3 DEF ReadRows, TypeOK, CallInv
<1>4. CASE AskDryRun(s)
  <2>1. CallOK
    BY <1>4, GotoType DEF AskDryRun, HasRead
  <2> QED
    BY <1>4, <2>1 DEF AskDryRun, TypeOK, CallInv
<1>5. CASE Plan(s)
  <2>1. CallOK
    BY <1>5, GotoType DEF Plan, HasRead
  <2>2. given' \subseteq given \cup {PlanOf(s)}
    BY <1>5 DEF Plan
  <2>3. given' \subseteq PlanType
    BY <2>2, PlanOfType DEF TypeOK
  <2>4. call[s].request \in Requests
    BY <1>0, <1>5 DEF Plan, Coherent, HasRead
  <2>5. \A p \in given' : p.request \in Requests
    BY <2>2, <2>4, PlanOfType DEF CallInv
  <2> QED
    BY <1>5, <2>1, <2>3, <2>5 DEF Plan, TypeOK, CallInv
<1>6. ASSUME NEW yes \in BOOLEAN, PersonAnswers(s, yes)
      PROVE  TypeOK' /\ CallInv'
  <2>1. CallOK
    BY <1>6, GotoType DEF PersonAnswers, HasRead
  <2> QED
    BY <1>6, <2>1 DEF PersonAnswers, TypeOK, CallInv
<1>7. CASE AskApply(s) \/ SnapshotFails(s) \/ ApplyStale(s)
  <2>1. CallOK
    BY <1>7, GotoType DEF AskApply, SnapshotFails, ApplyStale, HasRead
  <2> QED
    BY <1>7, <2>1 DEF AskApply, SnapshotFails, ApplyStale, TypeOK, CallInv
<1>8. CASE Apply(s)
  <2>1. CallOK
    BY <1>8, GotoType DEF Apply
  <2>2. row' \in [Fields -> Values]
    <3>1. row' \in Outcomes(s) /\ call[s].request \in Requests
          /\ call[s].read \in [Fields -> Values]
      BY <1>0, <1>8 DEF Apply, Coherent, HasRead
    <3> QED
      BY <3>1, OutcomeType
  <2>3. /\ DOMAIN applied' \subseteq PlanType
        /\ applied' \in [DOMAIN applied' -> Nat]
    <3>1. call[s].confirm \in PlanType
      BY <1>0 DEF CallType
    <3> QED
      BY <1>8, <3>1 DEF Apply, TypeOK
  <2>4. made' \in Nat
    BY <1>8 DEF Apply, TypeOK
  <2> QED
    BY <1>8, <2>1, <2>2, <2>3, <2>4 DEF Apply, TypeOK, CallInv
<1>9. CASE ApplyFails(s)
  <2>1. CallOK
    BY <1>9, GotoType DEF ApplyFails
  <2> QED
    BY <1>9, <2>1 DEF ApplyFails, TypeOK, CallInv
<1>10. CASE Counted(s)
  <2>1. CallOK
    BY <1>10, GotoType DEF Counted
  <2>2. rev' \in Nat
    BY <1>10 DEF Counted, CountOne, TypeOK
  <2> QED
    BY <1>10, <2>1, <2>2 DEF Counted, CountOne, TypeOK, CallInv
<1>11. CASE Leave(s)
  <2>1. CallOK
    BY <1>11, NoCallType, OneCall DEF Leave
  <2> QED
    BY <1>11, <2>1 DEF Leave, TypeOK, CallInv
<1> QED
  BY <1>1, <1>2, <1>3, <1>4, <1>5, <1>6, <1>7, <1>8, <1>9, <1>10, <1>11
  DEF CallStep

LEMMA TypeStep == TypeOK /\ CallInv /\ [Next]_vars => TypeOK' /\ CallInv'
<1> SUFFICES ASSUME TypeOK, CallInv, [Next]_vars PROVE TypeOK' /\ CallInv'
  OBVIOUS
<1> USE DEF filmVars, hostVars, counters, vars
<1>1. ASSUME NEW s \in Slots, Call(s) \/ CallStep(s) PROVE TypeOK' /\ CallInv'
  BY <1>1, CallTypeStep
<1>2. CASE WindowOpens \/ WindowCloses
  BY <1>2 DEF WindowOpens, WindowCloses, TypeOK, CallInv
<1>3. CASE WindowWrites
  BY <1>3 DEF WindowWrites, TypeOK, CallInv
<1>4. CASE WindowCounted \/ WindowReloads
  <2>1. /\ rev' = rev + 1 /\ alien' = FALSE /\ busy' \in {busy, Nobody}
        /\ UNCHANGED <<filmVars, window, call, given, counters, applied>>
    BY <1>4 DEF WindowCounted, CountOne, WindowReloads
  <2>2. rev' \in Nat
    BY <2>1 DEF TypeOK
  <2> QED
    BY <2>1, <2>2 DEF TypeOK, CallInv
<1>5. CASE OutsideEdit
  <2>1. ASSUME NEW s \in Slots
        PROVE  call'[s] \in CallType /\ Coherent(call'[s])
    <3>1. call[s] \in CallType /\ Coherent(call[s])
      BY DEF TypeOK, CallInv
    <3>2. PICK b \in BOOLEAN : call'[s] = [call[s] EXCEPT !.raced = b]
      BY <1>5 DEF OutsideEdit
    <3> QED
      BY <3>1, <3>2 DEF CallType, Coherent
  <2>2. call' \in [Slots -> CallType]
    <3>1. call' = [s \in Slots |-> call'[s]]
      BY <1>5 DEF OutsideEdit
    <3> QED
      BY <2>1, <3>1
  <2>3. row' \in [Fields -> Values] /\ alien' \in BOOLEAN
    BY <1>5 DEF OutsideEdit, TypeOK, IsOpen
  <2>4. /\ outside' = outside + 1
        /\ UNCHANGED <<made, rev, busy, window, given, calls, edits, restarts,
                       applied>>
    BY <1>5 DEF OutsideEdit
  <2> QED
    BY <2>1, <2>2, <2>3, <2>4 DEF TypeOK, CallInv
<1>6. CASE Restart
  <2>1. call' \in [Slots -> CallType] /\ \A s \in Slots : Coherent(call'[s])
    BY <1>6, NoCallType DEF Restart
  <2> QED
    <3>1. /\ restarts' = restarts + 1 /\ rev' = 0 /\ alien' = FALSE
          /\ busy' = Nobody /\ window' = FALSE
          /\ UNCHANGED <<filmVars, given, calls, edits, outside, applied>>
      BY <1>6 DEF Restart
    <3>2. restarts' \in Nat
      BY <3>1 DEF TypeOK
    <3> QED
      BY <2>1, <3>1, <3>2 DEF TypeOK, CallInv
<1>7. CASE UNCHANGED vars
  BY <1>7 DEF TypeOK, CallInv
<1> QED
  BY <1>1, <1>2, <1>3, <1>4, <1>5, <1>6, <1>7 DEF Next

LEMMA InvInit == Init => IInv
<1> SUFFICES ASSUME Init PROVE IInv
  OBVIOUS
<1>1. TypeOK /\ CallInv
  BY NoCallType DEF Init, TypeOK, CallInv
<1>2. PlanInv /\ ReadInv /\ AppliedInv
  BY DEF Init, PlanInv, PlanAt, ReadInv, ReadAt, AppliedInv, NoCall, Approved,
        HasRead
<1> QED
  BY <1>1, <1>2 DEF IInv

\* The types of the tools' state, and what a call carries at each stage.
THEOREM TypeCorrect == Spec => [](TypeOK /\ CallInv)
<1>1. Init => TypeOK /\ CallInv
  BY InvInit DEF IInv
<1>2. (TypeOK /\ CallInv) /\ [Next]_vars => (TypeOK /\ CallInv)'
  BY TypeStep
<1> QED
  BY <1>1, <1>2, PTL DEF Spec

-----------------------------------------------------------------------------
(* The plan that is confirmed *)

\* What Goto does to the call: on to the next stage with all it has, or done.
LEMMA GotoStep ==
  ASSUME TypeOK, CallInv, NEW s \in Slots,
         NEW at \in {"dryQueued", "eliciting", "asked", "queued", "ran", "leaving"},
         Goto(s, at), at \in {"ran", "leaving"} \/ call[s].pc \in HasRead
  PROVE  /\ \A t \in Slots \ {s} : call'[t] = call[t]
         /\ call'[s].pc = at
         /\ at \in {"ran", "leaving"} => call'[s].confirm = NoPlan
         /\ at \notin {"ran", "leaving"} =>
              /\ call'[s].confirm = call[s].confirm
              /\ call'[s].request = call[s].request
              /\ call'[s].revision = call[s].revision
              /\ call'[s].read = call[s].read
              /\ call'[s].raced = call[s].raced
<1>1. call'[s] = Gone(s, at) /\ \A t \in Slots \ {s} : call'[t] = call[t]
  BY GotoType
<1>2. call[s] \in CallType /\ NoCall \in CallType
  BY NoCallType DEF TypeOK
<1> QED
  BY <1>1, <1>2 DEF Gone, CallType, NoCall

LEMMA PlanKept ==
  ASSUME PlanInv, given \subseteq given', NEW t \in Slots, call'[t] = call[t]
  PROVE  PlanAt(call[t])'
BY DEF PlanInv, PlanAt

LEMMA PlanStep == TypeOK /\ CallInv /\ PlanInv /\ [Next]_vars => PlanInv'
<1> SUFFICES ASSUME TypeOK, CallInv, PlanInv, [Next]_vars, NEW t \in Slots
             PROVE  PlanAt(call[t])'
  BY DEF PlanInv
<1> USE DEF filmVars, hostVars, counters, vars
<1>0. /\ call[t] \in CallType /\ PlanAt(call[t])
  BY DEF TypeOK, PlanInv
<1>1. ASSUME NEW s \in Slots, Call(s) PROVE PlanAt(call[t])'
  <2>1. given' = given /\ \A u \in Slots \ {s} : call'[u] = call[u]
    BY <1>1 DEF Call, TypeOK
  <2>2. /\ call'[s].pc = "opening"
        /\ call'[s].confirm \in given \cup {NoPlan}
    BY <1>1 DEF Call, TypeOK, NoCall
  <2> QED
    BY <2>1, <2>2, PlanKept DEF PlanAt, Approved
<1>2. ASSUME NEW s \in Slots, CallStep(s) PROVE PlanAt(call[t])'
  <2>0. call[s] \in CallType /\ PlanAt(call[s])
    BY DEF TypeOK, PlanInv
  <2>1. CASE OpenFilm(s)
    <3>1. /\ given' = given /\ \A u \in Slots \ {s} : call'[u] = call[u]
          /\ call'[s].pc = "reading" /\ call'[s].confirm = call[s].confirm
      BY <2>0, <2>1 DEF OpenFilm, TypeOK, CallType
    <3> QED
      BY <2>0, <3>1, PlanKept DEF PlanAt, Approved
  <2>2. CASE ReadRows(s)
    <3>1. /\ given' = given /\ \A u \in Slots \ {s} : call'[u] = call[u]
          /\ call'[s].pc \in {"leaving", "dryAsked"}
          /\ call'[s].confirm = call[s].confirm
      BY <2>0, <2>2 DEF ReadRows, TypeOK, CallType
    <3> QED
      BY <2>0, <3>1, PlanKept DEF PlanAt, Approved
  <2>3. ASSUME NEW at \in {"ran", "leaving", "dryQueued"}, Goto(s, at),
               given \subseteq given',
               at \in {"ran", "leaving"} \/ call[s].pc \in HasRead
        PROVE  PlanAt(call[t])'
    BY <2>0, <2>3, GotoStep, PlanKept DEF PlanAt, Approved
  <2>4. ASSUME NEW at \in {"asked", "queued"}, Goto(s, at), given' = given,
               call[s].pc \in Approved
        PROVE  PlanAt(call[t])'
    BY <2>0, <2>4, GotoStep, PlanKept DEF PlanAt, Approved, HasRead
  <2>5. CASE Plan(s)
    <3>1. CASE call[s].confirm # PlanOf(s) \/ call[s].revision # rev
               \/ PlanOf(s).blocked
      BY <2>3, <2>5, <3>1 DEF Plan
    <3>2. CASE call[s].confirm = PlanOf(s) /\ call[s].revision = rev
               /\ ~PlanOf(s).blocked
      <4>1. /\ given' = given /\ call[s].pc = "dryQueued"
            /\ Goto(s, IF Elicits THEN "eliciting" ELSE "asked")
        BY <2>5, <3>2 DEF Plan
      <4>2. PlanOf(s) # NoPlan
        <5>1. PlanOf(s).basedOn \in Nat
          BY <2>0, PlanOfType DEF CallType
        <5> QED
          BY <5>1 DEF NoPlan
      <4>3. call[s].confirm \in given
        BY <2>0, <3>2, <4>2 DEF PlanAt
      <4>4. /\ \A u \in Slots \ {s} : call'[u] = call[u]
            /\ call'[s].confirm = call[s].confirm
            /\ call'[s].request = call[s].request
            /\ call'[s].revision = call[s].revision
            /\ call'[s].read = call[s].read
        BY <4>1, GotoStep DEF HasRead
      <4> QED
        BY <3>2, <4>1, <4>3, <4>4, PlanOfType, PlanKept DEF PlanAt
    <3> QED
      BY <3>1, <3>2
  <2>6. CASE AskDryRun(s)
    BY <2>3, <2>6 DEF AskDryRun, HasRead
  <2>7. ASSUME NEW yes \in BOOLEAN, PersonAnswers(s, yes)
        PROVE  PlanAt(call[t])'
    BY <2>3, <2>4, <2>7 DEF PersonAnswers, Approved
  <2>8. CASE AskApply(s)
    BY <2>3, <2>4, <2>8 DEF AskApply, Approved
  <2>9. CASE SnapshotFails(s) \/ ApplyStale(s)
    BY <2>3, <2>9 DEF SnapshotFails, ApplyStale
  <2>10. CASE Apply(s) \/ ApplyFails(s) \/ Counted(s)
    BY <2>3, <2>10 DEF Apply, ApplyFails, Counted
  <2>11. CASE Leave(s)
    <3>1. /\ given' = given /\ \A u \in Slots \ {s} : call'[u] = call[u]
          /\ call'[s] = NoCall
      BY <2>11 DEF Leave, TypeOK
    <3> QED
      BY <3>1, PlanKept DEF PlanAt, Approved, NoCall
  <2> QED
    BY <1>2, <2>1, <2>2, <2>5, <2>6, <2>7, <2>8, <2>9, <2>10, <2>11 DEF CallStep
<1>3. CASE WindowOpens \/ WindowCloses \/ WindowWrites \/ WindowCounted
           \/ WindowReloads \/ UNCHANGED vars
  BY <1>3, PlanKept DEF WindowOpens, WindowCloses, WindowWrites, WindowCounted,
                        WindowReloads
<1>4. CASE OutsideEdit
  <2>1. PICK b \in BOOLEAN : call'[t] = [call[t] EXCEPT !.raced = b]
    BY <1>4 DEF OutsideEdit
  <2>2. given' = given
    BY <1>4 DEF OutsideEdit
  <2> QED
    BY <1>0, <2>1, <2>2 DEF PlanAt, CallType
<1>5. CASE Restart
  BY <1>5 DEF Restart, PlanAt, NoCall, Approved
<1> QED
  BY <1>1, <1>2, <1>3, <1>4, <1>5 DEF Next

-----------------------------------------------------------------------------
(* The row that was read *)

\* A call that is not touched keeps what it read, unless the row changes under
\* it; and a change that is not another program's keeps the queue busy.
LEMMA ReadKept ==
  ASSUME TypeOK, ReadInv, NEW t \in Slots, call'[t] = call[t], rev' = rev,
         \/ row' = row /\ busy' = busy
            /\ (call[t].pc \in HasRead => alien' = alien)
         \/ busy' # Nobody
  PROVE  ReadAt(call[t])'
BY DEF ReadInv, ReadAt, Undisturbed, HasRead

\* Once the revision moves, nothing that was read before counts.
LEMMA ReadPassed ==
  ASSUME TypeOK, ReadInv, NEW t \in Slots,
         call'[t].revision = call[t].revision /\ call'[t].pc = call[t].pc,
         rev' = rev + 1
  PROVE  ReadAt(call[t])'
<1>1. call[t].revision \in Nat /\ rev \in Nat
  BY DEF TypeOK, CallType
<1>2. call[t].pc \in HasRead \cup {"reading"} => call[t].revision <= rev
  BY DEF ReadInv, ReadAt
<1>3. call[t].pc \in HasRead \cup {"reading"} => call[t].revision < rev'
  BY <1>1, <1>2
<1> QED
  BY <1>1, <1>3 DEF ReadAt, Undisturbed

LEMMA ReadStep == TypeOK /\ CallInv /\ ReadInv /\ [Next]_vars => ReadInv'
<1> SUFFICES ASSUME TypeOK, CallInv, ReadInv, [Next]_vars, NEW t \in Slots
             PROVE  ReadAt(call[t])'
  BY DEF ReadInv
<1> USE DEF filmVars, hostVars, counters, vars
<1>0. call[t] \in CallType /\ ReadAt(call[t]) /\ rev \in Nat
  BY DEF TypeOK, ReadInv
<1>1. call[t].pc \in HasRead => IsOpen
  BY DEF IsOpen, Holders, HasRead
<1>2. ASSUME NEW s \in Slots, Call(s) PROVE ReadAt(call[t])'
  <2>1. /\ \A u \in Slots \ {s} : call'[u] = call[u]
        /\ call'[s].pc = "opening" /\ UNCHANGED <<row, hostVars>>
    BY <1>2 DEF Call, TypeOK, NoCall
  <2> QED
    BY <2>1, ReadKept DEF ReadAt, HasRead
<1>3. ASSUME NEW s \in Slots, CallStep(s) PROVE ReadAt(call[t])'
  <2>0. call[s] \in CallType /\ ReadAt(call[s])
    BY DEF TypeOK, ReadInv
  <2>1. CASE OpenFilm(s)
    <3>1. /\ \A u \in Slots \ {s} : call'[u] = call[u]
          /\ call'[s].pc = "reading" /\ call'[s].revision = rev
          /\ UNCHANGED <<row, rev, busy>> /\ alien' = (alien /\ IsOpen)
      BY <2>0, <2>1 DEF OpenFilm, TypeOK, CallType
    <3>2. call[t].pc \in HasRead => alien' = alien
      BY <1>1, <3>1 DEF TypeOK
    <3>3. CASE t = s
      BY <1>0, <3>1, <3>3 DEF ReadAt, HasRead
    <3>4. CASE t # s
      BY <3>1, <3>2, <3>4, ReadKept
    <3> QED
      BY <3>3, <3>4
  <2>2. CASE ReadRows(s)
    <3>1. /\ \A u \in Slots \ {s} : call'[u] = call[u]
          /\ call'[s].pc \in {"leaving", "dryAsked"}
          /\ call'[s].read = row /\ call'[s].revision = call[s].revision
          /\ call[s].pc = "reading" /\ UNCHANGED <<row, hostVars>>
      BY <2>0, <2>2 DEF ReadRows, TypeOK, CallType
    <3> QED
      BY <2>0, <3>1, ReadKept DEF ReadAt, HasRead
  <2>3. ASSUME NEW at \in {"ran", "leaving"}, Goto(s, at), UNCHANGED <<row, hostVars>>
        PROVE  ReadAt(call[t])'
    BY <2>3, GotoStep, ReadKept DEF ReadAt, HasRead
  <2>4. ASSUME NEW at \in {"dryQueued", "eliciting", "asked"}, Goto(s, at),
               call[s].pc \in HasRead \ {"queued"}, UNCHANGED <<row, hostVars>>
        PROVE  ReadAt(call[t])'
    <3>1. CASE t # s
      BY <2>4, <3>1, GotoStep, ReadKept
    <3>2. CASE t = s
      BY <2>0, <2>4, <3>2, GotoStep DEF ReadAt, Undisturbed, HasRead
    <3> QED
      BY <3>1, <3>2
  <2>5. CASE Plan(s)
    <3>1. /\ UNCHANGED <<row, hostVars>> /\ call[s].pc = "dryQueued"
          /\ \E at \in {"leaving", "eliciting", "asked"} : Goto(s, at)
      BY <2>5 DEF Plan
    <3> QED
      BY <2>3, <2>4, <3>1 DEF HasRead
  <2>6. CASE AskDryRun(s)
    BY <2>3, <2>4, <2>6 DEF AskDryRun, HasRead
  <2>7. ASSUME NEW yes \in BOOLEAN, PersonAnswers(s, yes)
        PROVE  ReadAt(call[t])'
    BY <2>3, <2>4, <2>7 DEF PersonAnswers, HasRead
  <2>8. CASE AskApply(s)
    <3>1. CASE Refused(call[s].revision)
      BY <2>3, <2>8, <3>1 DEF AskApply
    <3>2. CASE ~Refused(call[s].revision)
      <4>1. /\ Goto(s, "queued") /\ call[s].pc = "asked" /\ ~alien
            /\ UNCHANGED <<row, hostVars>>
        BY <2>8, <3>2 DEF AskApply, Refused
      <4>2. CASE t # s
        BY <4>1, <4>2, GotoStep, ReadKept DEF HasRead
      <4>3. CASE t = s
        BY <2>0, <4>1, <4>3, GotoStep DEF ReadAt, Undisturbed, HasRead
      <4> QED
        BY <4>2, <4>3
    <3> QED
      BY <3>1, <3>2
  <2>9. CASE SnapshotFails(s) \/ ApplyStale(s)
    BY <2>3, <2>9 DEF SnapshotFails, ApplyStale
  <2>10. CASE Apply(s) \/ ApplyFails(s)
    <3>1. Goto(s, "ran") /\ busy' = s /\ rev' = rev
      BY <2>10 DEF Apply, ApplyFails
    <3>2. busy' # Nobody
      BY <3>1, AgentWritesAssumption
    <3> QED
      BY <3>1, <3>2, GotoStep, ReadKept DEF ReadAt, HasRead
  <2>11. CASE Counted(s)
    <3>1. Goto(s, "leaving") /\ rev' = rev + 1
      BY <2>11 DEF Counted, CountOne
    <3> QED
      BY <3>1, GotoStep, ReadPassed DEF ReadAt, HasRead
  <2>12. CASE Leave(s)
    <3>1. /\ \A u \in Slots \ {s} : call'[u] = call[u]
          /\ call'[s].pc = "idle" /\ UNCHANGED <<row, hostVars>>
      BY <2>12 DEF Leave, TypeOK, NoCall
    <3> QED
      BY <3>1, ReadKept DEF ReadAt, HasRead
  <2> QED
    BY <1>3, <2>1, <2>2, <2>5, <2>6, <2>7, <2>8, <2>9, <2>10, <2>11, <2>12
    DEF CallStep
<1>4. CASE WindowOpens
  <2>1. call[t].pc \in HasRead => alien' = alien
    BY <1>1, <1>4 DEF WindowOpens, TypeOK
  <2> QED
    BY <1>4, <2>1, ReadKept DEF WindowOpens
<1>5. CASE WindowCloses \/ UNCHANGED vars
  BY <1>5, ReadKept DEF WindowCloses
<1>6. CASE WindowWrites
  BY <1>6, ReadKept DEF WindowWrites, Window, Nobody
<1>7. CASE WindowCounted \/ WindowReloads
  BY <1>7, ReadPassed DEF WindowCounted, CountOne, WindowReloads
<1>8. CASE OutsideEdit
  <2>1. PICK b \in BOOLEAN : /\ call'[t] = [call[t] EXCEPT !.raced = b]
                             /\ call[t].pc = "queued" => b
    BY <1>8 DEF OutsideEdit
  <2>2. alien' = IsOpen /\ UNCHANGED <<rev, busy>>
    BY <1>8 DEF OutsideEdit
  <2>3. /\ call'[t].pc = call[t].pc /\ call'[t].revision = call[t].revision
        /\ call[t].pc = "queued" => call'[t].raced
    BY <1>0, <2>1 DEF CallType
  <2> QED
    BY <1>0, <1>1, <2>2, <2>3 DEF ReadAt, Undisturbed
<1>9. CASE Restart
  BY <1>9 DEF Restart, ReadAt, NoCall, HasRead
<1> QED
  BY <1>2, <1>3, <1>4, <1>5, <1>6, <1>7, <1>8, <1>9 DEF Next

-----------------------------------------------------------------------------
(* Plans that were applied *)

LEMMA AppliedStep ==
  TypeOK /\ PlanInv /\ AppliedInv /\ [Next]_vars => AppliedInv'
<1> SUFFICES ASSUME TypeOK, PlanInv, AppliedInv, [Next]_vars PROVE AppliedInv'
  OBVIOUS
<1> USE DEF filmVars, hostVars, counters, vars
<1>0. /\ rev \in Nat /\ restarts \in Nat /\ applied \in [DOMAIN applied -> Nat]
  BY DEF TypeOK
<1>1. ASSUME UNCHANGED <<rev, restarts, applied>>, busy' = busy \/ busy' # Nobody
      PROVE  AppliedInv'
  BY <1>1 DEF AppliedInv
<1>2. ASSUME rev' = rev + 1, UNCHANGED <<restarts, applied>>
      PROVE  AppliedInv'
  <2>1. ASSUME restarts' = 0, NEW p \in DOMAIN applied'
        PROVE  applied'[p] = 1 /\ p.basedOn <= rev' /\ p.basedOn # rev'
    <3>1. applied[p] = 1 /\ p.basedOn <= rev
      BY <1>2, <2>1 DEF AppliedInv
    <3>2. p.basedOn \in Int
      BY <1>2, <2>1 DEF TypeOK, PlanType
    <3> QED
      BY <1>0, <1>2, <3>1, <3>2
  <2> QED
    BY <2>1 DEF AppliedInv
<1>3. ASSUME NEW s \in Slots, Call(s) PROVE AppliedInv'
  BY <1>1, <1>3 DEF Call
<1>4. ASSUME NEW s \in Slots, CallStep(s) PROVE AppliedInv'
  <2>1. CASE Apply(s)
    <3> DEFINE p == call[s].confirm
    <3>1. /\ busy = Nobody /\ busy' = s /\ rev' = rev /\ restarts' = restarts
          /\ call[s].pc = "queued" /\ call[s].revision = rev
          /\ applied' = [q \in DOMAIN applied \cup {p} |->
                           IF q \notin DOMAIN applied THEN 1
                           ELSE IF q = p THEN applied[q] + 1 ELSE applied[q]]
      BY <2>1 DEF Apply, Moved
    <3>2. p.basedOn = rev
      BY <3>1 DEF PlanInv, PlanAt, Approved
    <3>3. busy' # Nobody
      BY <3>1, AgentWritesAssumption
    <3>4. ASSUME restarts = 0 PROVE p \notin DOMAIN applied
      BY <3>1, <3>2, <3>4 DEF AppliedInv
    <3>5. ASSUME restarts = 0, NEW q \in DOMAIN applied'
          PROVE  applied'[q] = 1 /\ q.basedOn <= rev'
      <4>1. CASE q = p
        BY <1>0, <3>1, <3>2, <3>4, <3>5, <4>1
      <4>2. CASE q # p
        BY <3>1, <3>5, <4>2 DEF AppliedInv
      <4> QED
        BY <4>1, <4>2
    <3> QED
      BY <3>1, <3>3, <3>5 DEF AppliedInv
  <2>2. CASE Counted(s)
    BY <1>2, <2>2 DEF Counted, CountOne
  <2>3. CASE ApplyFails(s)
    BY <1>1, <2>3, AgentWritesAssumption DEF ApplyFails
  <2>4. CASE OpenFilm(s) \/ ReadRows(s) \/ AskDryRun(s)
    BY <1>1, <2>4 DEF OpenFilm, ReadRows, AskDryRun
  <2>5. CASE Plan(s) \/ \E yes \in BOOLEAN : PersonAnswers(s, yes)
    BY <1>1, <2>5 DEF Plan, PersonAnswers
  <2>6. CASE AskApply(s) \/ SnapshotFails(s) \/ ApplyStale(s) \/ Leave(s)
    BY <1>1, <2>6 DEF AskApply, SnapshotFails, ApplyStale, Leave
  <2> QED
    BY <1>4, <2>1, <2>2, <2>3, <2>4, <2>5, <2>6 DEF CallStep
<1>5. CASE WindowOpens \/ WindowCloses \/ OutsideEdit \/ UNCHANGED vars
  BY <1>1, <1>5 DEF WindowOpens, WindowCloses, OutsideEdit
<1>6. CASE WindowWrites
  BY <1>1, <1>6 DEF WindowWrites, Window, Nobody
<1>7. CASE WindowCounted \/ WindowReloads
  BY <1>2, <1>7 DEF WindowCounted, CountOne, WindowReloads
<1>8. CASE Restart
  <2>1. restarts' # 0
    <3>1. restarts' = restarts + 1
      BY <1>8 DEF Restart
    <3> QED
      BY <1>0, <3>1
  <2> QED
    BY <2>1 DEF AppliedInv
<1> QED
  BY <1>3, <1>4, <1>5, <1>6, <1>7, <1>8 DEF Next

\* The inductive invariant.
THEOREM Invariant == Spec => []IInv
<1>1. Init => IInv
  BY InvInit
<1>2. IInv /\ [Next]_vars => IInv'
  BY TypeStep, PlanStep, ReadStep, AppliedStep DEF IInv
<1> QED
  BY <1>1, <1>2, PTL DEF Spec

-----------------------------------------------------------------------------
(* What the tools promise *)

\* A plan is applied once, however many calls confirm it, as long as the host
\* that counted it lives.
THEOREM AppliedOnceTheorem == Spec => []AppliedOnce
<1>1. IInv => AppliedOnce
  BY DEF IInv, AppliedInv, AppliedOnce
<1> QED
  BY <1>1, Invariant, PTL

LEMMA AppliedNeedsQueue ==
  ASSUME Next, applied' # applied
  PROVE  busy = Nobody
<1> USE DEF filmVars, hostVars, counters
<1>1. ASSUME NEW t \in Slots, Call(t) PROVE FALSE
  BY <1>1 DEF Call
<1>2. ASSUME NEW t \in Slots, CallStep(t) PROVE busy = Nobody
  <2>1. ~OpenFilm(t) /\ ~ReadRows(t) /\ ~AskDryRun(t) /\ ~Plan(t)
    BY DEF OpenFilm, ReadRows, AskDryRun, Plan
  <2>2. ~(\E yes \in BOOLEAN : PersonAnswers(t, yes)) /\ ~AskApply(t)
    BY DEF PersonAnswers, AskApply
  <2>3. ~SnapshotFails(t) /\ ~ApplyStale(t) /\ ~ApplyFails(t)
    BY DEF SnapshotFails, ApplyStale, ApplyFails
  <2>4. ~Counted(t) /\ ~Leave(t)
    BY DEF Counted, Leave
  <2> QED
    BY <1>2, <2>1, <2>2, <2>3, <2>4 DEF CallStep, Apply
<1>3. ~WindowOpens /\ ~WindowCloses /\ ~WindowWrites /\ ~WindowCounted
  BY DEF WindowOpens, WindowCloses, WindowWrites, WindowCounted
<1>4. ~WindowReloads /\ ~OutsideEdit /\ ~Restart
  BY DEF WindowReloads, OutsideEdit, Restart
<1> QED
  BY <1>1, <1>2, <1>3, <1>4 DEF Next

\* The one step that applies a plan.
LEMMA OnlyApply ==
  ASSUME Next, NEW s \in Slots, busy' = s, busy # s
  PROVE  Apply(s) \/ ApplyFails(s)
<1> USE AgentWritesAssumption DEF filmVars, hostVars, counters
<1>1. ASSUME NEW t \in Slots, Call(t) PROVE FALSE
  BY <1>1 DEF Call
<1>2. ASSUME NEW t \in Slots, CallStep(t)
      PROVE  t = s /\ (Apply(s) \/ ApplyFails(s))
  <2>1. CASE Apply(t) \/ ApplyFails(t)
    BY <2>1 DEF Apply, ApplyFails
  <2>2. ~OpenFilm(t) /\ ~ReadRows(t) /\ ~AskDryRun(t) /\ ~Plan(t)
    BY DEF OpenFilm, ReadRows, AskDryRun, Plan
  <2>3. ~(\E yes \in BOOLEAN : PersonAnswers(t, yes)) /\ ~AskApply(t)
    BY DEF PersonAnswers, AskApply
  <2>4. ~SnapshotFails(t) /\ ~ApplyStale(t) /\ ~Counted(t) /\ ~Leave(t)
    BY DEF SnapshotFails, ApplyStale, Counted, CountOne, Leave
  <2> QED
    BY <1>2, <2>1, <2>2, <2>3, <2>4 DEF CallStep
<1>3. ~WindowOpens /\ ~WindowCloses /\ ~WindowReloads /\ ~OutsideEdit
  BY DEF WindowOpens, WindowCloses, WindowReloads, OutsideEdit
<1>4. ~WindowWrites /\ ~WindowCounted /\ ~Restart
  BY DEF WindowWrites, WindowCounted, CountOne, Restart
<1> QED
  BY <1>1, <1>2, <1>3, <1>4 DEF Next

\* The gate refuses a write that would add an integrity finding; one that was
\* rolled back adds none (writeTools.ts:27-30).
THEOREM NoFindingTheorem == Spec => NoFindingAdded
<1>1. ASSUME Next, NEW s \in Slots, busy' = s, busy # s
      PROVE  Findings(row') \subseteq Findings(row)
  <2>1. CASE Apply(s)
    <3>1. WouldAdd(s) = {} /\ row' \in Outcomes(s)
      BY <2>1 DEF Apply, Kept
    <3> DEFINE may == UNION {Findings(r) : r \in Outcomes(s)}
    <3>2. Findings(row') \subseteq may
      BY <3>1
    <3>3. may \ Findings(row) = {}
      BY <3>1 DEF WouldAdd
    <3> HIDE DEF may
    <3> QED
      BY <3>2, <3>3
  <2>2. CASE ApplyFails(s)
    BY <2>2 DEF ApplyFails, filmVars
  <2> QED
    BY <1>1, <2>1, <2>2, OnlyApply
<1>2. ASSUME [Next]_vars
      PROVE  [\A s \in Slots :
                busy' = s /\ busy # s => Findings(row') \subseteq Findings(row)]_vars
  BY <1>1, <1>2 DEF vars
<1> QED
  BY <1>2, PTL DEF Spec, NoFindingAdded

\* What a confirmed update makes of a row that is still as it was read: the
\* field gets its value, the others stay, but for the number of a shot that
\* changes scene.
LEMMA UpdateOutcome ==
  ASSUME TypeOK, NEW s \in Slots, call[s].request \in Updates,
         call[s].read = row, NEW r \in Outcomes(s)
  PROVE  LET u == call[s].request IN
         /\ r[u.field] = u.to
         /\ \A f \in Fields \ {u.field} :
              r[f] = row[f] \/ (f = NumberField /\ u.field = SceneField)
<1> DEFINE u == call[s].request
           m == [row EXCEPT ![u.field] = u.to]
<1>1. row \in [Fields -> Values] /\ u.field \in Fields /\ u.kind = "update"
  BY DEF TypeOK, Updates
<1>2. Merged(s) = m
  BY DEF Merged
<1>3. m[u.field] = u.to /\ \A f \in Fields \ {u.field} : m[f] = row[f]
  BY <1>1
<1>4. CASE m[SceneField] = row[SceneField]
  <2>1. r = m
    BY <1>1, <1>2, <1>4 DEF Outcomes
  <2> QED
    BY <1>3, <2>1
<1>5. CASE m[SceneField] # row[SceneField]
  <2>1. u.field = SceneField
    BY <1>3, <1>5, AgentWritesAssumption
  <2>2. PICK n \in Values \ {Bad} : r = [m EXCEPT ![NumberField] = n]
    BY <1>1, <1>2, <1>5 DEF Outcomes
  <2>3. \A f \in Fields \ {NumberField} : r[f] = m[f]
    BY <1>1, <2>2
  <2> QED
    BY <1>1, <1>3, <2>1, <2>3, AgentWritesAssumption
<1> QED
  BY <1>4, <1>5

\* What is applied is what was approved (writeTools.ts:16-21): between the plan
\* and its write no change slips in that would not move the revision or show
\* to the gate.
THEOREM ApprovedTheorem == Spec => AppliedAsApproved
<1> DEFINE AsApproved(s) ==
      LET p == call[s].confirm IN
      /\ p \in given /\ ~p.blocked
      /\ p.request.kind = "update" =>
           /\ row[p.request.field] = p.from
           /\ row'[p.request.field] = p.request.to
           /\ \A f \in Fields \ {p.request.field} :
                row'[f] = row[f]
                \/ (f = NumberField /\ p.request.field = SceneField)
      /\ p.request.kind = "create" => row' = row
<1>1. ASSUME IInv, Next, NEW s \in Slots, Applies(s)
      PROVE  AsApproved(s)
  <2>1. /\ call[s].pc = "queued" /\ busy' = s /\ ~call[s].raced
        /\ applied' # applied
    BY <1>1 DEF Applies
  <2>2. TypeOK /\ CallInv /\ PlanInv /\ ReadInv
    BY <1>1 DEF IInv
  <2>3. Apply(s)
    <3>1. CASE busy # s
      BY <1>1, <2>1, <3>1, OnlyApply DEF ApplyFails
    <3>2. CASE busy = s
      BY <1>1, <2>1, <3>2, AppliedNeedsQueue, AgentWritesAssumption
    <3> QED
      BY <3>1, <3>2
  <2>4. call[s].revision = rev /\ busy = Nobody /\ row' \in Outcomes(s)
    BY <2>3 DEF Apply, Moved
  <2>5. call[s].read = row
    BY <2>1, <2>2, <2>4 DEF ReadInv, ReadAt, Undisturbed, HasRead
  <2>6. PlanAt(call[s]) /\ call[s].pc \in Approved
    BY <2>1, <2>2 DEF PlanInv, Approved
  <2>7. call[s].request \in Requests
    BY <2>1, <2>2 DEF CallInv, Coherent, HasRead
  <2>8. CASE call[s].request \in Updates
    BY <2>2, <2>4, <2>5, <2>6, <2>8, UpdateOutcome DEF PlanAt, Updates
  <2>9. CASE call[s].request \in Creates
    BY <2>4, <2>6, <2>9 DEF PlanAt, Creates, Outcomes
  <2> QED
    BY <2>7, <2>8, <2>9 DEF Requests
<1>2. ASSUME IInv, [Next]_vars
      PROVE  [\A s \in Slots : Applies(s) => AsApproved(s)]_vars
  BY <1>1, <1>2
<1> QED
  BY <1>2, Invariant, PTL DEF Spec, AppliedAsApproved

==============================================================================
