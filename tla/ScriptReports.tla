---------------------------- MODULE ScriptReports ----------------------------
(***************************************************************************)
(* What the program tells the writer about the structure of a film:        *)
(* structureFindings of scf-core/src/structure.ts, the section lines of    *)
(* findings.ts, and previewDerivedNumbering of ops/structureCommit.ts.     *)
(* All of them only read; each works out anew what the writes of           *)
(* Screenplay.tla also work out.                                           *)
(***************************************************************************)
EXTENDS Screenplay

(* Findings about spans.                                                    *)

Covers(f, pos, a) ==
  IF a \in Anchored(f.spans, pos) THEN SpanScenes(f.spans, pos, a) ELSE {}

NoBoundary(f) == {a \in DOMAIN f.spans : f.spans[a].start = None}

DanglingBoundary(f) ==
  {a \in DOMAIN f.spans : f.spans[a].start \notin DOMAIN f.scenes \cup {None}}

\* Pairs: a span, and the first of those that start where it starts.
SharedBoundary(f) ==
  {m \in (DOMAIN f.spans) \X (DOMAIN f.spans) :
     LET start == f.spans[m[1]].start
     IN  /\ m[1] # m[2]
         /\ start \in DOMAIN f.scenes /\ f.spans[m[2]].start = start
         /\ \A a \in DOMAIN f.spans : f.spans[a].start = start => m[2] <= a}

UnnumberedBoundary(f) ==
  {a \in DOMAIN f.spans : /\ f.spans[a].start \in DOMAIN f.scenes
                         /\ f.scenes[f.spans[a].start] = None}

\* Scenes no span has, once there are spans.
BeforeFirstSpan(f, pos) ==
  {s \in DOMAIN f.scenes :
     Anchored(f.spans, pos) # {} /\ SpanOf(f.spans, pos, s) = {}}

-----------------------------------------------------------------------------
(* Findings about section lines.                                            *)

\* A bound section line disagrees with its span's row: there is none, or it
\* has another name, or it starts elsewhere.
SectionMismatch(f) ==
  {i \in DOMAIN f.rows :
     LET row == f.rows[i]
     IN  /\ row.type = "section" /\ row.ref # None
         /\ \/ row.ref \notin DOMAIN f.spans
            \/ f.spans[row.ref].name # row.text
            \/ /\ f.spans[row.ref].start # None
               /\ SectionAnchor(f.rows, i)
                    \notin {None, f.spans[row.ref].start}}

-----------------------------------------------------------------------------
(* previewDerivedNumbering: what "derived" would rewrite at the next commit,*)
(* as the rows whose number or code would change (the code counts them).    *)

ScenesRenumbered(f, hint) ==
  {s \in DOMAIN hint : f.scenes[s] # hint[s] + 1}

ScenesCleared(f, hint) ==
  {s \in DOMAIN f.scenes \ DOMAIN hint : f.scenes[s] # None}

ShotsRestamped(f, hint) ==
  {h \in DOMAIN f.shots :
     LET shot == f.shots[h]
     IN  /\ shot.scene \in DOMAIN hint
         /\ Restamped(shot.code, f.scenes[shot.scene], hint[shot.scene] + 1)
              # shot.code}

SpansRenumbered(f, pos) ==
  {a \in Anchored(f.spans, pos) : f.spans[a].num # SpanNumber(f.spans, pos, a)}

\* Slip: the scenes outside the script are taken to keep their numbers.
PreviewPlaced(f, hint, pos) ==
  [scenes |-> ScenesRenumbered(f, hint),
   shots  |-> ShotsRestamped(f, hint),
   spans  |-> SpansRenumbered(f, pos)]

Preview(f, hint, pos) ==
  [scenes |-> ScenesRenumbered(f, hint) \cup ScenesCleared(f, hint),
   shots  |-> ShotsRestamped(f, hint),
   spans  |-> SpansRenumbered(f, pos)]
=============================================================================
