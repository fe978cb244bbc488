--------------------------- MODULE ScriptViewProofs ---------------------------
(***************************************************************************)
(* What holds of the script editor and the film below it for every set of  *)
(* lines, every opening film and every bound: the types, one heading to a  *)
(* scene, what a deleted scene gives back, what a commit does to numbers   *)
(* under each policy, and that the reports about structure are true.       *)
(*                                                                         *)
(* The invariant adds to the types that the window and the plans it has    *)
(* sent name only scenes the film has given out: a commit numbers the      *)
(* scenes it creates from the next one on, and were one of those named     *)
(* before, two headings would share it.  Each write of the host keeps      *)
(* FilmOK for any film that has it; the steps of the window follow.        *)
(***************************************************************************)
EXTENDS ScriptView, FiniteSetTheorems, SequenceTheorems, WellFoundedInduction,
        TLAPS

\* The scenes that lines name are ones the film has given out.
Given(rows, f) == \A i \in DOMAIN rows : rows[i].scene < f.next.scene

\* What the window remembers and has sent names no scene that is yet to come.
NamesInv ==
  /\ \A l \in DOMAIN prev : prev[l].scene < film.next.scene
  /\ Given(job.plan, film)
  /\ Given(stray.rows, film)

\* The inductive invariant.
IInv == TypeOK /\ NamesInv /\ OneHeadingPerScene

-----------------------------------------------------------------------------
(* Numbers and finite sets                                                  *)

LEMMA LeastExists ==
  ASSUME NEW S \in SUBSET Nat, S # {}
  PROVE  \E m \in S : \A k \in S : m <= k
<1>1. \E x \in S : \A y \in S : ~(<<y, x>> \in OpToRel(<, Nat))
  BY NatLessThanWellFounded, WFMin
<1>2. PICK x \in S : \A y \in S : ~(<<y, x>> \in OpToRel(<, Nat))
  BY <1>1
<1>3. \A y \in S : ~(y < x)
  BY <1>2 DEF OpToRel
<1>. QED
  BY <1>3

LEMMA GreatestExists ==
  ASSUME NEW S \in SUBSET Nat, S # {}, NEW n \in Nat, \A k \in S : k <= n
  PROVE  \E m \in S : \A k \in S : k <= m
<1> DEFINE T == {n - k : k \in S}
<1>0. \A k \in S : n - k \in Nat
  OBVIOUS
<1>1. T \in SUBSET Nat /\ T # {}
  BY <1>0
<1>2. PICK m \in T : \A k \in T : m <= k
  BY <1>1, LeastExists
<1>3. PICK x \in S : m = n - x
  OBVIOUS
<1>4. \A k \in S : n - x <= n - k
  BY <1>2, <1>3
<1>. QED
  BY <1>3, <1>4

LEMMA LastOfType ==
  ASSUME NEW S \in SUBSET Nat, S # {}, NEW n \in Nat, \A k \in S : k <= n
  PROVE  LastOf(S) \in S /\ \A k \in S : k <= LastOf(S)
<1>1. \E m \in S : \A k \in S : k <= m
  BY GreatestExists
<1>. QED
  BY <1>1 DEF LastOf

LEMMA Finite ==
  ASSUME NEW S \in SUBSET Nat, NEW n \in Nat, \A k \in S : k <= n
  PROVE  IsFiniteSet(S) /\ Cardinality(S) \in Nat
BY FS_BoundedSetOfNaturals, FS_CardinalityType

\* What is before x, counted, grows along an order.
LEMMA CountsGrow ==
  ASSUME NEW S, NEW T, IsFiniteSet(T), S \subseteq T, NEW x \in T, x \notin S
  PROVE  /\ Cardinality(S) \in Nat /\ Cardinality(T) \in Nat
         /\ Cardinality(S) < Cardinality(T)
BY FS_Subset, FS_CardinalityType

-----------------------------------------------------------------------------
(* Tables                                                                   *)

LEMMA PutOverTable ==
  ASSUME NEW R, NEW n, NEW t, NEW u, IsTable(t, R, n), IsTable(u, R, n)
  PROVE  /\ IsTable(PutOver(t, u), R, n)
         /\ DOMAIN PutOver(t, u) = DOMAIN t \cup DOMAIN u
         /\ \A k \in DOMAIN t \cup DOMAIN u :
              PutOver(t, u)[k] = IF k \in DOMAIN u THEN u[k] ELSE t[k]
BY DEF IsTable, PutOver

LEMMA TableGrows ==
  ASSUME NEW R, NEW n, NEW m \in Nat, NEW t, IsTable(t, R, n), n <= m
  PROVE  IsTable(t, R, m)
BY DEF IsTable

LEMMA OneRowTable ==
  ASSUME NEW R, NEW n \in Nat, NEW id \in 1..(n - 1), NEW row \in R
  PROVE  /\ IsTable(OneRow(id, row), R, n)
         /\ DOMAIN OneRow(id, row) = {id} /\ OneRow(id, row)[id] = row
BY DEF IsTable, OneRow

LEMMA InsertTable ==
  ASSUME NEW R, NEW n, NEW m, NEW t, NEW row, n \in Nat \ {0}, m = n + 1,
         row \in R, IsTable(t, R, n)
  PROVE  IsTable(PutOver(t, OneRow(n, row)), R, m)
<1>1. IsTable(t, R, m)
  BY TableGrows
<1>2. IsTable(OneRow(n, row), R, m)
  BY DEF IsTable, OneRow
<1>. QED
  BY <1>1, <1>2, PutOverTable

LEMMA TableFinite ==
  ASSUME NEW R, NEW n, NEW t, IsTable(t, R, n)
  PROVE  /\ IsFiniteSet(DOMAIN t) /\ DOMAIN t \in SUBSET Nat
         /\ n \in Nat \ {0} /\ \A k \in DOMAIN t : k < n
<1>1. n \in Nat /\ DOMAIN t \in SUBSET Nat /\ \A k \in DOMAIN t : k <= n /\ k < n
  BY DEF IsTable
<1>. QED
  BY <1>1, Finite DEF IsTable

-----------------------------------------------------------------------------
(* Lines                                                                    *)

LEMMA RowsType ==
  ASSUME NEW rows \in Seq(Row)
  PROVE  /\ Len(rows) \in Nat /\ DOMAIN rows = 1..Len(rows)
         /\ HeadingsOf(rows) \subseteq DOMAIN rows
         /\ HeadingsOf(rows) \in SUBSET Nat /\ IsFiniteSet(HeadingsOf(rows))
         /\ \A i \in HeadingsOf(rows) : i <= Len(rows)
         /\ \A i \in DOMAIN rows :
              /\ rows[i] \in Row /\ rows[i].scene \in Nat /\ rows[i].text \in Nat
              /\ rows[i].ref \in Nat
<1>1. /\ Len(rows) \in Nat /\ DOMAIN rows = 1..Len(rows)
      /\ \A i \in DOMAIN rows : rows[i] \in Row
  BY LenProperties
<1>2. /\ HeadingsOf(rows) \subseteq DOMAIN rows
      /\ HeadingsOf(rows) \in SUBSET Nat
      /\ \A i \in HeadingsOf(rows) : i <= Len(rows)
  BY <1>1 DEF HeadingsOf
<1>3. IsFiniteSet(HeadingsOf(rows))
  BY <1>1, <1>2, Finite
<1>. QED
  BY <1>1, <1>2, <1>3 DEF Row

\* The scene a section anchors to is that of a heading below it.
LEMMA AnchorType ==
  ASSUME NEW rows \in Seq(Row), NEW i \in DOMAIN rows
  PROVE  /\ SectionAnchor(rows, i) \in Nat
         /\ SectionAnchor(rows, i) # None =>
              \E j \in HeadingsOf(rows) : SectionAnchor(rows, i) = rows[j].scene
<1> DEFINE below == {j \in HeadingsOf(rows) : j > i /\ rows[j].scene # None}
<1>1. CASE below = {}
  BY <1>1 DEF SectionAnchor, None
<1>2. CASE below # {}
  <2>1. below \in SUBSET Nat
    BY RowsType
  <2>2. \E j \in below : \A k \in below : j <= k
    BY <1>2, <2>1, LeastExists
  <2>3. PICK j \in below : SectionAnchor(rows, i) = rows[j].scene
    BY <1>2, <2>2 DEF SectionAnchor
  <2>. QED
    BY <2>3, RowsType
<1>. QED
  BY <1>1, <1>2

\* The first heading of each scene of a script.
LEMMA FirstHeadingType ==
  ASSUME NEW rows \in Seq(Row), NEW s \in ScriptScenes(rows)
  PROVE  /\ s \in Nat /\ s # None
         /\ FirstHeading(rows, s) \in HeadingsOf(rows)
         /\ FirstHeading(rows, s) \in Nat
         /\ rows[FirstHeading(rows, s)].scene = s
<1> DEFINE of == {i \in HeadingsOf(rows) : rows[i].scene = s}
<1>1. of \in SUBSET Nat /\ of # {} /\ s \in Nat /\ s # None
  BY RowsType DEF ScriptScenes
<1>2. \E i \in of : \A j \in of : i <= j
  BY <1>1, LeastExists
<1>3. \E i \in HeadingsOf(rows) :
        /\ rows[i].scene = s
        /\ \A j \in HeadingsOf(rows) : rows[j].scene = s => i <= j
  BY <1>2
<1>. QED
  BY <1>1, <1>3, RowsType DEF FirstHeading

LEMMA ScriptScenesFinite ==
  ASSUME NEW rows \in Seq(Row)
  PROVE  IsFiniteSet(ScriptScenes(rows)) /\ ScriptScenes(rows) \in SUBSET Nat
<1> DEFINE all == {rows[i].scene : i \in HeadingsOf(rows)}
           at  == [i \in HeadingsOf(rows) |-> rows[i].scene]
<1>1. at \in Surjection(HeadingsOf(rows), all)
  BY DEF Surjection
<1>2. IsFiniteSet(all)
  BY <1>1, RowsType, FS_Surjection
<1>3. ScriptScenes(rows) \in SUBSET all
  BY DEF ScriptScenes
<1>. QED
  BY <1>2, <1>3, FS_Subset, RowsType

LEMMA HintType ==
  ASSUME NEW rows \in Seq(Row)
  PROVE  /\ SceneOrderHint(rows) \in [ScriptScenes(rows) -> Nat]
         /\ \A s, t \in ScriptScenes(rows) :
              FirstHeading(rows, s) < FirstHeading(rows, t)
                => SceneOrderHint(rows)[s] < SceneOrderHint(rows)[t]
<1> DEFINE before(s) == {t \in ScriptScenes(rows) :
                           FirstHeading(rows, t) < FirstHeading(rows, s)}
<1>1. \A s \in ScriptScenes(rows) :
        SceneOrderHint(rows)[s] = Cardinality(before(s))
  BY DEF SceneOrderHint
<1>2. ASSUME NEW s \in ScriptScenes(rows)
      PROVE  IsFiniteSet(before(s)) /\ Cardinality(before(s)) \in Nat
  BY ScriptScenesFinite, FS_Subset, FS_CardinalityType
<1>3. ASSUME NEW s \in ScriptScenes(rows), NEW t \in ScriptScenes(rows),
             FirstHeading(rows, s) < FirstHeading(rows, t)
      PROVE  Cardinality(before(s)) < Cardinality(before(t))
  <2>1. before(s) \subseteq before(t) /\ s \in before(t) /\ s \notin before(s)
    BY <1>3, FirstHeadingType
  <2>. QED
    BY <2>1, <1>2, CountsGrow
<1>. QED
  BY <1>1, <1>2, <1>3 DEF SceneOrderHint

LEMMA PositionsType ==
  ASSUME NEW hint, NEW scenes, IsFiniteSet(DOMAIN scenes)
  PROVE  ScenePositions(hint, scenes) \in [DOMAIN scenes -> Nat]
<1>1. ASSUME NEW s \in DOMAIN scenes
      PROVE  Cardinality({t \in DOMAIN scenes : SceneBefore(hint, scenes, t, s)}) \in Nat
  BY FS_Subset, FS_CardinalityType
<1>. QED
  BY <1>1 DEF ScenePositions

-----------------------------------------------------------------------------
(* Linking: a commit gives every scene to one heading                       *)

LEMMA UnlinkedType ==
  ASSUME NEW rows \in Seq(Row)
  PROVE  /\ Unlinked(rows) \subseteq HeadingsOf(rows)
         /\ IsFiniteSet(Unlinked(rows)) /\ Cardinality(Unlinked(rows)) \in Nat
         /\ \A i \in DOMAIN rows :
              /\ IsFiniteSet({j \in Unlinked(rows) : j < i})
              /\ Cardinality({j \in Unlinked(rows) : j < i}) \in Nat
         /\ \A i, j \in Unlinked(rows) :
              i < j => Cardinality({k \in Unlinked(rows) : k < i})
                         < Cardinality({k \in Unlinked(rows) : k < j})
         /\ \A i \in Unlinked(rows) :
              Cardinality({k \in Unlinked(rows) : k < i}) < Cardinality(Unlinked(rows))
<1> DEFINE U == Unlinked(rows)
           before(i) == {j \in U : j < i}
<1>1. U \subseteq HeadingsOf(rows)
  BY DEF Unlinked
<1>2. IsFiniteSet(U) /\ Cardinality(U) \in Nat
  BY <1>1, RowsType, FS_Subset, FS_CardinalityType
<1>3. \A i : IsFiniteSet(before(i)) /\ Cardinality(before(i)) \in Nat
  BY <1>2, FS_Subset, FS_CardinalityType
<1>4. ASSUME NEW i \in U, NEW j \in U, i < j
      PROVE  Cardinality(before(i)) < Cardinality(before(j))
  <2>1. before(i) \subseteq before(j) /\ i \in before(j) /\ i \notin before(i)
    BY <1>1, <1>4, RowsType
  <2>. QED
    BY <2>1, <1>3, CountsGrow
<1>5. ASSUME NEW i \in U
      PROVE  Cardinality(before(i)) < Cardinality(U)
  <2>1. before(i) \subseteq U /\ i \notin before(i)
    BY <1>1, RowsType
  <2>. QED
    BY <2>1, <1>2, CountsGrow
<1>. QED
  BY <1>1, <1>2, <1>3, <1>4, <1>5

\* The scene of a heading: the one it keeps, or one that is yet to be given out.
LEMMA HeadingSceneType ==
  ASSUME NEW f, f.next.scene \in Nat \ {0}, NEW rows \in Seq(Row), NEW new \in BOOLEAN,
         NEW i \in HeadingsOf(rows)
  PROVE  /\ HeadingScene(f, rows, new, i) \in Nat
         /\ i \notin Unlinked(rows) =>
              /\ HeadingScene(f, rows, new, i) = rows[i].scene
              /\ rows[i].scene # None /\ KeepsScene(rows, i)
         /\ i \in Unlinked(rows) /\ ~new => HeadingScene(f, rows, new, i) = None
         /\ i \in Unlinked(rows) /\ new =>
              /\ HeadingScene(f, rows, new, i)
                   = f.next.scene + Cardinality({j \in Unlinked(rows) : j < i})
              /\ HeadingScene(f, rows, new, i)
                   \in f.next.scene..(f.next.scene + Cardinality(Unlinked(rows)) - 1)
<1>1. /\ i \in DOMAIN rows /\ rows[i].scene \in Nat
      /\ i \in Unlinked(rows) <=> ~KeepsScene(rows, i)
  BY RowsType DEF Unlinked
<1>2. Cardinality({j \in Unlinked(rows) : j < i}) \in Nat
  BY <1>1, UnlinkedType
<1>3. i \in Unlinked(rows) =>
        Cardinality({j \in Unlinked(rows) : j < i}) < Cardinality(Unlinked(rows))
  BY UnlinkedType
<1>4. Cardinality(Unlinked(rows)) \in Nat
  BY UnlinkedType
<1>5. KeepsScene(rows, i) => rows[i].scene # None
  BY DEF KeepsScene
<1>. QED
  BY <1>1, <1>2, <1>3, <1>4, <1>5 DEF HeadingScene, None

LEMMA LinkedRowsType ==
  ASSUME NEW f, f.next.scene \in Nat \ {0}, NEW rows \in Seq(Row), NEW new \in BOOLEAN
  PROVE  LET linked == LinkedRows(f, rows, new)
         IN  /\ linked \in Seq(Row)
             /\ DOMAIN linked = DOMAIN rows
             /\ HeadingsOf(linked) = HeadingsOf(rows)
             /\ \A i \in HeadingsOf(rows) :
                  linked[i].scene = HeadingScene(f, rows, new, i)
             /\ \A i \in DOMAIN rows :
                  /\ linked[i].id = rows[i].id /\ linked[i].type = rows[i].type
                  /\ linked[i].text = rows[i].text /\ linked[i].ref = rows[i].ref
                  /\ \/ linked[i].scene = None
                     \/ \E j \in HeadingsOf(rows) : linked[i].scene = linked[j].scene
<1> DEFINE linked == LinkedRows(f, rows, new)
           above(i) == {j \in HeadingsOf(rows) : j <= i}
           nearest(i) == CHOOSE j \in above(i) : \A k \in above(i) : k <= j
           scene(i) == IF above(i) = {} THEN None
                       ELSE HeadingScene(f, rows, new, nearest(i))
<1>1. linked = [i \in DOMAIN rows |-> [rows[i] EXCEPT !.scene = scene(i)]]
  BY DEF LinkedRows
<1>2. ASSUME NEW i \in DOMAIN rows, above(i) # {}
      PROVE  nearest(i) \in above(i) /\ \A k \in above(i) : k <= nearest(i)
  <2>1. above(i) \in SUBSET Nat /\ i \in Nat /\ \A k \in above(i) : k <= i
    BY RowsType
  <2>2. \E j \in above(i) : \A k \in above(i) : k <= j
    BY <2>1, <1>2, GreatestExists
  <2>. QED
    BY <2>2
<1>3. ASSUME NEW i \in DOMAIN rows
      PROVE  scene(i) \in Nat
  BY <1>2, HeadingSceneType DEF None
<1>4. ASSUME NEW i \in HeadingsOf(rows)
      PROVE  scene(i) = HeadingScene(f, rows, new, i)
  <2>1. i \in above(i) /\ i \in DOMAIN rows /\ i \in Nat
    BY RowsType
  <2>2. nearest(i) \in above(i) /\ i <= nearest(i)
    BY <2>1, <1>2
  <2>3. nearest(i) = i
    BY <2>1, <2>2, RowsType
  <2>. QED
    BY <2>1, <2>3
<1>. HIDE DEF scene, linked
<1>5. \A i \in DOMAIN rows :
        /\ linked[i] \in Row
        /\ linked[i].id = rows[i].id /\ linked[i].type = rows[i].type
        /\ linked[i].text = rows[i].text /\ linked[i].ref = rows[i].ref
        /\ linked[i].scene = scene(i)
  BY <1>1, <1>3, RowsType DEF Row
<1>6. /\ DOMAIN linked = DOMAIN rows /\ linked \in Seq(Row)
      /\ HeadingsOf(linked) = HeadingsOf(rows)
  <2>1. DOMAIN linked = DOMAIN rows
    BY <1>1
  <2>2. linked \in [1..Len(rows) -> Row] /\ Len(rows) \in Nat
    BY <1>1, <1>5, RowsType
  <2>3. linked \in Seq(Row)
    BY <2>2, SeqDef
  <2>. QED
    BY <2>1, <2>3, <1>5 DEF HeadingsOf
<1>7. ASSUME NEW i \in DOMAIN rows
      PROVE  \/ linked[i].scene = None
             \/ \E j \in HeadingsOf(rows) : linked[i].scene = linked[j].scene
  <2>1. CASE above(i) = {}
    BY <2>1, <1>5 DEF scene
  <2>2. CASE above(i) # {}
    <3>1. nearest(i) \in HeadingsOf(rows)
      BY <2>2, <1>2
    <3>2. scene(i) = scene(nearest(i))
      BY <3>1, <2>2, <1>4 DEF scene
    <3>. QED
      BY <3>1, <3>2, <1>5, RowsType
  <2>. QED
    BY <2>1, <2>2
<1>. QED
  BY <1>4, <1>5, <1>6, <1>7, RowsType DEF linked

LEMMA LinkedOneHeading ==
  ASSUME NEW f, f.next.scene \in Nat \ {0}, NEW rows \in Seq(Row), NEW new \in BOOLEAN,
         Given(rows, f)
  PROVE  OneHeadingEach(LinkedRows(f, rows, new))
<1> DEFINE linked == LinkedRows(f, rows, new)
           scene(i) == HeadingScene(f, rows, new, i)
           before(i) == {k \in Unlinked(rows) : k < i}
<1>1. /\ HeadingsOf(linked) = HeadingsOf(rows)
      /\ \A i \in HeadingsOf(rows) : linked[i].scene = scene(i)
  BY LinkedRowsType
<1>a. ASSUME NEW i \in HeadingsOf(rows), i \notin Unlinked(rows)
      PROVE  scene(i) = rows[i].scene /\ KeepsScene(rows, i)
  BY <1>a DEF HeadingScene, Unlinked
<1>b. ASSUME NEW i \in HeadingsOf(rows), i \in Unlinked(rows), new
      PROVE  /\ scene(i) = f.next.scene + Cardinality(before(i))
             /\ scene(i) \in f.next.scene..(f.next.scene + Cardinality(Unlinked(rows)) - 1)
  <2>1. scene(i) = f.next.scene + Cardinality(before(i))
    BY <1>b DEF HeadingScene, Unlinked
  <2>2. Cardinality(before(i)) < Cardinality(Unlinked(rows))
    BY <1>b, UnlinkedType
  <2>3. Cardinality(before(i)) \in Nat /\ Cardinality(Unlinked(rows)) \in Nat
    BY UnlinkedType, RowsType
  <2>. QED
    BY <2>1, <2>2, <2>3
<1>2. ASSUME NEW i \in HeadingsOf(rows), NEW j \in HeadingsOf(rows), i < j,
             scene(i) = scene(j), scene(i) # None
      PROVE  FALSE
  <2>0. /\ i \in DOMAIN rows /\ j \in DOMAIN rows
        /\ rows[i].scene \in Nat /\ rows[j].scene \in Nat
        /\ rows[i].scene < f.next.scene /\ rows[j].scene < f.next.scene
    BY RowsType DEF Given
  <2>1. CASE i \notin Unlinked(rows) /\ j \notin Unlinked(rows)
    <3>1. scene(i) = rows[i].scene /\ scene(j) = rows[j].scene /\ KeepsScene(rows, j)
      BY <2>1, <1>a
    <3>. QED
      BY <3>1, <1>2 DEF KeepsScene
  <2>2. CASE i \in Unlinked(rows) /\ j \in Unlinked(rows)
    <3>1. new
      BY <2>2, <1>2, HeadingSceneType
    <3>2. scene(i) = f.next.scene + Cardinality(before(i))
      BY <2>2, <3>1, <1>b
    <3>3. scene(j) = f.next.scene + Cardinality(before(j))
      BY <2>2, <3>1, <1>b
    <3>4. Cardinality(before(i)) < Cardinality(before(j))
      BY <2>2, <1>2, UnlinkedType
    <3>5. Cardinality(before(i)) \in Nat /\ Cardinality(before(j)) \in Nat
      BY <2>0, UnlinkedType
    <3>. QED
      BY <3>2, <3>3, <3>4, <3>5, <1>2
  <2>3. CASE i \in Unlinked(rows) /\ j \notin Unlinked(rows)
    <3>1. new
      BY <2>3, <1>2, HeadingSceneType
    <3>2. scene(i) \in f.next.scene..(f.next.scene + Cardinality(Unlinked(rows)) - 1)
      BY <2>3, <3>1, <1>b
    <3>3. scene(j) = rows[j].scene
      BY <2>3, <1>a
    <3>. QED
      BY <3>2, <3>3, <1>2, <2>0
  <2>4. CASE i \notin Unlinked(rows) /\ j \in Unlinked(rows)
    <3>1. new
      BY <2>4, <1>2, HeadingSceneType
    <3>2. scene(j) \in f.next.scene..(f.next.scene + Cardinality(Unlinked(rows)) - 1)
      BY <2>4, <3>1, <1>b
    <3>3. scene(i) = rows[i].scene
      BY <2>4, <1>a
    <3>. QED
      BY <3>2, <3>3, <1>2, <2>0
  <2>. QED
    BY <2>1, <2>2, <2>3, <2>4
<1>3. \A i, j \in HeadingsOf(rows) : i = j \/ i < j \/ j < i
  BY RowsType
<1>. QED
  BY <1>1, <1>2, <1>3 DEF OneHeadingEach

-----------------------------------------------------------------------------
(* Sections: a commit moves boundaries and names, and adds spans            *)

LEMMA SectionsType ==
  ASSUME NEW rows \in Seq(Row)
  PROVE  /\ Sections(rows) \subseteq DOMAIN rows /\ Sections(rows) \in SUBSET Nat
         /\ IsFiniteSet(Sections(rows))
         /\ \A i \in Sections(rows) : i <= Len(rows)
<1>1. /\ Sections(rows) \subseteq DOMAIN rows /\ Sections(rows) \in SUBSET Nat
      /\ \A i \in Sections(rows) : i <= Len(rows)
  BY RowsType DEF Sections
<1>. QED
  BY <1>1, RowsType, Finite

LEMMA NamedSpanType ==
  ASSUME NEW spans, NEW next, IsTable(spans, Span, next), NEW row \in Row
  PROVE  /\ NamedSpan(spans, row) \in Nat
         /\ NamedSpan(spans, row) # None => NamedSpan(spans, row) \in DOMAIN spans
<1> DEFINE named == {a \in DOMAIN spans : spans[a].name = row.text}
<1>1. /\ next \in Nat /\ named \in SUBSET Nat /\ \A a \in named : a <= next
      /\ DOMAIN spans \in SUBSET Nat
  BY TableFinite
<1>2. CASE named = {}
  BY <1>1, <1>2 DEF NamedSpan, None
<1>3. CASE named # {}
  <2>1. \E a \in named : \A b \in named : b <= a
    BY <1>1, <1>3, GreatestExists
  <2>2. (CHOOSE a \in named : \A b \in named : b <= a) \in named
    BY <2>1
  <2>. QED
    BY <1>1, <1>3, <2>2 DEF NamedSpan, None
<1>. QED
  BY <1>2, <1>3

LEMMA CreatingType ==
  ASSUME NEW spans, NEW rows \in Seq(Row)
  PROVE  /\ Creating(spans, rows) \subseteq Sections(rows)
         /\ IsFiniteSet(Creating(spans, rows)) /\ Cardinality(Creating(spans, rows)) \in Nat
         /\ \A i \in Sections(rows) :
              NamedSpan(spans, rows[i]) = None =>
                \E j \in Creating(spans, rows) : rows[j].text = rows[i].text
         /\ \A i \in Creating(spans, rows) : NamedSpan(spans, rows[i]) = None
         /\ \A i \in Creating(spans, rows) :
              /\ Cardinality({j \in Creating(spans, rows) : j < i}) \in Nat
              /\ Cardinality({j \in Creating(spans, rows) : j < i})
                   < Cardinality(Creating(spans, rows))
<1> DEFINE C == Creating(spans, rows)
           before(i) == {j \in C : j < i}
           like(i) == {j \in Sections(rows) :
                         /\ NamedSpan(spans, rows[j]) = None
                         /\ rows[j].text = rows[i].text}
<1>1. C \subseteq Sections(rows)
  BY DEF Creating
<1>2. IsFiniteSet(C) /\ Cardinality(C) \in Nat
  BY <1>1, SectionsType, FS_Subset, FS_CardinalityType
<1>3. ASSUME NEW i \in Sections(rows), NamedSpan(spans, rows[i]) = None
      PROVE  \E j \in C : rows[j].text = rows[i].text
  <2>1. i \in like(i) /\ like(i) \in SUBSET Nat
    BY <1>3, SectionsType
  <2>2. PICK j \in like(i) : \A k \in like(i) : j <= k
    BY <2>1, LeastExists
  <2>3. j \in C
    BY <2>2 DEF Creating
  <2>. QED
    BY <2>2, <2>3
<1>4. ASSUME NEW i \in C
      PROVE  Cardinality(before(i)) \in Nat /\ Cardinality(before(i)) < Cardinality(C)
  <2>1. before(i) \subseteq C /\ i \notin before(i)
    BY <1>1, SectionsType
  <2>. QED
    BY <2>1, <1>2, CountsGrow
<1>5. \A i \in C : NamedSpan(spans, rows[i]) = None
  BY DEF Creating
<1>. QED
  BY <1>1, <1>2, <1>3, <1>4, <1>5

LEMMA BoundSpanType ==
  ASSUME NEW f, IsTable(f.spans, Span, f.next.span),
         NEW rows \in Seq(Row), NEW new \in BOOLEAN, NEW i \in Sections(rows)
  PROVE  /\ BoundSpan(f, rows, new, i) \in Nat
         /\ NamedSpan(f.spans, rows[i]) # None =>
              /\ BoundSpan(f, rows, new, i) = NamedSpan(f.spans, rows[i])
              /\ BoundSpan(f, rows, new, i) \in DOMAIN f.spans
         /\ NamedSpan(f.spans, rows[i]) = None /\ ~new =>
              BoundSpan(f, rows, new, i) = None
         /\ NamedSpan(f.spans, rows[i]) = None /\ new =>
              BoundSpan(f, rows, new, i)
                \in f.next.span..(f.next.span + Cardinality(Creating(f.spans, rows)) - 1)
<1> DEFINE C     == Creating(f.spans, rows)
           first == CHOOSE j \in C : rows[j].text = rows[i].text
<1>1. f.next.span \in Nat \ {0}
  BY DEF IsTable
<1>2. rows[i] \in Row
  BY SectionsType, RowsType
<1>3. CASE NamedSpan(f.spans, rows[i]) # None
  BY <1>3, <1>2, NamedSpanType DEF BoundSpan
<1>4. CASE NamedSpan(f.spans, rows[i]) = None
  <2>1. first \in C
    BY <1>4, CreatingType
  <2>2. /\ Cardinality({j \in C : j < first}) \in Nat
        /\ Cardinality({j \in C : j < first}) < Cardinality(C)
        /\ Cardinality(C) \in Nat
    BY <2>1, CreatingType
  <2>3. BoundSpan(f, rows, new, i)
          = IF new THEN f.next.span + Cardinality({j \in C : j < first}) ELSE None
    BY <1>4 DEF BoundSpan
  <2>. QED
    BY <1>1, <1>4, <2>2, <2>3 DEF None
<1>. QED
  BY <1>3, <1>4

\* What commitStructure makes of the sections: lines that differ in their span
\* alone, and a table of spans that has every span there was, with its number.
LEMMA CommitSectionsType ==
  ASSUME NEW f, IsTable(f.spans, Span, f.next.span),
         NEW rows \in Seq(Row), NEW new \in BOOLEAN,
         NEW bound, bound = CommitSections(f, rows, new)
  PROVE  /\ bound.rows \in Seq(Row) /\ DOMAIN bound.rows = DOMAIN rows
         /\ \A i \in DOMAIN rows :
              /\ bound.rows[i].id = rows[i].id /\ bound.rows[i].type = rows[i].type
              /\ bound.rows[i].text = rows[i].text /\ bound.rows[i].scene = rows[i].scene
         /\ IsTable(bound.spans, Span, bound.next)
         /\ bound.next \in Nat /\ f.next.span <= bound.next
         /\ DOMAIN f.spans \subseteq DOMAIN bound.spans
         /\ \A a \in DOMAIN f.spans : bound.spans[a].num = f.spans[a].num
         /\ ~new => DOMAIN bound.spans = DOMAIN f.spans
<1> DEFINE S == Sections(rows)
           span == [i \in Sections(rows) |-> BoundSpan(f, rows, new, i)]
           creating == IF new THEN Creating(f.spans, rows) ELSE {}
           of(a)    == {i \in DOMAIN span : span[i] = a}
           old(a)   == IF a \in DOMAIN f.spans THEN f.spans[a]
                       ELSE [name |-> rows[LastOf(of(a))].text, start |-> None, num |-> None]
           names(a) == {i \in of(a) : rows[i].ref = a /\ rows[i].text # old(a).name}
           all      == DOMAIN f.spans \cup {span[i] : i \in creating}
           name(a)  == IF names(a) = {} THEN old(a).name
                       ELSE rows[LastOf(names(a))].text
           start(a) == IF of(a) = {} THEN old(a).start
                       ELSE SectionAnchor(rows, LastOf(of(a)))
           next     == f.next.span + Cardinality(creating)
<1>1. /\ bound.spans = [a \in all |-> [name |-> name(a), start |-> start(a), num |-> old(a).num]]
      /\ bound.next = next
      /\ bound.rows = [i \in DOMAIN rows |->
                         IF i \in DOMAIN span /\ span[i] # None
                         THEN [rows[i] EXCEPT !.ref = span[i]] ELSE rows[i]]
  BY DEF CommitSections, BindSections
<1>2. /\ f.next.span \in Nat \ {0} /\ IsFiniteSet(creating) /\ Cardinality(creating) \in Nat
      /\ creating \subseteq S
      /\ ~new => creating = {}
  <2>1. f.next.span \in Nat \ {0}
    BY DEF IsTable
  <2>. QED
    BY <2>1, CreatingType, FS_EmptySet
<1>3. \A i \in S : span[i] \in Nat
  BY BoundSpanType
<1>4. \A i \in creating : span[i] \in f.next.span..(next - 1)
  <2> SUFFICES ASSUME NEW i \in creating
               PROVE  span[i] \in f.next.span..(next - 1)
    OBVIOUS
  <2>1. new /\ i \in Creating(f.spans, rows) /\ i \in Sections(rows)
    BY <1>2
  <2>2. NamedSpan(f.spans, rows[i]) = None
    BY <2>1, CreatingType
  <2>3. BoundSpan(f, rows, new, i)
          \in f.next.span..(f.next.span + Cardinality(Creating(f.spans, rows)) - 1)
    BY <2>1, <2>2, BoundSpanType
  <2>4. span[i] = BoundSpan(f, rows, new, i) /\ creating = Creating(f.spans, rows)
    BY <2>1
  <2>. HIDE DEF span, creating
  <2>5. Cardinality(creating) = Cardinality(Creating(f.spans, rows))
    BY <2>4
  <2>6. next = f.next.span + Cardinality(Creating(f.spans, rows))
    BY <2>5
  <2>7. f.next.span \in Nat /\ Cardinality(Creating(f.spans, rows)) \in Nat
    BY <1>2, CreatingType
  <2>. HIDE DEF next
  <2>. QED
    BY <2>3, <2>4, <2>6, <2>7
<1>5. ASSUME NEW T \in SUBSET S, T # {}
      PROVE  LastOf(T) \in T /\ LastOf(T) \in DOMAIN rows
  <2>1. T \in SUBSET Nat /\ \A k \in T : k <= Len(rows)
    BY SectionsType
  <2>2. LastOf(T) \in T
    BY <2>1, <1>5, LastOfType, RowsType
  <2>. QED
    BY <2>2, SectionsType
<1>6. ASSUME NEW a \in all
      PROVE  old(a) \in Span
  <2>1. CASE a \in DOMAIN f.spans
    BY <2>1 DEF IsTable
  <2>2. CASE a \notin DOMAIN f.spans
    <3>1. of(a) # {} /\ of(a) \in SUBSET S
      BY <2>2, <1>2
    <3>2. rows[LastOf(of(a))].text \in Nat
      BY <3>1, <1>5, RowsType
    <3>. QED
      BY <2>2, <3>2 DEF Span, None
  <2>. QED
    BY <2>1, <2>2
<1>7. ASSUME NEW a \in all
      PROVE  [name |-> name(a), start |-> start(a), num |-> old(a).num] \in Span
  <2>1. old(a).name \in Nat /\ old(a).start \in Nat /\ old(a).num \in Nat
    BY <1>6 DEF Span
  <2>2. name(a) \in Nat
    <3>1. names(a) \in SUBSET S
      OBVIOUS
    <3>2. names(a) # {} => rows[LastOf(names(a))].text \in Nat
      BY <3>1, <1>5, RowsType
    <3>. QED
      BY <2>1, <3>2
  <2>3. start(a) \in Nat
    <3>1. of(a) \in SUBSET S
      OBVIOUS
    <3>2. of(a) # {} => SectionAnchor(rows, LastOf(of(a))) \in Nat
      BY <3>1, <1>5, AnchorType
    <3>. QED
      BY <2>1, <3>2
  <2>. QED
    BY <2>1, <2>2, <2>3 DEF Span
<1>8. /\ bound.rows \in Seq(Row) /\ DOMAIN bound.rows = DOMAIN rows
      /\ \A i \in DOMAIN rows :
           /\ bound.rows[i].id = rows[i].id /\ bound.rows[i].type = rows[i].type
           /\ bound.rows[i].text = rows[i].text /\ bound.rows[i].scene = rows[i].scene
  <2>5. DOMAIN span = Sections(rows)
    OBVIOUS
  <2>. HIDE DEF span
  <2>0. \A i \in DOMAIN rows :
          bound.rows[i] = IF i \in Sections(rows) /\ span[i] # None
                          THEN [rows[i] EXCEPT !.ref = span[i]] ELSE rows[i]
    BY <1>1, <2>5
  <2>1. ASSUME NEW i \in DOMAIN rows
        PROVE  /\ bound.rows[i] \in Row
               /\ bound.rows[i].id = rows[i].id /\ bound.rows[i].type = rows[i].type
               /\ bound.rows[i].text = rows[i].text /\ bound.rows[i].scene = rows[i].scene
    <3>1. rows[i] \in Row
      BY RowsType
    <3>2. CASE i \in Sections(rows) /\ span[i] # None
      BY <2>0, <3>1, <3>2, <1>3 DEF Row
    <3>3. CASE ~(i \in Sections(rows) /\ span[i] # None)
      BY <2>0, <3>1, <3>3 DEF Row
    <3>. QED
      BY <3>2, <3>3
  <2>2. DOMAIN bound.rows = DOMAIN rows
    BY <1>1
  <2>3. bound.rows \in [1..Len(rows) -> Row] /\ Len(rows) \in Nat
    <3>1. bound.rows = [i \in DOMAIN rows |-> bound.rows[i]]
      BY <1>1
    <3>. QED
      BY <2>1, <3>1, RowsType
  <2>4. bound.rows \in Seq(Row)
    BY <2>3, SeqDef
  <2>. QED
    BY <2>1, <2>2, <2>4
<1>9. IsTable(bound.spans, Span, bound.next)
  <2>0. \A i \in creating : span[i] \in f.next.span..(next - 1)
    BY <1>4
  <2>4. DOMAIN f.spans \subseteq 1..(f.next.span - 1)
    BY DEF IsTable
  <2>. HIDE DEF span, creating, of, old, names, name, start
  <2>1. DOMAIN bound.spans = all
    BY <1>1
  <2>2. \A a \in all : bound.spans[a] \in Span
    BY <1>1, <1>7
  <2>3. bound.spans \in [all -> Span]
    BY <1>1, <2>2
  <2>5. all \subseteq 1..(next - 1)
    BY <2>0, <2>4, <1>2
  <2>6. next \in Nat \ {0} /\ bound.next = next
    BY <1>1, <1>2
  <2>. HIDE DEF all, next
  <2>. QED
    BY <2>1, <2>3, <2>5, <2>6 DEF IsTable
<1>10. \A a \in DOMAIN f.spans : bound.spans[a].num = f.spans[a].num
  <2>1. \A a \in DOMAIN f.spans : a \in all /\ old(a) = f.spans[a]
    OBVIOUS
  <2>. HIDE DEF all, old, name, start
  <2>. QED
    BY <1>1, <2>1
<1>11. /\ DOMAIN bound.spans = DOMAIN f.spans \cup {span[i] : i \in creating}
       /\ bound.next \in Nat /\ f.next.span <= bound.next
  <2>1. bound.next = f.next.span + Cardinality(creating)
    BY <1>1
  <2>2. DOMAIN bound.spans = all
    BY <1>1
  <2>. HIDE DEF span, creating
  <2>. QED
    BY <2>1, <2>2, <1>2
<1>. HIDE DEF span, creating
<1>. QED
  BY <1>11, <1>2, <1>8, <1>9, <1>10

-----------------------------------------------------------------------------
(* What follows from the order of the scenes                                *)

LEMMA RenumberScenesType ==
  ASSUME NEW policy, NEW scenes, NEW n, NEW hint,
         IsTable(scenes, Nat, n), hint \in [DOMAIN hint -> Nat]
  PROVE  /\ IsTable(RenumberScenes(policy, scenes, hint), Nat, n)
         /\ DOMAIN RenumberScenes(policy, scenes, hint) = DOMAIN scenes
<1>1. \A s \in DOMAIN hint : hint[s] + 1 \in Nat
  OBVIOUS
<1>. QED
  BY <1>1 DEF IsTable, RenumberScenes, None

LEMMA RestampShotsType ==
  ASSUME NEW policy, NEW shots, NEW n, NEW scenes, NEW hint,
         IsTable(shots, Shot, n), hint \in [DOMAIN hint -> Nat]
  PROVE  /\ IsTable(RestampShots(policy, shots, scenes, hint), Shot, n)
         /\ DOMAIN RestampShots(policy, shots, scenes, hint) = DOMAIN shots
         /\ \A h \in DOMAIN shots :
              RestampShots(policy, shots, scenes, hint)[h].scene = shots[h].scene
<1> DEFINE new == RestampShots(policy, shots, scenes, hint)
<1>1. ASSUME NEW h \in DOMAIN shots
      PROVE  new[h] \in Shot /\ new[h].scene = shots[h].scene
  <2>1. shots[h] \in Shot
    BY DEF IsTable
  <2>2. CASE policy = "derived" /\ shots[h].scene \in DOMAIN hint
    <3> DEFINE code == Restamped(shots[h].code, scenes[shots[h].scene],
                                 hint[shots[h].scene] + 1)
    <3>1. hint[shots[h].scene] + 1 \in Nat /\ shots[h].code \in Code
      BY <2>1, <2>2 DEF Shot
    <3>2. code \in Code
      BY <3>1 DEF Restamped, Code
    <3>3. new[h] = [shots[h] EXCEPT !.code = code]
      BY <2>2 DEF RestampShots
    <3>. HIDE DEF code, new
    <3>. QED
      BY <2>1, <3>2, <3>3 DEF Shot
  <2>3. CASE ~(policy = "derived" /\ shots[h].scene \in DOMAIN hint)
    BY <2>1, <2>3 DEF RestampShots
  <2>. QED
    BY <2>2, <2>3
<1>2. DOMAIN new = DOMAIN shots /\ new = [h \in DOMAIN shots |-> new[h]]
  BY DEF RestampShots
<1>. HIDE DEF new
<1>3. IsTable(new, Shot, n)
  BY <1>1, <1>2 DEF IsTable
<1>. QED
  BY <1>1, <1>2, <1>3 DEF new

LEMMA SpanNumberType ==
  ASSUME NEW spans, IsFiniteSet(DOMAIN spans), NEW pos, NEW a
  PROVE  SpanNumber(spans, pos, a) \in Nat
<1>1. {b \in Anchored(spans, pos) : SpanBefore(spans, pos, b, a)} \subseteq DOMAIN spans
  BY DEF Anchored
<1>2. Cardinality({b \in Anchored(spans, pos) : SpanBefore(spans, pos, b, a)}) \in Nat
  BY <1>1, FS_Subset, FS_CardinalityType
<1>. QED
  BY <1>2 DEF SpanNumber

LEMMA RenumberSpansType ==
  ASSUME NEW policy, NEW spans, NEW n, NEW pos, NEW new,
         IsTable(spans, Span, n), new = RenumberSpans(policy, spans, pos)
  PROVE  /\ IsTable(new, Span, n)
         /\ DOMAIN new = DOMAIN spans
         /\ \A a \in DOMAIN spans :
              /\ new[a].start = spans[a].start /\ new[a].name = spans[a].name
              /\ policy = "derived" /\ a \in Anchored(spans, pos)
                   => new[a].num = SpanNumber(spans, pos, a)
              /\ ~(policy = "derived" /\ a \in Anchored(spans, pos))
                   => new[a].num = spans[a].num
<1>1. new = [a \in DOMAIN spans |->
               IF policy = "derived" /\ a \in Anchored(spans, pos)
               THEN [spans[a] EXCEPT !.num = SpanNumber(spans, pos, a)]
               ELSE spans[a]]
  BY DEF RenumberSpans
<1>2. ASSUME NEW a \in DOMAIN spans
      PROVE  SpanNumber(spans, pos, a) \in Nat /\ spans[a] \in Span
  BY TableFinite, SpanNumberType DEF IsTable
<1>3. ASSUME NEW a \in DOMAIN spans
      PROVE  /\ new[a] \in Span
             /\ new[a].start = spans[a].start /\ new[a].name = spans[a].name
             /\ policy = "derived" /\ a \in Anchored(spans, pos)
                  => new[a].num = SpanNumber(spans, pos, a)
             /\ ~(policy = "derived" /\ a \in Anchored(spans, pos))
                  => new[a].num = spans[a].num
  <2>1. CASE policy = "derived" /\ a \in Anchored(spans, pos)
    BY <1>1, <1>2, <2>1 DEF Span
  <2>2. CASE ~(policy = "derived" /\ a \in Anchored(spans, pos))
    BY <1>1, <1>2, <2>2 DEF Span
  <2>. QED
    BY <2>1, <2>2
<1>4. DOMAIN new = DOMAIN spans /\ new = [a \in DOMAIN spans |-> new[a]]
  BY <1>1
<1>5. IsTable(new, Span, n)
  BY <1>3, <1>4 DEF IsTable
<1>. QED
  BY <1>3, <1>4, <1>5

LEMMA DerivedMembersType ==
  ASSUME NEW spans, NEW pos, pos \in [DOMAIN pos -> Nat]
  PROVE  DerivedMembers(spans, pos) \in [DOMAIN DerivedMembers(spans, pos) -> Nat]
<1> DEFINE of == {m \in (DOMAIN pos) \X Anchored(spans, pos) :
                    m[1] \in SpanScenes(spans, pos, m[2])}
<1>1. ASSUME NEW m \in of
      PROVE  pos[m[1]] - pos[spans[m[2]].start] + 1 \in Nat
  <2>1. /\ m[1] \in DOMAIN pos /\ spans[m[2]].start \in DOMAIN pos
        /\ pos[m[1]] >= pos[spans[m[2]].start]
    BY DEF Anchored, SpanScenes
  <2>. QED
    BY <2>1
<1>2. DerivedMembers(spans, pos) = [m \in of |-> pos[m[1]] - pos[spans[m[2]].start] + 1]
  BY DEF DerivedMembers
<1>. QED
  BY <1>1, <1>2

LEMMA PutOverNat ==
  ASSUME NEW t, NEW u, t \in [DOMAIN t -> Nat], u \in [DOMAIN u -> Nat]
  PROVE  PutOver(t, u) \in [DOMAIN PutOver(t, u) -> Nat]
BY DEF PutOver

\* The order a script gives its scenes, and every scene's place in it.
LEMMA OrderType ==
  ASSUME NEW rows \in Seq(Row), NEW scenes, NEW n, IsTable(scenes, Nat, n)
  PROVE  /\ SceneOrderHint(rows) \in [DOMAIN SceneOrderHint(rows) -> Nat]
         /\ ScenePositions(SceneOrderHint(rows), scenes) \in [DOMAIN scenes -> Nat]
         /\ DOMAIN ScenePositions(SceneOrderHint(rows), scenes) = DOMAIN scenes
<1>1. SceneOrderHint(rows) \in [DOMAIN SceneOrderHint(rows) -> Nat]
  BY HintType
<1>2. ScenePositions(SceneOrderHint(rows), scenes) \in [DOMAIN scenes -> Nat]
  BY TableFinite, PositionsType
<1>. QED
  BY <1>1, <1>2

\* A film is a record of its tables: a write changes some and keeps the rest.
Tables   == {"rows", "scenes", "spans", "shots", "members", "policy", "next"}
Counters == {"scene", "span", "shot"}

IsFilm(f) ==
  /\ DOMAIN f = Tables /\ f = [x \in DOMAIN f |-> f[x]]
  /\ DOMAIN f.next = Counters /\ f.next = [x \in DOMAIN f.next |-> f.next[x]]

\* The tables of a film fit.
FilmFits(f) ==
  /\ f.rows \in Seq(Row)
  /\ IsTable(f.scenes, Nat, f.next.scene)
  /\ IsTable(f.spans, Span, f.next.span)
  /\ IsTable(f.shots, Shot, f.next.shot)
  /\ f.members \in [DOMAIN f.members -> Nat]
  /\ f.policy \in {"derived", "fixed"}
  /\ \A i \in DOMAIN f.rows : f.rows[i].scene \in DOMAIN f.scenes \cup {None}

LEMMA FilmShape ==
  ASSUME NEW f
  PROVE  FilmOK(f) <=> IsFilm(f) /\ FilmFits(f)
<1> DEFINE flat == f = [rows |-> f.rows, scenes |-> f.scenes, spans |-> f.spans,
                        shots |-> f.shots, members |-> f.members, policy |-> f.policy,
                        next |-> [scene |-> f.next.scene, span |-> f.next.span,
                                  shot |-> f.next.shot]]
<1>1. ASSUME flat PROVE IsFilm(f)
  BY <1>1 DEF IsFilm, Tables, Counters
<1>2. ASSUME IsFilm(f) PROVE flat
  <2>1. f.next = [scene |-> f.next.scene, span |-> f.next.span, shot |-> f.next.shot]
    BY <1>2 DEF IsFilm, Counters
  <2>2. f = [rows |-> f.rows, scenes |-> f.scenes, spans |-> f.spans,
             shots |-> f.shots, members |-> f.members, policy |-> f.policy,
             next |-> f.next]
    BY <1>2 DEF IsFilm, Tables
  <2>. QED
    BY <2>1, <2>2
<1>3. FilmOK(f) <=> flat /\ FilmFits(f)
  BY DEF FilmOK, FilmFits
<1>. HIDE DEF flat
<1>. QED
  BY <1>1, <1>2, <1>3

\* What the commit of the structure puts into each table of the film.
LEMMA CommitStructureParts ==
  ASSUME NEW f, NEW rows, NEW new, NEW g,
         IsFilm(f), g = CommitStructure(f, rows, new)
  PROVE  LET bound == CommitSections(f, rows, new)
             hint  == SceneOrderHint(f.rows)
             pos   == ScenePositions(hint, f.scenes)
         IN  /\ IsFilm(g)
             /\ g.rows = bound.rows /\ g.scenes = RenumberScenes(f.policy, f.scenes, hint)
             /\ g.shots = RestampShots(f.policy, f.shots, f.scenes, hint)
             /\ g.spans = RenumberSpans(f.policy, bound.spans, pos)
             /\ g.members = PutOver(f.members, DerivedMembers(bound.spans, pos))
             /\ g.policy = f.policy
             /\ g.next.scene = f.next.scene /\ g.next.span = bound.next
             /\ g.next.shot = f.next.shot
<1> DEFINE bound   == CommitSections(f, rows, new)
           hint    == SceneOrderHint(f.rows)
           pos     == ScenePositions(hint, f.scenes)
           scenes  == RenumberScenes(f.policy, f.scenes, hint)
           shots   == RestampShots(f.policy, f.shots, f.scenes, hint)
           spans   == RenumberSpans(f.policy, bound.spans, pos)
           members == PutOver(f.members, DerivedMembers(bound.spans, pos))
<1>1. g = [f EXCEPT !.rows = bound.rows, !.scenes = scenes, !.shots = shots,
                    !.spans = spans, !.members = members, !.next.span = bound.next]
  BY DEF CommitStructure, OrderSource
<1>. SUFFICES /\ IsFilm(g)
              /\ g.rows = bound.rows /\ g.scenes = scenes /\ g.spans = spans
              /\ g.shots = shots /\ g.members = members /\ g.policy = f.policy
              /\ g.next.scene = f.next.scene /\ g.next.span = bound.next
              /\ g.next.shot = f.next.shot
  BY Zenon
<1>. HIDE DEF bound, scenes, shots, spans, members
<1>2. /\ DOMAIN g = Tables /\ g = [x \in DOMAIN g |-> g[x]]
      /\ g.rows = bound.rows /\ g.scenes = scenes /\ g.spans = spans
      /\ g.shots = shots /\ g.members = members /\ g.policy = f.policy
      /\ g.next = [f.next EXCEPT !.span = bound.next]
  <2>1. DOMAIN f = Tables /\ f = [x \in DOMAIN f |-> f[x]]
    BY DEF IsFilm
  <2>. QED
    BY <1>1, <2>1 DEF Tables
<1>3. /\ DOMAIN g.next = Counters /\ g.next = [x \in DOMAIN g.next |-> g.next[x]]
      /\ g.next.scene = f.next.scene /\ g.next.span = bound.next
      /\ g.next.shot = f.next.shot
  <2>1. DOMAIN f.next = Counters /\ f.next = [x \in DOMAIN f.next |-> f.next[x]]
    BY DEF IsFilm
  <2>. QED
    BY <1>2, <2>1 DEF Counters
<1>. QED
  BY <1>2, <1>3 DEF IsFilm

LEMMA CommitStructureType ==
  ASSUME NEW f, FilmOK(f), NEW rows \in Seq(Row), NEW new \in BOOLEAN,
         \A i \in DOMAIN rows : rows[i].scene \in DOMAIN f.scenes \cup {None},
         NEW g, g = CommitStructure(f, rows, new)
  PROVE  /\ FilmOK(g)
         /\ g.next.scene = f.next.scene /\ g.next.shot = f.next.shot
         /\ f.next.span <= g.next.span
         /\ DOMAIN g.scenes = DOMAIN f.scenes
         /\ DOMAIN g.shots = DOMAIN f.shots
         /\ DOMAIN g.rows = DOMAIN rows
         /\ \A i \in DOMAIN rows :
              /\ g.rows[i].type = rows[i].type /\ g.rows[i].scene = rows[i].scene
         /\ g.policy = f.policy
<1> DEFINE bound   == CommitSections(f, rows, new)
           hint    == SceneOrderHint(f.rows)
           pos     == ScenePositions(hint, f.scenes)
           scenes  == RenumberScenes(f.policy, f.scenes, hint)
           shots   == RestampShots(f.policy, f.shots, f.scenes, hint)
           spans   == RenumberSpans(f.policy, bound.spans, pos)
           members == PutOver(f.members, DerivedMembers(bound.spans, pos))
<1>0. IsFilm(f) /\ FilmFits(f)
  BY FilmShape
<1>1. /\ IsFilm(g)
      /\ g.rows = bound.rows /\ g.scenes = scenes /\ g.spans = spans
      /\ g.shots = shots /\ g.members = members /\ g.policy = f.policy
      /\ g.next.scene = f.next.scene /\ g.next.span = bound.next
      /\ g.next.shot = f.next.shot
  BY <1>0, CommitStructureParts
<1>2. /\ hint \in [DOMAIN hint -> Nat] /\ pos \in [DOMAIN pos -> Nat]
      /\ DOMAIN pos = DOMAIN f.scenes
  BY OrderType DEF FilmOK
<1>3. /\ bound.rows \in Seq(Row) /\ DOMAIN bound.rows = DOMAIN rows
      /\ \A i \in DOMAIN rows :
           bound.rows[i].type = rows[i].type /\ bound.rows[i].scene = rows[i].scene
      /\ IsTable(bound.spans, Span, bound.next)
      /\ f.next.span <= bound.next
  BY CommitSectionsType DEF FilmOK
<1>. HIDE DEF bound, hint, pos
<1>4. IsTable(scenes, Nat, f.next.scene) /\ DOMAIN scenes = DOMAIN f.scenes
  <2>1. IsTable(f.scenes, Nat, f.next.scene) /\ hint \in [DOMAIN hint -> Nat]
    BY <1>0, <1>2 DEF FilmFits
  <2>. QED
    BY <2>1, RenumberScenesType
<1>5. IsTable(shots, Shot, f.next.shot) /\ DOMAIN shots = DOMAIN f.shots
  <2>1. IsTable(f.shots, Shot, f.next.shot) /\ hint \in [DOMAIN hint -> Nat]
    BY <1>0, <1>2 DEF FilmFits
  <2>2. /\ IsTable(RestampShots(f.policy, f.shots, f.scenes, hint), Shot, f.next.shot)
        /\ DOMAIN RestampShots(f.policy, f.shots, f.scenes, hint) = DOMAIN f.shots
    BY <2>1, RestampShotsType
  <2>. HIDE DEF scenes
  <2>. QED
    BY <2>2
<1>6. IsTable(spans, Span, bound.next)
  BY <1>3, RenumberSpansType
<1>7. members \in [DOMAIN members -> Nat]
  BY <1>2, DerivedMembersType, PutOverNat DEF FilmOK
<1>8. \A i \in DOMAIN bound.rows : bound.rows[i].scene \in DOMAIN scenes \cup {None}
  BY <1>3, <1>4
<1>. HIDE DEF scenes, shots, spans, members
<1>9. f.policy \in {"derived", "fixed"}
  BY <1>0 DEF FilmFits
<1>10. FilmFits(g)
  BY <1>1, <1>3, <1>4, <1>5, <1>6, <1>7, <1>8, <1>9 DEF FilmFits
<1>. QED
  BY <1>1, <1>10, <1>3, <1>4, <1>5, FilmShape

\* The scenes a commit creates: one for each heading that has none, each new.
LEMMA CreatedScenes ==
  ASSUME NEW f, f.next.scene \in Nat \ {0}, NEW plan \in Seq(Row), NEW created,
         created = {LinkedRows(f, plan, TRUE)[i].scene : i \in Unlinked(plan)}
  PROVE  /\ Cardinality(created) = Cardinality(Unlinked(plan))
         /\ Cardinality(created) \in Nat
         /\ created \subseteq f.next.scene..(f.next.scene + Cardinality(created) - 1)
<1> DEFINE U == Unlinked(plan)
           at == [i \in U |-> HeadingScene(f, plan, TRUE, i)]
           count(i) == Cardinality({j \in Unlinked(plan) : j < i})
<1>1. U \subseteq HeadingsOf(plan) /\ IsFiniteSet(U) /\ Cardinality(U) \in Nat
  BY UnlinkedType
<1>2. \A i \in U : LinkedRows(f, plan, TRUE)[i].scene = HeadingScene(f, plan, TRUE, i)
  <2>1. \A new \in BOOLEAN : \A i \in HeadingsOf(plan) :
          LinkedRows(f, plan, new)[i].scene = HeadingScene(f, plan, new, i)
    BY LinkedRowsType
  <2>2. TRUE \in BOOLEAN
    OBVIOUS
  <2>3. \A i \in HeadingsOf(plan) :
          LinkedRows(f, plan, TRUE)[i].scene = HeadingScene(f, plan, TRUE, i)
    BY <2>1, <2>2, Zenon
  <2>. QED
    BY <1>1, <2>3, Zenon
<1>3. \A i \in U :
        /\ HeadingScene(f, plan, TRUE, i) = f.next.scene + count(i)
        /\ count(i) \in Nat /\ count(i) < Cardinality(U)
        /\ at[i] = HeadingScene(f, plan, TRUE, i)
  BY <1>1, UnlinkedType, RowsType DEF HeadingScene, Unlinked
<1>4. ASSUME NEW i \in U, NEW j \in U, i # j
      PROVE  at[i] # at[j]
  <2>1. i < j \/ j < i
    BY <1>1, <1>4, RowsType
  <2>2. CASE i < j
    <3>1. count(i) < count(j)
      BY <2>2, UnlinkedType
    <3>. HIDE DEF count, at
    <3>2. at[i] = f.next.scene + count(i) /\ at[j] = f.next.scene + count(j)
      BY <1>3
    <3>3. count(i) \in Nat /\ count(j) \in Nat /\ f.next.scene \in Nat
      BY <1>3
    <3>. QED
      BY <3>1, <3>2, <3>3
  <2>3. CASE j < i
    <3>1. count(j) < count(i)
      BY <2>3, UnlinkedType
    <3>. HIDE DEF count, at
    <3>2. at[i] = f.next.scene + count(i) /\ at[j] = f.next.scene + count(j)
      BY <1>3
    <3>3. count(i) \in Nat /\ count(j) \in Nat /\ f.next.scene \in Nat
      BY <1>3
    <3>. QED
      BY <3>1, <3>2, <3>3
  <2>. QED
    BY <2>1, <2>2, <2>3
<1>5. at \in Surjection(U, created)
  BY <1>2 DEF Surjection
<1>6. at \in Injection(U, created)
  BY <1>4, <1>5 DEF Injection, IsInjective, Surjection
<1>7. Cardinality(created) = Cardinality(U)
  BY <1>1, <1>5, <1>6, FS_Surjection
<1>8. ASSUME NEW s \in created
      PROVE  s \in f.next.scene..(f.next.scene + Cardinality(U) - 1)
  <2>1. PICK i \in U : s = HeadingScene(f, plan, TRUE, i)
    BY <1>2
  <2>. HIDE DEF count
  <2>2. s = f.next.scene + count(i)
    BY <2>1, <1>3
  <2>3. count(i) \in Nat /\ count(i) < Cardinality(U) /\ f.next.scene \in Nat
    BY <1>3
  <2>. QED
    BY <2>2, <2>3, <1>1
<1>. QED
  BY <1>1, <1>7, <1>8

\* The film a commit sees once it has created what its lines need.
Created(f, plan, new) ==
  IF new THEN {LinkedRows(f, plan, new)[i].scene : i \in Unlinked(plan)} ELSE {}

LinkedFilm(f, plan, new) ==
  [f EXCEPT !.scenes = PutOver([s \in Created(f, plan, new) |-> None], @),
            !.next.scene = @ + Cardinality(Created(f, plan, new))]

LEMMA CommitScriptIs ==
  ASSUME NEW f, NEW plan, NEW new
  PROVE  LET rows   == LinkedRows(f, plan, new)
             linked == LinkedFilm(f, plan, new)
             ok     == \A i \in DOMAIN rows :
                         rows[i].scene \in DOMAIN linked.scenes \cup {None}
         IN  CommitScript(f, plan, new) =
               [ok |-> ok, film |-> IF ok THEN CommitStructure(linked, rows, new) ELSE f]
BY DEF CommitScript, LinkedFilm, Created

\* Linking adds the scenes created and leaves the film otherwise alone.
LEMMA LinkedFilmType ==
  ASSUME NEW f, NEW plan \in Seq(Row), NEW new \in BOOLEAN, NEW linked,
         FilmOK(f), Given(plan, f), linked = LinkedFilm(f, plan, new)
  PROVE  /\ FilmOK(linked)
         /\ linked.rows = f.rows /\ linked.spans = f.spans /\ linked.shots = f.shots
         /\ linked.members = f.members /\ linked.policy = f.policy
         /\ linked.next.span = f.next.span /\ linked.next.shot = f.next.shot
         /\ f.next.scene <= linked.next.scene
         /\ DOMAIN linked.scenes = DOMAIN f.scenes \cup Created(f, plan, new)
         /\ \A s \in DOMAIN f.scenes : linked.scenes[s] = f.scenes[s]
         /\ Created(f, plan, new) \cap DOMAIN f.scenes = {}
<1> DEFINE created == Created(f, plan, new)
           blank   == [s \in created |-> None]
           scenes  == PutOver(blank, f.scenes)
<1>2. /\ IsFilm(f) /\ FilmFits(f) /\ f.next.scene \in Nat \ {0}
      /\ IsTable(f.scenes, Nat, f.next.scene)
  BY FilmShape DEF FilmFits, IsTable
<1>4. /\ Cardinality(created) \in Nat
      /\ created \subseteq f.next.scene..(f.next.scene + Cardinality(created) - 1)
  <2>1. CASE new
    <3>1. new = TRUE /\ created = {LinkedRows(f, plan, TRUE)[i].scene : i \in Unlinked(plan)}
      BY <2>1 DEF Created
    <3>. HIDE DEF created
    <3>. QED
      BY <3>1, <1>2, CreatedScenes
  <2>2. CASE ~new
    <3>1. created = {}
      BY <2>2 DEF Created
    <3>. HIDE DEF created
    <3>. QED
      BY <3>1, FS_EmptySet
  <2>. QED
    BY <2>1, <2>2
<1>3. linked = [f EXCEPT !.scenes = scenes,
                         !.next.scene = f.next.scene + Cardinality(created)]
  BY DEF LinkedFilm
<1>. HIDE DEF created
<1>5. IsTable(scenes, Nat, f.next.scene + Cardinality(created))
  <2>0. created \subseteq 1..(f.next.scene + Cardinality(created) - 1)
    BY <1>2, <1>4
  <2>1. IsTable(blank, Nat, f.next.scene + Cardinality(created))
    BY <1>2, <1>4, <2>0, SMTT(20) DEF IsTable, None
  <2>2. IsTable(f.scenes, Nat, f.next.scene + Cardinality(created))
    BY <1>2, <1>4, TableGrows
  <2>3. ASSUME NEW n, IsTable(blank, Nat, n), IsTable(f.scenes, Nat, n)
        PROVE  IsTable(scenes, Nat, n)
    BY <2>3, PutOverTable, Zenon
  <2>. HIDE DEF scenes, blank
  <2>. QED
    BY <2>1, <2>2, <2>3
<1>6. /\ DOMAIN scenes = DOMAIN f.scenes \cup created
      /\ \A s \in DOMAIN f.scenes : scenes[s] = f.scenes[s]
  BY DEF PutOver
<1>9. created \cap DOMAIN f.scenes = {}
  <2>1. \A s \in DOMAIN f.scenes : s \in Nat /\ s < f.next.scene
    BY <1>2, TableFinite
  <2>. QED
    BY <1>2, <1>4, <2>1
<1>. HIDE DEF scenes, blank
<1>7. /\ IsFilm(linked)
      /\ linked.rows = f.rows /\ linked.scenes = scenes /\ linked.spans = f.spans
      /\ linked.shots = f.shots /\ linked.members = f.members
      /\ linked.policy = f.policy
      /\ linked.next.scene = f.next.scene + Cardinality(created)
      /\ linked.next.span = f.next.span /\ linked.next.shot = f.next.shot
  <2>0. DOMAIN f = Tables /\ f = [x \in DOMAIN f |-> f[x]]
    BY <1>2 DEF IsFilm
  <2>2. /\ DOMAIN linked = Tables /\ linked = [x \in DOMAIN linked |-> linked[x]]
        /\ linked.rows = f.rows /\ linked.scenes = scenes /\ linked.spans = f.spans
        /\ linked.shots = f.shots /\ linked.members = f.members
        /\ linked.policy = f.policy
        /\ linked.next = [f.next EXCEPT !.scene = f.next.scene + Cardinality(created)]
    BY <1>3, <2>0 DEF Tables
  <2>1. DOMAIN f.next = Counters /\ f.next = [x \in DOMAIN f.next |-> f.next[x]]
    BY <1>2 DEF IsFilm
  <2>3. /\ DOMAIN linked.next = Counters
        /\ linked.next = [x \in DOMAIN linked.next |-> linked.next[x]]
        /\ linked.next.scene = f.next.scene + Cardinality(created)
        /\ linked.next.span = f.next.span /\ linked.next.shot = f.next.shot
    BY <2>2, <2>1 DEF Counters
  <2>. QED
    BY <2>2, <2>3 DEF IsFilm
<1>8. FilmOK(linked)
  <2>1. FilmFits(linked)
    BY <1>2, <1>5, <1>6, <1>7 DEF FilmFits
  <2>. QED
    BY <2>1, <1>7, FilmShape
<1>10. f.next.scene <= linked.next.scene
  BY <1>2, <1>4, <1>7
<1>. QED
  BY <1>6, <1>7, <1>8, <1>9, <1>10 DEF created

LEMMA CommitScriptType ==
  ASSUME NEW f, NEW plan \in Seq(Row), NEW new \in BOOLEAN, NEW r,
         FilmOK(f), Given(plan, f), r = CommitScript(f, plan, new)
  PROVE  /\ FilmOK(r.film)
         /\ f.next.scene <= r.film.next.scene /\ f.next.span <= r.film.next.span
         /\ r.film.next.shot = f.next.shot
         /\ r.ok \in BOOLEAN
         /\ r.ok => OneHeadingEach(r.film.rows)
         /\ ~r.ok => r.film = f
<1> DEFINE rows    == LinkedRows(f, plan, new)
           linked  == LinkedFilm(f, plan, new)
           stored  == CommitStructure(linked, rows, new)
           ok      == \A i \in DOMAIN rows :
                        rows[i].scene \in DOMAIN linked.scenes \cup {None}
<1>1. r = [ok |-> ok, film |-> IF ok THEN stored ELSE f]
  BY CommitScriptIs
<1>2. /\ IsFilm(f) /\ FilmFits(f) /\ f.next.scene \in Nat \ {0}
  BY FilmShape DEF FilmFits, IsTable
<1>3. /\ rows \in Seq(Row) /\ OneHeadingEach(rows) /\ HeadingsOf(rows) \subseteq DOMAIN rows
  BY <1>2, LinkedRowsType, LinkedOneHeading, RowsType
<1>4. /\ FilmOK(linked) /\ f.next.scene <= linked.next.scene
      /\ linked.next.span = f.next.span /\ linked.next.shot = f.next.shot
  BY LinkedFilmType
<1>. HIDE DEF rows, linked
<1>9. CASE ok
  <2>1. r.ok = TRUE /\ r.film = stored
    BY <1>1, <1>9
  <2>2. \A i \in DOMAIN rows : rows[i].scene \in DOMAIN linked.scenes \cup {None}
    BY <1>9
  <2>3. /\ FilmOK(stored) /\ stored.next.scene = linked.next.scene
        /\ stored.next.shot = linked.next.shot /\ linked.next.span <= stored.next.span
        /\ DOMAIN stored.rows = DOMAIN rows
        /\ \A i \in DOMAIN rows : /\ stored.rows[i].type = rows[i].type
                                  /\ stored.rows[i].scene = rows[i].scene
    BY <1>3, <1>4, <2>2, CommitStructureType
  <2>. HIDE DEF stored
  <2>4. OneHeadingEach(stored.rows)
    BY <2>3, <1>3 DEF OneHeadingEach, HeadingsOf
  <2>. HIDE DEF ok
  <2>. QED
    BY <2>1, <2>3, <2>4, <1>4
<1>10. CASE ~ok
  <2>1. r.ok = FALSE /\ r.film = f
    BY <1>1, <1>10
  <2>2. f.next.span \in Nat
    BY <1>2 DEF FilmFits, IsTable
  <2>3. f.next.scene <= f.next.scene /\ f.next.span <= f.next.span
    BY <2>2, <1>2
  <2>. HIDE DEF ok
  <2>. QED
    BY <2>1, <2>3
<1>. QED
  BY <1>9, <1>10

-----------------------------------------------------------------------------
(* The writes of other views                                                *)

LEMMA FiniteGreatest ==
  ASSUME NEW S \in SUBSET Nat, IsFiniteSet(S), S # {}
  PROVE  \E m \in S : \A k \in S : k <= m
<1> DEFINE Greatest(T) == \E m \in T : \A k \in T : k <= m
           Bad(n) == \E T \in SUBSET Nat :
                       IsFiniteSet(T) /\ T # {} /\ Cardinality(T) = n /\ ~Greatest(T)
           bad == {n \in Nat : Bad(n)}
<1>1. bad = {}
  <2> SUFFICES ASSUME bad # {} PROVE FALSE
    OBVIOUS
  <2>1. PICK n \in bad : \A k \in bad : n <= k
    BY LeastExists
  <2>2. PICK T \in SUBSET Nat :
          IsFiniteSet(T) /\ T # {} /\ Cardinality(T) = n /\ ~Greatest(T)
    BY <2>1
  <2>3. PICK x \in T : TRUE
    BY <2>2
  <2>4. /\ IsFiniteSet(T \ {x}) /\ Cardinality(T \ {x}) = n - 1 /\ n \in Nat
        /\ Cardinality(T \ {x}) \in Nat
    BY <2>1, <2>2, <2>3, FS_RemoveElement, FS_CardinalityType
  <2>5. T \ {x} # {}
    <3>1. SUFFICES ASSUME T \ {x} = {} PROVE FALSE
      OBVIOUS
    <3>2. T = {x}
      BY <3>1, <2>3
    <3>. QED
      BY <3>2, <2>2
  <2>6. Greatest(T \ {x})
    <3>1. n - 1 \notin bad
      BY <2>1, <2>4
    <3>. QED
      BY <3>1, <2>4, <2>5, <2>2
  <2>7. PICK m \in T \ {x} : \A k \in T \ {x} : k <= m
    BY <2>6
  <2>8. m \in Nat /\ x \in Nat
    BY <2>2, <2>3
  <2>. QED
    BY <2>2, <2>3, <2>7, <2>8
<1>2. Cardinality(S) \in Nat
  BY FS_CardinalityType
<1>. QED
  BY <1>1, <1>2

\* A shot's next code: a code of the number it is given.
LEMMA NextShotNumberType ==
  ASSUME NEW number \in Nat, NEW taken \in SUBSET Code, IsFiniteSet(taken)
  PROVE  NextShotNumber(number, taken) \in Code
<1> DEFINE parsed  == {d \in taken : ParsesIn(d, number)}
           letters == {c.letter : c \in parsed}
           letter  == [c \in parsed |-> c.letter]
<1>1. letters \in SUBSET Nat
  BY DEF Code
<1>2. IsFiniteSet(letters)
  <2>1. IsFiniteSet(parsed)
    BY FS_Subset
  <2>2. letter \in Surjection(parsed, letters)
    BY DEF Surjection
  <2>. HIDE DEF parsed, letters, letter
  <2>. QED
    BY <2>1, <2>2, FS_Surjection
<1>3. ASSUME letters # {}
      PROVE  (CHOOSE l \in letters : \A k \in letters : k <= l) \in Nat
  <2>. HIDE DEF letters
  <2>1. \E l \in letters : \A k \in letters : k <= l
    BY <1>1, <1>2, <1>3, FiniteGreatest
  <2>. QED
    BY <2>1, <1>1
<1>. HIDE DEF letters
<1>4. NextShotNumber(number, taken)
        = [num |-> number,
           letter |-> IF letters = {} THEN 0
                      ELSE 1 + CHOOSE l \in letters : \A k \in letters : k <= l]
  BY DEF NextShotNumber, letters
<1>. QED
  BY <1>3, <1>4 DEF Code

LEMMA CodesType ==
  ASSUME NEW f, FilmOK(f), NEW s, NEW except
  PROVE  Codes(f, s, except) \in SUBSET Code /\ IsFiniteSet(Codes(f, s, except))
<1> DEFINE of == {k \in DOMAIN f.shots : f.shots[k].scene = s} \ except
           at == [h \in of |-> f.shots[h].code]
<1>1. IsTable(f.shots, Shot, f.next.shot)
  BY FilmShape DEF FilmFits
<1>2. IsFiniteSet(of)
  BY <1>1, TableFinite, FS_Subset
<1>3. Codes(f, s, except) = {f.shots[h].code : h \in of}
  BY DEF Codes
<1>4. at \in Surjection(of, Codes(f, s, except))
  BY <1>3 DEF Surjection
<1>5. \A h \in of : f.shots[h].code \in Code
  BY <1>1 DEF IsTable, Shot
<1>. HIDE DEF of, at
<1>. QED
  BY <1>2, <1>3, <1>4, <1>5, FS_Surjection

\* No write gives an id back.
Grows(f, g) ==
  /\ f.next.scene <= g.next.scene
  /\ f.next.span <= g.next.span
  /\ f.next.shot <= g.next.shot

LEMMA UndoStays ==
  ASSUME NEW f, NEW g, NEW u, FilmOK(f), FilmOK(g), Grows(f, g), IsUndo(u, f)
  PROVE  IsUndo(u, g)
<1>1. g.next.scene \in Nat /\ g.next.span \in Nat /\ g.next.shot \in Nat
  BY FilmShape DEF FilmFits, IsTable
<1>2. CASE u = NoUndo
  BY <1>2 DEF IsUndo
<1>3. CASE u # NoUndo
  <2>1. /\ u = [scene |-> u.scene, number |-> u.number, spans |-> u.spans,
                shots |-> u.shots, members |-> u.members]
        /\ IsTable(OneRow(u.scene, u.number), Nat, f.next.scene)
        /\ IsTable(u.spans, Span, f.next.span)
        /\ IsTable(u.shots, Shot, f.next.shot)
        /\ u.members \in [DOMAIN u.members -> Nat]
    BY <1>3 DEF IsUndo
  <2>2. /\ IsTable(OneRow(u.scene, u.number), Nat, g.next.scene)
        /\ IsTable(u.spans, Span, g.next.span)
        /\ IsTable(u.shots, Shot, g.next.shot)
    BY <2>1, <1>1, TableGrows DEF Grows
  <2>. QED
    BY <2>1, <2>2 DEF IsUndo
<1>. QED
  BY <1>2, <1>3

\* A write that keeps what FilmFits says of a film keeps the film's shape.
LEMMA FilmParts ==
  ASSUME NEW f, FilmOK(f)
  PROVE  /\ IsFilm(f) /\ FilmFits(f)
         /\ f.next.scene \in Nat \ {0} /\ f.next.span \in Nat \ {0}
         /\ f.next.shot \in Nat \ {0}
         /\ f.rows \in Seq(Row)
         /\ IsTable(f.scenes, Nat, f.next.scene)
         /\ IsTable(f.spans, Span, f.next.span)
         /\ IsTable(f.shots, Shot, f.next.shot)
         /\ f.members \in [DOMAIN f.members -> Nat]
         /\ DOMAIN f.scenes \in SUBSET Nat /\ DOMAIN f.spans \in SUBSET Nat
         /\ DOMAIN f.shots \in SUBSET Nat
         /\ None \notin DOMAIN f.scenes
<1>1. IsFilm(f) /\ FilmFits(f)
  BY FilmShape
<1>2. /\ IsTable(f.scenes, Nat, f.next.scene)
      /\ IsTable(f.spans, Span, f.next.span)
      /\ IsTable(f.shots, Shot, f.next.shot)
      /\ f.rows \in Seq(Row) /\ f.members \in [DOMAIN f.members -> Nat]
  BY <1>1 DEF FilmFits
<1>3. /\ f.next.scene \in Nat \ {0} /\ f.next.span \in Nat \ {0}
      /\ f.next.shot \in Nat \ {0}
      /\ DOMAIN f.scenes \in SUBSET Nat /\ DOMAIN f.spans \in SUBSET Nat
      /\ DOMAIN f.shots \in SUBSET Nat
  BY <1>2, TableFinite
<1>4. None \notin DOMAIN f.scenes
  BY <1>2 DEF IsTable, None
<1>. QED
  BY <1>1, <1>2, <1>3, <1>4

LEMMA RenumberedType ==
  ASSUME NEW f, NEW g, FilmOK(f), g = Renumbered(f)
  PROVE  /\ FilmOK(g) /\ Grows(f, g)
         /\ g.rows = f.rows /\ g.scenes = f.scenes /\ g.shots = f.shots
         /\ g.members = f.members /\ g.policy = f.policy /\ g.next = f.next
         /\ g.spans = RenumberSpans(f.policy, f.spans, Positions(f))
<1> DEFINE spans == RenumberSpans(f.policy, f.spans, Positions(f))
<1>0. g = [f EXCEPT !.spans = spans]
  BY DEF Renumbered
<1>1. IsTable(spans, Span, f.next.span)
  BY FilmParts, RenumberSpansType
<1>. HIDE DEF spans
<1>2. /\ IsFilm(g)
      /\ g.rows = f.rows /\ g.scenes = f.scenes /\ g.shots = f.shots
      /\ g.members = f.members /\ g.policy = f.policy /\ g.next = f.next
      /\ g.spans = spans
  BY <1>0, FilmParts DEF IsFilm, Tables
<1>3. FilmFits(g)
  BY <1>1, <1>2, FilmParts DEF FilmFits
<1>4. Grows(f, g)
  BY <1>2, FilmParts DEF Grows
<1>. QED
  BY <1>2, <1>3, <1>4, FilmShape DEF spans

LEMMA CreateSpanType ==
  ASSUME NEW f, NEW s, NEW g, FilmOK(f), s \in DOMAIN f.scenes, g = CreateSpan(f, s)
  PROVE  /\ FilmOK(g) /\ Grows(f, g)
         /\ g.rows = f.rows /\ g.scenes = f.scenes /\ g.shots = f.shots
         /\ DOMAIN f.spans \subseteq DOMAIN g.spans
         /\ f.policy = "fixed" =>
              \A a \in DOMAIN f.spans : g.spans[a].num = f.spans[a].num
<1> DEFINE row   == [name |-> Untitled, start |-> s, num |-> None]
           spans == PutOver(f.spans, OneRow(f.next.span, row))
           with  == [f EXCEPT !.spans = spans, !.next.span = f.next.span + 1]
<1>1. g = Renumbered(with)
  BY DEF CreateSpan
<1>2. row \in Span
  BY FilmParts DEF Span, Untitled, None
<1>. HIDE DEF row
<1>3. /\ IsTable(spans, Span, f.next.span + 1)
      /\ DOMAIN spans = DOMAIN f.spans \cup {f.next.span}
      /\ \A a \in DOMAIN f.spans : spans[a] = f.spans[a]
  <2>1. f.next.span \in Nat \ {0} /\ IsTable(f.spans, Span, f.next.span)
    BY FilmParts
  <2>2. \A m : m = f.next.span + 1 =>
          IsTable(PutOver(f.spans, OneRow(f.next.span, row)), Span, m)
    BY <2>1, <1>2, InsertTable
  <2>3. /\ DOMAIN PutOver(f.spans, OneRow(f.next.span, row)) = DOMAIN f.spans \cup {f.next.span}
        /\ \A k \in DOMAIN f.spans :
             PutOver(f.spans, OneRow(f.next.span, row))[k] = f.spans[k]
    BY <2>1 DEF IsTable, PutOver, OneRow
  <2>. QED
    BY <2>2, <2>3
<1>. HIDE DEF spans
<1>4. /\ DOMAIN with = Tables /\ with = [x \in DOMAIN with |-> with[x]]
      /\ with.rows = f.rows /\ with.scenes = f.scenes /\ with.shots = f.shots
      /\ with.members = f.members /\ with.policy = f.policy /\ with.spans = spans
      /\ with.next = [f.next EXCEPT !.span = f.next.span + 1]
  <2>1. IsFilm(f)
    BY FilmParts
  <2>. QED
    BY <2>1 DEF IsFilm, Tables
<1>. HIDE DEF with
<1>5. /\ DOMAIN with.next = Counters
      /\ with.next = [x \in DOMAIN with.next |-> with.next[x]]
      /\ with.next.scene = f.next.scene /\ with.next.span = f.next.span + 1
      /\ with.next.shot = f.next.shot
  BY <1>4, FilmParts DEF IsFilm, Counters
<1>6. FilmFits(with)
  BY <1>3, <1>4, <1>5, FilmParts DEF FilmFits
<1>7. FilmOK(with)
  BY <1>4, <1>5, <1>6, FilmShape DEF IsFilm
<1>8. /\ FilmOK(g) /\ g.rows = f.rows /\ g.scenes = f.scenes /\ g.shots = f.shots
      /\ g.next = with.next
      /\ g.spans = RenumberSpans(f.policy, spans, Positions(with))
  BY <1>1, <1>4, <1>7, RenumberedType
<1>9. Grows(f, g)
  BY <1>8, <1>5, FilmParts DEF Grows
<1>10. /\ DOMAIN g.spans = DOMAIN spans
       /\ f.policy = "fixed" => \A a \in DOMAIN spans : g.spans[a] = spans[a]
  BY <1>8 DEF RenumberSpans
<1>. QED
  BY <1>3, <1>8, <1>9, <1>10

LEMMA SetSpanBoundaryType ==
  ASSUME NEW f, NEW a, NEW s, NEW g, FilmOK(f), a \in DOMAIN f.spans,
         s \in DOMAIN f.scenes \cup {None}, g = SetSpanBoundary(f, a, s)
  PROVE  /\ FilmOK(g) /\ Grows(f, g)
         /\ g.rows = f.rows /\ g.scenes = f.scenes /\ g.shots = f.shots
         /\ f.policy = "fixed" =>
              \A b \in DOMAIN f.spans : g.spans[b].num = f.spans[b].num
<1> DEFINE spans == [f.spans EXCEPT ![a].start = s]
           with  == [f EXCEPT !.spans = spans]
<1>1. g = Renumbered(with)
  BY FilmParts DEF SetSpanBoundary, IsFilm, Tables
<1>2. /\ DOMAIN spans = DOMAIN f.spans
      /\ IsTable(spans, Span, f.next.span)
      /\ \A b \in DOMAIN f.spans : spans[b].num = f.spans[b].num
  <2>1. f.spans \in [DOMAIN f.spans -> Span] /\ s \in Nat
    BY FilmParts DEF IsTable, None
  <2>2. \A b \in DOMAIN f.spans : spans[b] \in Span /\ spans[b].num = f.spans[b].num
    BY <2>1 DEF Span
  <2>3. DOMAIN spans = DOMAIN f.spans /\ spans = [b \in DOMAIN f.spans |-> spans[b]]
    OBVIOUS
  <2>. HIDE DEF spans
  <2>. QED
    BY <2>2, <2>3, FilmParts DEF IsTable
<1>. HIDE DEF spans
<1>4. /\ IsFilm(with)
      /\ with.rows = f.rows /\ with.scenes = f.scenes /\ with.shots = f.shots
      /\ with.members = f.members /\ with.policy = f.policy /\ with.spans = spans
      /\ with.next = f.next
  BY FilmParts DEF IsFilm, Tables
<1>. HIDE DEF with
<1>6. FilmFits(with)
  BY <1>2, <1>4, FilmParts DEF FilmFits
<1>7. FilmOK(with)
  BY <1>4, <1>6, FilmShape
<1>8. /\ FilmOK(g) /\ g.rows = f.rows /\ g.scenes = f.scenes /\ g.shots = f.shots
      /\ g.next = f.next
      /\ g.spans = RenumberSpans(f.policy, spans, Positions(with))
  BY <1>1, <1>4, <1>7, RenumberedType
<1>9. Grows(f, g)
  BY <1>8, FilmParts DEF Grows
<1>10. /\ DOMAIN g.spans = DOMAIN spans
       /\ f.policy = "fixed" => \A b \in DOMAIN spans : g.spans[b] = spans[b]
  BY <1>8 DEF RenumberSpans
<1>. QED
  BY <1>2, <1>8, <1>9, <1>10

LEMMA AddShotType ==
  ASSUME NEW f, NEW s, NEW g, FilmOK(f), s \in DOMAIN f.scenes, g = AddShot(f, s)
  PROVE  /\ FilmOK(g) /\ Grows(f, g)
         /\ g.rows = f.rows /\ g.scenes = f.scenes /\ g.spans = f.spans
         /\ \A k \in DOMAIN f.shots :
              g.shots[k].scene = f.shots[k].scene => g.shots[k].code = f.shots[k].code
<1>0. /\ s \in Nat /\ f.scenes[s] \in Nat
      /\ IsTable(f.shots, Shot, f.next.shot) /\ f.next.shot \in Nat \ {0}
  BY FilmParts DEF IsTable
<1>1. \A e : NextShotNumber(f.scenes[s], Codes(f, s, e)) \in Code
  BY <1>0, CodesType, NextShotNumberType
<1> DEFINE row   == [scene |-> s, code |-> NextShotNumber(f.scenes[s], Codes(f, s, {}))]
           shots == PutOver(f.shots, OneRow(f.next.shot, row))
<1>2. g = [f EXCEPT !.shots = shots, !.next.shot = f.next.shot + 1]
  BY DEF AddShot
<1>3. row \in Shot
  BY <1>0, <1>1 DEF Shot
<1>. HIDE DEF row
<1>4. \A m : m = f.next.shot + 1 => IsTable(shots, Shot, m)
  BY <1>0, <1>3, InsertTable
<1>5. \A k \in DOMAIN f.shots : shots[k] = f.shots[k]
  BY <1>0 DEF IsTable, PutOver, OneRow
<1>. HIDE DEF shots
<1>6. /\ DOMAIN g = Tables /\ g = [x \in DOMAIN g |-> g[x]]
      /\ g.rows = f.rows /\ g.scenes = f.scenes /\ g.shots = shots
      /\ g.members = f.members /\ g.policy = f.policy /\ g.spans = f.spans
      /\ g.next = [f.next EXCEPT !.shot = f.next.shot + 1]
  <2>1. IsFilm(f)
    BY FilmParts
  <2>. QED
    BY <1>2, <2>1 DEF IsFilm, Tables
<1>7. /\ DOMAIN g.next = Counters
      /\ g.next = [x \in DOMAIN g.next |-> g.next[x]]
      /\ g.next.scene = f.next.scene /\ g.next.span = f.next.span
      /\ g.next.shot = f.next.shot + 1
  BY <1>6, FilmParts DEF IsFilm, Counters
<1>8. FilmFits(g)
  BY <1>4, <1>6, <1>7, FilmParts DEF FilmFits
<1>9. Grows(f, g)
  BY <1>7, FilmParts DEF Grows
<1>. QED
  BY <1>5, <1>6, <1>7, <1>8, <1>9, FilmShape DEF IsFilm

LEMMA MoveShotToType ==
  ASSUME NEW f, NEW s, NEW h, NEW g, FilmOK(f), s \in DOMAIN f.scenes,
         h \in DOMAIN f.shots, g = MoveShotTo(f, h, s)
  PROVE  /\ FilmOK(g) /\ Grows(f, g)
         /\ g.rows = f.rows /\ g.scenes = f.scenes /\ g.spans = f.spans
         /\ \A k \in DOMAIN f.shots :
              g.shots[k].scene = f.shots[k].scene => g.shots[k].code = f.shots[k].code
<1>0. /\ s \in Nat /\ f.scenes[s] \in Nat
      /\ IsTable(f.shots, Shot, f.next.shot) /\ f.next.shot \in Nat \ {0}
  BY FilmParts DEF IsTable
<1>1. \A e : NextShotNumber(f.scenes[s], Codes(f, s, e)) \in Code
  BY <1>0, CodesType, NextShotNumberType
<1>3. CASE f.shots[h].scene = s
  BY <1>3, FilmParts DEF MoveShotTo, Grows
<1>4. CASE f.shots[h].scene # s
  <2> DEFINE row   == [scene |-> s, code |-> NextShotNumber(f.scenes[s], Codes(f, s, {h}))]
             shots == [f.shots EXCEPT ![h] = row]
  <2>1. g = [f EXCEPT !.shots = shots]
    BY <1>4, FilmParts DEF MoveShotTo, IsFilm, Tables
  <2>2. row \in Shot /\ row.scene = s
    BY <1>0, <1>1 DEF Shot
  <2>. HIDE DEF row
  <2>3. IsTable(shots, Shot, f.next.shot)
    BY <1>0, <2>2 DEF IsTable
  <2>4. /\ shots[h].scene = s
        /\ \A k \in DOMAIN f.shots : k # h => shots[k] = f.shots[k]
    BY <1>4, <2>2
  <2>. HIDE DEF shots
  <2>5. /\ IsFilm(g)
        /\ g.rows = f.rows /\ g.scenes = f.scenes /\ g.shots = shots
        /\ g.members = f.members /\ g.policy = f.policy /\ g.spans = f.spans
        /\ g.next = f.next
    BY <2>1, FilmParts DEF IsFilm, Tables
  <2>6. FilmFits(g)
    BY <2>3, <2>5, FilmParts DEF FilmFits
  <2>7. Grows(f, g)
    BY <2>5, FilmParts DEF Grows
  <2>8. \A k \in DOMAIN f.shots :
          shots[k].scene = f.shots[k].scene => shots[k].code = f.shots[k].code
    BY <2>4, <1>4
  <2>. QED
    BY <2>5, <2>6, <2>7, <2>8, FilmShape
<1>. QED
  BY <1>3, <1>4

LEMMA DuplicateSceneRowType ==
  ASSUME NEW f, NEW g, FilmOK(f), g = DuplicateSceneRow(f)
  PROVE  /\ FilmOK(g) /\ Grows(f, g) /\ g.next.scene = f.next.scene + 1
         /\ g.rows = f.rows /\ g.spans = f.spans /\ g.shots = f.shots
         /\ \A s \in DOMAIN f.scenes : s \in DOMAIN g.scenes /\ g.scenes[s] = f.scenes[s]
<1> DEFINE scenes == PutOver(f.scenes, OneRow(f.next.scene, None))
<1>0. IsTable(f.scenes, Nat, f.next.scene) /\ f.next.scene \in Nat \ {0} /\ None \in Nat
  BY FilmParts DEF None
<1>1. g = [f EXCEPT !.scenes = scenes, !.next.scene = f.next.scene + 1]
  BY DEF DuplicateSceneRow
<1>3. \A m : m = f.next.scene + 1 => IsTable(scenes, Nat, m)
  BY <1>0, InsertTable
<1>4. \A k \in DOMAIN f.scenes : k \in DOMAIN scenes /\ scenes[k] = f.scenes[k]
  BY <1>0 DEF IsTable, PutOver, OneRow
<1>. HIDE DEF scenes
<1>5. /\ DOMAIN g = Tables /\ g = [x \in DOMAIN g |-> g[x]]
      /\ g.rows = f.rows /\ g.scenes = scenes /\ g.shots = f.shots
      /\ g.members = f.members /\ g.policy = f.policy /\ g.spans = f.spans
      /\ g.next = [f.next EXCEPT !.scene = f.next.scene + 1]
  <2>1. IsFilm(f)
    BY FilmParts
  <2>. QED
    BY <1>1, <2>1 DEF IsFilm, Tables
<1>6. /\ DOMAIN g.next = Counters
      /\ g.next = [x \in DOMAIN g.next |-> g.next[x]]
      /\ g.next.scene = f.next.scene + 1 /\ g.next.span = f.next.span
      /\ g.next.shot = f.next.shot
  <2>1. IsFilm(f)
    BY FilmParts
  <2>. QED
    BY <1>5, <2>1 DEF IsFilm, Counters
<1>7. FilmFits(g)
  <2>1. IsTable(g.scenes, Nat, g.next.scene)
    BY <1>3, <1>5, <1>6
  <2>2. \A i \in DOMAIN g.rows : g.rows[i].scene \in DOMAIN g.scenes \cup {None}
    BY <1>4, <1>5, FilmParts DEF FilmFits
  <2>. QED
    BY <2>1, <2>2, <1>5, <1>6, FilmParts DEF FilmFits
<1>8. Grows(f, g)
  BY <1>6, FilmParts DEF Grows
<1>. QED
  BY <1>4, <1>5, <1>6, <1>7, <1>8, FilmShape DEF IsFilm

-----------------------------------------------------------------------------
(* Deleting a scene, and putting it back                                    *)

LEMMA UnlinkRowsType ==
  ASSUME NEW rows \in Seq(Row), NEW s, NEW g, g = UnlinkRows(rows, s)
  PROVE  /\ g \in Seq(Row) /\ DOMAIN g = DOMAIN rows
         /\ \A i \in DOMAIN rows :
              /\ g[i].type = rows[i].type
              /\ g[i].scene = IF rows[i].scene = s THEN None ELSE rows[i].scene
         /\ OneHeadingEach(rows) => OneHeadingEach(g)
<1>1. g = [i \in DOMAIN rows |->
             IF rows[i].scene = s THEN [rows[i] EXCEPT !.scene = None] ELSE rows[i]]
  BY DEF UnlinkRows
<1>2. ASSUME NEW i \in DOMAIN rows
      PROVE  /\ g[i] \in Row /\ g[i].type = rows[i].type
             /\ g[i].scene = IF rows[i].scene = s THEN None ELSE rows[i].scene
  <2>1. rows[i] \in Row
    BY RowsType
  <2>2. CASE rows[i].scene = s
    <3>1. g[i] = [rows[i] EXCEPT !.scene = None] /\ None \in Nat
      BY <1>1, <2>2 DEF None
    <3>. QED
      BY <2>1, <2>2, <3>1 DEF Row
  <2>3. CASE rows[i].scene # s
    BY <1>1, <2>1, <2>3
  <2>. QED
    BY <2>2, <2>3
<1>3. g \in Seq(Row) /\ DOMAIN g = DOMAIN rows
  <2>1. DOMAIN g = DOMAIN rows
    BY <1>1
  <2>2. g \in [1..Len(rows) -> Row] /\ Len(rows) \in Nat
    BY <1>1, <1>2, RowsType
  <2>. QED
    BY <2>1, <2>2, SeqDef
<1>4. OneHeadingEach(rows) => OneHeadingEach(g)
  BY <1>2, <1>3 DEF OneHeadingEach, HeadingsOf
<1>. QED
  BY <1>2, <1>3, <1>4

\* The order of a script counts its scenes from zero, each once.
LEMMA HintCounts ==
  ASSUME NEW rows \in Seq(Row), NEW n, n = Cardinality(ScriptScenes(rows))
  PROVE  /\ n \in Nat
         /\ \A s \in ScriptScenes(rows) : SceneOrderHint(rows)[s] \in 0..(n - 1)
         /\ \A s, t \in ScriptScenes(rows) :
              SceneOrderHint(rows)[s] = SceneOrderHint(rows)[t] => s = t
         /\ \A k \in 0..(n - 1) :
              \E s \in ScriptScenes(rows) : SceneOrderHint(rows)[s] = k
<1> DEFINE S == ScriptScenes(rows)
           hint == SceneOrderHint(rows)
           before(s) == {t \in S : FirstHeading(rows, t) < FirstHeading(rows, s)}
<1>1. n \in Nat /\ IsFiniteSet(S)
  BY ScriptScenesFinite, FS_CardinalityType
<1>2. ASSUME NEW s \in S
      PROVE  hint[s] \in 0..(n - 1)
  <2>1. hint[s] = Cardinality(before(s))
    BY DEF SceneOrderHint
  <2>2. before(s) \subseteq S /\ s \notin before(s)
    BY FirstHeadingType
  <2>3. Cardinality(before(s)) \in Nat /\ Cardinality(before(s)) < n
    BY <1>1, <2>2, CountsGrow
  <2>. QED
    BY <1>1, <2>1, <2>3
<1>3. ASSUME NEW s \in S, NEW t \in S, hint[s] = hint[t]
      PROVE  s = t
  <2>1. /\ FirstHeading(rows, s) \in Nat /\ FirstHeading(rows, t) \in Nat
        /\ rows[FirstHeading(rows, s)].scene = s /\ rows[FirstHeading(rows, t)].scene = t
    BY FirstHeadingType
  <2>2. hint[s] \in Nat /\ hint[t] \in Nat
    BY HintType
  <2>3. ~(FirstHeading(rows, s) < FirstHeading(rows, t))
    BY <1>3, <2>2, HintType
  <2>4. ~(FirstHeading(rows, t) < FirstHeading(rows, s))
    BY <1>3, <2>2, HintType
  <2>5. FirstHeading(rows, s) = FirstHeading(rows, t)
    BY <2>1, <2>3, <2>4
  <2>. QED
    BY <2>1, <2>5
<1>4. /\ DOMAIN hint = S /\ hint = [s \in S |-> hint[s]]
  BY DEF SceneOrderHint
<1>. HIDE DEF hint, S
<1>5. hint \in Injection(S, 0..(n - 1))
  BY <1>2, <1>3, <1>4 DEF Injection, IsInjective
<1>6. IsFiniteSet(0..(n - 1)) /\ Cardinality(0..(n - 1)) = n
  <2>1. n - 1 \in Int /\ 0 \in Int
    BY <1>1
  <2>2. /\ IsFiniteSet(0..(n - 1))
        /\ Cardinality(0..(n - 1)) = IF 0 > n - 1 THEN 0 ELSE (n - 1) - 0 + 1
    BY <2>1, FS_Interval
  <2>. QED
    BY <1>1, <2>2
<1>7. hint \in Surjection(S, 0..(n - 1))
  <2>1. Cardinality(S) = n
    BY DEF S
  <2>. QED
    BY <1>5, <1>6, <2>1, FS_Injection
<1>8. \A k \in 0..(n - 1) : \E s \in S : hint[s] = k
  BY <1>7 DEF Surjection
<1>. QED
  BY <1>1, <1>2, <1>3, <1>8 DEF hint, S

\* The scenes of a script, as the deletion walks them.
LEMMA ScriptOrderType ==
  ASSUME NEW rows \in Seq(Row)
  PROVE  ScriptOrder(rows) \in Seq(Nat)
<1> DEFINE hint  == SceneOrderHint(rows)
           n     == Cardinality(ScriptScenes(rows))
           at(i) == CHOOSE s \in ScriptScenes(rows) : hint[s] = i - 1
<1>1. n \in Nat
  BY HintCounts
<1>2. ScriptOrder(rows) = [i \in 1..n |-> at(i)]
  <2>1. DOMAIN hint = ScriptScenes(rows)
    BY DEF SceneOrderHint
  <2>. QED
    BY <2>1 DEF ScriptOrder
<1>3. ASSUME NEW i \in 1..n
      PROVE  at(i) \in Nat
  <2>1. i - 1 \in 0..(n - 1)
    BY <1>1
  <2>2. \E s \in ScriptScenes(rows) : hint[s] = i - 1
    BY <2>1, HintCounts
  <2>3. at(i) \in ScriptScenes(rows)
    BY <2>2
  <2>. QED
    BY <2>3, ScriptScenesFinite
<1>. HIDE DEF n, at
<1>. QED
  BY <1>1, <1>2, <1>3, SeqDef

\* Handing boundaries on: a table of the same spans, of which those that start
\* elsewhere are as they were.
LEMMA ReanchorType ==
  ASSUME NEW spans, NEW n, NEW moved, NEW order \in Seq(Nat), NEW g,
         IsTable(spans, Span, n), g = ReanchorSpans(spans, moved, order)
  PROVE  /\ IsTable(g, Span, n) /\ DOMAIN g = DOMAIN spans
         /\ \A a \in DOMAIN spans :
              /\ g[a].num = spans[a].num
              /\ spans[a].start # moved => g[a] = spans[a]
<1> DEFINE at   == {i \in 1..(Len(order) - 1) : order[i] = moved}
           next == order[1 + CHOOSE i \in at : TRUE]
<1>1. g = [a \in DOMAIN spans |->
             IF spans[a].start = moved /\ at # {}
             THEN [spans[a] EXCEPT !.start = next] ELSE spans[a]]
  BY DEF ReanchorSpans
<1>2. at # {} => next \in Nat
  <2>1. SUFFICES ASSUME at # {} PROVE next \in Nat
    OBVIOUS
  <2>2. (CHOOSE i \in at : TRUE) \in at
    BY <2>1
  <2>3. PICK j \in 1..(Len(order) - 1) : next = order[1 + j]
    BY <2>2
  <2>4. Len(order) \in Nat /\ 1 + j \in 1..Len(order)
    BY LenProperties
  <2>. QED
    BY <2>3, <2>4, ElementOfSeq
<1>. HIDE DEF at, next
<1>3. ASSUME NEW a \in DOMAIN spans
      PROVE  /\ g[a] \in Span /\ g[a].num = spans[a].num
             /\ spans[a].start # moved => g[a] = spans[a]
  <2>1. spans[a] \in Span
    BY DEF IsTable
  <2>2. CASE spans[a].start = moved /\ at # {}
    BY <1>1, <1>2, <2>1, <2>2 DEF Span
  <2>3. CASE ~(spans[a].start = moved /\ at # {})
    BY <1>1, <2>1, <2>3
  <2>. QED
    BY <2>2, <2>3
<1>4. DOMAIN g = DOMAIN spans /\ g = [a \in DOMAIN spans |-> g[a]]
  BY <1>1
<1>5. IsTable(g, Span, n)
  BY <1>3, <1>4 DEF IsTable
<1>. QED
  BY <1>3, <1>4, <1>5

LEMMA RemoveSceneCascadeType ==
  ASSUME NEW f, NEW s, NEW g, FilmOK(f), s \in DOMAIN f.scenes,
         g = RemoveSceneCascade(f, s)
  PROVE  /\ FilmOK(g) /\ Grows(f, g)
         /\ OneHeadingEach(f.rows) => OneHeadingEach(g.rows)
         /\ \A t \in DOMAIN g.scenes : g.scenes[t] = f.scenes[t]
         /\ \A h \in DOMAIN g.shots : g.shots[h] = f.shots[h]
         /\ \A a \in DOMAIN f.spans : g.spans[a].num = f.spans[a].num
<1> DEFINE scenes  == [t \in DOMAIN f.scenes \ {s} |-> f.scenes[t]]
           shots   == [h \in {k \in DOMAIN f.shots : f.shots[k].scene # s} |-> f.shots[h]]
           members == [m \in {n \in DOMAIN f.members : n[1] # s} |-> f.members[m]]
           spans   == f.spans
           rows    == UnlinkRows(f.rows, s)
<1>0. IsFilm(f) /\ FilmFits(f)
  BY FilmParts
<1>1. g = [f EXCEPT !.scenes = scenes, !.shots = shots, !.members = members,
                    !.rows = rows]
  BY DEF RemoveSceneCascade
<1>2. /\ IsTable(scenes, Nat, f.next.scene) /\ DOMAIN scenes = DOMAIN f.scenes \ {s}
      /\ \A t \in DOMAIN scenes : scenes[t] = f.scenes[t]
  BY FilmParts DEF IsTable
<1>3. /\ IsTable(shots, Shot, f.next.shot)
      /\ \A h \in DOMAIN shots : shots[h] = f.shots[h]
  BY FilmParts DEF IsTable
<1>4. members \in [DOMAIN members -> Nat]
  BY FilmParts
<1>5. /\ IsTable(spans, Span, f.next.span)
      /\ \A a \in DOMAIN f.spans : spans[a].num = f.spans[a].num
  BY FilmParts
<1>6. /\ rows \in Seq(Row) /\ DOMAIN rows = DOMAIN f.rows
      /\ \A i \in DOMAIN f.rows :
           rows[i].scene = IF f.rows[i].scene = s THEN None ELSE f.rows[i].scene
      /\ OneHeadingEach(f.rows) => OneHeadingEach(rows)
  BY FilmParts, UnlinkRowsType
<1>. HIDE DEF scenes, shots, members, spans, rows
<1>7. /\ IsFilm(g)
      /\ g.rows = rows /\ g.scenes = scenes /\ g.shots = shots
      /\ g.members = members /\ g.spans = spans /\ g.policy = f.policy
      /\ g.next = f.next
  <2>1. /\ DOMAIN g = Tables /\ g = [x \in DOMAIN g |-> g[x]]
        /\ g.rows = rows /\ g.scenes = scenes /\ g.shots = shots
        /\ g.members = members /\ g.spans = spans /\ g.policy = f.policy
        /\ g.next = f.next
    <3>1. DOMAIN f = Tables /\ f = [x \in DOMAIN f |-> f[x]]
      BY <1>0 DEF IsFilm
    <3>2. DOMAIN g = Tables /\ g = [x \in DOMAIN g |-> g[x]]
      BY <1>1, <3>1 DEF Tables
    <3>3. g.rows = rows /\ g.scenes = scenes /\ g.shots = shots
      BY <1>1, <3>1 DEF Tables
    <3>4. /\ g.members = members /\ g.spans = spans /\ g.policy = f.policy
          /\ g.next = f.next
      BY <1>1, <3>1 DEF Tables, spans
    <3>. QED
      BY <3>2, <3>3, <3>4
  <2>. QED
    BY <1>0, <2>1 DEF IsFilm
<1>8. \A i \in DOMAIN rows : rows[i].scene \in DOMAIN scenes \cup {None}
  BY <1>0, <1>2, <1>6 DEF FilmFits
<1>9. FilmFits(g)
  BY <1>0, <1>2, <1>3, <1>4, <1>5, <1>6, <1>7, <1>8 DEF FilmFits
<1>10. Grows(f, g)
  BY <1>7, FilmParts DEF Grows
<1>. QED
  BY <1>2, <1>3, <1>5, <1>6, <1>7, <1>9, <1>10, FilmShape

LEMMA DeleteSceneType ==
  ASSUME NEW f, NEW s, NEW g, FilmOK(f), s \in DOMAIN f.scenes, g = DeleteScene(f, s)
  PROVE  /\ FilmOK(g) /\ Grows(f, g)
         /\ OneHeadingEach(f.rows) => OneHeadingEach(g.rows)
         /\ DOMAIN g.scenes = DOMAIN f.scenes \ {s}
         /\ \A t \in DOMAIN g.scenes : g.scenes[t] = f.scenes[t]
         /\ g.shots = f.shots /\ g.members = f.members
         /\ DOMAIN g.spans = DOMAIN f.spans
         /\ \A a \in DOMAIN f.spans :
              /\ g.spans[a].num = f.spans[a].num
              /\ f.spans[a].start # s => g.spans[a] = f.spans[a]
<1> DEFINE scenes  == [t \in DOMAIN f.scenes \ {s} |-> f.scenes[t]]
           spans   == ReanchorSpans(f.spans, s, ScriptOrder(f.rows))
           rows    == UnlinkRows(f.rows, s)
<1>0. IsFilm(f) /\ FilmFits(f)
  BY FilmParts
<1>1. g = [f EXCEPT !.spans = spans, !.scenes = scenes, !.rows = rows]
  BY DEF DeleteScene
<1>2. /\ IsTable(scenes, Nat, f.next.scene) /\ DOMAIN scenes = DOMAIN f.scenes \ {s}
      /\ \A t \in DOMAIN scenes : scenes[t] = f.scenes[t]
  BY FilmParts DEF IsTable
<1>3. /\ IsTable(spans, Span, f.next.span) /\ DOMAIN spans = DOMAIN f.spans
      /\ \A a \in DOMAIN f.spans :
              /\ spans[a].num = f.spans[a].num
              /\ f.spans[a].start # s => spans[a] = f.spans[a]
  <2>1. IsTable(f.spans, Span, f.next.span) /\ ScriptOrder(f.rows) \in Seq(Nat)
    BY FilmParts, ScriptOrderType
  <2>2. ASSUME NEW g2, g2 = ReanchorSpans(f.spans, s, ScriptOrder(f.rows))
        PROVE  /\ IsTable(g2, Span, f.next.span) /\ DOMAIN g2 = DOMAIN f.spans
               /\ \A a \in DOMAIN f.spans :
                    /\ g2[a].num = f.spans[a].num
                    /\ f.spans[a].start # s => g2[a] = f.spans[a]
    BY <2>1, <2>2, ReanchorType
  <2>. QED
    BY <2>2
<1>6. /\ rows \in Seq(Row) /\ DOMAIN rows = DOMAIN f.rows
      /\ \A i \in DOMAIN f.rows :
           rows[i].scene = IF f.rows[i].scene = s THEN None ELSE f.rows[i].scene
      /\ OneHeadingEach(f.rows) => OneHeadingEach(rows)
  BY FilmParts, UnlinkRowsType
<1>. HIDE DEF scenes, spans, rows
<1>7. /\ IsFilm(g)
      /\ g.rows = rows /\ g.scenes = scenes /\ g.shots = f.shots
      /\ g.members = f.members /\ g.spans = spans /\ g.policy = f.policy
      /\ g.next = f.next
  <2>1. /\ DOMAIN f = Tables /\ f = [x \in DOMAIN f |-> f[x]]
        /\ DOMAIN f.next = Counters /\ f.next = [x \in DOMAIN f.next |-> f.next[x]]
    BY <1>0 DEF IsFilm
  <2>2. /\ DOMAIN g = Tables /\ g = [x \in DOMAIN g |-> g[x]]
        /\ g.rows = rows /\ g.scenes = scenes /\ g.shots = f.shots
        /\ g.members = f.members /\ g.spans = spans /\ g.policy = f.policy
        /\ g.next = f.next
    <3>1. DOMAIN f = Tables /\ f = [x \in DOMAIN f |-> f[x]]
      BY <2>1
    <3>. QED
      BY <1>1, <3>1 DEF Tables
  <2>. QED
    BY <2>1, <2>2 DEF IsFilm
<1>8. \A i \in DOMAIN rows : rows[i].scene \in DOMAIN scenes \cup {None}
  BY <1>0, <1>2, <1>6 DEF FilmFits
<1>9. FilmFits(g)
  BY <1>0, <1>2, <1>3, <1>6, <1>7, <1>8 DEF FilmFits
<1>10. Grows(f, g)
  BY <1>7, FilmParts DEF Grows
<1>. QED
  BY <1>2, <1>3, <1>6, <1>7, <1>9, <1>10, FilmShape

LEMMA CaptureType ==
  ASSUME NEW f, NEW s, FilmOK(f), s \in DOMAIN f.scenes
  PROVE  IsUndo(CaptureForUndo(f, s), f)
<1> DEFINE u == CaptureForUndo(f, s)
           spans   == [a \in {b \in DOMAIN f.spans : f.spans[b].start = s} |-> f.spans[a]]
           shots   == [h \in {k \in DOMAIN f.shots : f.shots[k].scene = s} |-> f.shots[h]]
           members == [m \in {n \in DOMAIN f.members : n[1] = s} |-> f.members[m]]
<1>1. u = [scene |-> s, number |-> f.scenes[s], spans |-> spans, shots |-> shots,
           members |-> members]
  BY DEF CaptureForUndo
<1>2. IsTable(spans, Span, f.next.span)
  BY FilmParts DEF IsTable
<1>3. IsTable(shots, Shot, f.next.shot)
  BY FilmParts DEF IsTable
<1>4. members \in [DOMAIN members -> Nat]
  BY FilmParts
<1>5. IsTable(OneRow(s, f.scenes[s]), Nat, f.next.scene)
  BY FilmParts DEF IsTable, OneRow
<1>. HIDE DEF u, spans, shots, members
<1>. QED
  BY <1>1, <1>2, <1>3, <1>4, <1>5 DEF IsUndo, u

LEMMA RestoreType ==
  ASSUME NEW f, NEW u, NEW g, FilmOK(f), IsUndo(u, f), u # NoUndo,
         g = RestoreFromUndo(f, u)
  PROVE  /\ FilmOK(g) /\ Grows(f, g)
         /\ g.rows = f.rows
<1> DEFINE scenes  == PutOver(f.scenes, OneRow(u.scene, u.number))
           spans   == PutOver(f.spans, u.spans)
           shots   == PutOver(f.shots, u.shots)
           members == PutOver(f.members, u.members)
<1>0. IsFilm(f) /\ FilmFits(f)
  BY FilmParts
<1>1. /\ IsTable(OneRow(u.scene, u.number), Nat, f.next.scene)
      /\ IsTable(u.spans, Span, f.next.span)
      /\ IsTable(u.shots, Shot, f.next.shot)
      /\ u.members \in [DOMAIN u.members -> Nat]
  BY DEF IsUndo
<1>2. IsTable(scenes, Nat, f.next.scene) /\ DOMAIN f.scenes \subseteq DOMAIN scenes
  <2>1. IsTable(scenes, Nat, f.next.scene)
    BY <1>1, FilmParts, PutOverTable
  <2>2. DOMAIN f.scenes \subseteq DOMAIN scenes
    BY DEF PutOver
  <2>. QED
    BY <2>1, <2>2
<1>3. IsTable(spans, Span, f.next.span)
  BY <1>1, FilmParts, PutOverTable
<1>4. IsTable(shots, Shot, f.next.shot)
  BY <1>1, FilmParts, PutOverTable
<1>5. members \in [DOMAIN members -> Nat]
  BY <1>1, FilmParts, PutOverNat
<1>6. g = [f EXCEPT !.scenes = scenes, !.spans = spans, !.shots = shots,
                    !.members = members]
  BY DEF RestoreFromUndo
<1>. HIDE DEF scenes, spans, shots, members
<1>7. /\ IsFilm(g)
      /\ g.rows = f.rows /\ g.scenes = scenes /\ g.shots = shots
      /\ g.members = members /\ g.spans = spans /\ g.policy = f.policy
      /\ g.next = f.next
  <2>1. DOMAIN f = Tables /\ f = [x \in DOMAIN f |-> f[x]]
    BY <1>0 DEF IsFilm
  <2>2. DOMAIN g = Tables /\ g = [x \in DOMAIN g |-> g[x]]
    BY <1>6, <2>1 DEF Tables
  <2>3. g.rows = f.rows /\ g.scenes = scenes /\ g.shots = shots
    BY <1>6, <2>1 DEF Tables
  <2>4. /\ g.members = members /\ g.spans = spans /\ g.policy = f.policy
        /\ g.next = f.next
    BY <1>6, <2>1 DEF Tables
  <2>. QED
    BY <1>0, <2>2, <2>3, <2>4 DEF IsFilm
<1>8. \A i \in DOMAIN g.rows : g.rows[i].scene \in DOMAIN g.scenes \cup {None}
  BY <1>0, <1>2, <1>7 DEF FilmFits
<1>9. FilmFits(g)
  BY <1>0, <1>2, <1>3, <1>4, <1>5, <1>7, <1>8 DEF FilmFits
<1>10. Grows(f, g)
  BY <1>7, FilmParts DEF Grows
<1>. QED
  BY <1>7, <1>9, <1>10, FilmShape

\* A deletion that is taken back at once leaves the tables as they were.
LEMMA DeleteAndBack ==
  ASSUME NEW f, NEW s, NEW back, FilmOK(f), s \in DOMAIN f.scenes,
         back = RestoreFromUndo(DeleteScene(f, s), CaptureForUndo(f, s))
  PROVE  /\ back.scenes = f.scenes /\ back.spans = f.spans
         /\ back.shots = f.shots /\ back.members = f.members
<1> DEFINE g == DeleteScene(f, s)
           u == CaptureForUndo(f, s)
<1>1. /\ FilmOK(g)
      /\ DOMAIN g.scenes = DOMAIN f.scenes \ {s}
      /\ \A t \in DOMAIN g.scenes : g.scenes[t] = f.scenes[t]
      /\ g.shots = f.shots /\ g.members = f.members
      /\ DOMAIN g.spans = DOMAIN f.spans
      /\ \A a \in DOMAIN f.spans : f.spans[a].start # s => g.spans[a] = f.spans[a]
  BY DeleteSceneType
<1>2. u = [scene   |-> s,
           number  |-> f.scenes[s],
           spans   |-> [a \in {b \in DOMAIN f.spans : f.spans[b].start = s} |-> f.spans[a]],
           shots   |-> [h \in {k \in DOMAIN f.shots : f.shots[k].scene = s} |-> f.shots[h]],
           members |-> [m \in {n \in DOMAIN f.members : n[1] = s} |-> f.members[m]]]
  BY DEF CaptureForUndo
<1>. HIDE DEF g, u
<1>3. back = [g EXCEPT !.scenes = PutOver(g.scenes, OneRow(u.scene, u.number)),
                       !.spans = PutOver(g.spans, u.spans),
                       !.shots = PutOver(g.shots, u.shots),
                       !.members = PutOver(g.members, u.members)]
  BY DEF RestoreFromUndo, g, u
<1>4. /\ f.scenes = [t \in DOMAIN f.scenes |-> f.scenes[t]]
      /\ f.spans = [a \in DOMAIN f.spans |-> f.spans[a]]
      /\ f.shots = [h \in DOMAIN f.shots |-> f.shots[h]]
      /\ f.members = [m \in DOMAIN f.members |-> f.members[m]]
  <2>1. /\ f.scenes \in [DOMAIN f.scenes -> Nat] /\ f.spans \in [DOMAIN f.spans -> Span]
        /\ f.shots \in [DOMAIN f.shots -> Shot] /\ f.members \in [DOMAIN f.members -> Nat]
    BY FilmParts DEF IsTable
  <2>. QED
    BY <2>1
<1>5. DOMAIN g = Tables
  BY <1>1, FilmParts DEF IsFilm
<1>6. back.scenes = f.scenes
  <2>1. PutOver(g.scenes, OneRow(s, f.scenes[s])) = f.scenes
    BY <1>1, <1>4 DEF PutOver, OneRow
  <2>2. back.scenes = PutOver(g.scenes, OneRow(u.scene, u.number))
    BY <1>3, <1>5 DEF Tables
  <2>. QED
    BY <2>1, <2>2, <1>2
<1>7. back.spans = f.spans
  <2>1. PutOver(g.spans, u.spans) = f.spans
    BY <1>1, <1>2, <1>4 DEF PutOver
  <2>. QED
    BY <2>1, <1>3, <1>5 DEF Tables
<1>8. back.shots = f.shots
  <2>1. PutOver(g.shots, u.shots) = f.shots
    BY <1>1, <1>2, <1>4 DEF PutOver
  <2>. QED
    BY <2>1, <1>3, <1>5 DEF Tables
<1>9. back.members = f.members
  <2>1. PutOver(g.members, u.members) = f.members
    BY <1>1, <1>2, <1>4 DEF PutOver
  <2>. QED
    BY <2>1, <1>3, <1>5 DEF Tables
<1>. QED
  BY <1>6, <1>7, <1>8, <1>9

-----------------------------------------------------------------------------
(* The document, and what the window makes of it                            *)

\* A plan is a script of the document's lines, of scenes the window remembers.
LEMMA PlanType ==
  ASSUME NEW lines \in Seq(Line), NEW known, known \in [DOMAIN known -> Block],
         NEW plan, plan = PlanCommit(lines, known)
  PROVE  /\ plan \in Seq(Row)
         /\ \A i \in DOMAIN plan :
              \/ plan[i].scene = None
              \/ \E l \in DOMAIN known : plan[i].scene = known[l].scene
<1>1. Len(lines) \in Nat /\ DOMAIN lines = 1..Len(lines) /\ \A i \in DOMAIN lines : lines[i] \in Line
  BY LenProperties
<1>2. DOMAIN plan = DOMAIN lines
  BY DEF PlanCommit
<1>3. ASSUME NEW i \in DOMAIN lines
      PROVE  /\ plan[i] \in Row
             /\ \/ plan[i].scene = None
                \/ \E l \in DOMAIN known : plan[i].scene = known[l].scene
  <2> DEFINE l   == lines[i]
             old == l.id \in DOMAIN known
             became == l.type = "heading" /\ (old => known[l.id].type # "heading")
             scene == IF old /\ ~became THEN known[l.id].scene ELSE None
             ref == IF old THEN known[l.id].ref ELSE None
  <2>1. plan[i] = [id |-> l.id, type |-> l.type, text |-> l.text,
                   scene |-> scene, ref |-> ref]
    BY DEF PlanCommit
  <2>2. l \in Line
    BY <1>1
  <2>3. old => known[l.id] \in Block
    OBVIOUS
  <2>4. /\ scene \in Nat /\ ref \in Nat
        /\ scene = None \/ \E k \in DOMAIN known : scene = known[k].scene
    BY <2>3 DEF Block, None
  <2>. HIDE DEF scene, ref, l
  <2>. QED
    BY <2>1, <2>2, <2>4 DEF Line, Row
<1>4. plan \in Seq(Row)
  <2>1. plan \in [1..Len(lines) -> Row]
    <3>1. plan = [i \in DOMAIN lines |-> plan[i]]
      BY DEF PlanCommit
    <3>. QED
      BY <1>1, <1>3, <3>1
  <2>. QED
    BY <1>1, <2>1, SeqDef
<1>. QED
  BY <1>2, <1>3, <1>4

\* What the window remembers of a script: its lines, by their ids.
LEMMA BlocksType ==
  ASSUME NEW rows \in Seq(Row), NEW blocks, blocks = BlocksOf(rows)
  PROVE  /\ blocks \in [DOMAIN blocks -> Block] /\ DOMAIN blocks \subseteq Lines
         /\ \A l \in DOMAIN blocks :
              \E i \in DOMAIN rows : blocks[l].scene = rows[i].scene
<1> DEFINE at(l) == CHOOSE i \in DOMAIN rows : rows[i].id = l
<1>1. blocks = [l \in LineIds(rows) |->
                  [type |-> rows[at(l)].type, text |-> rows[at(l)].text,
                   scene |-> rows[at(l)].scene, ref |-> rows[at(l)].ref]]
  BY DEF BlocksOf
<1>2. ASSUME NEW l \in LineIds(rows)
      PROVE  at(l) \in DOMAIN rows /\ l \in Lines
  BY RowsType DEF LineIds, Row
<1>. HIDE DEF at
<1>3. ASSUME NEW l \in LineIds(rows)
      PROVE  /\ blocks[l] \in Block
             /\ blocks[l].scene = rows[at(l)].scene
  <2>1. rows[at(l)] \in Row
    BY <1>2, RowsType
  <2>. QED
    BY <1>1, <2>1 DEF Row, Block
<1>4. DOMAIN blocks = LineIds(rows) /\ blocks = [l \in LineIds(rows) |-> blocks[l]]
  BY <1>1
<1>. QED
  BY <1>2, <1>3, <1>4

\* The lines of a stored script, as the editor shows them.
LEMMA ShownType ==
  ASSUME NEW rows \in Seq(Row), NEW lines,
         lines = [i \in DOMAIN rows |->
                    [id |-> rows[i].id, type |-> rows[i].type, text |-> rows[i].text]]
  PROVE  lines \in Seq(Line)
<1>1. \A i \in DOMAIN rows : lines[i] \in Line
  BY RowsType DEF Row, Line
<1>2. lines \in [1..Len(rows) -> Line] /\ Len(rows) \in Nat
  BY <1>1, RowsType
<1>. QED
  BY <1>2, SeqDef

LEMMA SubSeqType ==
  ASSUME NEW S, NEW s \in Seq(S), NEW m \in Nat \ {0}, NEW n \in Int, n <= Len(s)
  PROVE  /\ SubSeq(s, m, n) \in Seq(S)
         /\ Len(SubSeq(s, m, n)) = IF m <= n THEN n - m + 1 ELSE 0
<1>1. \A i \in m..n : s[i] \in S
  <2>1. ASSUME NEW i \in m..n PROVE s[i] \in S
    <3>1. i \in 1..Len(s)
      BY LenProperties
    <3>. QED
      BY <3>1, ElementOfSeq
  <2>. QED
    BY <2>1
<1>. QED
  BY <1>1, SubSeqProperties

LEMMA InsertAtType ==
  ASSUME NEW S, NEW s \in Seq(S), NEW i \in 1..(Len(s) + 1), NEW e \in S
  PROVE  InsertAt(s, i, e) \in Seq(S)
<1>1. Len(s) \in Nat
  BY LenProperties
<1>2. SubSeq(s, 1, i - 1) \in Seq(S)
  BY <1>1, SubSeqType
<1>3. SubSeq(s, i, Len(s)) \in Seq(S)
  BY <1>1, SubSeqType
<1>4. <<e>> \in Seq(S)
  OBVIOUS
<1>. QED
  BY <1>2, <1>3, <1>4, ConcatProperties DEF InsertAt

LEMMA RemoveAtType ==
  ASSUME NEW S, NEW s \in Seq(S), NEW i \in 1..Len(s)
  PROVE  RemoveAt(s, i) \in Seq(S)
<1>1. Len(s) \in Nat
  BY LenProperties
<1>2. SubSeq(s, 1, i - 1) \in Seq(S)
  BY <1>1, SubSeqType
<1>3. SubSeq(s, i + 1, Len(s)) \in Seq(S)
  BY <1>1, SubSeqType
<1>. QED
  BY <1>2, <1>3, ConcatProperties DEF RemoveAt

\* A scene's block is a run of lines of the document, its heading first.
LEMMA BlockFromType ==
  ASSUME NEW lines \in Seq(Line), NEW h \in HeadingsOf(lines), NEW n,
         n = Cardinality(BlockFrom(lines, h))
  PROVE  /\ h \in 1..Len(lines) /\ n \in Nat \ {0}
         /\ h + n - 1 <= Len(lines) /\ BlockFrom(lines, h) = h..(h + n - 1)
<1> DEFINE after == {j \in HeadingsOf(lines) : j > h}
           next  == CHOOSE j \in after : \A k \in after : j <= k
           last  == IF after = {} THEN Len(lines) ELSE next - 1
<1>1. /\ Len(lines) \in Nat /\ HeadingsOf(lines) \subseteq 1..Len(lines)
  BY LenProperties DEF HeadingsOf
<1>2. last \in h..Len(lines)
  <2>1. CASE after = {}
    BY <1>1, <2>1
  <2>2. CASE after # {}
    <3>1. after \in SUBSET Nat
      BY <1>1
    <3>2. \E j \in after : \A k \in after : j <= k
      BY <2>2, <3>1, LeastExists
    <3>3. next \in after
      BY <3>2
    <3>4. last = next - 1 /\ next > h /\ next \in 1..Len(lines) /\ h \in 1..Len(lines)
      BY <1>1, <2>2, <3>3
    <3>. HIDE DEF last, next
    <3>. QED
      BY <1>1, <3>4
  <2>. QED
    BY <2>1, <2>2
<1>3. BlockFrom(lines, h) = h..last
  BY DEF BlockFrom
<1>. HIDE DEF last
<1>4. h \in Int /\ last \in Int /\ ~(h > last)
  BY <1>1, <1>2
<1>5. n = last - h + 1
  BY <1>3, <1>4, FS_Interval
<1>6. last = h + n - 1 /\ n \in Nat \ {0}
  BY <1>1, <1>2, <1>4, <1>5
<1>. QED
  BY <1>1, <1>2, <1>3, <1>6

LEMMA MovedType ==
  ASSUME NEW lines \in Seq(Line), NEW h \in HeadingsOf(lines),
         NEW at \in HeadingsOf(lines) \cup {Len(lines) + 1},
         at \notin BlockFrom(lines, h)
  PROVE  Moved(lines, h, at) \in Seq(Line)
<1> DEFINE n     == Cardinality(BlockFrom(lines, h))
           block == SubSeq(lines, h, n + h - 1)
           top   == SubSeq(lines, 1, h - 1)
           below == SubSeq(lines, h + Len(block), Len(lines))
           rest  == top \o below
           cut   == IF at > h THEN at - Len(block) ELSE at
<1>1. /\ Len(lines) \in Nat /\ h \in 1..Len(lines) /\ n \in Nat \ {0}
      /\ h + n - 1 <= Len(lines) /\ BlockFrom(lines, h) = h..(h + n - 1)
      /\ at \in 1..(Len(lines) + 1)
  BY BlockFromType, LenProperties DEF HeadingsOf
<1>. HIDE DEF n
<1>2. /\ n + h - 1 \in Int /\ n + h - 1 <= Len(lines) /\ h \in Nat \ {0}
      /\ h <= n + h - 1 /\ (n + h - 1) - h + 1 = n
  BY <1>1
<1>3. block \in Seq(Line) /\ Len(block) = n
  BY <1>2, SubSeqType
<1>. HIDE DEF block
<1>4. /\ top \in Seq(Line)
      /\ Len(top) = IF 1 <= h - 1 THEN (h - 1) - 1 + 1 ELSE 0
  BY <1>1, SubSeqType
<1>5. /\ below \in Seq(Line)
      /\ Len(below) = IF h + n <= Len(lines) THEN Len(lines) - (h + n) + 1 ELSE 0
  BY <1>1, <1>3, SubSeqType
<1>. HIDE DEF top, below
<1>6. Len(top) = h - 1 /\ Len(below) = Len(lines) - (h + n) + 1
  <2>1. Len(top) = h - 1
    BY <1>1, <1>4
  <2>2. Len(below) = Len(lines) - (h + n) + 1
    <3>1. CASE h + n <= Len(lines)
      BY <1>1, <1>5, <3>1
    <3>2. CASE h + n = Len(lines) + 1
      BY <1>1, <1>5, <3>2
    <3>. QED
      BY <1>1, <3>1, <3>2
  <2>. QED
    BY <2>1, <2>2
<1>7. rest \in Seq(Line) /\ Len(rest) = Len(lines) - n
  BY <1>1, <1>4, <1>5, <1>6, ConcatProperties
<1>. HIDE DEF rest
<1>8. cut \in 1..(Len(rest) + 1)
  BY <1>1, <1>3, <1>7
<1>. HIDE DEF cut
<1>9. Len(rest) \in Nat
  BY <1>7, LenProperties
<1>10. SubSeq(rest, 1, cut - 1) \in Seq(Line)
  BY <1>7, <1>8, <1>9, SubSeqType
<1>11. SubSeq(rest, cut, Len(rest)) \in Seq(Line)
  BY <1>7, <1>8, <1>9, SubSeqType
<1>12. Moved(lines, h, at)
         = SubSeq(rest, 1, cut - 1) \o block \o SubSeq(rest, cut, Len(rest))
  BY DEF Moved, n, block, top, below, rest, cut
<1>. QED
  BY <1>3, <1>10, <1>11, <1>12, ConcatProperties

LEMMA FunctionIsSeq ==
  ASSUME NEW S, NEW n \in Nat, NEW f \in [1..n -> S]
  PROVE  f \in Seq(S)
BY SeqDef

LEMMA CopiedType ==
  ASSUME NEW lines \in Seq(Line), NEW h \in HeadingsOf(lines), NEW block, NEW fresh,
         NEW copy, NEW last,
         block = BlockFrom(lines, h), fresh \in [block -> Lines],
         copy = [i \in 1..Cardinality(block) |->
                   [lines[h + i - 1] EXCEPT !.id = fresh[h + i - 1]]],
         last = h + Cardinality(block) - 1
  PROVE  /\ copy[1] \in Line
         /\ SubSeq(lines, 1, last) \o copy \o SubSeq(lines, last + 1, Len(lines))
              \in Seq(Line)
<1> DEFINE n == Cardinality(block)
<1>1. /\ Len(lines) \in Nat /\ h \in 1..Len(lines) /\ n \in Nat \ {0}
      /\ h + n - 1 <= Len(lines) /\ block = h..(h + n - 1)
  BY BlockFromType, LenProperties
<1>2. copy = [i \in 1..n |-> [lines[h + i - 1] EXCEPT !.id = fresh[h + i - 1]]]
  OBVIOUS
<1>3. last = h + n - 1
  OBVIOUS
<1>. HIDE DEF n
<1>4. ASSUME NEW i \in 1..n
      PROVE  copy[i] \in Line
  <2>1. h + i - 1 \in block /\ h + i - 1 \in 1..Len(lines)
    BY <1>1
  <2>2. lines[h + i - 1] \in Line
    BY <2>1, ElementOfSeq
  <2>3. fresh[h + i - 1] \in Lines
    BY <2>1
  <2>. QED
    BY <1>2, <2>2, <2>3 DEF Line
<1>5. copy \in Seq(Line)
  <2>1. n \in Nat
    BY <1>1
  <2>2. copy = [i \in 1..n |-> copy[i]]
    BY <1>2
  <2>3. copy \in [1..n -> Line]
    BY <1>4, <2>2
  <2>. QED
    BY <2>1, <2>3, FunctionIsSeq
<1>6. copy[1] \in Line
  <2>1. 1 \in 1..n
    BY <1>1
  <2>. QED
    BY <2>1, <1>4
<1>7. SubSeq(lines, 1, last) \in Seq(Line)
  BY <1>1, <1>3, SubSeqType
<1>8. SubSeq(lines, last + 1, Len(lines)) \in Seq(Line)
  <2>1. last + 1 \in Nat \ {0} /\ Len(lines) \in Int /\ Len(lines) <= Len(lines)
    BY <1>1, <1>3
  <2>. QED
    BY <2>1, SubSeqType
<1>. QED
  BY <1>5, <1>6, <1>7, <1>8, ConcatProperties

LEMMA RemovedType ==
  ASSUME NEW lines \in Seq(Line), NEW h \in HeadingsOf(lines), NEW g,
         g = [i \in 1..(Len(lines) - Cardinality(BlockFrom(lines, h))) |->
                IF i < h THEN lines[i]
                ELSE lines[i + Cardinality(BlockFrom(lines, h))]]
  PROVE  g \in Seq(Line)
<1> DEFINE n == Cardinality(BlockFrom(lines, h))
           m == Len(lines) - n
<1>1. /\ Len(lines) \in Nat /\ h \in 1..Len(lines) /\ n \in Nat \ {0}
      /\ h + n - 1 <= Len(lines)
  BY BlockFromType, LenProperties
<1>2. g = [i \in 1..m |-> IF i < h THEN lines[i] ELSE lines[i + n]]
  OBVIOUS
<1>. HIDE DEF n
<1>3. ASSUME NEW i \in 1..m
      PROVE  g[i] \in Line
  <2>1. i \in 1..Len(lines) /\ i + n \in 1..Len(lines)
    BY <1>1
  <2>2. lines[i] \in Line /\ lines[i + n] \in Line
    BY <2>1, ElementOfSeq
  <2>. QED
    BY <1>2, <2>2
<1>4. m \in Nat
  BY <1>1
<1>5. g \in [1..m -> Line]
  BY <1>2, <1>3
<1>. HIDE DEF m
<1>. QED
  BY <1>4, <1>5, SeqDef, ZenonT(30)

LEMMA ReflectedType ==
  ASSUME NEW lines \in Seq(Line), NEW plan \in Seq(Row), NEW g,
         g = Reflected(lines, plan)
  PROVE  g \in Seq(Line)
<1> DEFINE text(i)  == lines[CHOOSE j \in DOMAIN lines : lines[j].id = plan[i].id].text
           place(i) == IF i <= Len(lines) THEN i ELSE Len(lines)
           put(k)   == {i \in DOMAIN plan : /\ plan[i].id \in LineIds(lines)
                                            /\ text(i) # plan[i].text
                                            /\ place(i) = k}
<1>1. g = [k \in DOMAIN lines |->
             IF put(k) = {} THEN lines[k]
             ELSE [lines[k] EXCEPT !.text = plan[LastOf(put(k))].text]]
  BY DEF Reflected
<1>2. /\ Len(lines) \in Nat /\ DOMAIN lines = 1..Len(lines)
      /\ Len(plan) \in Nat /\ DOMAIN plan = 1..Len(plan)
  BY LenProperties
<1>3. ASSUME NEW k \in DOMAIN lines
      PROVE  g[k] \in Line
  <2>1. lines[k] \in Line
    BY <1>2, ElementOfSeq
  <2>2. put(k) \subseteq DOMAIN plan
    OBVIOUS
  <2>. HIDE DEF put
  <2>3. CASE put(k) = {}
    BY <1>1, <2>1, <2>3
  <2>4. CASE put(k) # {}
    <3>1. put(k) \in SUBSET Nat /\ \A i \in put(k) : i <= Len(plan)
      BY <1>2, <2>2
    <3>2. LastOf(put(k)) \in put(k)
      BY <1>2, <2>4, <3>1, LastOfType
    <3>3. plan[LastOf(put(k))].text \in Nat
      BY <2>2, <3>2, RowsType
    <3>4. g[k] = [lines[k] EXCEPT !.text = plan[LastOf(put(k))].text]
      BY <1>1, <2>4
    <3>. QED
      BY <2>1, <3>3, <3>4 DEF Line
  <2>. QED
    BY <2>3, <2>4
<1>4. g \in [1..Len(lines) -> Line]
  <2>1. DOMAIN g = DOMAIN lines /\ g = [k \in DOMAIN lines |-> g[k]]
    BY <1>1
  <2>. QED
    BY <1>2, <1>3, <2>1
<1>. QED
  BY <1>2, <1>4, SeqDef

-----------------------------------------------------------------------------
(* The inductive invariant                                                  *)

\* Names that were given out stay given out.
LEMMA NamesStay ==
  ASSUME IInv, FilmOK(film'), Grows(film, film')
  PROVE  /\ \A l \in DOMAIN prev : prev[l].scene < film'.next.scene
         /\ Given(job.plan, film')
         /\ Given(stray.rows, film')
<1>1. /\ film.next.scene \in Nat /\ film'.next.scene \in Nat
      /\ film.next.scene <= film'.next.scene
  BY FilmParts DEF IInv, TypeOK, Grows
<1>2. /\ job.plan \in Seq(Row) /\ stray.rows \in Seq(Row)
      /\ \A l \in DOMAIN prev : prev[l].scene \in Nat
  BY DEF IInv, TypeOK, Block
<1>3. /\ \A i \in DOMAIN job.plan : job.plan[i].scene \in Nat
      /\ \A i \in DOMAIN stray.rows : stray.rows[i].scene \in Nat
  BY <1>2, RowsType
<1>. QED
  BY <1>1, <1>2, <1>3 DEF IInv, NamesInv, Given

\* A write of the film that leaves the window alone.
LEMMA FilmWrite ==
  ASSUME IInv, FilmOK(film'), Grows(film, film'), OneHeadingEach(film'.rows),
         IsUndo(undo', film'), edits' = edits, writes' \in 0..MaxWrites,
         UNCHANGED window
  PROVE  IInv'
<1>1. /\ \A l \in DOMAIN prev : prev[l].scene < film'.next.scene
      /\ Given(job.plan, film') /\ Given(stray.rows, film')
  BY NamesStay
<1>2. TypeOK'
  BY DEF IInv, TypeOK, window
<1>3. NamesInv'
  BY <1>1 DEF NamesInv, window
<1>4. OneHeadingPerScene'
  BY DEF OneHeadingPerScene
<1>. QED
  BY <1>2, <1>3, <1>4 DEF IInv

\* A step of the window that leaves the film alone.
LEMMA WindowStep ==
  ASSUME IInv, UNCHANGED film,
         doc' \in Seq(Line),
         prev' \in [DOMAIN prev' -> Block], DOMAIN prev' \subseteq Lines,
         \A l \in DOMAIN prev' : prev'[l].scene < film.next.scene,
         mounted' \in BOOLEAN, timer' \in BOOLEAN, review' \in BOOLEAN,
         queue' \in Seq(Kinds),
         job' \in [kind : Kinds \cup {"none"}, plan : Seq(Row),
                   stage : {"idle", "sent", "stored", "refused", "settled"}],
         Given(job'.plan, film),
         stray' \in [new : BOOLEAN, rows : Seq(Row)], Given(stray'.rows, film),
         undo' = undo \/ undo' = NoUndo,
         edits' \in 0..MaxEdits, writes' \in 0..MaxWrites, leaves' \in 0..MaxLeaves
  PROVE  IInv'
<1>1. FilmOK(film') /\ IsUndo(undo', film')
  BY DEF IInv, TypeOK, IsUndo
<1>2. TypeOK'
  BY <1>1 DEF TypeOK
<1>3. NamesInv'
  BY DEF NamesInv, Given
<1>4. OneHeadingPerScene'
  BY DEF IInv, OneHeadingPerScene
<1>. QED
  BY <1>2, <1>3, <1>4 DEF IInv

LEMMA WindowParts ==
  ASSUME IInv
  PROVE  /\ FilmOK(film) /\ OneHeadingEach(film.rows) /\ IsUndo(undo, film)
         /\ doc \in Seq(Line)
         /\ prev \in [DOMAIN prev -> Block] /\ DOMAIN prev \subseteq Lines
         /\ \A l \in DOMAIN prev : prev[l].scene < film.next.scene
         /\ mounted \in BOOLEAN /\ timer \in BOOLEAN /\ review \in BOOLEAN
         /\ queue \in Seq(Kinds)
         /\ job \in [kind : Kinds \cup {"none"}, plan : Seq(Row),
                     stage : {"idle", "sent", "stored", "refused", "settled"}]
         /\ Given(job.plan, film)
         /\ stray \in [new : BOOLEAN, rows : Seq(Row)] /\ Given(stray.rows, film)
         /\ edits \in 0..MaxEdits /\ writes \in 0..MaxWrites
         /\ leaves \in 0..MaxLeaves
BY DEF IInv, TypeOK, NamesInv, OneHeadingPerScene

\* Typing changes the document and nothing the host knows.
LEMMA EditKeeps ==
  ASSUME IInv, NEW lines \in Seq(Line), Edit(lines)
  PROVE  IInv'
<1>1. edits' \in 0..MaxEdits
  BY WindowParts, BoundsAssumption DEF Edit
<1>2. /\ UNCHANGED <<film, prev, mounted, queue, job, stray, review, undo, writes, leaves>>
      /\ doc' = lines /\ timer' = TRUE
  BY DEF Edit
<1>. QED
  BY <1>1, <1>2, WindowParts, WindowStep

LEMMA TypedKeeps ==
  ASSUME IInv,
         \/ \E at \in 1..(Len(doc) + 1), type \in LineTypes : AddLine(at, type)
         \/ \E i \in DOMAIN doc : EditText(i) \/ DeleteLine(i)
         \/ \E i \in DOMAIN doc, type \in LineTypes : Retype(i, type)
  PROVE  IInv'
<1>1. /\ doc \in Seq(Line) /\ edits + 1 \in Nat
      /\ Len(doc) \in Nat /\ DOMAIN doc = 1..Len(doc)
      /\ \A i \in DOMAIN doc : doc[i] \in Line
  BY WindowParts, BoundsAssumption, LenProperties
<1>2. ASSUME NEW at \in 1..(Len(doc) + 1), NEW type \in LineTypes, AddLine(at, type)
      PROVE  IInv'
  <2> DEFINE line == [id |-> CHOOSE l \in NewIds : TRUE, type |-> type, text |-> edits + 1]
  <2>1. NewIds # {} /\ Edit(InsertAt(doc, at, line))
    BY <1>2 DEF AddLine
  <2>2. (CHOOSE l \in NewIds : TRUE) \in Lines
    BY <2>1 DEF NewIds
  <2>3. line \in Line
    BY <1>1, <2>2, LineTypesAssumption DEF Line
  <2>. HIDE DEF line
  <2>4. InsertAt(doc, at, line) \in Seq(Line)
    BY <1>1, <2>3, InsertAtType
  <2>. QED
    BY <2>1, <2>4, EditKeeps
<1>3. ASSUME NEW i \in DOMAIN doc, EditText(i)
      PROVE  IInv'
  <2> DEFINE line == [doc[i] EXCEPT !.text = edits + 1]
  <2>1. line \in Line
    BY <1>1 DEF Line
  <2>2. Edit([doc EXCEPT ![i] = line])
    BY <1>3 DEF EditText
  <2>. HIDE DEF line
  <2>3. [doc EXCEPT ![i] = line] \in Seq(Line)
    BY <1>1, <2>1, ExceptSeq
  <2>. QED
    BY <2>2, <2>3, EditKeeps
<1>4. ASSUME NEW i \in DOMAIN doc, NEW type \in LineTypes, Retype(i, type)
      PROVE  IInv'
  <2> DEFINE line == [doc[i] EXCEPT !.type = type]
  <2>1. line \in Line
    BY <1>1, LineTypesAssumption DEF Line
  <2>2. Edit([doc EXCEPT ![i] = line])
    BY <1>4 DEF Retype
  <2>. HIDE DEF line
  <2>3. [doc EXCEPT ![i] = line] \in Seq(Line)
    BY <1>1, <2>1, ExceptSeq
  <2>. QED
    BY <2>2, <2>3, EditKeeps
<1>5. ASSUME NEW i \in DOMAIN doc, DeleteLine(i)
      PROVE  IInv'
  <2>1. RemoveAt(doc, i) \in Seq(Line)
    BY <1>1, RemoveAtType
  <2>. QED
    BY <1>5, <2>1, EditKeeps DEF DeleteLine
<1>. QED
  BY <1>2, <1>3, <1>4, <1>5

LEMMA QueueType ==
  ASSUME IInv, NEW kind \in Kinds
  PROVE  Append(queue, kind) \in Seq(Kinds)
BY WindowParts, AppendProperties

LEMMA MoveSceneKeeps ==
  ASSUME IInv, NEW h \in DOMAIN doc, NEW at \in 1..(Len(doc) + 1), MoveScene(h, at)
  PROVE  IInv'
<1>1. doc' \in Seq(Line)
  BY WindowParts, MovedType DEF MoveScene
<1>2. queue' \in Seq(Kinds)
  <2>1. "save" \in Kinds
    BY DEF Kinds
  <2>. QED
    BY <2>1, QueueType, WindowParts DEF MoveScene
<1>3. edits' \in 0..MaxEdits /\ timer' = TRUE
  <2>1. edits \in 0..MaxEdits /\ MaxEdits \in Nat
    BY WindowParts, BoundsAssumption
  <2>. QED
    BY <2>1 DEF MoveScene
<1>4. UNCHANGED <<film, prev, mounted, job, stray, review, undo, writes, leaves>>
  BY DEF MoveScene
<1>. QED
  BY <1>1, <1>2, <1>3, <1>4, WindowParts, WindowStep

LEMMA DuplicateSceneKeeps ==
  ASSUME IInv, NEW h \in DOMAIN doc, DuplicateScene(h)
  PROVE  IInv'
<1> DEFINE block == BlockFrom(doc, h)
           last  == h + Cardinality(block) - 1
           ids   == {f \in [block -> NewIds] :
                       \A i, j \in block : f[i] = f[j] => i = j}
           fresh == CHOOSE f \in ids : TRUE
           copy  == [i \in 1..Cardinality(block) |->
                       [doc[h + i - 1] EXCEPT !.id = fresh[h + i - 1]]]
<1>1. /\ h \in HeadingsOf(doc) /\ edits < MaxEdits
      /\ ids # {}
      /\ film' = DuplicateSceneRow(film)
      /\ doc' = SubSeq(doc, 1, last) \o copy \o SubSeq(doc, last + 1, Len(doc))
      /\ prev' = PutOver(prev, OneRow(copy[1].id, DuplicateBlock(copy[1], film.next.scene)))
      /\ edits' = edits + 1 /\ timer' = TRUE
      /\ queue' = Append(queue, "save")
      /\ UNCHANGED <<mounted, job, stray, review, undo, writes, leaves>>
  BY DEF DuplicateScene
<1>2. fresh \in [block -> Lines]
  <2>1. fresh \in ids
    BY <1>1
  <2>2. NewIds \subseteq Lines
    BY DEF NewIds
  <2>. QED
    BY <2>1, <2>2
<1>. HIDE DEF block, ids, fresh
<1>3. copy[1] \in Line /\ doc' \in Seq(Line)
  <2>1. \A c, k : /\ c = [i \in 1..Cardinality(block) |->
                            [doc[h + i - 1] EXCEPT !.id = fresh[h + i - 1]]]
                  /\ k = h + Cardinality(block) - 1
                  => /\ c[1] \in Line
                     /\ SubSeq(doc, 1, k) \o c \o SubSeq(doc, k + 1, Len(doc)) \in Seq(Line)
    BY <1>1, <1>2, WindowParts, CopiedType DEF block
  <2>. QED
    BY <2>1, <1>1
<1>. HIDE DEF copy, last
<1>4. /\ FilmOK(film') /\ Grows(film, film') /\ film'.next.scene = film.next.scene + 1
      /\ film'.rows = film.rows
  BY <1>1, WindowParts, DuplicateSceneRowType
<1>5. /\ film.next.scene \in Nat
      /\ \A l \in DOMAIN prev : prev[l].scene < film'.next.scene
      /\ Given(job.plan, film') /\ Given(stray.rows, film')
  BY <1>4, NamesStay, WindowParts, FilmParts
<1>6. /\ DuplicateBlock(copy[1], film.next.scene) \in Block
      /\ DuplicateBlock(copy[1], film.next.scene).scene = film.next.scene
      /\ copy[1].id \in Lines
  BY <1>3, <1>5 DEF DuplicateBlock, Block, Line, None
<1>7. /\ prev' \in [DOMAIN prev' -> Block] /\ DOMAIN prev' \subseteq Lines
      /\ \A l \in DOMAIN prev' : prev'[l].scene < film'.next.scene
  <2> DEFINE line == DuplicateBlock(copy[1], film.next.scene)
  <2>. HIDE DEF line
  <2>1. /\ prev' = PutOver(prev, OneRow(copy[1].id, line))
        /\ line \in Block /\ line.scene < film'.next.scene
    BY <1>1, <1>4, <1>5, <1>6 DEF line
  <2>2. prev \in [DOMAIN prev -> Block] /\ DOMAIN prev \subseteq Lines
    BY WindowParts
  <2>. QED
    BY <2>1, <2>2, <1>5, <1>6 DEF PutOver, OneRow
<1>8. edits' \in 0..MaxEdits
  <2>1. edits' = edits + 1 /\ edits < MaxEdits
    BY <1>1
  <2>2. edits \in 0..MaxEdits /\ MaxEdits \in Nat
    BY WindowParts, BoundsAssumption
  <2>. QED
    BY <2>1, <2>2
<1>9. queue' \in Seq(Kinds)
  BY <1>1, QueueType DEF Kinds
<1>10. OneHeadingPerScene' /\ IsUndo(undo', film')
  BY <1>1, <1>4, WindowParts, UndoStays DEF OneHeadingPerScene
<1>11. TypeOK'
  BY <1>1, <1>3, <1>4, <1>7, <1>8, <1>9, <1>10, WindowParts DEF TypeOK
<1>12. NamesInv'
  BY <1>1, <1>5, <1>7 DEF NamesInv
<1>. QED
  BY <1>10, <1>11, <1>12 DEF IInv

LEMMA RemoveSceneKeeps ==
  ASSUME IInv, NEW h \in DOMAIN doc, RemoveScene(h)
  PROVE  IInv'
<1>1. /\ h \in HeadingsOf(doc)
      /\ film' = RemoveSceneCascade(film, prev[doc[h].id].scene)
      /\ prev[doc[h].id].scene \in DOMAIN film.scenes
      /\ edits' = edits + 1 /\ edits < MaxEdits /\ timer' = TRUE
      /\ undo' = NoUndo
      /\ queue' = Append(queue, "save")
      /\ UNCHANGED <<prev, mounted, job, stray, review, writes, leaves>>
  BY DEF RemoveScene
<1>2. doc' \in Seq(Line)
  BY <1>1, WindowParts, RemovedType DEF RemoveScene
<1>3. /\ FilmOK(film') /\ Grows(film, film') /\ OneHeadingEach(film'.rows)
  BY <1>1, WindowParts, RemoveSceneCascadeType
<1>4. /\ \A l \in DOMAIN prev : prev[l].scene < film'.next.scene
      /\ Given(job.plan, film') /\ Given(stray.rows, film')
  BY <1>3, NamesStay
<1>5. edits' \in 0..MaxEdits
  BY <1>1, WindowParts, BoundsAssumption, SMTT(20)
<1>6. queue' \in Seq(Kinds)
  BY <1>1, QueueType DEF Kinds
<1>7. IsUndo(undo', film')
  BY <1>1 DEF IsUndo
<1>8. TypeOK'
  BY <1>1, <1>2, <1>3, <1>5, <1>6, <1>7, WindowParts DEF TypeOK
<1>9. NamesInv' /\ OneHeadingPerScene'
  BY <1>1, <1>3, <1>4 DEF NamesInv, OneHeadingPerScene
<1>. QED
  BY <1>8, <1>9 DEF IInv

\* What the host makes of a commit.
LEMMA StoredFilm ==
  ASSUME IInv, NEW plan \in Seq(Row), NEW new \in BOOLEAN, Given(plan, film),
         film' = CommitScript(film, plan, new).film
  PROVE  /\ FilmOK(film') /\ Grows(film, film') /\ OneHeadingEach(film'.rows)
         /\ CommitScript(film, plan, new).ok \in BOOLEAN
<1> DEFINE r == CommitScript(film, plan, new)
<1>1. FilmOK(film) /\ OneHeadingEach(film.rows)
  BY WindowParts
<1>2. /\ FilmOK(r.film)
      /\ film.next.scene <= r.film.next.scene /\ film.next.span <= r.film.next.span
      /\ r.film.next.shot = film.next.shot
      /\ r.ok \in BOOLEAN
      /\ r.ok => OneHeadingEach(r.film.rows)
      /\ ~r.ok => r.film = film
  BY <1>1, CommitScriptType
<1>3. film' = r.film
  OBVIOUS
<1>. HIDE DEF r
<1>4. OneHeadingEach(r.film.rows)
  BY <1>1, <1>2
<1>5. Grows(film, r.film)
  BY <1>1, <1>2, FilmParts DEF Grows
<1>. QED
  BY <1>2, <1>3, <1>4, <1>5 DEF r

LEMMA StoreKeeps ==
  ASSUME IInv, StoreCommit \/ StoreStray
  PROVE  IInv'
<1>0. /\ job \in [kind : Kinds \cup {"none"}, plan : Seq(Row),
                  stage : {"idle", "sent", "stored", "refused", "settled"}]
      /\ stray \in [new : BOOLEAN, rows : Seq(Row)]
  BY WindowParts
<1>1. CASE StoreCommit
  <2> DEFINE r == CommitScript(film, job.plan, Creates(job.kind))
  <2>1. /\ film' = r.film
        /\ job' = [job EXCEPT !.stage = IF r.ok THEN "stored" ELSE "refused"]
        /\ UNCHANGED <<doc, prev, mounted, timer, queue, stray, review, undo, edits,
                       writes, leaves>>
    BY <1>1 DEF StoreCommit
  <2>2. /\ job.plan \in Seq(Row) /\ Creates(job.kind) \in BOOLEAN
        /\ Given(job.plan, film)
    BY <1>0, WindowParts DEF Creates
  <2>3. /\ FilmOK(film') /\ Grows(film, film') /\ OneHeadingEach(film'.rows)
    BY <2>1, <2>2, StoredFilm
  <2>. HIDE DEF r
  <2>4. /\ job' \in [kind : Kinds \cup {"none"}, plan : Seq(Row),
                     stage : {"idle", "sent", "stored", "refused", "settled"}]
        /\ job'.plan = job.plan
    BY <1>0, <2>1
  <2>5. /\ \A l \in DOMAIN prev : prev[l].scene < film'.next.scene
        /\ Given(job.plan, film') /\ Given(stray.rows, film')
    BY <2>3, NamesStay
  <2>6. IsUndo(undo', film')
    BY <2>1, <2>3, WindowParts, UndoStays
  <2>7. TypeOK'
    BY <2>1, <2>3, <2>4, <2>6, WindowParts DEF TypeOK
  <2>8. NamesInv' /\ OneHeadingPerScene'
    BY <2>1, <2>3, <2>4, <2>5 DEF NamesInv, OneHeadingPerScene
  <2>. QED
    BY <2>7, <2>8 DEF IInv
<1>2. CASE StoreStray
  <2>1. /\ film' = CommitScript(film, stray.rows, stray.new).film
        /\ stray' = NoPlan
        /\ UNCHANGED <<doc, prev, mounted, timer, queue, job, review, undo, edits,
                       writes, leaves>>
    BY <1>2 DEF StoreStray
  <2>2. /\ stray.rows \in Seq(Row) /\ stray.new \in BOOLEAN /\ Given(stray.rows, film)
    BY <1>0, WindowParts
  <2>3. /\ FilmOK(film') /\ Grows(film, film') /\ OneHeadingEach(film'.rows)
    BY <2>1, <2>2, StoredFilm
  <2>4. stray' \in [new : BOOLEAN, rows : Seq(Row)] /\ Given(stray'.rows, film')
    BY <2>1 DEF NoPlan, Given
  <2>5. /\ \A l \in DOMAIN prev : prev[l].scene < film'.next.scene
        /\ Given(job.plan, film')
    BY <2>3, NamesStay
  <2>6. IsUndo(undo', film')
    BY <2>1, <2>3, WindowParts, UndoStays
  <2>7. TypeOK'
    BY <2>1, <2>3, <2>4, <2>6, WindowParts DEF TypeOK
  <2>8. NamesInv' /\ OneHeadingPerScene'
    BY <2>1, <2>3, <2>4, <2>5 DEF NamesInv, OneHeadingPerScene
  <2>. QED
    BY <2>7, <2>8 DEF IInv
<1>. QED
  BY <1>1, <1>2

\* A plan made of what the window remembers names what the film has given out.
LEMMA PlanGiven ==
  ASSUME IInv, NEW plan, plan = PlanCommit(doc, prev)
  PROVE  plan \in Seq(Row) /\ Given(plan, film)
<1>1. /\ plan \in Seq(Row)
      /\ \A i \in DOMAIN plan :
           \/ plan[i].scene = None
           \/ \E l \in DOMAIN prev : plan[i].scene = prev[l].scene
  BY WindowParts, PlanType
<1>2. /\ film.next.scene \in Nat \ {0}
      /\ \A l \in DOMAIN prev : prev[l].scene < film.next.scene
  BY WindowParts, FilmParts
<1>. QED
  BY <1>1, <1>2 DEF Given, None

LEMMA BlocksGiven ==
  ASSUME IInv, NEW rows \in Seq(Row), Given(rows, film), NEW blocks,
         blocks = BlocksOf(rows)
  PROVE  /\ blocks \in [DOMAIN blocks -> Block] /\ DOMAIN blocks \subseteq Lines
         /\ \A l \in DOMAIN blocks : blocks[l].scene < film.next.scene
BY BlocksType DEF Given

LEMMA CommittingKeeps ==
  ASSUME IInv,
         \/ TimerFires \/ StartCommit \/ CommitAnswered \/ CommitRefused
         \/ \E asks \in BOOLEAN : PlanCreation(asks)
         \/ \E kind \in {"explicit", "confirm"} : AskToCommit(kind)
         \/ CancelReview
  PROVE  IInv'
<1> DEFINE Jobs == [kind : Kinds \cup {"none"}, plan : Seq(Row),
                    stage : {"idle", "sent", "stored", "refused", "settled"}]
<1>0. /\ Idle \in Jobs /\ Given(Idle.plan, film)
      /\ job \in Jobs /\ Given(job.plan, film) /\ queue \in Seq(Kinds)
      /\ job.plan \in Seq(Row)
  BY WindowParts DEF Idle, Given
<1>1. CASE TimerFires
  <2>1. queue' \in Seq(Kinds)
    BY <1>1, QueueType DEF TimerFires, Kinds
  <2>. QED
    BY <1>1, <2>1, WindowParts, WindowStep DEF TimerFires
<1>2. CASE StartCommit
  <2>1. /\ Head(queue) \in Kinds /\ queue' \in Seq(Kinds)
    BY <1>0, <1>2, HeadTailProperties DEF StartCommit
  <2>2. PlanCommit(doc, prev) \in Seq(Row) /\ Given(PlanCommit(doc, prev), film)
    BY PlanGiven
  <2>3. job' \in Jobs /\ Given(job'.plan, film)
    BY <1>2, <2>1, <2>2 DEF StartCommit
  <2>. QED
    BY <1>2, <2>1, <2>3, WindowParts, WindowStep DEF StartCommit
<1>3. CASE CommitAnswered
  <2>1. /\ prev' \in [DOMAIN prev' -> Block] /\ DOMAIN prev' \subseteq Lines
        /\ \A l \in DOMAIN prev' : prev'[l].scene < film.next.scene
    BY <1>0, <1>3, BlocksGiven DEF CommitAnswered, Remembered
  <2>2. doc' \in Seq(Line)
    BY <1>0, <1>3, WindowParts, ReflectedType DEF CommitAnswered
  <2>3. job' \in Jobs /\ Given(job'.plan, film)
    <3>1. job' = Idle \/ job' = [job EXCEPT !.stage = "settled"]
      BY <1>3 DEF CommitAnswered
    <3>. QED
      BY <1>0, <3>1
  <2>4. timer' \in BOOLEAN /\ review' \in BOOLEAN
    BY <1>3, WindowParts DEF CommitAnswered
  <2>5. UNCHANGED <<film, mounted, queue, stray, undo, edits, writes, leaves>>
    BY <1>3 DEF CommitAnswered
  <2>. QED
    BY <2>1, <2>2, <2>3, <2>4, <2>5, WindowParts, WindowStep
<1>4. CASE CommitRefused
  BY <1>0, <1>4, WindowParts, WindowStep DEF CommitRefused
<1>5. ASSUME NEW asks \in BOOLEAN, PlanCreation(asks)
      PROVE  IInv'
  <2> DEFINE plan == PlanCommit(doc, prev)
  <2>1. plan \in Seq(Row) /\ Given(plan, film)
    BY PlanGiven
  <2>2. /\ review' = TRUE \/ review' = review
        /\ \/ job' = Idle
           \/ job' = [kind |-> "create", stage |-> "sent", plan |-> plan]
        /\ UNCHANGED <<film, doc, prev, mounted, timer, queue, stray, undo, edits,
                       writes, leaves>>
    BY <1>5 DEF PlanCreation
  <2>. HIDE DEF plan
  <2>3. job' \in Jobs /\ Given(job'.plan, film)
    BY <1>0, <2>1, <2>2 DEF Kinds
  <2>4. review' \in BOOLEAN
    BY <2>2, WindowParts
  <2>. QED
    BY <2>2, <2>3, <2>4, WindowParts, WindowStep
<1>6. ASSUME NEW kind \in {"explicit", "confirm"}, AskToCommit(kind)
      PROVE  IInv'
  <2>1. queue' \in Seq(Kinds)
    BY <1>6, QueueType DEF AskToCommit, Kinds
  <2>. QED
    BY <1>6, <2>1, WindowParts, WindowStep DEF AskToCommit
<1>7. CASE CancelReview
  BY <1>7, WindowParts, WindowStep DEF CancelReview
<1>. QED
  BY <1>1, <1>2, <1>3, <1>4, <1>5, <1>6, <1>7

LEMMA MountKeeps ==
  ASSUME IInv, Leave \/ Return
  PROVE  IInv'
<1>1. CASE Leave
  <2>1. /\ Idle \in [kind : Kinds \cup {"none"}, plan : Seq(Row),
                     stage : {"idle", "sent", "stored", "refused", "settled"}]
        /\ Given(Idle.plan, film)
    BY DEF Idle, Given
  <2>2. stray' \in [new : BOOLEAN, rows : Seq(Row)] /\ Given(stray'.rows, film)
    <3>1. NoPlan \in [new : BOOLEAN, rows : Seq(Row)] /\ Given(NoPlan.rows, film)
      BY DEF NoPlan, Given
    <3>2. /\ [new |-> Creates(job.kind), rows |-> job.plan] \in [new : BOOLEAN, rows : Seq(Row)]
          /\ Given(job.plan, film)
      BY WindowParts DEF Creates
    <3>3. \/ stray' = NoPlan
          \/ stray' = [new |-> Creates(job.kind), rows |-> job.plan]
      BY <1>1 DEF Leave
    <3>. QED
      BY <3>1, <3>2, <3>3
  <2>3. leaves' \in 0..MaxLeaves
    BY <1>1, WindowParts, BoundsAssumption DEF Leave
  <2>4. /\ mounted' = FALSE /\ timer' = FALSE /\ review' = FALSE
        /\ doc' = <<>> /\ prev' = <<>> /\ queue' = <<>> /\ job' = Idle
        /\ UNCHANGED <<film, undo, edits, writes>>
    BY <1>1 DEF Leave
  <2>5. doc' \in Seq(Line) /\ queue' \in Seq(Kinds)
    BY <2>4, EmptySeq
  <2>6. /\ prev' \in [DOMAIN prev' -> Block] /\ DOMAIN prev' \subseteq Lines
        /\ \A l \in DOMAIN prev' : prev'[l].scene < film.next.scene
    BY <2>4
  <2>. QED
    BY <2>1, <2>2, <2>3, <2>4, <2>5, <2>6, WindowParts, WindowStep
<1>2. CASE Return
  <2>1. film.rows \in Seq(Row) /\ Given(film.rows, film)
    <3>1. /\ film.rows \in Seq(Row) /\ FilmFits(film)
          /\ film.next.scene \in Nat \ {0} /\ \A s \in DOMAIN film.scenes : s < film.next.scene
      BY WindowParts, FilmParts, TableFinite
    <3>. QED
      BY <3>1 DEF Given, FilmFits, None
  <2>2. doc' \in Seq(Line)
    BY <1>2, <2>1, ShownType DEF Return
  <2>3. /\ prev' \in [DOMAIN prev' -> Block] /\ DOMAIN prev' \subseteq Lines
        /\ \A l \in DOMAIN prev' : prev'[l].scene < film.next.scene
    BY <1>2, <2>1, BlocksGiven DEF Return
  <2>4. /\ mounted' = TRUE /\ timer' \in BOOLEAN
        /\ UNCHANGED <<film, queue, job, stray, review, undo, edits, writes, leaves>>
    BY <1>2 DEF Return
  <2>. QED
    BY <2>2, <2>3, <2>4, WindowParts, WindowStep
<1>. QED
  BY <1>1, <1>2

LEMMA SetPolicyType ==
  ASSUME NEW f, NEW p \in {"derived", "fixed"}, NEW g, FilmOK(f),
         g = [f EXCEPT !.policy = p]
  PROVE  /\ FilmOK(g) /\ Grows(f, g) /\ g.rows = f.rows /\ g.scenes = f.scenes
         /\ g.spans = f.spans /\ g.shots = f.shots /\ g.members = f.members
         /\ g.policy = p /\ g.next = f.next
<1>1. /\ IsFilm(g)
      /\ g.rows = f.rows /\ g.scenes = f.scenes /\ g.shots = f.shots
      /\ g.members = f.members /\ g.spans = f.spans /\ g.policy = p
      /\ g.next = f.next
  BY FilmParts DEF IsFilm, Tables
<1>2. FilmFits(g)
  BY <1>1, FilmParts DEF FilmFits
<1>3. Grows(f, g)
  BY <1>1, FilmParts DEF Grows
<1>. QED
  BY <1>1, <1>2, <1>3, FilmShape

LEMMA WritesKeep ==
  ASSUME IInv,
         \/ StructureWrite \/ ShotWrite
         \/ \E p \in {"derived", "fixed"} : SetPolicy(p)
         \/ \E s \in DOMAIN film.scenes : DeleteSceneRecord(s) \/ AgentDeletesScene(s)
         \/ UndoDelete
  PROVE  IInv'
<1>0. FilmOK(film) /\ OneHeadingEach(film.rows) /\ IsUndo(undo, film)
  BY WindowParts
<1>1. ASSUME NEW g, Write(g), FilmOK(g), Grows(film, g), OneHeadingEach(g.rows),
             IsUndo(undo', g), edits' = edits
      PROVE  IInv'
  <2>1. film' = g /\ writes' \in 0..MaxWrites /\ UNCHANGED window
    BY <1>1, WindowParts, BoundsAssumption DEF Write
  <2>. QED
    BY <1>1, <2>1, FilmWrite
<1>2. CASE StructureWrite
  <2>1. UNCHANGED <<undo, edits>>
    BY <1>2 DEF StructureWrite
  <2>2. PICK g : /\ Write(g) /\ FilmOK(g) /\ Grows(film, g) /\ g.rows = film.rows
    BY <1>0, <1>2, CreateSpanType, SetSpanBoundaryType DEF StructureWrite
  <2>3. IsUndo(undo', g)
    BY <1>0, <2>1, <2>2, UndoStays
  <2>. QED
    BY <1>0, <1>1, <2>1, <2>2, <2>3
<1>3. CASE ShotWrite
  <2>1. UNCHANGED <<undo, edits>>
    BY <1>3 DEF ShotWrite
  <2>2. PICK g : /\ Write(g) /\ FilmOK(g) /\ Grows(film, g) /\ g.rows = film.rows
    BY <1>0, <1>3, AddShotType, MoveShotToType DEF ShotWrite
  <2>3. IsUndo(undo', g)
    BY <1>0, <2>1, <2>2, UndoStays
  <2>. QED
    BY <1>0, <1>1, <2>1, <2>2, <2>3
<1>4. ASSUME NEW p \in {"derived", "fixed"}, SetPolicy(p)
      PROVE  IInv'
  <2>1. UNCHANGED <<undo, edits>>
    BY <1>4 DEF SetPolicy
  <2>2. PICK g : /\ Write(g) /\ FilmOK(g) /\ Grows(film, g) /\ g.rows = film.rows
    BY <1>0, <1>4, SetPolicyType DEF SetPolicy
  <2>3. IsUndo(undo', g)
    BY <1>0, <2>1, <2>2, UndoStays
  <2>. QED
    BY <1>0, <1>1, <2>1, <2>2, <2>3
<1>5. ASSUME NEW s \in DOMAIN film.scenes, DeleteSceneRecord(s) \/ AgentDeletesScene(s)
      PROVE  IInv'
  <2> DEFINE g == DeleteScene(film, s)
  <2>1. /\ Write(g) /\ edits' = edits
        /\ undo' = undo \/ undo' = CaptureForUndo(film, s)
    BY <1>5 DEF DeleteSceneRecord, AgentDeletesScene
  <2>2. FilmOK(g) /\ Grows(film, g) /\ OneHeadingEach(g.rows)
    BY <1>0, DeleteSceneType
  <2>3. IsUndo(undo', film)
    BY <1>0, <2>1, CaptureType
  <2>. HIDE DEF g
  <2>4. IsUndo(undo', g)
    BY <1>0, <2>2, <2>3, UndoStays
  <2>. QED
    BY <1>1, <2>1, <2>2, <2>4
<1>6. CASE UndoDelete
  <2>1. /\ undo # NoUndo /\ undo' = NoUndo /\ film' = RestoreFromUndo(film, undo)
        /\ UNCHANGED <<window, edits, writes>>
    BY <1>6 DEF UndoDelete
  <2>2. FilmOK(film') /\ Grows(film, film') /\ film'.rows = film.rows
    BY <1>0, <2>1, RestoreType
  <2>3. IsUndo(undo', film')
    BY <2>1 DEF IsUndo
  <2>4. writes' \in 0..MaxWrites
    BY <2>1, WindowParts
  <2>. QED
    BY <1>0, <2>1, <2>2, <2>3, <2>4, FilmWrite
<1>. QED
  BY <1>2, <1>3, <1>4, <1>5, <1>6

LEMMA InitHolds ==
  ASSUME Init
  PROVE  IInv
<1>1. FilmOK(film) /\ OneHeadingEach(film.rows) /\ film = Opening
  BY OpeningAssumption DEF Init
<1>2. film.rows \in Seq(Row) /\ Given(film.rows, film)
  <2>1. /\ film.rows \in Seq(Row) /\ FilmFits(film)
        /\ film.next.scene \in Nat \ {0} /\ \A s \in DOMAIN film.scenes : s < film.next.scene
    BY <1>1, FilmParts, TableFinite
  <2>. QED
    BY <2>1 DEF Given, FilmFits, None
<1>3. doc \in Seq(Line)
  BY <1>1, <1>2, ShownType DEF Init
<1>4. /\ prev \in [DOMAIN prev -> Block] /\ DOMAIN prev \subseteq Lines
      /\ \A l \in DOMAIN prev : prev[l].scene < film.next.scene
  <2>1. prev = BlocksOf(film.rows)
    BY <1>1 DEF Init
  <2>. QED
    BY <1>2, <2>1, BlocksType DEF Given
<1>5. /\ job \in [kind : Kinds \cup {"none"}, plan : Seq(Row),
                  stage : {"idle", "sent", "stored", "refused", "settled"}]
      /\ Given(job.plan, film)
      /\ stray \in [new : BOOLEAN, rows : Seq(Row)] /\ Given(stray.rows, film)
      /\ IsUndo(undo, film)
  BY DEF Init, Idle, NoPlan, Given, IsUndo
<1>6. /\ mounted \in BOOLEAN /\ timer \in BOOLEAN /\ review \in BOOLEAN
      /\ queue \in Seq(Kinds)
      /\ edits \in 0..MaxEdits /\ writes \in 0..MaxWrites /\ leaves \in 0..MaxLeaves
  <2>1. /\ mounted = TRUE /\ timer = FALSE /\ review = FALSE /\ queue = <<>>
        /\ edits = 0 /\ writes = 0 /\ leaves = 0
    BY DEF Init
  <2>2. <<>> \in Seq(Kinds)
    BY EmptySeq
  <2>3. MaxEdits \in Nat /\ MaxWrites \in Nat /\ MaxLeaves \in Nat
    BY BoundsAssumption
  <2>4. mounted \in BOOLEAN /\ timer \in BOOLEAN /\ review \in BOOLEAN
    BY <2>1, Zenon
  <2>5. queue \in Seq(Kinds)
    BY <2>1, <2>2
  <2>6. edits = 0 /\ writes = 0 /\ leaves = 0
    BY <2>1
  <2>7. edits \in 0..MaxEdits /\ writes \in 0..MaxWrites /\ leaves \in 0..MaxLeaves
    BY <2>3, <2>6
  <2>. QED
    BY <2>4, <2>5, <2>7
<1>7. TypeOK
  BY <1>1, <1>3, <1>4, <1>5, <1>6 DEF TypeOK
<1>8. NamesInv /\ OneHeadingPerScene
  BY <1>1, <1>4, <1>5 DEF NamesInv, OneHeadingPerScene
<1>. QED
  BY <1>7, <1>8 DEF IInv

LEMMA StepKeeps ==
  ASSUME IInv, [Next]_vars
  PROVE  IInv'
<1>1. CASE UNCHANGED vars
  <2>1. UNCHANGED <<film, doc, prev, mounted, timer, queue, job, stray, review, undo,
                    edits, writes, leaves>>
    BY <1>1 DEF vars
  <2>. QED
    BY <2>1, WindowParts, WindowStep
<1>2. CASE Typing
  BY <1>2, TypedKeeps, MoveSceneKeeps, DuplicateSceneKeeps, RemoveSceneKeeps DEF Typing
<1>3. CASE Committing
  BY <1>3, CommittingKeeps, StoreKeeps DEF Committing
<1>. QED
  BY <1>1, <1>2, <1>3, CommittingKeeps, MountKeeps, WritesKeep DEF Next

LEMMA Invariance == Spec => []IInv
<1>1. Init => IInv
  BY InitHolds
<1>2. IInv /\ [Next]_vars => IInv'
  BY StepKeeps
<1>. QED
  BY <1>1, <1>2, PTL DEF Spec

-----------------------------------------------------------------------------
(* The theorems                                                             *)

\* Every variable of the script editor and of the film below it has its type,
\* whatever is typed, committed, deleted and taken back.
THEOREM TypeCorrect == Spec => []TypeOK
<1>1. IInv => TypeOK
  BY DEF IInv
<1>. QED
  BY <1>1, Invariance, PTL

\* A scene belongs to one heading of the stored script, whatever was copied,
\* retyped or duplicated in between.
THEOREM OneHeadingTheorem == Spec => []OneHeadingPerScene
<1>1. IInv => OneHeadingPerScene
  BY DEF IInv
<1>. QED
  BY <1>1, Invariance, PTL

\* A scene that is deleted and taken back is as it was, with its boundaries,
\* shots and memberships.
THEOREM UndoTheorem == Spec => []UndoGivesBack
<1>1. IInv => UndoGivesBack
  BY WindowParts, DeleteAndBack DEF UndoGivesBack
<1>. QED
  BY <1>1, Invariance, PTL

-----------------------------------------------------------------------------
(* Numbers under a policy                                                   *)

\* What a commit that the host takes leaves in the film.
LEMMA CommitScriptParts ==
  ASSUME NEW f, NEW plan \in Seq(Row), NEW new \in BOOLEAN, NEW r,
         FilmOK(f), Given(plan, f), r = CommitScript(f, plan, new), r.ok
  PROVE  LET linked == LinkedFilm(f, plan, new)
             bound  == CommitSections(linked, LinkedRows(f, plan, new), new)
             hint   == SceneOrderHint(f.rows)
             pos    == ScenePositions(hint, linked.scenes)
         IN  /\ r.film.rows = bound.rows
             /\ r.film.scenes = RenumberScenes(f.policy, linked.scenes, hint)
             /\ r.film.shots = RestampShots(f.policy, f.shots, linked.scenes, hint)
             /\ r.film.spans = RenumberSpans(f.policy, bound.spans, pos)
             /\ r.film.policy = f.policy
<1> DEFINE rows   == LinkedRows(f, plan, new)
           linked == LinkedFilm(f, plan, new)
           stored == CommitStructure(linked, rows, new)
           ok     == \A i \in DOMAIN rows :
                       rows[i].scene \in DOMAIN linked.scenes \cup {None}
<1>1. r = [ok |-> ok, film |-> IF ok THEN stored ELSE f]
  BY CommitScriptIs
<1>2. r.film = stored
  <2>. HIDE DEF ok, stored
  <2>. QED
    BY <1>1
<1>3. /\ IsFilm(linked) /\ linked.rows = f.rows /\ linked.shots = f.shots
      /\ linked.policy = f.policy
  BY LinkedFilmType, FilmParts
<1>. HIDE DEF rows, linked, ok
<1>4. LET bound == CommitSections(linked, rows, new)
          hint  == SceneOrderHint(linked.rows)
          pos   == ScenePositions(hint, linked.scenes)
      IN  /\ stored.rows = bound.rows
          /\ stored.scenes = RenumberScenes(linked.policy, linked.scenes, hint)
          /\ stored.shots = RestampShots(linked.policy, linked.shots, linked.scenes, hint)
          /\ stored.spans = RenumberSpans(linked.policy, bound.spans, pos)
          /\ stored.policy = linked.policy
  BY <1>3, CommitStructureParts
<1>. HIDE DEF stored
<1>. QED
  BY <1>2, <1>3, <1>4 DEF rows, linked

KeepsNumbers(f, g) ==
  /\ \A s \in DOMAIN f.scenes \cap DOMAIN g.scenes : g.scenes[s] = f.scenes[s]
  /\ \A a \in DOMAIN f.spans \cap DOMAIN g.spans : g.spans[a].num = f.spans[a].num
  /\ \A h \in DOMAIN f.shots \cap DOMAIN g.shots :
       g.shots[h].scene = f.shots[h].scene => g.shots[h].code = f.shots[h].code

LEMMA FixedTables ==
  ASSUME NEW policy, NEW scenes, NEW shots, NEW R, NEW n, NEW hint,
         policy = "fixed", IsTable(shots, R, n)
  PROVE  /\ RenumberScenes(policy, scenes, hint) = scenes
         /\ RestampShots(policy, shots, scenes, hint) = shots
<1>1. shots = [h \in DOMAIN shots |-> shots[h]]
  BY DEF IsTable
<1>. QED
  BY <1>1 DEF RenumberScenes, RestampShots

LEMMA FixedSpans ==
  ASSUME NEW policy, NEW spans, NEW pos, policy = "fixed"
  PROVE  \A a \in DOMAIN spans : RenumberSpans(policy, spans, pos)[a] = spans[a]
BY DEF RenumberSpans

\* A commit under "fixed" renumbers nothing.
LEMMA CommitFixed ==
  ASSUME NEW f, NEW plan \in Seq(Row), NEW new \in BOOLEAN, NEW g,
         FilmOK(f), Given(plan, f), g = CommitScript(f, plan, new).film,
         f.policy = "fixed"
  PROVE  KeepsNumbers(f, g)
<1> DEFINE r      == CommitScript(f, plan, new)
           linked == LinkedFilm(f, plan, new)
           rows   == LinkedRows(f, plan, new)
           bound  == CommitSections(linked, rows, new)
           hint   == SceneOrderHint(f.rows)
           pos    == ScenePositions(hint, linked.scenes)
<1>1. r.ok \in BOOLEAN /\ (~r.ok => r.film = f)
  BY CommitScriptType
<1>2. CASE ~r.ok
  BY <1>1, <1>2 DEF KeepsNumbers
<1>3. CASE r.ok
  <2>1. /\ r.film.scenes = RenumberScenes(f.policy, linked.scenes, hint)
        /\ r.film.shots = RestampShots(f.policy, f.shots, linked.scenes, hint)
        /\ r.film.spans = RenumberSpans(f.policy, bound.spans, pos)
    BY <1>3, CommitScriptParts
  <2>2. /\ FilmOK(linked) /\ linked.spans = f.spans
        /\ \A s \in DOMAIN f.scenes : linked.scenes[s] = f.scenes[s]
    BY LinkedFilmType
  <2>3. rows \in Seq(Row)
    BY LinkedRowsType, FilmParts
  <2>4. /\ IsTable(bound.spans, Span, bound.next)
        /\ \A a \in DOMAIN f.spans : a \in DOMAIN bound.spans
                                     /\ bound.spans[a].num = f.spans[a].num
    <3>. HIDE DEF linked, rows
    <3>1. IsTable(linked.spans, Span, linked.next.span)
      BY <2>2, FilmParts
    <3>. QED
      BY <2>2, <2>3, <3>1, CommitSectionsType
  <2>5. r.film = g
    OBVIOUS
  <2>. HIDE DEF r, linked, rows, bound, hint, pos
  <2>6. g.scenes = linked.scenes /\ g.shots = f.shots
    <3>1. IsTable(f.shots, Shot, f.next.shot)
      BY FilmParts
    <3>. QED
      BY <2>1, <2>5, <3>1, FixedTables
  <2>7. \A a \in DOMAIN bound.spans : g.spans[a].num = bound.spans[a].num
    <3>1. \A a \in DOMAIN bound.spans :
            RenumberSpans(f.policy, bound.spans, pos)[a] = bound.spans[a]
      BY FixedSpans
    <3>. QED
      BY <2>1, <2>5, <3>1
  <2>8. \A s \in DOMAIN f.scenes : g.scenes[s] = f.scenes[s]
    BY <2>2, <2>6
  <2>9. \A a \in DOMAIN f.spans : g.spans[a].num = f.spans[a].num
    BY <2>4, <2>7
  <2>. QED
    BY <2>6, <2>8, <2>9 DEF KeepsNumbers
<1>. QED
  BY <1>1, <1>2, <1>3

\* What a step may write into the film.
LEMMA FilmSteps ==
  ASSUME IInv, [Next]_vars
  PROVE  \/ film' = film
         \/ \E plan \in Seq(Row), new \in BOOLEAN :
              Given(plan, film) /\ film' = CommitScript(film, plan, new).film
         \/ film' = DuplicateSceneRow(film)
         \/ \E s \in DOMAIN film.scenes :
              \/ film' = RemoveSceneCascade(film, s)
              \/ film' = CreateSpan(film, s)
              \/ film' = AddShot(film, s)
              \/ film' = DeleteScene(film, s)
         \/ \E a \in DOMAIN film.spans, s \in DOMAIN film.scenes \cup {None} :
              film' = SetSpanBoundary(film, a, s)
         \/ \E h \in DOMAIN film.shots, s \in DOMAIN film.scenes :
              film' = MoveShotTo(film, h, s)
         \/ film'.policy # film.policy
         \/ undo' # undo
<1>1. CASE UNCHANGED vars
  BY <1>1 DEF vars
<1>2. CASE Typing
  <2>1. ASSUME NEW lines, Edit(lines) PROVE film' = film
    BY <2>1 DEF Edit
  <2>2. ASSUME NEW h \in DOMAIN doc, NEW at \in 1..(Len(doc) + 1), MoveScene(h, at)
        PROVE  film' = film
    BY <2>2 DEF MoveScene
  <2>3. ASSUME NEW h \in DOMAIN doc, DuplicateScene(h)
        PROVE  film' = DuplicateSceneRow(film)
    BY <2>3 DEF DuplicateScene
  <2>4. ASSUME NEW h \in DOMAIN doc, RemoveScene(h)
        PROVE  \E s \in DOMAIN film.scenes : film' = RemoveSceneCascade(film, s)
    BY <2>4 DEF RemoveScene
  <2>. QED
    BY <1>2, <2>1, <2>2, <2>3, <2>4 DEF Typing, AddLine, EditText, DeleteLine, Retype
<1>3. CASE Committing
  <2>1. CASE StoreCommit
    <3>1. /\ job.plan \in Seq(Row) /\ Creates(job.kind) \in BOOLEAN
          /\ Given(job.plan, film)
      BY WindowParts DEF Creates
    <3>2. film' = CommitScript(film, job.plan, Creates(job.kind)).film
      BY <2>1 DEF StoreCommit
    <3>. QED
      BY <3>1, <3>2
  <2>2. CASE StoreStray
    <3>1. stray.rows \in Seq(Row) /\ stray.new \in BOOLEAN /\ Given(stray.rows, film)
      BY WindowParts
    <3>2. film' = CommitScript(film, stray.rows, stray.new).film
      BY <2>2 DEF StoreStray
    <3>. QED
      BY <3>1, <3>2
  <2>3. CASE \/ TimerFires \/ StartCommit \/ CommitAnswered \/ CommitRefused
             \/ \E asks \in BOOLEAN : PlanCreation(asks)
    BY <2>3 DEF TimerFires, StartCommit, CommitAnswered, CommitRefused, PlanCreation
  <2>. QED
    BY <1>3, <2>1, <2>2, <2>3 DEF Committing
<1>4. CASE \/ \E kind \in {"explicit", "confirm"} : AskToCommit(kind)
           \/ CancelReview \/ Leave \/ Return
  BY <1>4 DEF AskToCommit, CancelReview, Leave, Return
<1>5. CASE StructureWrite
  BY <1>5 DEF StructureWrite, Write
<1>6. CASE ShotWrite
  BY <1>6 DEF ShotWrite, Write
<1>7. ASSUME NEW p \in {"derived", "fixed"}, SetPolicy(p)
      PROVE  film'.policy # film.policy
  <2>1. film.policy # p /\ film' = [film EXCEPT !.policy = p]
    BY <1>7 DEF SetPolicy, Write
  <2>2. film'.policy = p
    BY <2>1, WindowParts, SetPolicyType
  <2>. QED
    BY <2>1, <2>2
<1>8. ASSUME NEW s \in DOMAIN film.scenes, DeleteSceneRecord(s) \/ AgentDeletesScene(s)
      PROVE  film' = DeleteScene(film, s)
  BY <1>8 DEF DeleteSceneRecord, AgentDeletesScene, Write
<1>9. CASE UndoDelete
  BY <1>9 DEF UndoDelete
<1>. QED
  BY <1>1, <1>2, <1>3, <1>4, <1>5, <1>6, <1>7, <1>8, <1>9 DEF Next

\* No write but a commit, and the restore of a deleted scene, renumbers a scene
\* or a shot that stays where it is; under "fixed" none renumbers a span.
LEMMA WriteFixed ==
  ASSUME NEW f, NEW g, FilmOK(f), f.policy = "fixed",
         \/ g = f \/ g = DuplicateSceneRow(f)
         \/ \E s \in DOMAIN f.scenes :
              \/ g = RemoveSceneCascade(f, s) \/ g = CreateSpan(f, s)
              \/ g = AddShot(f, s) \/ g = DeleteScene(f, s)
         \/ \E a \in DOMAIN f.spans, s \in DOMAIN f.scenes \cup {None} :
              g = SetSpanBoundary(f, a, s)
         \/ \E h \in DOMAIN f.shots, s \in DOMAIN f.scenes : g = MoveShotTo(f, h, s)
  PROVE  KeepsNumbers(f, g)
<1>1. CASE g = f
  BY <1>1 DEF KeepsNumbers
<1>2. CASE g = DuplicateSceneRow(f)
  BY <1>2, DuplicateSceneRowType DEF KeepsNumbers
<1>3. ASSUME NEW s \in DOMAIN f.scenes, g = RemoveSceneCascade(f, s)
      PROVE  KeepsNumbers(f, g)
  BY <1>3, RemoveSceneCascadeType DEF KeepsNumbers
<1>4. ASSUME NEW s \in DOMAIN f.scenes, g = CreateSpan(f, s)
      PROVE  KeepsNumbers(f, g)
  BY <1>4, CreateSpanType DEF KeepsNumbers
<1>5. ASSUME NEW s \in DOMAIN f.scenes, g = AddShot(f, s)
      PROVE  KeepsNumbers(f, g)
  BY <1>5, AddShotType DEF KeepsNumbers
<1>6. ASSUME NEW s \in DOMAIN f.scenes, NEW h \in DOMAIN f.shots, g = MoveShotTo(f, h, s)
      PROVE  KeepsNumbers(f, g)
  BY <1>6, MoveShotToType DEF KeepsNumbers
<1>8. ASSUME NEW s \in DOMAIN f.scenes, g = DeleteScene(f, s)
      PROVE  KeepsNumbers(f, g)
  BY <1>8, DeleteSceneType DEF KeepsNumbers
<1>7. ASSUME NEW a \in DOMAIN f.spans, NEW s \in DOMAIN f.scenes \cup {None},
             g = SetSpanBoundary(f, a, s)
      PROVE  KeepsNumbers(f, g)
  BY <1>7, SetSpanBoundaryType DEF KeepsNumbers
<1>. QED
  BY <1>1, <1>2, <1>3, <1>4, <1>5, <1>6, <1>7, <1>8

\* Under "fixed" nothing renumbers: no commit, boundary or policy change touches
\* a scene number, a span number or the code of a shot that stays in its scene.
THEOREM FixedTheorem == Spec => FixedIsFixed
<1> DEFINE A == film.policy = "fixed" /\ film'.policy = "fixed" /\ undo = undo'
                  => KeepsNumbers(film, film')
<1>1. ASSUME IInv, [Next]_vars PROVE A
  <2>. SUFFICES ASSUME film.policy = "fixed", film'.policy = "fixed", undo = undo'
                PROVE  KeepsNumbers(film, film')
    OBVIOUS
  <2>1. FilmOK(film)
    BY <1>1, WindowParts
  <2>. QED
    BY <1>1, <2>1, FilmSteps, CommitFixed, WriteFixed
<1>2. A => (film.policy = "fixed" /\ film'.policy = "fixed" /\ undo = undo' =>
       /\ \A s \in DOMAIN film.scenes \cap DOMAIN film'.scenes :
            film'.scenes[s] = film.scenes[s]
       /\ \A a \in DOMAIN film.spans \cap DOMAIN film'.spans :
            film'.spans[a].num = film.spans[a].num
       /\ \A h \in DOMAIN film.shots \cap DOMAIN film'.shots :
            film'.shots[h].scene = film.shots[h].scene
              => film'.shots[h].code = film.shots[h].code)
  BY DEF KeepsNumbers
<1>. QED
  BY <1>1, <1>2, Invariance, PTL DEF Spec, FixedIsFixed

\* What spans cover and their numbers follow from their starts alone.
LEMMA StartsDecide ==
  ASSUME NEW t, NEW u, NEW pos, DOMAIN u = DOMAIN t,
         \A a \in DOMAIN t : u[a].start = t[a].start
  PROVE  /\ Anchored(u, pos) = Anchored(t, pos)
         /\ \A a, b \in DOMAIN t : SpanBefore(u, pos, a, b) <=> SpanBefore(t, pos, a, b)
         /\ \A a \in Anchored(t, pos) : SpanNumber(u, pos, a) = SpanNumber(t, pos, a)
<1>1. Anchored(u, pos) = Anchored(t, pos) /\ Anchored(t, pos) \subseteq DOMAIN t
  BY DEF Anchored
<1>2. \A a, b \in DOMAIN t : SpanBefore(u, pos, a, b) <=> SpanBefore(t, pos, a, b)
  BY DEF SpanBefore
<1>3. ASSUME NEW a \in Anchored(t, pos)
      PROVE  SpanNumber(u, pos, a) = SpanNumber(t, pos, a)
  <2>1. {b \in Anchored(u, pos) : SpanBefore(u, pos, b, a)}
          = {b \in Anchored(t, pos) : SpanBefore(t, pos, b, a)}
    BY <1>1, <1>2
  <2>. QED
    BY <2>1 DEF SpanNumber
<1>. QED
  BY <1>1, <1>2, <1>3

\* A commit that creates no scene sees the scenes the film has.
LEMMA NothingCreated ==
  ASSUME NEW f, NEW plan \in Seq(Row), NEW new \in BOOLEAN, NEW linked,
         FilmOK(f), Given(plan, f), linked = LinkedFilm(f, plan, new),
         DOMAIN linked.scenes = DOMAIN f.scenes
  PROVE  linked.scenes = f.scenes
<1>1. /\ FilmOK(linked)
      /\ \A s \in DOMAIN f.scenes : linked.scenes[s] = f.scenes[s]
  BY LinkedFilmType
<1>2. /\ linked.scenes = [s \in DOMAIN linked.scenes |-> linked.scenes[s]]
      /\ f.scenes = [s \in DOMAIN f.scenes |-> f.scenes[s]]
  BY <1>1, FilmParts DEF IsTable
<1>. QED
  BY <1>1, <1>2

\* The numbers of g follow its script, and those of its spans their starts.
Settled(f, g) ==
  /\ NumbersFollow(g)
  /\ Positions(g) = Positions(f) =>
       \A a \in Anchored(g.spans, Positions(g)) :
         g.spans[a].num = SpanNumber(g.spans, Positions(g), a)

\* A derived commit that leaves the script's order and the set of scenes alone.
LEMMA CommitSettles ==
  ASSUME NEW f, NEW plan \in Seq(Row), NEW new \in BOOLEAN, NEW g,
         FilmOK(f), Given(plan, f), CommitScript(f, plan, new).ok,
         g = CommitScript(f, plan, new).film, f.policy = "derived",
         SceneOrderHint(f.rows) = SceneOrderHint(g.rows),
         DOMAIN f.scenes = DOMAIN g.scenes
  PROVE  Settled(f, g)
<1> DEFINE linked == LinkedFilm(f, plan, new)
           rows   == LinkedRows(f, plan, new)
           bound  == CommitSections(linked, rows, new)
           hint   == SceneOrderHint(f.rows)
           pos    == ScenePositions(hint, linked.scenes)
<1>1. /\ g.scenes = RenumberScenes(f.policy, linked.scenes, hint)
      /\ g.spans = RenumberSpans(f.policy, bound.spans, pos)
  BY CommitScriptParts
<1>2. DOMAIN RenumberScenes(f.policy, linked.scenes, hint) = DOMAIN linked.scenes
  BY DEF RenumberScenes
<1>3. linked.scenes = f.scenes
  BY <1>1, <1>2, NothingCreated
<1>4. IsTable(bound.spans, Span, bound.next)
  <2>1. rows \in Seq(Row)
    BY LinkedRowsType, FilmParts
  <2>2. IsTable(linked.spans, Span, linked.next.span)
    BY LinkedFilmType, FilmParts
  <2>. HIDE DEF linked, rows
  <2>. QED
    BY <2>1, <2>2, CommitSectionsType
<1>5. pos = Positions(f)
  BY <1>3 DEF Positions
<1>6. NumbersFollow(g)
  <2>1. /\ DOMAIN hint = ScriptScenes(g.rows) /\ hint = SceneOrderHint(g.rows)
    BY DEF SceneOrderHint
  <2>. HIDE DEF hint
  <2>2. \A s \in DOMAIN f.scenes :
          g.scenes[s] = IF s \in DOMAIN hint THEN hint[s] + 1 ELSE None
    BY <1>1, <1>3 DEF RenumberScenes
  <2>. QED
    BY <2>1, <2>2 DEF NumbersFollow
<1>. HIDE DEF bound, pos, hint, linked, rows
<1>7. ASSUME Positions(g) = Positions(f), NEW a \in Anchored(g.spans, Positions(g))
      PROVE  g.spans[a].num = SpanNumber(g.spans, Positions(g), a)
  <2>1. Positions(g) = pos
    BY <1>5, <1>7
  <2> DEFINE t == bound.spans
             u == g.spans
  <2>0. IsTable(t, Span, bound.next) /\ u = RenumberSpans(f.policy, t, pos)
    BY <1>1, <1>4
  <2>. HIDE DEF t, u
  <2>2. /\ DOMAIN u = DOMAIN t
        /\ \A b \in DOMAIN t :
             /\ u[b].start = t[b].start
             /\ b \in Anchored(t, pos) => u[b].num = SpanNumber(t, pos, b)
    BY <2>0, RenumberSpansType DEF IsTable
  <2>3. /\ Anchored(u, pos) = Anchored(t, pos)
        /\ \A b \in Anchored(t, pos) : SpanNumber(u, pos, b) = SpanNumber(t, pos, b)
    BY <2>2, StartsDecide
  <2>4. Anchored(t, pos) \subseteq DOMAIN t
    BY DEF Anchored
  <2>. QED
    BY <1>7, <2>0, <2>1, <2>2, <2>3, <2>4 DEF u
<1>. QED
  BY <1>6, <1>7 DEF Settled

\* The host takes a commit in one step only.
LEMMA StoringStep ==
  ASSUME IInv, [Next]_vars, Stores
  PROVE  StoreCommit
<1>0. job.stage = "sent" /\ job'.stage = "stored"
  BY DEF Stores
<1>1. job' # job
  BY <1>0
<1>2. ASSUME UNCHANGED job PROVE FALSE
  BY <1>1, <1>2
<1>3. ASSUME job' = Idle PROVE FALSE
  BY <1>0, <1>3 DEF Idle
<1>4. ASSUME NEW lines, Edit(lines) PROVE FALSE
  BY <1>2, <1>4 DEF Edit
<1>5. ~Typing
  BY <1>2, <1>4 DEF Typing, AddLine, EditText, DeleteLine, Retype, MoveScene,
                    DuplicateScene, RemoveScene
<1>6. ~TimerFires /\ ~StoreStray
  BY <1>2 DEF TimerFires, StoreStray
<1>7. ~StartCommit
  BY <1>0 DEF StartCommit, Idle
<1>8. ~CommitAnswered /\ ~CommitRefused /\ \A asks \in BOOLEAN : ~PlanCreation(asks)
  BY <1>0 DEF CommitAnswered, CommitRefused, PlanCreation
<1>9. /\ \A kind \in {"explicit", "confirm"} : ~AskToCommit(kind)
      /\ ~CancelReview /\ ~Return
  BY <1>2 DEF AskToCommit, CancelReview, Return
<1>10. ~Leave
  BY <1>3 DEF Leave
<1>11. \A g : ~Write(g)
  BY <1>2 DEF Write, window
<1>12. /\ ~StructureWrite /\ ~ShotWrite
       /\ \A p \in {"derived", "fixed"} : ~SetPolicy(p)
       /\ \A s \in DOMAIN film.scenes : ~DeleteSceneRecord(s) /\ ~AgentDeletesScene(s)
  BY <1>11 DEF StructureWrite, ShotWrite, SetPolicy, DeleteSceneRecord, AgentDeletesScene
<1>13. ~UndoDelete
  BY <1>2 DEF UndoDelete, window
<1>14. ~UNCHANGED vars
  BY <1>2 DEF vars
<1>. QED
  BY <1>5, <1>6, <1>7, <1>8, <1>9, <1>10, <1>12, <1>13, <1>14 DEF Next, Committing

\* A derived commit that leaves the order of the headings as it was leaves every
\* number in step with the script, whatever happened before it; the spans' too,
\* unless it reorders scenes outside the script by clearing their numbers.
THEOREM SettledTheorem == Spec => SettledNumbers
<1> DEFINE A == /\ Stores /\ film.policy = "derived"
                /\ SceneOrderHint(film.rows) = SceneOrderHint(film'.rows)
                /\ DOMAIN film.scenes = DOMAIN film'.scenes
                => Settled(film, film')
<1>1. ASSUME IInv, [Next]_vars PROVE A
  <2>. SUFFICES ASSUME Stores, film.policy = "derived",
                       SceneOrderHint(film.rows) = SceneOrderHint(film'.rows),
                       DOMAIN film.scenes = DOMAIN film'.scenes
                PROVE  Settled(film, film')
    OBVIOUS
  <2>1. StoreCommit
    BY <1>1, StoringStep
  <2>2. /\ FilmOK(film) /\ job.plan \in Seq(Row) /\ Creates(job.kind) \in BOOLEAN
        /\ Given(job.plan, film)
    BY <1>1, WindowParts DEF Creates
  <2>3. /\ CommitScript(film, job.plan, Creates(job.kind)).ok
        /\ film' = CommitScript(film, job.plan, Creates(job.kind)).film
    <3> DEFINE r == CommitScript(film, job.plan, Creates(job.kind))
    <3>1. /\ film' = r.film
          /\ job' = [job EXCEPT !.stage = IF r.ok THEN "stored" ELSE "refused"]
      BY <2>1 DEF StoreCommit
    <3>2. r.ok \in BOOLEAN
      BY <2>2, CommitScriptType
    <3>. HIDE DEF r
    <3>3. job \in [kind : Kinds \cup {"none"}, plan : Seq(Row),
                   stage : {"idle", "sent", "stored", "refused", "settled"}]
      BY <1>1, WindowParts
    <3>4. job'.stage = "stored"
      BY DEF Stores
    <3>5. r.ok
      BY <3>1, <3>2, <3>3, <3>4
    <3>. QED
      BY <3>1, <3>5 DEF r
  <2>. QED
    BY <2>2, <2>3, CommitSettles
<1>2. A => (/\ Stores /\ film.policy = "derived"
            /\ SceneOrderHint(film.rows) = SceneOrderHint(film'.rows)
            /\ DOMAIN film.scenes = DOMAIN film'.scenes
            => /\ NumbersFollow(film')
               /\ LET pos == Positions(film')
                  IN  pos = Positions(film) =>
                      \A a \in Anchored(film'.spans, pos) :
                        film'.spans[a].num = SpanNumber(film'.spans, pos, a))
  BY Zenon DEF Settled
<1>. QED
  BY <1>1, <1>2, Invariance, PTL DEF Spec, SettledNumbers

-----------------------------------------------------------------------------
(* What is reported of the spans                                            *)

\* The scenes of a film are in a strict order, and a scene's position is the
\* number of scenes before it.
LEMMA ScenesOrdered ==
  ASSUME NEW hint, NEW scenes,
         scenes \in [DOMAIN scenes -> Nat], DOMAIN scenes \in SUBSET Nat,
         hint \in [DOMAIN hint -> Nat],
         \A s, t \in DOMAIN hint : hint[s] = hint[t] => s = t
  PROVE  /\ \A s \in DOMAIN scenes : ~SceneBefore(hint, scenes, s, s)
         /\ \A s, t \in DOMAIN scenes :
              s # t => SceneBefore(hint, scenes, s, t) \/ SceneBefore(hint, scenes, t, s)
         /\ \A s, t, u \in DOMAIN scenes :
              SceneBefore(hint, scenes, s, t) /\ SceneBefore(hint, scenes, t, u)
                => SceneBefore(hint, scenes, s, u)
<1>0. \A s \in DOMAIN scenes : scenes[s] \in Nat /\ s \in Nat
  OBVIOUS
<1>1. \A s \in DOMAIN scenes : ~SceneBefore(hint, scenes, s, s)
  BY <1>0 DEF SceneBefore, NumberBefore, None
<1>2. ASSUME NEW s \in DOMAIN scenes, NEW t \in DOMAIN scenes, s # t
      PROVE  SceneBefore(hint, scenes, s, t) \/ SceneBefore(hint, scenes, t, s)
  <2>1. CASE s \in DOMAIN hint /\ t \in DOMAIN hint
    <3>1. hint[s] \in Nat /\ hint[t] \in Nat /\ hint[s] # hint[t]
      BY <1>2, <2>1
    <3>. QED
      BY <2>1, <3>1 DEF SceneBefore
  <2>2. CASE s \in DOMAIN hint /\ t \notin DOMAIN hint
    BY <2>2 DEF SceneBefore
  <2>3. CASE s \notin DOMAIN hint /\ t \in DOMAIN hint
    BY <2>3 DEF SceneBefore
  <2>4. CASE s \notin DOMAIN hint /\ t \notin DOMAIN hint
    BY <1>0, <1>2, <2>4 DEF SceneBefore, NumberBefore, None
  <2>. QED
    BY <2>1, <2>2, <2>3, <2>4
<1>3. ASSUME NEW s \in DOMAIN scenes, NEW t \in DOMAIN scenes, NEW u \in DOMAIN scenes,
             SceneBefore(hint, scenes, s, t), SceneBefore(hint, scenes, t, u)
      PROVE  SceneBefore(hint, scenes, s, u)
  <2>1. CASE s \in DOMAIN hint
    <3>1. CASE u \notin DOMAIN hint
      BY <2>1, <3>1 DEF SceneBefore
    <3>2. CASE u \in DOMAIN hint
      <4>1. t \in DOMAIN hint /\ hint[s] < hint[t] /\ hint[t] < hint[u]
        BY <1>3, <2>1, <3>2 DEF SceneBefore
      <4>2. hint[s] \in Nat /\ hint[t] \in Nat /\ hint[u] \in Nat
        BY <2>1, <3>2, <4>1
      <4>3. hint[s] < hint[u]
        BY <4>1, <4>2
      <4>. QED
        BY <2>1, <3>2, <4>3 DEF SceneBefore
    <3>. QED
      BY <3>1, <3>2
  <2>2. CASE s \notin DOMAIN hint
    <3>1. t \notin DOMAIN hint /\ u \notin DOMAIN hint
      BY <1>3, <2>2 DEF SceneBefore
    <3>2. /\ NumberBefore(scenes[s], scenes[t]) \/ (scenes[s] = scenes[t] /\ s < t)
          /\ NumberBefore(scenes[t], scenes[u]) \/ (scenes[t] = scenes[u] /\ t < u)
      BY <1>3, <2>2, <3>1 DEF SceneBefore
    <3>3. NumberBefore(scenes[s], scenes[u]) \/ (scenes[s] = scenes[u] /\ s < u)
      BY <1>0, <3>2 DEF NumberBefore, None
    <3>. QED
      BY <2>2, <3>1, <3>3 DEF SceneBefore
  <2>. QED
    BY <2>1, <2>2
<1>. QED
  BY <1>1, <1>2, <1>3

\* No two scenes have one position.
LEMMA PositionsDiffer ==
  ASSUME NEW f, NEW pos, FilmOK(f), pos = Positions(f)
  PROVE  /\ pos \in [DOMAIN f.scenes -> Nat] /\ DOMAIN pos = DOMAIN f.scenes
         /\ \A s, t \in DOMAIN f.scenes : pos[s] = pos[t] => s = t
<1> DEFINE hint == SceneOrderHint(f.rows)
           before(s) == {t \in DOMAIN f.scenes : SceneBefore(hint, f.scenes, t, s)}
<1>1. /\ f.rows \in Seq(Row) /\ IsTable(f.scenes, Nat, f.next.scene)
      /\ DOMAIN f.scenes \in SUBSET Nat /\ IsFiniteSet(DOMAIN f.scenes)
  BY FilmParts, TableFinite
<1>2. /\ pos \in [DOMAIN f.scenes -> Nat]
      /\ \A s \in DOMAIN f.scenes : pos[s] = Cardinality(before(s))
  <2>1. ScenePositions(hint, f.scenes) \in [DOMAIN f.scenes -> Nat]
    BY <1>1, PositionsType
  <2>2. \A s \in DOMAIN f.scenes : ScenePositions(hint, f.scenes)[s] = Cardinality(before(s))
    BY DEF ScenePositions
  <2>3. pos = ScenePositions(hint, f.scenes)
    BY DEF Positions
  <2>. HIDE DEF before
  <2>. QED
    BY <2>1, <2>2, <2>3
<1>3. /\ hint \in [DOMAIN hint -> Nat]
      /\ \A s, t \in DOMAIN hint : hint[s] = hint[t] => s = t
  <2>1. /\ \A s, t \in ScriptScenes(f.rows) : hint[s] = hint[t] => s = t
    BY <1>1, HintCounts
  <2>2. hint \in [ScriptScenes(f.rows) -> Nat]
    BY <1>1, HintType
  <2>. QED
    BY <2>1, <2>2
<1>. HIDE DEF hint
<1>4. /\ \A s \in DOMAIN f.scenes : ~SceneBefore(hint, f.scenes, s, s)
      /\ \A s, t \in DOMAIN f.scenes :
           s # t => SceneBefore(hint, f.scenes, s, t) \/ SceneBefore(hint, f.scenes, t, s)
      /\ \A s, t, u \in DOMAIN f.scenes :
           SceneBefore(hint, f.scenes, s, t) /\ SceneBefore(hint, f.scenes, t, u)
             => SceneBefore(hint, f.scenes, s, u)
  <2>1. f.scenes \in [DOMAIN f.scenes -> Nat]
    BY <1>1 DEF IsTable
  <2>. QED
    BY <1>1, <1>3, <2>1, ScenesOrdered
<1>5. ASSUME NEW s \in DOMAIN f.scenes, NEW t \in DOMAIN f.scenes,
             SceneBefore(hint, f.scenes, s, t)
      PROVE  pos[s] < pos[t]
  <2>1. before(s) \subseteq before(t) /\ s \in before(t) /\ s \notin before(s)
    BY <1>4, <1>5
  <2>2. IsFiniteSet(before(t))
    BY <1>1, FS_Subset
  <2>. HIDE DEF before
  <2>. QED
    BY <1>2, <2>1, <2>2, CountsGrow
<1>6. ASSUME NEW s \in DOMAIN f.scenes, NEW t \in DOMAIN f.scenes, pos[s] = pos[t], s # t
      PROVE  FALSE
  <2>1. pos[s] < pos[t] \/ pos[t] < pos[s]
    BY <1>4, <1>5, <1>6
  <2>. QED
    BY <1>2, <1>6, <2>1
<1>. QED
  BY <1>2, <1>6

\* What the lemmas below say of spans, they say of any positions that differ.
Apart(spans, pos) ==
  /\ DOMAIN spans \in SUBSET Nat /\ IsFiniteSet(DOMAIN spans)
  /\ pos \in [DOMAIN pos -> Nat]
  /\ \A s, t \in DOMAIN pos : pos[s] = pos[t] => s = t

\* The starts of the spans are in a strict order.
LEMMA SpanOrder ==
  ASSUME NEW spans, NEW pos, Apart(spans, pos),
         NEW a \in Anchored(spans, pos), NEW b \in Anchored(spans, pos), a # b
  PROVE  SpanBefore(spans, pos, a, b) \/ SpanBefore(spans, pos, b, a)
<1>1. /\ a \in Nat /\ b \in Nat
      /\ spans[a].start \in DOMAIN pos /\ spans[b].start \in DOMAIN pos
      /\ pos[spans[a].start] \in Nat /\ pos[spans[b].start] \in Nat
  BY DEF Apart, Anchored
<1>2. CASE spans[a].start = spans[b].start
  BY <1>1, <1>2 DEF SpanBefore
<1>3. CASE spans[a].start # spans[b].start
  <2>1. pos[spans[a].start] # pos[spans[b].start]
    BY <1>1, <1>3 DEF Apart
  <2>. QED
    BY <1>1, <2>1 DEF SpanBefore
<1>. QED
  BY <1>2, <1>3

\* A scene is in one span at most.
LEMMA OneSpan ==
  ASSUME NEW spans, NEW pos, Apart(spans, pos), NEW s \in DOMAIN pos,
         NEW a \in SpanOf(spans, pos, s), NEW b \in SpanOf(spans, pos, s)
  PROVE  a = b
<1>1. /\ a \in Anchored(spans, pos) /\ b \in Anchored(spans, pos)
      /\ pos[s] >= pos[spans[a].start] /\ pos[s] >= pos[spans[b].start]
      /\ SpanBefore(spans, pos, a, b) => pos[s] < pos[spans[b].start]
      /\ SpanBefore(spans, pos, b, a) => pos[s] < pos[spans[a].start]
  BY DEF SpanOf, SpanScenes
<1>2. /\ pos[s] \in Nat /\ pos[spans[a].start] \in Nat /\ pos[spans[b].start] \in Nat
  BY <1>1 DEF Apart, Anchored
<1>. QED
  BY <1>1, <1>2, SpanOrder

\* A scene at or after some span's start is in a span: the last that starts at
\* or before it.
LEMMA SomeSpan ==
  ASSUME NEW spans, NEW pos, Apart(spans, pos), NEW s \in DOMAIN pos,
         NEW a \in Anchored(spans, pos), pos[spans[a].start] <= pos[s]
  PROVE  SpanOf(spans, pos, s) # {}
<1> DEFINE up == {b \in Anchored(spans, pos) : pos[spans[b].start] <= pos[s]}
           at == {pos[spans[b].start] : b \in up}
<1>1. /\ \A b \in Anchored(spans, pos) :
           b \in Nat /\ b \in DOMAIN spans /\ spans[b].start \in DOMAIN pos
           /\ pos[spans[b].start] \in Nat
      /\ pos[s] \in Nat
  BY DEF Apart, Anchored
<1>2. at \in SUBSET Nat /\ at # {} /\ \A n \in at : n <= pos[s]
  BY <1>1
<1>3. PICK n \in at : \A m \in at : m <= n
  BY <1>1, <1>2, GreatestExists
<1> DEFINE last == {b \in up : pos[spans[b].start] = n}
<1>4. last \in SUBSET Nat /\ last # {} /\ IsFiniteSet(last)
  <2>1. last # {} /\ last \in SUBSET Nat /\ last \subseteq DOMAIN spans
    BY <1>1, <1>3
  <2>. QED
    BY <2>1, FS_Subset DEF Apart
<1>5. PICK c \in last : \A b \in last : b <= c
  BY <1>4, FiniteGreatest
<1>6. ASSUME NEW b \in Anchored(spans, pos), SpanBefore(spans, pos, c, b)
      PROVE  pos[s] < pos[spans[b].start]
  <2>1. /\ c \in Anchored(spans, pos) /\ pos[spans[c].start] = n /\ n \in Nat
    BY <1>2, <1>3, <1>5
  <2>2. ASSUME pos[spans[b].start] <= pos[s] PROVE FALSE
    <3>1. pos[spans[b].start] <= n
      BY <1>3, <2>2
    <3>2. spans[c].start = spans[b].start /\ c < b
      BY <1>1, <1>6, <2>1, <3>1 DEF SpanBefore
    <3>3. b \in last
      BY <2>1, <2>2, <3>2
    <3>4. b <= c /\ b \in Nat /\ c \in Nat
      BY <1>1, <1>5, <2>1, <3>3
    <3>. QED
      BY <3>2, <3>4
  <2>. QED
    BY <1>1, <2>2
<1>7. c \in Anchored(spans, pos) /\ pos[s] >= pos[spans[c].start]
  BY <1>1, <1>5
<1>8. c \in SpanOf(spans, pos, s)
  BY <1>6, <1>7 DEF SpanOf, SpanScenes
<1>. QED
  BY <1>8

\* The spans of a film, and the positions of its scenes.
LEMMA FilmApart ==
  ASSUME NEW f, FilmOK(f)
  PROVE  /\ Apart(f.spans, Positions(f)) /\ DOMAIN Positions(f) = DOMAIN f.scenes
<1>1. /\ Positions(f) \in [DOMAIN f.scenes -> Nat] /\ DOMAIN Positions(f) = DOMAIN f.scenes
      /\ \A s, t \in DOMAIN f.scenes : Positions(f)[s] = Positions(f)[t] => s = t
  BY PositionsDiffer
<1>2. DOMAIN f.spans \in SUBSET Nat /\ IsFiniteSet(DOMAIN f.spans)
  BY FilmParts, TableFinite
<1>. QED
  BY <1>1, <1>2 DEF Apart

\* A span that covers nothing has no boundary, one that is gone, or one that a
\* span with a lower or higher row id shares.
LEMMA EmptySpan ==
  ASSUME NEW f, FilmOK(f), NEW a \in DOMAIN f.spans, Covers(f, Positions(f), a) = {},
         a \notin NoBoundary(f), a \notin DanglingBoundary(f)
  PROVE  \E m \in SharedBoundary(f) : a \in {m[1], m[2]}
<1> DEFINE pos   == Positions(f)
           start == f.spans[a].start
           same  == {c \in DOMAIN f.spans : f.spans[c].start = start}
<1>1. Apart(f.spans, pos) /\ DOMAIN pos = DOMAIN f.scenes
  BY FilmApart
<1>. HIDE DEF pos
<1>2. start \in DOMAIN f.scenes /\ a \in Anchored(f.spans, pos)
  BY <1>1 DEF NoBoundary, DanglingBoundary, Anchored
<1>3. start \notin SpanScenes(f.spans, pos, a)
  BY <1>2 DEF Covers, pos
<1>4. pos[start] \in Nat /\ start \in DOMAIN pos
  BY <1>1, <1>2 DEF Apart
<1>5. PICK b \in Anchored(f.spans, pos) :
        SpanBefore(f.spans, pos, a, b) /\ ~(pos[start] < pos[f.spans[b].start])
  BY <1>3, <1>4 DEF SpanScenes
<1>6. b \in same /\ a < b /\ a \in same
  BY <1>5 DEF SpanBefore, Anchored
<1>7. same \in SUBSET Nat /\ same \subseteq DOMAIN f.spans
  BY <1>1 DEF Apart
<1>8. PICK m \in same : \A c \in same : m <= c
  BY <1>6, <1>7, LeastExists
<1>9. \A c \in same : c # m => <<c, m>> \in SharedBoundary(f)
  BY <1>2, <1>7, <1>8 DEF SharedBoundary
<1>10. CASE a = m
  <2>1. b # m
    BY <1>6, <1>7, <1>10
  <2>2. <<b, m>> \in SharedBoundary(f)
    BY <1>6, <1>9, <2>1
  <2>. QED
    BY <1>10, <2>2
<1>11. CASE a # m
  <2>1. <<a, m>> \in SharedBoundary(f)
    BY <1>6, <1>9, <1>11
  <2>. QED
    BY <2>1
<1>. QED
  BY <1>10, <1>11

\* Of two spans with one start, the one with the lower row id covers nothing.
LEMMA SharedSpan ==
  ASSUME NEW f, FilmOK(f), NEW m \in SharedBoundary(f)
  PROVE  m[2] \in DOMAIN f.spans /\ Covers(f, Positions(f), m[2]) = {}
<1> DEFINE pos   == Positions(f)
           start == f.spans[m[1]].start
<1>1. Apart(f.spans, pos) /\ DOMAIN pos = DOMAIN f.scenes
  BY FilmApart
<1>. HIDE DEF pos
<1>2. /\ m[1] \in DOMAIN f.spans /\ m[2] \in DOMAIN f.spans /\ m[1] # m[2]
      /\ start \in DOMAIN f.scenes /\ f.spans[m[2]].start = start /\ m[2] <= m[1]
  BY DEF SharedBoundary
<1>3. m[1] \in Nat /\ m[2] \in Nat
  BY <1>1, <1>2 DEF Apart
<1>4. /\ m[1] \in Anchored(f.spans, pos) /\ m[2] \in Anchored(f.spans, pos)
      /\ SpanBefore(f.spans, pos, m[2], m[1])
  BY <1>1, <1>2, <1>3 DEF Anchored, SpanBefore
<1>5. \A s \in DOMAIN pos : pos[s] \in Nat
  BY <1>1 DEF Apart
<1>6. ASSUME NEW s \in SpanScenes(f.spans, pos, m[2]) PROVE FALSE
  <2>1. s \in DOMAIN pos /\ pos[s] >= pos[start] /\ pos[s] < pos[start]
    BY <1>2, <1>4 DEF SpanScenes
  <2>. QED
    BY <1>1, <1>2, <1>5, <2>1
<1>. QED
  BY <1>2, <1>6 DEF Covers, pos

\* Every film the host may store: what is reported of its spans is so.
LEMMA SpansReported ==
  ASSUME NEW f, FilmOK(f)
  PROVE  SpansAreReported(f)
<1> DEFINE pos    == Positions(f)
           shared == SharedBoundary(f)
           empty  == {a \in DOMAIN f.spans : Covers(f, pos, a) = {}}
           before == BeforeFirstSpan(f, pos)
           starts == {pos[f.spans[a].start] : a \in Anchored(f.spans, pos)}
<1>1. Apart(f.spans, pos) /\ DOMAIN pos = DOMAIN f.scenes
  BY FilmApart
<1>2. empty \subseteq NoBoundary(f) \cup DanglingBoundary(f)
                        \cup UNION {{m[1], m[2]} : m \in shared}
  BY EmptySpan
<1>3. \A m \in shared : m[1] \in empty \/ m[2] \in empty
  BY SharedSpan
<1>. HIDE DEF pos
<1>4. ASSUME NEW s \in DOMAIN f.scenes, s \in before
      PROVE  \A n \in starts : pos[s] < n
  <2>. SUFFICES ASSUME NEW a \in Anchored(f.spans, pos)
                PROVE  pos[s] < pos[f.spans[a].start]
    OBVIOUS
  <2>1. SpanOf(f.spans, pos, s) = {}
    BY <1>4 DEF BeforeFirstSpan
  <2>2. pos[s] \in Nat /\ pos[f.spans[a].start] \in Nat
    BY <1>1 DEF Apart, Anchored
  <2>3. ~(pos[f.spans[a].start] <= pos[s])
    BY <1>1, <2>1, SomeSpan
  <2>. QED
    BY <2>2, <2>3
<1>5. ASSUME NEW s \in DOMAIN f.scenes, s \notin before, starts # {}
      PROVE  Cardinality(SpanOf(f.spans, pos, s)) = 1
  <2>1. SpanOf(f.spans, pos, s) # {}
    BY <1>5 DEF BeforeFirstSpan
  <2>2. PICK a \in SpanOf(f.spans, pos, s) : TRUE
    BY <2>1
  <2>3. \A b \in SpanOf(f.spans, pos, s) : b = a
    BY <1>1, OneSpan
  <2>4. SpanOf(f.spans, pos, s) = {a}
    BY <2>2, <2>3
  <2>. QED
    BY <2>4, FS_Singleton
<1>. HIDE DEF shared, empty, before, starts
<1>. SUFFICES /\ empty \subseteq NoBoundary(f) \cup DanglingBoundary(f)
                         \cup UNION {{m[1], m[2]} : m \in shared}
              /\ \A m \in shared : m[1] \in empty \/ m[2] \in empty
              /\ \A s \in DOMAIN f.scenes :
                   IF s \in before THEN \A n \in starts : pos[s] < n
                   ELSE starts # {} => Cardinality(SpanOf(f.spans, pos, s)) = 1
  BY Zenon DEF SpansAreReported, shared, empty, before, starts, pos
<1>. QED
  BY <1>2, <1>3, <1>4, <1>5

-----------------------------------------------------------------------------
(* What is foretold of the next commit                                      *)

\* Linking the stored script again, and creating nothing, leaves the headings
\* with the scenes they have: each is the only heading of its scene.
LEMMA LinkedAgain ==
  ASSUME NEW f, NEW new \in BOOLEAN, NEW linked, FilmOK(f), OneHeadingEach(f.rows),
         ~new, linked = LinkedRows(f, f.rows, new)
  PROVE  /\ linked \in Seq(Row) /\ DOMAIN linked = DOMAIN f.rows
         /\ HeadingsOf(linked) = HeadingsOf(f.rows)
         /\ \A i \in HeadingsOf(f.rows) : linked[i].scene = f.rows[i].scene
         /\ \A i \in DOMAIN f.rows :
              /\ linked[i].type = f.rows[i].type /\ linked[i].text = f.rows[i].text
              /\ linked[i].ref = f.rows[i].ref
              /\ linked[i].scene \in DOMAIN f.scenes \cup {None}
<1>1. /\ f.next.scene \in Nat \ {0} /\ f.rows \in Seq(Row)
      /\ \A i \in DOMAIN f.rows : f.rows[i].scene \in DOMAIN f.scenes \cup {None}
  BY FilmParts DEF FilmFits
<1>2. /\ linked \in Seq(Row) /\ DOMAIN linked = DOMAIN f.rows
      /\ HeadingsOf(linked) = HeadingsOf(f.rows)
      /\ \A i \in HeadingsOf(f.rows) : linked[i].scene = HeadingScene(f, f.rows, new, i)
      /\ \A i \in DOMAIN f.rows :
           /\ linked[i].id = f.rows[i].id /\ linked[i].type = f.rows[i].type
           /\ linked[i].text = f.rows[i].text /\ linked[i].ref = f.rows[i].ref
           /\ \/ linked[i].scene = None
              \/ \E j \in HeadingsOf(f.rows) : linked[i].scene = linked[j].scene
  BY <1>1, LinkedRowsType, SMTT(20)
<1>3. ASSUME NEW i \in HeadingsOf(f.rows)
      PROVE  linked[i].scene = f.rows[i].scene
  <2>1. CASE f.rows[i].scene = None
    BY <1>2, <2>1 DEF HeadingScene, KeepsScene
  <2>2. CASE f.rows[i].scene # None
    <3>1. \A j \in HeadingsOf(f.rows) : j < i => f.rows[j].scene # f.rows[i].scene
      <4>1. HeadingsOf(f.rows) \in SUBSET Nat
        BY <1>1, RowsType
      <4>. QED
        BY <2>2, <4>1 DEF OneHeadingEach
    <3>. QED
      BY <1>2, <2>2, <3>1 DEF HeadingScene, KeepsScene
  <2>. QED
    BY <2>1, <2>2
<1>4. \A i \in DOMAIN f.rows : linked[i].scene \in DOMAIN f.scenes \cup {None}
  <2>1. HeadingsOf(f.rows) \subseteq DOMAIN f.rows
    BY DEF HeadingsOf
  <2>. QED
    BY <1>1, <1>2, <1>3, <2>1, SMTT(20)
<1>. QED
  BY <1>2, <1>3, <1>4

\* The sections anchor where the headings below them say.
LEMMA AnchorsFollowHeadings ==
  ASSUME NEW rows, NEW same, DOMAIN same = DOMAIN rows,
         HeadingsOf(same) = HeadingsOf(rows),
         \A i \in HeadingsOf(rows) : same[i].scene = rows[i].scene,
         \A i \in DOMAIN rows : same[i].type = rows[i].type,
         HeadingsOf(rows) \in SUBSET Nat, DOMAIN rows \in SUBSET Nat
  PROVE  /\ \A i \in DOMAIN rows : SectionAnchor(same, i) = SectionAnchor(rows, i)
         /\ Sections(same) = Sections(rows)
<1> DEFINE below(r, i) == {j \in HeadingsOf(r) : j > i /\ r[j].scene # None}
<1>1. ASSUME NEW i \in DOMAIN rows, i \in Nat
      PROVE  SectionAnchor(same, i) = SectionAnchor(rows, i)
  <2>1. below(same, i) = below(rows, i) /\ below(rows, i) \in SUBSET Nat
    OBVIOUS
  <2>2. CASE below(rows, i) = {}
    BY <2>1, <2>2 DEF SectionAnchor
  <2>3. CASE below(rows, i) # {}
    <3> DEFINE first == CHOOSE j \in below(rows, i) : \A k \in below(rows, i) : j <= k
    <3>1. first \in below(rows, i)
      BY <2>1, <2>3, LeastExists
    <3>2. SectionAnchor(same, i) = same[first].scene
          /\ SectionAnchor(rows, i) = rows[first].scene
      BY <2>1, <2>3 DEF SectionAnchor
    <3>. QED
      BY <3>1, <3>2
  <2>. QED
    BY <2>2, <2>3
<1>2. \A i \in DOMAIN rows : SectionAnchor(same, i) = SectionAnchor(rows, i)
  BY <1>1
<1>. QED
  BY <1>2 DEF Sections

\* A commit that creates nothing moves a span's boundary only to the anchor of
\* a section that names the span.
LEMMA CommitStarts ==
  ASSUME NEW f, NEW rows, NEW new \in BOOLEAN, NEW bound, NEW a,
         rows \in Seq(Row), IsTable(f.spans, Span, f.next.span), ~new,
         bound = CommitSections(f, rows, new), a \in DOMAIN f.spans
  PROVE  \/ bound.spans[a].start = f.spans[a].start
         \/ \E i \in Sections(rows) :
              /\ NamedSpan(f.spans, rows[i]) = a
              /\ bound.spans[a].start = SectionAnchor(rows, i)
<1> DEFINE span  == [i \in Sections(rows) |-> BoundSpan(f, rows, new, i)]
           creating == IF new THEN Creating(f.spans, rows) ELSE {}
           of(b)    == {i \in DOMAIN span : span[i] = b}
           old(b)   == IF b \in DOMAIN f.spans THEN f.spans[b]
                       ELSE [name |-> rows[LastOf(of(b))].text, start |-> None, num |-> None]
           names(b) == {i \in of(b) : rows[i].ref = b /\ rows[i].text # old(b).name}
           all      == DOMAIN f.spans \cup {span[i] : i \in creating}
           name(b)  == IF names(b) = {} THEN old(b).name
                       ELSE rows[LastOf(names(b))].text
           start(b) == IF of(b) = {} THEN old(b).start
                       ELSE SectionAnchor(rows, LastOf(of(b)))
<1>0. bound.spans = [b \in all |-> [name |-> name(b), start |-> start(b), num |-> old(b).num]]
  BY DEF CommitSections, BindSections
<1>1. bound.spans[a].start = IF of(a) = {} THEN f.spans[a].start
                             ELSE SectionAnchor(rows, LastOf(of(a)))
  <2>1. a \in all /\ old(a) = f.spans[a]
    OBVIOUS
  <2>. HIDE DEF all, old, name, of
  <2>. QED
    BY <1>0, <2>1
<1>2. CASE of(a) = {}
  BY <1>1, <1>2
<1>3. CASE of(a) # {}
  <2> DEFINE i == LastOf(of(a))
  <2>1. i \in of(a)
    <3>1. of(a) \in SUBSET Nat /\ \A k \in of(a) : k <= Len(rows)
      BY SectionsType
    <3>. QED
      BY <1>3, <3>1, LastOfType, RowsType
  <2>2. i \in Sections(rows) /\ BoundSpan(f, rows, new, i) = a
    BY <2>1
  <2>3. a # None
    BY DEF IsTable, None
  <2>4. bound.spans[a].start = SectionAnchor(rows, i)
    BY <1>1, <1>3
  <2>. HIDE DEF i
  <2>5. NamedSpan(f.spans, rows[i]) = a
    BY <2>2, <2>3, BoundSpanType
  <2>. QED
    BY <2>2, <2>4, <2>5
<1>. QED
  BY <1>2, <1>3

\* When the sections agree with the boundaries, the next commit moves none.
LEMMA StartsStay ==
  ASSUME NEW f, NEW g, NEW new \in BOOLEAN, NEW rows, NEW bound,
         FilmOK(f), OneHeadingEach(f.rows), BoundariesAgree(f), ~new,
         rows = LinkedRows(f, f.rows, new),
         g.spans = f.spans, g.next.span = f.next.span,
         bound = CommitSections(g, rows, new)
  PROVE  /\ DOMAIN bound.spans = DOMAIN f.spans
         /\ IsTable(bound.spans, Span, bound.next)
         /\ \A a \in DOMAIN f.spans :
              /\ bound.spans[a].start = f.spans[a].start
              /\ bound.spans[a].num = f.spans[a].num
<1>1. /\ rows \in Seq(Row) /\ DOMAIN rows = DOMAIN f.rows
      /\ HeadingsOf(rows) = HeadingsOf(f.rows)
      /\ \A i \in HeadingsOf(f.rows) : rows[i].scene = f.rows[i].scene
      /\ \A i \in DOMAIN f.rows :
           /\ rows[i].type = f.rows[i].type /\ rows[i].text = f.rows[i].text
           /\ rows[i].ref = f.rows[i].ref
           /\ rows[i].scene \in DOMAIN f.scenes \cup {None}
  BY LinkedAgain
<1>2. /\ HeadingsOf(f.rows) \in SUBSET Nat /\ DOMAIN f.rows \in SUBSET Nat
      /\ IsTable(g.spans, Span, g.next.span)
  BY FilmParts, RowsType
<1>3. /\ \A i \in DOMAIN f.rows : SectionAnchor(rows, i) = SectionAnchor(f.rows, i)
      /\ Sections(rows) = Sections(f.rows)
  BY <1>1, <1>2, AnchorsFollowHeadings
<1>4. /\ IsTable(bound.spans, Span, bound.next)
      /\ \A a \in DOMAIN g.spans : bound.spans[a].num = g.spans[a].num
      /\ DOMAIN bound.spans = DOMAIN g.spans
  BY <1>1, <1>2, CommitSectionsType
<1>5. ASSUME NEW a \in DOMAIN f.spans
      PROVE  bound.spans[a].start = f.spans[a].start
  <2>1. \/ bound.spans[a].start = g.spans[a].start
        \/ \E i \in Sections(rows) :
             /\ NamedSpan(g.spans, rows[i]) = a
             /\ bound.spans[a].start = SectionAnchor(rows, i)
    <3>1. a \in DOMAIN g.spans
      OBVIOUS
    <3>. QED
      BY <1>1, <1>2, <3>1, CommitStarts
  <2>2. ASSUME NEW i \in Sections(rows), NamedSpan(f.spans, rows[i]) = a
        PROVE  SectionAnchor(rows, i) = f.spans[a].start
    <3>1. /\ i \in DOMAIN f.rows /\ f.rows[i].type = "section"
          /\ SectionAnchor(f.rows, i) # None
      BY <1>3 DEF Sections
    <3>2. NamedSpan(f.spans, f.rows[i]) = a
      BY <1>1, <2>2, <3>1 DEF NamedSpan
    <3>3. a # None
      BY FilmParts DEF IsTable, None
    <3>4. SectionAnchor(f.rows, i) \in {None, f.spans[a].start}
      BY <3>1, <3>2, <3>3 DEF BoundariesAgree
    <3>. QED
      BY <1>3, <3>1, <3>4
  <2>. QED
    BY <2>1, <2>2
<1>. QED
  BY <1>4, <1>5

\* Commits of the stored script create nothing and are taken by the host.
LEMMA StoredCommit ==
  ASSUME NEW f, NEW new \in BOOLEAN, NEW r,
         FilmOK(f), OneHeadingEach(f.rows), ~new, r = CommitScript(f, f.rows, new)
  PROVE  /\ Given(f.rows, f) /\ r.ok /\ LinkedFilm(f, f.rows, new).scenes = f.scenes
<1> DEFINE rows   == LinkedRows(f, f.rows, new)
           linked == LinkedFilm(f, f.rows, new)
           ok     == \A i \in DOMAIN rows :
                       rows[i].scene \in DOMAIN linked.scenes \cup {None}
           stored == CommitStructure(linked, rows, new)
<1>1. /\ f.rows \in Seq(Row) /\ IsTable(f.scenes, Nat, f.next.scene)
      /\ \A i \in DOMAIN f.rows : f.rows[i].scene \in DOMAIN f.scenes \cup {None}
  BY FilmParts DEF FilmFits
<1>2. Given(f.rows, f)
  <2>1. f.next.scene \in Nat \ {0} /\ DOMAIN f.scenes \subseteq 1..(f.next.scene - 1)
    BY <1>1 DEF IsTable
  <2>. QED
    BY <1>1, <2>1 DEF Given, None
<1>3. Created(f, f.rows, new) = {}
  BY DEF Created
<1>4. DOMAIN linked.scenes = DOMAIN f.scenes
  <2>1. DOMAIN linked.scenes = DOMAIN f.scenes \cup Created(f, f.rows, new)
    BY <1>1, <1>2, LinkedFilmType
  <2>. QED
    BY <1>3, <2>1
<1>5. linked.scenes = f.scenes
  BY <1>1, <1>2, <1>4, NothingCreated
<1>6. r = [ok |-> ok, film |-> IF ok THEN stored ELSE f]
  BY CommitScriptIs
<1>7. /\ DOMAIN rows = DOMAIN f.rows
      /\ \A i \in DOMAIN f.rows : rows[i].scene \in DOMAIN f.scenes \cup {None}
  BY LinkedAgain
<1>. HIDE DEF rows, linked, stored
<1>8. ok
  BY <1>4, <1>7
<1>. HIDE DEF ok
<1>9. r.ok
  BY <1>6, <1>8
<1>. QED
  BY <1>2, <1>5, <1>9 DEF linked

\* What the next commit makes of a film whose sections agree with their spans.
LEMMA NextCommitParts ==
  ASSUME NEW f, NEW new \in BOOLEAN, NEW g,
         FilmOK(f), OneHeadingEach(f.rows), BoundariesAgree(f), ~new,
         f.policy = "derived", g = CommitScript(f, f.rows, new).film
  PROVE  LET hint == SceneOrderHint(f.rows)
             pos  == ScenePositions(hint, f.scenes)
         IN  /\ g.scenes = RenumberScenes("derived", f.scenes, hint)
             /\ g.shots = RestampShots("derived", f.shots, f.scenes, hint)
             /\ \A a \in DOMAIN f.spans :
                  /\ a \in Anchored(f.spans, pos)
                       => g.spans[a].num = SpanNumber(f.spans, pos, a)
                  /\ a \notin Anchored(f.spans, pos)
                       => g.spans[a].num = f.spans[a].num
<1> DEFINE hint   == SceneOrderHint(f.rows)
           pos    == ScenePositions(hint, f.scenes)
           rows   == LinkedRows(f, f.rows, new)
           linked == LinkedFilm(f, f.rows, new)
           bound  == CommitSections(linked, rows, new)
<1>1. /\ f.rows \in Seq(Row) /\ Given(f.rows, f) /\ CommitScript(f, f.rows, new).ok
      /\ linked.scenes = f.scenes
  BY StoredCommit, FilmParts DEF FilmFits
<1>2. /\ g.scenes = RenumberScenes(f.policy, linked.scenes, hint)
      /\ g.shots = RestampShots(f.policy, f.shots, linked.scenes, hint)
      /\ g.spans = RenumberSpans(f.policy, bound.spans, ScenePositions(hint, linked.scenes))
  BY <1>1, CommitScriptParts
<1>3. linked.spans = f.spans /\ linked.next.span = f.next.span
  BY <1>1, LinkedFilmType
<1>. HIDE DEF hint, linked
<1>4. /\ DOMAIN bound.spans = DOMAIN f.spans
      /\ IsTable(bound.spans, Span, bound.next)
      /\ \A a \in DOMAIN f.spans :
           /\ bound.spans[a].start = f.spans[a].start
           /\ bound.spans[a].num = f.spans[a].num
  BY <1>3, StartsStay
<1>5. g.spans = RenumberSpans("derived", bound.spans, pos)
  BY <1>1, <1>2
<1> DEFINE t == bound.spans
           n == bound.next
<1>6. /\ DOMAIN t = DOMAIN f.spans /\ IsTable(t, Span, n)
      /\ \A a \in DOMAIN f.spans : t[a].start = f.spans[a].start /\ t[a].num = f.spans[a].num
      /\ g.spans = RenumberSpans("derived", t, pos)
  BY <1>4, <1>5
<1>. HIDE DEF bound, t, n, rows, pos
<1>7. /\ Anchored(t, pos) = Anchored(f.spans, pos)
      /\ \A a \in Anchored(f.spans, pos) : SpanNumber(t, pos, a) = SpanNumber(f.spans, pos, a)
  BY <1>6, StartsDecide
<1>8. \A a \in DOMAIN f.spans :
        /\ a \in Anchored(f.spans, pos) => g.spans[a].num = SpanNumber(f.spans, pos, a)
        /\ a \notin Anchored(f.spans, pos) => g.spans[a].num = f.spans[a].num
  <2>1. \A a \in DOMAIN t :
          /\ a \in Anchored(t, pos) => g.spans[a].num = SpanNumber(t, pos, a)
          /\ a \notin Anchored(t, pos) => g.spans[a].num = t[a].num
    BY <1>6, RenumberSpansType DEF IsTable
  <2>. QED
    BY <1>6, <1>7, <2>1
<1>9. /\ g.scenes = RenumberScenes("derived", f.scenes, hint)
      /\ g.shots = RestampShots("derived", f.shots, f.scenes, hint)
  BY <1>1, <1>2
<1>. QED
  BY <1>8, <1>9 DEF pos, hint

\* The rows a preview names are those whose numbers the tables would change.
LEMMA PreviewCounts ==
  ASSUME NEW f, NEW g, NEW hint, NEW pos, FilmOK(f),
         DOMAIN hint \subseteq DOMAIN f.scenes,
         g.scenes = RenumberScenes("derived", f.scenes, hint),
         g.shots = RestampShots("derived", f.shots, f.scenes, hint),
         \A a \in DOMAIN f.spans :
           /\ a \in Anchored(f.spans, pos)
                => g.spans[a].num = SpanNumber(f.spans, pos, a)
           /\ a \notin Anchored(f.spans, pos) => g.spans[a].num = f.spans[a].num
  PROVE  Preview(f, hint, pos) = Renumbers(f, g)
<1>1. ScenesRenumbered(f, hint) \cup ScenesCleared(f, hint)
        = {s \in DOMAIN f.scenes : g.scenes[s] # f.scenes[s]}
  <2>1. \A s \in DOMAIN f.scenes :
          g.scenes[s] = IF s \in DOMAIN hint THEN hint[s] + 1 ELSE None
    BY DEF RenumberScenes
  <2>. QED
    BY <2>1 DEF ScenesRenumbered, ScenesCleared
<1>2. ShotsRestamped(f, hint) = {h \in DOMAIN f.shots : g.shots[h].code # f.shots[h].code}
  <2>1. ASSUME NEW h \in DOMAIN f.shots
        PROVE  g.shots[h].code
                 = IF f.shots[h].scene \in DOMAIN hint
                   THEN Restamped(f.shots[h].code, f.scenes[f.shots[h].scene],
                                  hint[f.shots[h].scene] + 1)
                   ELSE f.shots[h].code
    <3>1. f.shots[h] \in Shot
      BY FilmParts DEF IsTable
    <3>2. g.shots[h] = IF f.shots[h].scene \in DOMAIN hint
                       THEN [f.shots[h] EXCEPT !.code =
                               Restamped(f.shots[h].code, f.scenes[f.shots[h].scene],
                                         hint[f.shots[h].scene] + 1)]
                       ELSE f.shots[h]
      BY DEF RestampShots
    <3>. QED
      BY <3>1, <3>2 DEF Shot
  <2>. QED
    BY <2>1 DEF ShotsRestamped
<1>3. SpansRenumbered(f, pos) = {a \in DOMAIN f.spans : g.spans[a].num # f.spans[a].num}
  <2>1. Anchored(f.spans, pos) \subseteq DOMAIN f.spans
    BY DEF Anchored
  <2>. QED
    BY <2>1 DEF SpansRenumbered
<1>. QED
  BY <1>1, <1>2, <1>3 DEF Preview, Renumbers

\* The preview names what the next commit under "derived" then rewrites.
LEMMA Foretold ==
  ASSUME NEW f, FilmOK(f), OneHeadingEach(f.rows), BoundariesAgree(f)
  PROVE  PreviewForetells(f)
<1> DEFINE hint == SceneOrderHint(f.rows)
           pos  == ScenePositions(hint, f.scenes)
           d    == [f EXCEPT !.policy = "derived"]
           g    == CommitScript(d, d.rows, FALSE).film
<1>1. /\ FilmOK(d) /\ d.rows = f.rows /\ d.scenes = f.scenes /\ d.spans = f.spans
      /\ d.shots = f.shots /\ d.policy = "derived"
  BY SetPolicyType
<1>. HIDE DEF d
<1>2. OneHeadingEach(d.rows) /\ BoundariesAgree(d)
  BY <1>1 DEF BoundariesAgree
<1>3. ASSUME NEW new \in BOOLEAN, NEW h, ~new, h = CommitScript(d, d.rows, new).film
      PROVE  /\ h.scenes = RenumberScenes("derived", f.scenes, hint)
             /\ h.shots = RestampShots("derived", f.shots, f.scenes, hint)
             /\ \A a \in DOMAIN f.spans :
                  /\ a \in Anchored(f.spans, pos)
                       => h.spans[a].num = SpanNumber(f.spans, pos, a)
                  /\ a \notin Anchored(f.spans, pos)
                       => h.spans[a].num = f.spans[a].num
  BY <1>1, <1>2, <1>3, NextCommitParts
<1>4. DOMAIN hint \subseteq DOMAIN f.scenes
  <2>1. \A i \in DOMAIN f.rows : f.rows[i].scene \in DOMAIN f.scenes \cup {None}
    BY FilmParts DEF FilmFits
  <2>2. DOMAIN hint = ScriptScenes(f.rows)
    BY DEF SceneOrderHint
  <2>. QED
    BY <2>1, <2>2 DEF ScriptScenes, HeadingsOf
<1>. HIDE DEF hint, pos
<1>5. /\ g.scenes = RenumberScenes("derived", f.scenes, hint)
      /\ g.shots = RestampShots("derived", f.shots, f.scenes, hint)
      /\ \A a \in DOMAIN f.spans :
           /\ a \in Anchored(f.spans, pos)
                => g.spans[a].num = SpanNumber(f.spans, pos, a)
           /\ a \notin Anchored(f.spans, pos) => g.spans[a].num = f.spans[a].num
  BY <1>3
<1>. HIDE DEF g
<1>6. Preview(f, hint, pos) = Renumbers(f, g)
  BY <1>4, <1>5, PreviewCounts
<1>7. g = NextCommit(f)
  BY <1>1 DEF g, d, NextCommit
<1>. QED
  BY <1>6, <1>7 DEF PreviewForetells, hint, pos

\* What the program tells the writer of the film's structure is so: which spans
\* are empty, which scenes come before the first, and what switching the numbers
\* to "derived" would rewrite at the next commit.
THEOREM ReportsTheorem == Spec => []ReportsAreTrue
<1>1. IInv => ReportsAreTrue
  <2>. SUFFICES ASSUME IInv PROVE ReportsAreTrue
    OBVIOUS
  <2>1. FilmOK(film) /\ OneHeadingEach(film.rows)
    BY WindowParts DEF IInv, OneHeadingPerScene
  <2>. QED
    BY <2>1, SpansReported, Foretold DEF ReportsAreTrue
<1>. QED
  BY <1>1, Invariance, PTL
=============================================================================
