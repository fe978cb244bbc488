--------------------------- MODULE MediaWindowProofs ---------------------------
(***************************************************************************)
(* What holds of the media panels and the operations below them for any    *)
(* owners, files, conditions and bounds and any first film: the types, that *)
(* an undone change gives the film back, that what others use is not        *)
(* changed unasked, that exceptions keep their ranks apart, and that a      *)
(* move leaves all else in order.                                          *)
(*                                                                         *)
(* The recorder is the heart of it.  Recorded says of a change under way    *)
(* that it knows every row it made and every row that is not as it was;     *)
(* the three things an operation can do to a table keep it, and with it     *)
(* undoing gives back what the change began from.                           *)
(***************************************************************************)
EXTENDS MediaWindow, FiniteSetTheorems, SequenceTheorems, WellFoundedInduction,
        TLAPS

\* A change c that began from the film f knows what it did to it.
Recorded(f, c) ==
  /\ FilmOK(f)
  /\ c = [t |-> c.t, next |-> c.next, made |-> c.made, was |-> c.was]
  /\ c.next \in Nat \ {0} /\ f.next <= c.next
  /\ TablesOK(c.t, c.next)
  /\ c.made = [table \in Tables |-> c.made[table]]
  /\ c.was = [table \in Tables |->
                [k \in DOMAIN c.was[table] |-> f.t[table][k]]]
  /\ \A table \in Tables :
       /\ c.made[table] \subseteq f.next..(c.next - 1)
       /\ DOMAIN c.was[table] \subseteq DOMAIN f.t[table]
       /\ DOMAIN c.t[table] \subseteq DOMAIN f.t[table] \cup c.made[table]
       /\ \A k \in DOMAIN f.t[table] \ DOMAIN c.was[table] :
            k \in DOMAIN c.t[table] /\ c.t[table][k] = f.t[table][k]

\* A change d that goes on from c only touched some tables.
Leaves(c, d, tables) ==
  \A table \in Tables \ tables : /\ d.t[table] = c.t[table]
                                  /\ d.was[table] = c.was[table]
                                  /\ d.made[table] = c.made[table]

\* Tables u hold the members of t, and new ones of one bundle.
GrownBy(t, u, bundle) ==
  /\ DOMAIN t.member \subseteq DOMAIN u.member
  /\ \A k \in DOMAIN t.member : u.member[k] = t.member[k]
  /\ \A k \in DOMAIN u.member \ DOMAIN t.member : u.member[k].bundle = bundle

\* What is counted through from one.
Listing(list) == Len(list) \in Nat /\ DOMAIN list = 1..Len(list)

-----------------------------------------------------------------------------
(* Numbers and finite sets                                                  *)

LEMMA LeastExists ==
  ASSUME NEW S \in SUBSET Nat, S # {}
  PROVE  \E m \in S : \A k \in S : m <= k
<1>1. \E x \in S : \A y \in S : ~(<<y, x>> \in OpToRel(<, Nat))
  BY NatLessThanWellFounded, WFMin
<1>2. PICK x \in S : \A y \in S : ~(<<y, x>> \in OpToRel(<, Nat))
  BY <1>1
<1>3. \A y \in S : ~(y < x)
  BY <1>2 DEF OpToRel
<1>. QED
  BY <1>3

LEMMA GreatestType ==
  ASSUME NEW S \in SUBSET Nat, NEW n \in Nat, \A k \in S : k <= n
  PROVE  Greatest(S) \in Nat /\ \A k \in S : k <= Greatest(S)
<1>1. CASE S = {}
  BY <1>1 DEF Greatest
<1>2. CASE S # {}
  <2> DEFINE T == {n - k : k \in S}
  <2>0. \A k \in S : n - k \in Nat
    OBVIOUS
  <2>1. T \in SUBSET Nat /\ T # {}
    BY <2>0, <1>2
  <2>2. PICK m \in T : \A k \in T : m <= k
    BY <2>1, LeastExists
  <2>3. PICK x \in S : m = n - x
    OBVIOUS
  <2>4. \A k \in S : n - x <= n - k
    BY <2>2, <2>3
  <2>5. \A k \in S : k <= x
    BY <2>4
  <2>. QED
    BY <1>2, <2>5 DEF Greatest
<1>. QED
  BY <1>1, <1>2

LEMMA Finite ==
  ASSUME NEW S \in SUBSET Nat, NEW n \in Nat, \A k \in S : k <= n
  PROVE  IsFiniteSet(S) /\ Cardinality(S) \in Nat
BY FS_BoundedSetOfNaturals, FS_CardinalityType

\* The greatest of the numbers that finitely many rows have.
LEMMA FiniteGreatest ==
  ASSUME NEW S \in SUBSET Nat, IsFiniteSet(S)
  PROVE  Greatest(S) \in Nat /\ \A k \in S : k <= Greatest(S)
<1> DEFINE Bounded(T) == \E m \in Nat : \A k \in T : k <= m
           Bad(n) == \E T \in SUBSET Nat :
                       IsFiniteSet(T) /\ Cardinality(T) = n /\ ~Bounded(T)
           bad == {n \in Nat : Bad(n)}
<1>1. bad = {}
  <2> SUFFICES ASSUME bad # {} PROVE FALSE
    OBVIOUS
  <2>1. PICK n \in bad : \A k \in bad : n <= k
    BY LeastExists
  <2>2. PICK T \in SUBSET Nat : IsFiniteSet(T) /\ Cardinality(T) = n /\ ~Bounded(T)
    BY <2>1
  <2>3. PICK x \in T : TRUE
    BY <2>2
  <2>4. /\ IsFiniteSet(T \ {x}) /\ Cardinality(T \ {x}) = n - 1 /\ n \in Nat
        /\ Cardinality(T \ {x}) \in Nat
    BY <2>1, <2>2, <2>3, FS_RemoveElement, FS_CardinalityType
  <2>5. n - 1 \notin bad
    BY <2>1, <2>4
  <2>6. PICK m \in Nat : \A k \in T \ {x} : k <= m
    BY <2>5, <2>4, <2>2
  <2>7. x \in Nat /\ m + x \in Nat /\ \A k \in T : k <= m + x
    BY <2>2, <2>3, <2>6
  <2>. QED
    BY <2>2, <2>7
<1>2. Cardinality(S) \in Nat
  BY FS_CardinalityType
<1>3. PICK n \in Nat : \A k \in S : k <= n
  BY <1>1, <1>2
<1>. QED
  BY <1>3, GreatestType

LEMMA ImageFinite ==
  ASSUME NEW S, IsFiniteSet(S), NEW g
  PROVE  IsFiniteSet({g[k] : k \in S})
<1> DEFINE T == {g[k] : k \in S}
           h == [k \in S |-> g[k]]
<1>1. h \in Surjection(S, T)
  BY DEF Surjection
<1>. HIDE DEF h, T
<1>2. IsFiniteSet(T)
  BY <1>1, FS_Surjection
<1>. QED
  BY <1>2 DEF T

-----------------------------------------------------------------------------
(* The recorder                                                             *)

LEMMA TablesGrow ==
  ASSUME NEW t, NEW n \in Nat, NEW m \in Nat, n <= m, TablesOK(t, n)
  PROVE  TablesOK(t, m)
BY DEF TablesOK, RowOK

LEMMA RecordedBegin ==
  ASSUME NEW f, FilmOK(f)
  PROVE  /\ Recorded(f, Begin(f))
         /\ Begin(f).t = f.t /\ Begin(f).next = f.next
         /\ Begin(f).made = NoRows /\ Begin(f).was = NoTables
<1>1. TablesOK(f.t, f.next) /\ f.next \in Nat \ {0}
  BY DEF FilmOK
<1>2. NoTables = [table \in Tables |->
                    [k \in DOMAIN NoTables[table] |-> f.t[table][k]]]
  BY DEF NoTables
<1>. QED
  BY <1>1, <1>2 DEF Recorded, Begin, NoRows, NoTables

LEMMA NewIdsCount ==
  ASSUME NEW c, NEW n \in Nat, c.next \in Nat
  PROVE  Cardinality(NewIds(c, n)) = n
<1>1. CASE n = 0
  <2>1. c.next..(c.next + n - 1) = {}
    BY <1>1
  <2>. QED
    BY <1>1, <2>1, FS_EmptySet DEF NewIds
<1>2. CASE n # 0
  BY <1>2, FS_Interval DEF NewIds
<1>. QED
  BY <1>1, <1>2

LEMMA InsertFields ==
  ASSUME NEW f, NEW c, Recorded(f, c), NEW table \in Tables, NEW rows,
         NEW n \in Nat, DOMAIN rows = NewIds(c, n)
  PROVE  LET d == Insert(c, table, rows)
         IN  /\ d = [t |-> d.t, next |-> d.next, made |-> d.made, was |-> d.was]
             /\ d.t = [tb \in Tables |-> IF tb = table THEN PutOver(c.t[tb], rows)
                                         ELSE c.t[tb]]
             /\ d.next = c.next + n
             /\ d.made = [tb \in Tables |-> IF tb = table
                                            THEN c.made[tb] \cup NewIds(c, n)
                                            ELSE c.made[tb]]
             /\ d.was = c.was
<1>1. Cardinality(DOMAIN rows) = n
  BY NewIdsCount DEF Recorded
<1>2. /\ c = [t |-> c.t, next |-> c.next, made |-> c.made, was |-> c.was]
      /\ c.t = [tb \in Tables |-> c.t[tb]]
      /\ c.made = [tb \in Tables |-> c.made[tb]]
  BY DEF Recorded, TablesOK
<1> DEFINE d == Insert(c, table, rows)
<1>3. d.t = [tb \in Tables |-> IF tb = table THEN PutOver(c.t[tb], rows) ELSE c.t[tb]]
  BY <1>2 DEF Insert
<1>4. d.made = [tb \in Tables |-> IF tb = table THEN c.made[tb] \cup NewIds(c, n)
                                  ELSE c.made[tb]]
  BY <1>2 DEF Insert
<1>5. d.next = c.next + n /\ d.was = c.was
  BY <1>1, <1>2 DEF Insert
<1>6. d = [t |-> d.t, next |-> d.next, made |-> d.made, was |-> d.was]
  <2>1. DOMAIN c = {"t", "next", "made", "was"}
    BY <1>2
  <2>2. DOMAIN d = DOMAIN c /\ d = [k \in DOMAIN c |-> d[k]]
    BY <1>2 DEF Insert
  <2>. QED
    BY <2>1, <2>2
<1>. QED
  BY <1>3, <1>4, <1>5, <1>6

LEMMA RecordedInsert ==
  ASSUME NEW f, NEW c, Recorded(f, c), NEW table \in Tables, NEW rows,
         NEW n \in Nat, DOMAIN rows = NewIds(c, n),
         \A k \in DOMAIN rows : RowOK(table, rows[k], c.next + n)
  PROVE  Recorded(f, Insert(c, table, rows))
<1> DEFINE d == Insert(c, table, rows)
<1>1. /\ d = [t |-> d.t, next |-> d.next, made |-> d.made, was |-> d.was]
      /\ d.t = [tb \in Tables |-> IF tb = table THEN PutOver(c.t[tb], rows)
                                  ELSE c.t[tb]]
      /\ d.next = c.next + n
      /\ d.made = [tb \in Tables |-> IF tb = table THEN c.made[tb] \cup NewIds(c, n)
                                     ELSE c.made[tb]]
      /\ d.was = c.was
  BY InsertFields
<1>. HIDE DEF d
<1>2. /\ c.next \in Nat \ {0} /\ f.next \in Nat \ {0} /\ f.next <= c.next
      /\ d.next \in Nat \ {0} /\ f.next <= d.next
  BY <1>1 DEF Recorded, FilmOK
<1>3. TablesOK(c.t, d.next)
  BY <1>1, <1>2, TablesGrow DEF Recorded
<1>4. TablesOK(d.t, d.next)
  <2>1. d.t = [tb \in Tables |-> [k \in DOMAIN d.t[tb] |-> d.t[tb][k]]]
    <3>1. ASSUME NEW tb \in Tables
          PROVE  d.t[tb] = [k \in DOMAIN d.t[tb] |-> d.t[tb][k]]
      <4>1. c.t[tb] = [k \in DOMAIN c.t[tb] |-> c.t[tb][k]]
        BY DEF Recorded, TablesOK
      <4>2. CASE tb = table
        BY <4>2, <1>1 DEF PutOver
      <4>3. CASE tb # table
        BY <4>1, <4>3, <1>1
      <4>. QED
        BY <4>2, <4>3
    <3>. QED
      BY <3>1, <1>1
  <2>2. ASSUME NEW tb \in Tables
        PROVE  /\ DOMAIN d.t[tb] \subseteq 1..(d.next - 1)
               /\ \A k \in DOMAIN d.t[tb] : RowOK(tb, d.t[tb][k], d.next)
    <3>1. CASE tb # table
      BY <3>1, <1>1, <1>3 DEF TablesOK
    <3>2. CASE tb = table
      <4>1. NewIds(c, n) \subseteq 1..(d.next - 1)
        BY <1>1, <1>2 DEF NewIds
      <4>2. /\ DOMAIN c.t[tb] \subseteq 1..(d.next - 1)
            /\ \A k \in DOMAIN c.t[tb] : RowOK(tb, c.t[tb][k], d.next)
        BY <1>3 DEF TablesOK
      <4>3. d.t[tb] = PutOver(c.t[tb], rows)
        BY <3>2, <1>1
      <4>. QED
        BY <4>1, <4>2, <4>3, <3>2, <1>1 DEF PutOver
    <3>. QED
      BY <3>1, <3>2
  <2>. QED
    BY <2>1, <2>2 DEF TablesOK
<1>5. d.was = [tb \in Tables |-> [k \in DOMAIN d.was[tb] |-> f.t[tb][k]]]
  BY <1>1 DEF Recorded
<1>6. ASSUME NEW tb \in Tables
      PROVE  /\ d.made[tb] \subseteq f.next..(d.next - 1)
             /\ DOMAIN d.was[tb] \subseteq DOMAIN f.t[tb]
             /\ DOMAIN d.t[tb] \subseteq DOMAIN f.t[tb] \cup d.made[tb]
             /\ \A k \in DOMAIN f.t[tb] \ DOMAIN d.was[tb] :
                  k \in DOMAIN d.t[tb] /\ d.t[tb][k] = f.t[tb][k]
  <2>1. /\ c.made[tb] \subseteq f.next..(c.next - 1)
        /\ DOMAIN c.was[tb] \subseteq DOMAIN f.t[tb]
        /\ DOMAIN c.t[tb] \subseteq DOMAIN f.t[tb] \cup c.made[tb]
        /\ \A k \in DOMAIN f.t[tb] \ DOMAIN c.was[tb] :
             k \in DOMAIN c.t[tb] /\ c.t[tb][k] = f.t[tb][k]
    BY DEF Recorded
  <2>2. DOMAIN f.t[tb] \subseteq 1..(f.next - 1)
    BY DEF Recorded, FilmOK, TablesOK
  <2>3. NewIds(c, n) \subseteq f.next..(d.next - 1)
    BY <1>1, <1>2 DEF NewIds
  <2>4. NewIds(c, n) \cap DOMAIN f.t[tb] = {}
    BY <2>2, <1>2 DEF NewIds
  <2>5. CASE tb # table
    BY <2>5, <2>1, <1>1, <1>2
  <2>6. CASE tb = table
    <3>1. d.t[tb] = PutOver(c.t[tb], rows) /\ d.made[tb] = c.made[tb] \cup NewIds(c, n)
      BY <2>6, <1>1
    <3>2. d.made[tb] \subseteq f.next..(d.next - 1)
      BY <3>1, <2>1, <2>3, <1>1, <1>2
    <3>. QED
      BY <3>1, <3>2, <2>1, <2>4, <1>1 DEF PutOver
  <2>. QED
    BY <2>5, <2>6
<1>. QED
  BY <1>1, <1>2, <1>4, <1>5, <1>6 DEF Recorded, d

\* What has been kept may be lost.
LEMMA RecordedSnapshot ==
  ASSUME NEW f, NEW c, Recorded(f, c), NEW table \in Tables, NEW ids
  PROVE  LET d == Snapshot(c, table, ids)
         IN  /\ Recorded(f, d)
             /\ d.t = c.t /\ d.next = c.next /\ d.made = c.made
             /\ \A tb \in Tables : tb # table => d.was[tb] = c.was[tb]
             /\ \A k \in ids \cap DOMAIN f.t[table] :
                  k \in DOMAIN d.was[table] \/ k \notin DOMAIN c.t[table]
<1> DEFINE d == Snapshot(c, table, ids)
           kept == (ids \cap DOMAIN c.t[table]) \ c.made[table]
           more == PutOver([k \in kept |-> c.t[table][k]], c.was[table])
<1>1. /\ c = [t |-> c.t, next |-> c.next, made |-> c.made, was |-> c.was]
      /\ c.was = [tb \in Tables |-> c.was[tb]]
  BY DEF Recorded
<1>2. d = [c EXCEPT !.was[table] = more]
  BY DEF Snapshot
<1>. HIDE DEF d, more
<1>3. /\ d.t = c.t /\ d.next = c.next /\ d.made = c.made
      /\ d.was = [tb \in Tables |-> IF tb = table THEN more ELSE c.was[tb]]
  BY <1>1, <1>2
<1>4. d = [t |-> d.t, next |-> d.next, made |-> d.made, was |-> d.was]
  <2>1. DOMAIN c = {"t", "next", "made", "was"}
    BY <1>1
  <2>2. DOMAIN d = DOMAIN c /\ d = [k \in DOMAIN c |-> d[k]]
    BY <1>1, <1>2
  <2>. QED
    BY <2>1, <2>2
<1>5. /\ DOMAIN c.was[table] \subseteq DOMAIN f.t[table]
      /\ DOMAIN c.t[table] \subseteq DOMAIN f.t[table] \cup c.made[table]
      /\ c.made[table] \cap DOMAIN f.t[table] = {}
      /\ \A k \in DOMAIN f.t[table] \ DOMAIN c.was[table] :
           k \in DOMAIN c.t[table] /\ c.t[table][k] = f.t[table][k]
      /\ c.was[table] = [k \in DOMAIN c.was[table] |-> f.t[table][k]]
  <2>1. DOMAIN f.t[table] \subseteq 1..(f.next - 1) /\ f.next \in Nat
    BY DEF Recorded, FilmOK, TablesOK
  <2>2. c.made[table] \subseteq f.next..(c.next - 1)
    BY DEF Recorded
  <2>3. c.made[table] \cap DOMAIN f.t[table] = {}
    BY <2>1, <2>2
  <2>. QED
    BY <2>3 DEF Recorded
<1>6. kept \subseteq DOMAIN f.t[table]
  BY <1>5
<1>7. DOMAIN more = kept \cup DOMAIN c.was[table]
  BY DEF more, PutOver
<1>8. more = [k \in DOMAIN more |-> f.t[table][k]]
  <2>1. ASSUME NEW k \in kept, k \notin DOMAIN c.was[table]
        PROVE  c.t[table][k] = f.t[table][k]
    BY <2>1, <1>5, <1>6
  <2>. QED
    BY <2>1, <1>5, <1>7 DEF more, PutOver
<1>9. d.was = [tb \in Tables |-> [k \in DOMAIN d.was[tb] |-> f.t[tb][k]]]
  <2>1. ASSUME NEW tb \in Tables
        PROVE  d.was[tb] = [k \in DOMAIN d.was[tb] |-> f.t[tb][k]]
    <3>1. CASE tb = table
      BY <3>1, <1>3, <1>8
    <3>2. CASE tb # table
      <4>1. d.was[tb] = c.was[tb]
        BY <3>2, <1>3
      <4>2. c.was[tb] = [k \in DOMAIN c.was[tb] |-> f.t[tb][k]]
        BY DEF Recorded
      <4>. QED
        BY <4>1, <4>2
    <3>. QED
      BY <3>1, <3>2
  <2>2. d.was = [tb \in Tables |-> d.was[tb]]
    BY <1>3
  <2>. QED
    BY <2>1, <2>2
<1>10. ASSUME NEW tb \in Tables
       PROVE  /\ DOMAIN d.was[tb] \subseteq DOMAIN f.t[tb]
              /\ \A k \in DOMAIN f.t[tb] \ DOMAIN d.was[tb] :
                   k \in DOMAIN d.t[tb] /\ d.t[tb][k] = f.t[tb][k]
  <2>1. CASE tb = table
    BY <2>1, <1>3, <1>5, <1>6, <1>7
  <2>2. CASE tb # table
    BY <2>2, <1>3 DEF Recorded
  <2>. QED
    BY <2>1, <2>2
<1>11. Recorded(f, d)
  BY <1>3, <1>4, <1>9, <1>10 DEF Recorded
<1>12. \A k \in ids \cap DOMAIN f.t[table] :
         k \in DOMAIN d.was[table] \/ k \notin DOMAIN c.t[table]
  BY <1>3, <1>5, <1>7
<1>. QED
  BY <1>3, <1>11, <1>12 DEF d

LEMMA RecordedAlter ==
  ASSUME NEW f, NEW c, Recorded(f, c), NEW table \in Tables,
         NEW rows, rows = [k \in DOMAIN rows |-> rows[k]],
         DOMAIN rows \subseteq DOMAIN c.t[table],
         \A k \in DOMAIN rows : RowOK(table, rows[k], c.next),
         \A k \in DOMAIN c.t[table] :
           \/ k \in DOMAIN c.was[table] \/ k \notin DOMAIN f.t[table]
           \/ k \in DOMAIN rows /\ rows[k] = c.t[table][k]
  PROVE  LET d == [c EXCEPT !.t[table] = rows]
         IN  /\ Recorded(f, d)
             /\ d.t = [tb \in Tables |-> IF tb = table THEN rows ELSE c.t[tb]]
             /\ d.next = c.next /\ d.made = c.made /\ d.was = c.was
<1> DEFINE d == [c EXCEPT !.t[table] = rows]
<1>1. /\ c = [t |-> c.t, next |-> c.next, made |-> c.made, was |-> c.was]
      /\ c.t = [tb \in Tables |-> c.t[tb]]
  BY DEF Recorded, TablesOK
<1>2. /\ d.next = c.next /\ d.made = c.made /\ d.was = c.was
      /\ d.t = [tb \in Tables |-> IF tb = table THEN rows ELSE c.t[tb]]
  BY <1>1
<1>3. d = [t |-> d.t, next |-> d.next, made |-> d.made, was |-> d.was]
  <2>1. DOMAIN c = {"t", "next", "made", "was"}
    BY <1>1
  <2>2. DOMAIN d = DOMAIN c /\ d = [k \in DOMAIN c |-> d[k]]
    BY <1>1
  <2>. QED
    BY <2>1, <2>2
<1>. HIDE DEF d
<1>4. TablesOK(d.t, d.next)
  <2>1. ASSUME NEW tb \in Tables
        PROVE  /\ d.t[tb] = [k \in DOMAIN d.t[tb] |-> d.t[tb][k]]
               /\ DOMAIN d.t[tb] \subseteq 1..(d.next - 1)
               /\ \A k \in DOMAIN d.t[tb] : RowOK(tb, d.t[tb][k], d.next)
    <3>1. /\ c.t[tb] = [k \in DOMAIN c.t[tb] |-> c.t[tb][k]]
          /\ DOMAIN c.t[tb] \subseteq 1..(c.next - 1)
          /\ \A k \in DOMAIN c.t[tb] : RowOK(tb, c.t[tb][k], c.next)
      BY DEF Recorded, TablesOK
    <3>2. CASE tb = table
      <4>1. d.t[tb] = rows
        BY <3>2, <1>2
      <4>. QED
        BY <4>1, <3>1, <3>2, <1>2
    <3>3. CASE tb # table
      <4>1. d.t[tb] = c.t[tb]
        BY <3>3, <1>2
      <4>. QED
        BY <4>1, <3>1, <1>2
    <3>. QED
      BY <3>2, <3>3
  <2>2. d.t = [tb \in Tables |-> d.t[tb]]
    BY <1>2
  <2>. QED
    BY <2>1, <2>2 DEF TablesOK
<1>5. ASSUME NEW tb \in Tables
      PROVE  /\ DOMAIN d.t[tb] \subseteq DOMAIN f.t[tb] \cup d.made[tb]
             /\ \A k \in DOMAIN f.t[tb] \ DOMAIN d.was[tb] :
                  k \in DOMAIN d.t[tb] /\ d.t[tb][k] = f.t[tb][k]
  <2>1. /\ DOMAIN c.t[tb] \subseteq DOMAIN f.t[tb] \cup c.made[tb]
        /\ \A k \in DOMAIN f.t[tb] \ DOMAIN c.was[tb] :
             k \in DOMAIN c.t[tb] /\ c.t[tb][k] = f.t[tb][k]
    BY DEF Recorded
  <2>2. CASE tb = table
    <3>1. d.t[tb] = rows
      BY <2>2, <1>2
    <3>. QED
      BY <3>1, <2>1, <2>2, <1>2
  <2>3. CASE tb # table
    <3>1. d.t[tb] = c.t[tb]
      BY <2>3, <1>2
    <3>. QED
      BY <3>1, <2>1, <1>2
  <2>. QED
    BY <2>2, <2>3
<1>6. Recorded(f, d)
  BY <1>2, <1>3, <1>4, <1>5 DEF Recorded
<1>. QED
  BY <1>2, <1>6 DEF d

LEMMA RecordedUpdate ==
  ASSUME NEW f, NEW c, Recorded(f, c), NEW table \in Tables, NEW rows,
         \A k \in DOMAIN rows \cap DOMAIN c.t[table] : RowOK(table, rows[k], c.next)
  PROVE  LET d == Update(c, table, rows)
         IN  /\ Recorded(f, d)
             /\ d.t = [tb \in Tables |->
                         IF tb = table
                         THEN [k \in DOMAIN c.t[table] |->
                                 IF k \in DOMAIN rows THEN rows[k] ELSE c.t[table][k]]
                         ELSE c.t[tb]]
             /\ d.next = c.next /\ d.made = c.made
             /\ \A tb \in Tables : tb # table => d.was[tb] = c.was[tb]
<1> DEFINE s == Snapshot(c, table, DOMAIN rows)
           new == [k \in DOMAIN c.t[table] |->
                     IF k \in DOMAIN rows THEN rows[k] ELSE c.t[table][k]]
           d == [s EXCEPT !.t[table] = new]
<1>1. /\ Recorded(f, s)
      /\ s.t = c.t /\ s.next = c.next /\ s.made = c.made
      /\ \A tb \in Tables : tb # table => s.was[tb] = c.was[tb]
      /\ \A k \in DOMAIN rows \cap DOMAIN f.t[table] :
           k \in DOMAIN s.was[table] \/ k \notin DOMAIN c.t[table]
  BY RecordedSnapshot
<1>2. s = [t |-> s.t, next |-> s.next, made |-> s.made, was |-> s.was]
      /\ s.t = [tb \in Tables |-> s.t[tb]]
  BY <1>1 DEF Recorded, TablesOK
<1>3. Update(c, table, rows) = d
  BY <1>1, <1>2 DEF Update
<1>4. \A k \in DOMAIN new : RowOK(table, new[k], s.next)
  BY <1>1 DEF Recorded, TablesOK
<1>. HIDE DEF s
<1>5. \A k \in DOMAIN s.t[table] :
        \/ k \in DOMAIN s.was[table] \/ k \notin DOMAIN f.t[table]
        \/ k \in DOMAIN new /\ new[k] = s.t[table][k]
  BY <1>1
<1>6. new = [k \in DOMAIN new |-> new[k]] /\ DOMAIN new \subseteq DOMAIN s.t[table]
  BY <1>1
<1>. HIDE DEF new
<1>7. /\ Recorded(f, d)
      /\ d.t = [tb \in Tables |-> IF tb = table THEN new ELSE s.t[tb]]
      /\ d.next = s.next /\ d.made = s.made /\ d.was = s.was
  BY <1>1, <1>4, <1>5, <1>6, RecordedAlter
<1>8. d.t = [tb \in Tables |->
               IF tb = table
               THEN [k \in DOMAIN c.t[table] |->
                       IF k \in DOMAIN rows THEN rows[k] ELSE c.t[table][k]]
               ELSE c.t[tb]]
  BY <1>1, <1>7 DEF new
<1>. QED
  BY <1>1, <1>3, <1>7, <1>8

LEMMA RecordedDelete ==
  ASSUME NEW f, NEW c, Recorded(f, c), NEW table \in Tables, NEW ids
  PROVE  LET d == Delete(c, table, ids)
         IN  /\ Recorded(f, d)
             /\ d.t = [tb \in Tables |-> IF tb = table THEN Without(c.t[table], ids)
                                         ELSE c.t[tb]]
             /\ d.next = c.next /\ d.made = c.made
             /\ \A tb \in Tables : tb # table => d.was[tb] = c.was[tb]
<1> DEFINE s == Snapshot(c, table, ids)
           new == Without(c.t[table], ids)
           d == [s EXCEPT !.t[table] = new]
<1>1. /\ Recorded(f, s)
      /\ s.t = c.t /\ s.next = c.next /\ s.made = c.made
      /\ \A tb \in Tables : tb # table => s.was[tb] = c.was[tb]
      /\ \A k \in ids \cap DOMAIN f.t[table] :
           k \in DOMAIN s.was[table] \/ k \notin DOMAIN c.t[table]
  BY RecordedSnapshot
<1>2. s = [t |-> s.t, next |-> s.next, made |-> s.made, was |-> s.was]
      /\ s.t = [tb \in Tables |-> s.t[tb]]
  BY <1>1 DEF Recorded, TablesOK
<1>3. Delete(c, table, ids) = d
  BY <1>1, <1>2 DEF Delete
<1>4. /\ DOMAIN new = DOMAIN c.t[table] \ ids
      /\ \A k \in DOMAIN new : new[k] = c.t[table][k]
      /\ new = [k \in DOMAIN new |-> new[k]]
  BY DEF Without
<1>5. \A k \in DOMAIN new : RowOK(table, new[k], s.next)
  <2>1. \A k \in DOMAIN c.t[table] : RowOK(table, c.t[table][k], c.next)
    BY DEF Recorded, TablesOK
  <2>. HIDE DEF s, new
  <2>. QED
    BY <1>1, <1>4, <2>1
<1>. HIDE DEF s, new
<1>6. \A k \in DOMAIN s.t[table] :
        \/ k \in DOMAIN s.was[table] \/ k \notin DOMAIN f.t[table]
        \/ k \in DOMAIN new /\ new[k] = s.t[table][k]
  BY <1>1, <1>4
<1>7. /\ Recorded(f, d)
      /\ d.t = [tb \in Tables |-> IF tb = table THEN new ELSE s.t[tb]]
      /\ d.next = s.next /\ d.made = s.made /\ d.was = s.was
  <2>1. DOMAIN new \subseteq DOMAIN s.t[table]
    BY <1>1, <1>4
  <2>. QED
    BY <1>1, <1>4, <1>5, <1>6, <2>1, RecordedAlter
<1>. QED
  BY <1>1, <1>3, <1>7 DEF new

\* Undoing a change gives back what it began from.
LEMMA RecordedUndo ==
  ASSUME NEW f, NEW c, Recorded(f, c)
  PROVE  ApplyUndoChange(c.t, c) = f.t
<1>1. ASSUME NEW table \in Tables
      PROVE  PutOver(Without(c.t[table], c.made[table]), c.was[table]) = f.t[table]
  <2>1. /\ DOMAIN c.was[table] \subseteq DOMAIN f.t[table]
        /\ DOMAIN c.t[table] \subseteq DOMAIN f.t[table] \cup c.made[table]
        /\ \A k \in DOMAIN f.t[table] \ DOMAIN c.was[table] :
             k \in DOMAIN c.t[table] /\ c.t[table][k] = f.t[table][k]
        /\ c.was[table] = [k \in DOMAIN c.was[table] |-> f.t[table][k]]
        /\ c.made[table] \subseteq f.next..(c.next - 1)
    BY DEF Recorded
  <2>2. /\ DOMAIN f.t[table] \subseteq 1..(f.next - 1) /\ f.next \in Nat
        /\ f.t[table] = [k \in DOMAIN f.t[table] |-> f.t[table][k]]
    BY DEF Recorded, FilmOK, TablesOK
  <2>3. c.made[table] \cap DOMAIN f.t[table] = {}
    BY <2>1, <2>2
  <2> DEFINE back == PutOver(Without(c.t[table], c.made[table]), c.was[table])
  <2>4. DOMAIN back = DOMAIN f.t[table]
    BY <2>1, <2>3 DEF PutOver, Without
  <2>5. \A k \in DOMAIN back : back[k] = f.t[table][k]
    BY <2>1, <2>3 DEF PutOver, Without
  <2>6. back = [k \in DOMAIN back |-> back[k]]
    BY DEF PutOver
  <2>. HIDE DEF back
  <2>. QED
    BY <2>2, <2>4, <2>5, <2>6 DEF back
<1>2. f.t = [table \in Tables |-> f.t[table]]
  BY DEF Recorded, FilmOK, TablesOK
<1>. QED
  BY <1>1, <1>2 DEF ApplyUndoChange

-----------------------------------------------------------------------------
(* Places under an order                                                    *)

StrictOrder(R, S) ==
  /\ \A a \in S : <<a, a>> \notin R
  /\ \A a, b, d \in S : <<a, b>> \in R /\ <<b, d>> \in R => <<a, d>> \in R
  /\ \A a, b \in S : a # b => <<a, b>> \in R \/ <<b, a>> \in R

LEMMA PlaceType ==
  ASSUME NEW R, NEW S, IsFiniteSet(S), NEW k \in S
  PROVE  Place(R, S, k) \in Nat \ {0}
<1> DEFINE before == {d \in S : <<d, k>> \in R}
<1>1. Cardinality(before) \in Nat
  <2>1. before \subseteq S
    OBVIOUS
  <2>. HIDE DEF before
  <2>. QED
    BY <2>1, FS_Subset, FS_CardinalityType
<1>. QED
  BY <1>1 DEF Place

LEMMA PlaceBound ==
  ASSUME NEW R, NEW S, IsFiniteSet(S), StrictOrder(R, S), NEW k \in S
  PROVE  Place(R, S, k) \in 1..Cardinality(S)
<1> DEFINE before == {d \in S : <<d, k>> \in R}
<1>1. before \subseteq S \ {k}
  BY DEF StrictOrder
<1>. HIDE DEF before
<1>2. /\ IsFiniteSet(S \ {k}) /\ Cardinality(S \ {k}) = Cardinality(S) - 1
      /\ Cardinality(S) \in Nat
  BY FS_RemoveElement, FS_CardinalityType
<1>3. IsFiniteSet(before) /\ Cardinality(before) <= Cardinality(S \ {k})
  BY <1>1, <1>2, FS_Subset
<1>4. Cardinality(before) \in Nat
  BY <1>3, FS_CardinalityType
<1>. QED
  BY <1>2, <1>3, <1>4 DEF Place, before

\* What comes next has the next place.
LEMMA PlaceNext ==
  ASSUME NEW R, NEW S, IsFiniteSet(S), StrictOrder(R, S), NEW a \in S, NEW b \in S,
         <<a, b>> \in R,
         \A d \in S : <<d, b>> \in R => d = a \/ <<d, a>> \in R
  PROVE  Place(R, S, b) = Place(R, S, a) + 1
<1> DEFINE before(k) == {d \in S : <<d, k>> \in R}
           A == before(a)
           B == before(b)
<1>1. B = A \cup {a} /\ a \notin A /\ A \subseteq S
  BY DEF StrictOrder
<1>. HIDE DEF A, B
<1>2. IsFiniteSet(A) /\ Cardinality(A) \in Nat
  BY <1>1, FS_Subset, FS_CardinalityType
<1>3. Cardinality(B) = Cardinality(A) + 1
  BY <1>1, <1>2, FS_AddElement
<1>. QED
  BY <1>2, <1>3 DEF Place, A, B

LEMMA PlaceLess ==
  ASSUME NEW R, NEW S, IsFiniteSet(S), StrictOrder(R, S), NEW a \in S, NEW b \in S,
         <<a, b>> \in R
  PROVE  Place(R, S, a) < Place(R, S, b)
<1> DEFINE before(k) == {d \in S : <<d, k>> \in R}
           A == before(a)
           B == before(b)
<1>1. A \cup {a} \subseteq B /\ a \notin A /\ A \subseteq S /\ B \subseteq S
  BY DEF StrictOrder
<1>. HIDE DEF A, B
<1>2. /\ IsFiniteSet(A) /\ Cardinality(A) \in Nat
      /\ IsFiniteSet(B) /\ Cardinality(B) \in Nat
  BY <1>1, FS_Subset, FS_CardinalityType
<1>3. IsFiniteSet(A \cup {a}) /\ Cardinality(A \cup {a}) = Cardinality(A) + 1
  BY <1>1, <1>2, FS_AddElement
<1>4. Cardinality(A \cup {a}) <= Cardinality(B)
  BY <1>1, <1>2, FS_Subset
<1>. QED
  BY <1>2, <1>3, <1>4 DEF Place, A, B

\* The places are in the order, and no two are one.
LEMMA PlaceOrder ==
  ASSUME NEW R, NEW S, IsFiniteSet(S), StrictOrder(R, S), NEW a \in S, NEW b \in S
  PROVE  /\ Place(R, S, a) < Place(R, S, b) <=> <<a, b>> \in R
         /\ Place(R, S, a) = Place(R, S, b) => a = b
<1>1. Place(R, S, a) \in Nat /\ Place(R, S, b) \in Nat
  BY PlaceType
<1>2. <<a, b>> \in R => Place(R, S, a) < Place(R, S, b)
  BY PlaceLess
<1>3. <<b, a>> \in R => Place(R, S, b) < Place(R, S, a)
  BY PlaceLess
<1>4. a # b => <<a, b>> \in R \/ <<b, a>> \in R
  BY DEF StrictOrder
<1>5. a = b => <<a, b>> \notin R
  BY DEF StrictOrder
<1>. QED
  BY <1>1, <1>2, <1>3, <1>4, <1>5

\* Listed by place, everything is there.
LEMMA ListedPlace ==
  ASSUME NEW R, NEW S, IsFiniteSet(S), StrictOrder(R, S), NEW k \in S
  PROVE  /\ Place(R, S, k) \in DOMAIN Listed(R, S)
         /\ Listed(R, S)[Place(R, S, k)] = k
<1>1. Place(R, S, k) \in 1..Cardinality(S)
  BY PlaceBound
<1>2. \A d \in S : Place(R, S, d) = Place(R, S, k) => d = k
  BY PlaceOrder
<1>3. (CHOOSE d \in S : Place(R, S, d) = Place(R, S, k)) = k
  BY <1>2
<1>. QED
  BY <1>1, <1>3 DEF Listed

-----------------------------------------------------------------------------
(* Attaching                                                                *)

LEMMA FilesCount ==
  ASSUME NEW assets, Listing(assets), NEW there
  PROVE  Len(FilesToAdd(assets, there)) \in Nat
<1> DEFINE first == {i \in DOMAIN assets : /\ assets[i] \notin there
                                           /\ \A j \in 1..(i - 1) : assets[j] # assets[i]}
           list  == Listed({p \in first \X first : p[1] < p[2]}, first)
           add   == [i \in DOMAIN list |-> assets[list[i]]]
           n     == Cardinality(first)
<1>1. first \subseteq 1..Len(assets) /\ Len(assets) \in Nat
  BY DEF Listing
<1>2. n \in Nat
  <2>1. first \in SUBSET Nat /\ \A k \in first : k <= Len(assets)
    BY <1>1
  <2>. HIDE DEF first
  <2>. QED
    BY <1>1, <2>1, Finite
<1>. HIDE DEF first
<1>3. DOMAIN list = 1..n
  BY DEF Listed
<1>. HIDE DEF list, n
<1>4. add = [i \in 1..n |-> add[i]]
  BY <1>3
<1>. HIDE DEF add
<1>5. add \in Seq({add[i] : i \in 1..n})
  <2>1. add \in [1..n -> {add[i] : i \in 1..n}]
    BY <1>4
  <2>. QED
    BY <1>2, <2>1, SeqDef
<1>6. Len(add) = n
  BY <1>2, <1>4, <1>5, LenProperties
<1>. QED
  BY <1>2, <1>6 DEF add, list, first, FilesToAdd

LEMMA RecordedAddAnchors ==
  ASSUME NEW f, NEW c, Recorded(f, c), NEW owner, NEW assets, Listing(assets)
  PROVE  LET d == AddAnchors(c, owner, assets)
         IN  /\ Recorded(f, d)
             /\ Leaves(c, d, {"anchor"})
<1> DEFINE there == {c.t.anchor[a].asset :
                       a \in {d \in DOMAIN c.t.anchor : c.t.anchor[d].owner = owner}}
           add   == FilesToAdd(assets, there)
           rows  == [k \in NewIds(c, Len(add)) |->
                       [owner |-> owner, asset |-> add[k - c.next + 1],
                        status |-> "verified"]]
<1>1. Len(add) \in Nat
  BY FilesCount
<1>2. AddAnchors(c, owner, assets) = Insert(c, "anchor", rows)
  BY DEF AddAnchors
<1>3. DOMAIN rows = NewIds(c, Len(add))
      /\ \A k \in DOMAIN rows : RowOK("anchor", rows[k], c.next + Len(add))
  BY DEF RowOK
<1>4. "anchor" \in Tables
  BY DEF Tables
<1>. HIDE DEF rows, add
<1>5. Recorded(f, Insert(c, "anchor", rows))
  BY <1>1, <1>3, <1>4, RecordedInsert
<1> DEFINE d == Insert(c, "anchor", rows)
<1>6. /\ d.t = [tb \in Tables |-> IF tb = "anchor" THEN PutOver(c.t[tb], rows)
                                  ELSE c.t[tb]]
      /\ d.made = [tb \in Tables |-> IF tb = "anchor"
                                     THEN c.made[tb] \cup NewIds(c, Len(add))
                                     ELSE c.made[tb]]
      /\ d.was = c.was
  BY <1>1, <1>3, <1>4, InsertFields
<1>. HIDE DEF d
<1>7. Leaves(c, d, {"anchor"})
  BY <1>6 DEF Leaves
<1>. QED
  BY <1>2, <1>5, <1>7 DEF d

\* The highest order, and the place after it, are numbers.
LEMMA TopOrderType ==
  ASSUME NEW t, NEW n \in Nat, TablesOK(t, n), NEW owner
  PROVE  TopOrder(t, owner) \in Nat
<1> DEFINE ids == RelatedOf(t, owner)
           S == {t.related[r].order : r \in ids} \cup {Cardinality(ids)}
<1>1. ids \subseteq 1..(n - 1) /\ \A r \in ids : t.related[r].order \in Nat
  BY DEF RelatedOf, TablesOK, RowOK, Tables
<1>2. IsFiniteSet(ids) /\ Cardinality(ids) \in Nat
  <2>1. ids \in SUBSET Nat /\ \A k \in ids : k <= n
    BY <1>1
  <2>. HIDE DEF ids
  <2>. QED
    BY <2>1, Finite
<1>. HIDE DEF ids
<1>3. IsFiniteSet({t.related[r].order : r \in ids})
  <2> DEFINE g == [r \in ids |-> t.related[r].order]
  <2>1. IsFiniteSet({g[r] : r \in ids})
    <3>. HIDE DEF g
    <3>. QED
      BY <1>2, ImageFinite
  <2>2. {g[r] : r \in ids} = {t.related[r].order : r \in ids}
    OBVIOUS
  <2>. QED
    BY <2>1, <2>2
<1>4. S \in SUBSET Nat
  BY <1>1, <1>2
<1>5. IsFiniteSet(S)
  BY <1>3, FS_AddElement
<1>. HIDE DEF S
<1>6. Greatest(S) \in Nat
  BY <1>4, <1>5, FiniteGreatest
<1>. QED
  BY <1>6 DEF TopOrder, S, ids

LEMMA RecordedAddRelated ==
  ASSUME NEW f, NEW c, Recorded(f, c), NEW owner, NEW assets, Listing(assets), NEW type
  PROVE  LET d == AddRelated(c, owner, assets, type)
         IN  /\ Recorded(f, d)
             /\ Leaves(c, d, {"related"})
<1> DEFINE there == {c.t.related[r].asset :
                       r \in {d \in RelatedOf(c.t, owner) : c.t.related[d].type = type}}
           add   == FilesToAdd(assets, there)
           rows  == [k \in NewIds(c, Len(add)) |->
                       [owner |-> owner, asset |-> add[k - c.next + 1], type |-> type,
                        order |-> TopOrder(c.t, owner) + k - c.next + 1]]
<1>1. Len(add) \in Nat
  BY FilesCount
<1>2. AddRelated(c, owner, assets, type) = Insert(c, "related", rows)
  BY DEF AddRelated
<1>3. TopOrder(c.t, owner) \in Nat /\ c.next \in Nat
  BY TopOrderType DEF Recorded
<1>4. DOMAIN rows = NewIds(c, Len(add))
  OBVIOUS
<1>5. \A k \in DOMAIN rows : RowOK("related", rows[k], c.next + Len(add))
  <2>1. ASSUME NEW k \in DOMAIN rows PROVE TopOrder(c.t, owner) + k - c.next + 1 \in Nat
    BY <1>1, <1>3 DEF NewIds
  <2>. QED
    BY <2>1 DEF RowOK
<1>6. "related" \in Tables
  BY DEF Tables
<1>. HIDE DEF rows, add
<1>7. Recorded(f, Insert(c, "related", rows))
  BY <1>1, <1>4, <1>5, <1>6, RecordedInsert
<1> DEFINE d == Insert(c, "related", rows)
<1>8. /\ d.t = [tb \in Tables |-> IF tb = "related" THEN PutOver(c.t[tb], rows)
                                  ELSE c.t[tb]]
      /\ d.made = [tb \in Tables |-> IF tb = "related"
                                     THEN c.made[tb] \cup NewIds(c, Len(add))
                                     ELSE c.made[tb]]
      /\ d.was = c.was
  BY <1>1, <1>4, <1>6, InsertFields
<1>. HIDE DEF d
<1>9. Leaves(c, d, {"related"})
  BY <1>8 DEF Leaves
<1>. QED
  BY <1>2, <1>7, <1>9 DEF d

LEMMA TopMemberType ==
  ASSUME NEW t, NEW n \in Nat, TablesOK(t, n), NEW bundle
  PROVE  Greatest({t.member[m].order : m \in MembersOf(t, bundle)}) \in Nat
<1> DEFINE ids == MembersOf(t, bundle)
           S == {t.member[r].order : r \in ids}
<1>1. ids \subseteq 1..(n - 1) /\ \A r \in ids : t.member[r].order \in Nat
  BY DEF MembersOf, TablesOK, RowOK, Tables
<1>2. IsFiniteSet(ids)
  <2>1. ids \in SUBSET Nat /\ \A k \in ids : k <= n
    BY <1>1
  <2>. HIDE DEF ids
  <2>. QED
    BY <2>1, Finite
<1>. HIDE DEF ids
<1>3. IsFiniteSet(S)
  <2> DEFINE g == [r \in ids |-> t.member[r].order]
  <2>1. IsFiniteSet({g[r] : r \in ids})
    <3>. HIDE DEF g
    <3>. QED
      BY <1>2, ImageFinite
  <2>2. {g[r] : r \in ids} = S
    OBVIOUS
  <2>. QED
    BY <2>1, <2>2
<1>4. S \in SUBSET Nat
  BY <1>1
<1>. HIDE DEF S
<1>5. Greatest(S) \in Nat
  BY <1>3, <1>4, FiniteGreatest
<1>. QED
  BY <1>5 DEF S, ids

\* What a member is made of.
LEMMA MemberRowOK ==
  ASSUME NEW row, NEW next,
         row = [bundle |-> row.bundle, asset |-> row.asset, order |-> row.order],
         row.bundle \in 1..(next - 1), row.order \in Nat
  PROVE  RowOK("member", row, next)
BY DEF RowOK

\* New members leave those of every bundle as they are.
LEMMA RecordedNewMembers ==
  ASSUME NEW f, NEW c, Recorded(f, c), NEW bundle \in 1..(c.next - 1), NEW assets,
         Len(assets) \in Nat
  PROVE  LET d == NewMembers(c, bundle, assets)
         IN  /\ Recorded(f, d)
             /\ Leaves(c, d, {"member"})
             /\ d.next = c.next + Len(assets)
             /\ DOMAIN d.t.member = DOMAIN c.t.member \cup NewIds(c, Len(assets))
             /\ \A k \in DOMAIN c.t.member : d.t.member[k] = c.t.member[k]
             /\ \A k \in NewIds(c, Len(assets)) :
                  /\ k \notin DOMAIN c.t.member
                  /\ d.t.member[k].bundle = bundle
                  /\ d.t.member[k].asset = assets[k - c.next + 1]
<1> DEFINE top  == Greatest({c.t.member[m].order : m \in MembersOf(c.t, bundle)})
           rows == [k \in NewIds(c, Len(assets)) |->
                      [bundle |-> bundle, asset |-> assets[k - c.next + 1],
                       order |-> top + k - c.next + 1]]
           d == Insert(c, "member", rows)
<1>1. d = NewMembers(c, bundle, assets)
  BY DEF NewMembers
<1>2. top \in Nat /\ c.next \in Nat \ {0}
  <2>1. c.next \in Nat \ {0} /\ c.next \in Nat /\ TablesOK(c.t, c.next)
    BY DEF Recorded
  <2>2. top \in Nat
    BY <2>1, TopMemberType
  <2>. QED
    BY <2>1, <2>2
<1>. HIDE DEF top
<1>3. DOMAIN rows = NewIds(c, Len(assets))
  OBVIOUS
<1>4. ASSUME NEW k \in DOMAIN rows
      PROVE  RowOK("member", rows[k], c.next + Len(assets))
  <2>1. rows[k] = [bundle |-> bundle, asset |-> assets[k - c.next + 1],
                   order |-> top + k - c.next + 1]
    OBVIOUS
  <2>2. k \in c.next..(c.next + Len(assets) - 1)
    BY <1>3 DEF NewIds
  <2>. DEFINE place == top + k - c.next + 1
              next  == c.next + Len(assets)
              row   == rows[k]
  <2>3. place \in Nat
    BY <1>2, <2>2
  <2>4. bundle \in 1..(next - 1)
    BY <1>2
  <2>. HIDE DEF rows, place, next
  <2>5. /\ row = [bundle |-> row.bundle, asset |-> row.asset, order |-> row.order]
        /\ row.bundle = bundle /\ row.order = place
    BY <2>1 DEF place
  <2>. HIDE DEF row
  <2>6. RowOK("member", row, next)
    BY <2>3, <2>4, <2>5, MemberRowOK
  <2>. QED
    BY <2>6 DEF row, next
<1>5. "member" \in Tables
  BY DEF Tables
<1>6. \A k \in NewIds(c, Len(assets)) :
        rows[k].bundle = bundle /\ rows[k].asset = assets[k - c.next + 1]
  OBVIOUS
<1>. HIDE DEF rows
<1>7. Recorded(f, d)
  BY <1>3, <1>4, <1>5, RecordedInsert
<1>8. /\ d.t = [tb \in Tables |-> IF tb = "member" THEN PutOver(c.t[tb], rows)
                                  ELSE c.t[tb]]
      /\ d.next = c.next + Len(assets)
      /\ d.made = [tb \in Tables |-> IF tb = "member"
                                     THEN c.made[tb] \cup NewIds(c, Len(assets))
                                     ELSE c.made[tb]]
      /\ d.was = c.was
  BY <1>3, <1>5, InsertFields
<1>9. \A k \in NewIds(c, Len(assets)) : k \notin DOMAIN c.t.member
  BY <1>2, <1>5 DEF Recorded, TablesOK, NewIds
<1>. HIDE DEF d
<1>10. d.t.member = PutOver(c.t.member, rows)
  BY <1>5, <1>8
<1>11. /\ DOMAIN d.t.member = DOMAIN c.t.member \cup NewIds(c, Len(assets))
       /\ \A k \in DOMAIN c.t.member : d.t.member[k] = c.t.member[k]
       /\ \A k \in NewIds(c, Len(assets)) : d.t.member[k] = rows[k]
  BY <1>3, <1>9, <1>10 DEF PutOver
<1>12. Leaves(c, d, {"member"})
  BY <1>8 DEF Leaves
<1>. QED
  BY <1>1, <1>6, <1>7, <1>8, <1>9, <1>11, <1>12

LEMMA RecordedAddMembers ==
  ASSUME NEW f, NEW c, Recorded(f, c), NEW bundle \in 1..(c.next - 1),
         NEW assets, Listing(assets)
  PROVE  LET d == AddMembers(c, bundle, assets)
         IN  /\ Recorded(f, d)
             /\ Leaves(c, d, {"member"})
             /\ GrownBy(c.t, d.t, bundle)
<1> DEFINE there == {c.t.member[m].asset : m \in MembersOf(c.t, bundle)}
           add == FilesToAdd(assets, there)
           d == NewMembers(c, bundle, add)
<1>1. Len(add) \in Nat
  BY FilesCount
<1>2. AddMembers(c, bundle, assets) = d
  BY DEF AddMembers
<1>. HIDE DEF add
<1>3. /\ Recorded(f, d) /\ Leaves(c, d, {"member"})
      /\ DOMAIN d.t.member = DOMAIN c.t.member \cup NewIds(c, Len(add))
      /\ \A k \in DOMAIN c.t.member : d.t.member[k] = c.t.member[k]
      /\ \A k \in NewIds(c, Len(add)) : d.t.member[k].bundle = bundle
  BY <1>1, RecordedNewMembers
<1>. HIDE DEF d
<1>. QED
  BY <1>2, <1>3 DEF GrownBy

\* The change d is c with one row more, or with one row in another's place.
RowAdded(c, d, table, row) ==
  /\ Leaves(c, d, {table})
  /\ d.next = c.next + 1
  /\ DOMAIN d.t[table] = DOMAIN c.t[table] \cup {c.next}
  /\ \A k \in DOMAIN c.t[table] : d.t[table][k] = c.t[table][k]
  /\ d.t[table][c.next] = row
  /\ c.next \notin DOMAIN c.t[table]

RowChanged(c, d, table, id, row) ==
  /\ Leaves(c, d, {table})
  /\ d.next = c.next
  /\ DOMAIN d.t[table] = DOMAIN c.t[table]
  /\ d.t[table][id] = row
  /\ \A k \in DOMAIN c.t[table] \ {id} : d.t[table][k] = c.t[table][k]

LEMMA RecordedInsertRow ==
  ASSUME NEW f, NEW c, Recorded(f, c), NEW table \in Tables, NEW row,
         RowOK(table, row, c.next + 1)
  PROVE  /\ Recorded(f, InsertRow(c, table, row))
         /\ RowAdded(c, InsertRow(c, table, row), table, row)
<1> DEFINE rows == [k \in {c.next} |-> row]
           d == Insert(c, table, rows)
<1>1. c.next \in Nat \ {0}
  BY DEF Recorded
<1>2. DOMAIN rows = NewIds(c, 1) /\ NewIds(c, 1) = {c.next}
  BY <1>1 DEF NewIds
<1>3. d = InsertRow(c, table, row)
  BY DEF InsertRow
<1>4. \A k \in DOMAIN rows : RowOK(table, rows[k], c.next + 1)
  OBVIOUS
<1>5. DOMAIN rows = {c.next} /\ rows[c.next] = row
  OBVIOUS
<1>. HIDE DEF rows
<1>6. Recorded(f, d)
  BY <1>2, <1>4, RecordedInsert
<1>7. /\ d.t = [tb \in Tables |-> IF tb = table THEN PutOver(c.t[tb], rows)
                                  ELSE c.t[tb]]
      /\ d.next = c.next + 1
      /\ d.made = [tb \in Tables |-> IF tb = table THEN c.made[tb] \cup NewIds(c, 1)
                                     ELSE c.made[tb]]
      /\ d.was = c.was
  BY <1>2, InsertFields
<1>8. c.next \notin DOMAIN c.t[table]
  BY <1>1 DEF Recorded, TablesOK
<1>. HIDE DEF d
<1>9. Leaves(c, d, {table})
  BY <1>7 DEF Leaves
<1>10. d.t[table] = PutOver(c.t[table], rows)
  BY <1>7
<1>11. RowAdded(c, d, table, row)
  BY <1>5, <1>7, <1>8, <1>9, <1>10 DEF PutOver, RowAdded
<1>. QED
  BY <1>3, <1>6, <1>11

LEMMA RecordedUpdateRow ==
  ASSUME NEW f, NEW c, Recorded(f, c), NEW table \in Tables,
         NEW id \in DOMAIN c.t[table], NEW row, RowOK(table, row, c.next)
  PROVE  /\ Recorded(f, UpdateRow(c, table, id, row))
         /\ RowChanged(c, UpdateRow(c, table, id, row), table, id, row)
<1> DEFINE rows == [k \in {id} |-> row]
           d == Update(c, table, rows)
           new == [k \in DOMAIN c.t[table] |->
                     IF k \in DOMAIN rows THEN rows[k] ELSE c.t[table][k]]
<1>1. d = UpdateRow(c, table, id, row)
  BY DEF UpdateRow
<1>2. DOMAIN rows = {id} /\ rows[id] = row
  OBVIOUS
<1>. HIDE DEF rows
<1>3. \A k \in DOMAIN rows \cap DOMAIN c.t[table] : RowOK(table, rows[k], c.next)
  BY <1>2
<1>4. /\ Recorded(f, d)
      /\ d.t = [tb \in Tables |-> IF tb = table THEN new ELSE c.t[tb]]
      /\ d.next = c.next /\ d.made = c.made
      /\ \A tb \in Tables : tb # table => d.was[tb] = c.was[tb]
  BY <1>3, RecordedUpdate
<1>. HIDE DEF d
<1>5. Leaves(c, d, {table})
  BY <1>4 DEF Leaves
<1>6. d.t[table] = new
  BY <1>4
<1>7. RowChanged(c, d, table, id, row)
  BY <1>2, <1>4, <1>5, <1>6 DEF RowChanged
<1>. QED
  BY <1>1, <1>4, <1>7

\* A new binding has a new bundle.
BindingAdded(c, d, row) ==
  /\ Leaves(c, d, {"bundle", "binding"})
  /\ d.next = c.next + 2
  /\ DOMAIN d.t.bundle = DOMAIN c.t.bundle \cup {c.next}
  /\ DOMAIN d.t.binding = DOMAIN c.t.binding \cup {c.next + 1}
  /\ c.next + 1 \notin DOMAIN c.t.binding
  /\ \A k \in DOMAIN c.t.binding : d.t.binding[k] = c.t.binding[k]
  /\ d.t.binding[c.next + 1] = row

LEMMA RecordedNewBinding ==
  ASSUME NEW f, NEW c, Recorded(f, c), NEW owner, NEW baseline \in BOOLEAN,
         NEW precedence \in Nat, NEW when, NEW replaces
  PROVE  LET d == NewBinding(c, owner, baseline, precedence, when, replaces)
         IN  /\ Recorded(f, d)
             /\ BindingAdded(c, d,
                  [owner |-> owner, bundle |-> c.next, baseline |-> baseline,
                   precedence |-> precedence, when |-> when, replaces |-> replaces])
<1> DEFINE named == [of |-> owner]
           e == InsertRow(c, "bundle", named)
           row == [owner |-> owner, bundle |-> c.next, baseline |-> baseline,
                   precedence |-> precedence, when |-> when, replaces |-> replaces]
           d == InsertRow(e, "binding", row)
<1>1. "bundle" \in Tables /\ "binding" \in Tables
  BY DEF Tables
<1>2. c.next \in Nat \ {0}
  BY DEF Recorded
<1>3. RowOK("bundle", named, c.next + 1)
  BY DEF RowOK
<1>4. d = NewBinding(c, owner, baseline, precedence, when, replaces)
  BY DEF NewBinding
<1>. HIDE DEF named
<1>5. Recorded(f, e) /\ RowAdded(c, e, "bundle", named)
  BY <1>1, <1>3, RecordedInsertRow
<1>. HIDE DEF e
<1>6. RowOK("binding", row, e.next + 1)
  BY <1>2, <1>5 DEF RowOK, RowAdded
<1>. HIDE DEF row
<1>7. Recorded(f, d) /\ RowAdded(e, d, "binding", row)
  BY <1>1, <1>5, <1>6, RecordedInsertRow
<1>. HIDE DEF d
<1>8. e.t["binding"] = c.t["binding"] /\ d.t["bundle"] = e.t["bundle"]
  BY <1>1, <1>5, <1>7 DEF RowAdded, Leaves
<1>9. Leaves(c, d, {"bundle", "binding"})
  BY <1>5, <1>7 DEF RowAdded, Leaves
<1>10. e.next = c.next + 1 /\ d.next = c.next + 2
  BY <1>2, <1>5, <1>7 DEF RowAdded
<1>11. BindingAdded(c, d, row)
  BY <1>5, <1>7, <1>8, <1>9, <1>10 DEF RowAdded, BindingAdded
<1>. QED
  BY <1>4, <1>7, <1>11 DEF row

LEMMA FirstOrder ==
  ASSUME NEW t, NEW n \in Nat, TablesOK(t, n), NEW bundle
  PROVE  LET ids == MembersOf(t, bundle)
         IN  /\ IsFiniteSet(ids) /\ Cardinality(ids) \in Nat
             /\ StrictOrder(ByOrderNoneFirst(t.member, ids), ids)
<1> DEFINE ids == MembersOf(t, bundle)
<1>1. /\ ids \subseteq DOMAIN t.member /\ DOMAIN t.member \subseteq 1..(n - 1)
      /\ \A k \in ids : t.member[k].order \in Nat
  BY DEF MembersOf, TablesOK, RowOK, Tables
<1>2. ids \in SUBSET Nat /\ \A k \in ids : k <= n
  BY <1>1
<1>. HIDE DEF ids
<1>3. IsFiniteSet(ids) /\ Cardinality(ids) \in Nat
  BY <1>2, Finite
<1>4. StrictOrder(ByOrderNoneFirst(t.member, ids), ids)
  <2> DEFINE R == ByOrderNoneFirst(t.member, ids)
  <2>1. \A a, b \in ids :
          <<a, b>> \in R <=> \/ t.member[a].order < t.member[b].order
                             \/ t.member[a].order = t.member[b].order /\ a < b
    BY DEF ByOrderNoneFirst
  <2>. HIDE DEF R
  <2>. QED
    BY <1>1, <1>2, <2>1 DEF StrictOrder, R
<1>. QED
  BY <1>3, <1>4 DEF ids

\* A binding of the owner's moved to a copy of its bundle.
SplitOff(c, d, b) ==
  /\ Leaves(c, d, {"bundle", "member", "binding"})
  /\ DOMAIN d.t.bundle = DOMAIN c.t.bundle \cup {c.next}
  /\ GrownBy(c.t, d.t, c.next)
  /\ \A m \in MembersOf(c.t, c.t.binding[b].bundle) :
       \E k \in MembersOf(d.t, c.next) : d.t.member[k].asset = c.t.member[m].asset
  /\ DOMAIN d.t.binding = DOMAIN c.t.binding
  /\ d.t.binding[b] = [c.t.binding[b] EXCEPT !.bundle = c.next]
  /\ \A k \in DOMAIN c.t.binding \ {b} : d.t.binding[k] = c.t.binding[k]
  /\ c.next < d.next

LEMMA RecordedSplit ==
  ASSUME NEW f, NEW c, Recorded(f, c), NEW owner, NEW b \in DOMAIN c.t.binding
  PROVE  /\ Recorded(f, Split(c, owner, b))
         /\ SplitOff(c, Split(c, owner, b), b)
<1> DEFINE named == [of |-> owner]
           e     == InsertRow(c, "bundle", named)
           from  == c.t.binding[b].bundle
           ids   == MembersOf(e.t, from)
           R     == ByOrderNoneFirst(e.t.member, ids)
           list  == Listed(R, ids)
           files == [i \in DOMAIN list |-> e.t.member[list[i]].asset]
           g     == NewMembers(e, c.next, files)
           row   == [c.t.binding[b] EXCEPT !.bundle = c.next]
           d     == UpdateRow(g, "binding", b, row)
<1>1. {"bundle", "binding", "member"} \subseteq Tables
  BY DEF Tables
<1>2. c.next \in Nat \ {0} /\ TablesOK(c.t, c.next)
  BY DEF Recorded
<1>3. d = Split(c, owner, b)
  BY DEF Split, CopyMembers
<1>4. RowOK("bundle", named, c.next + 1)
  BY DEF RowOK
<1>. HIDE DEF named
<1>5. Recorded(f, e) /\ RowAdded(c, e, "bundle", named)
  BY <1>1, <1>4, RecordedInsertRow
<1>. HIDE DEF e
<1>6. /\ e.next = c.next + 1 /\ e.next \in Nat /\ TablesOK(e.t, e.next)
      /\ e.t["member"] = c.t["member"] /\ e.t["binding"] = c.t["binding"]
      /\ DOMAIN e.t["bundle"] = DOMAIN c.t["bundle"] \cup {c.next}
  BY <1>1, <1>2, <1>5 DEF RowAdded, Leaves, Recorded
<1>7. /\ IsFiniteSet(ids) /\ Cardinality(ids) \in Nat
      /\ StrictOrder(R, ids)
  BY <1>6, FirstOrder
<1>8. ids = MembersOf(c.t, from)
  BY <1>6 DEF MembersOf
<1>. HIDE DEF ids, R
<1>9. DOMAIN list = 1..Cardinality(ids)
  BY DEF Listed
<1>10. \A m \in ids : Place(R, ids, m) \in DOMAIN list /\ list[Place(R, ids, m)] = m
  BY <1>7, ListedPlace
<1>. HIDE DEF list
<1>11. Len(files) = Cardinality(ids)
  <2>1. files \in [1..Cardinality(ids) -> {files[i] : i \in 1..Cardinality(ids)}]
    BY <1>9
  <2>2. DOMAIN files = 1..Cardinality(ids)
    BY <1>9
  <2>. HIDE DEF files
  <2>3. files \in Seq({files[i] : i \in 1..Cardinality(ids)})
    BY <1>7, <2>1, SeqDef
  <2>. QED
    BY <1>7, <2>2, <2>3, LenProperties
<1>12. \A i \in 1..Cardinality(ids) : files[i] = e.t.member[list[i]].asset
  BY <1>9
<1>. HIDE DEF files
<1>13. c.next \in 1..(e.next - 1) /\ Len(files) \in Nat
  BY <1>2, <1>6, <1>7, <1>11
<1>14. /\ Recorded(f, g) /\ Leaves(e, g, {"member"})
       /\ g.next = e.next + Len(files)
       /\ DOMAIN g.t.member = DOMAIN e.t.member \cup NewIds(e, Len(files))
       /\ \A k \in DOMAIN e.t.member : g.t.member[k] = e.t.member[k]
       /\ \A k \in NewIds(e, Len(files)) :
            /\ k \notin DOMAIN e.t.member
            /\ g.t.member[k].bundle = c.next
            /\ g.t.member[k].asset = files[k - e.next + 1]
  BY <1>5, <1>13, RecordedNewMembers
<1>. HIDE DEF g
<1>15. c.next < g.next /\ g.t["binding"] = c.t["binding"] /\ g.t["bundle"] = e.t["bundle"]
  BY <1>1, <1>2, <1>6, <1>13, <1>14 DEF Leaves
<1>16. RowOK("binding", row, g.next) /\ b \in DOMAIN g.t["binding"]
  <2>1. RowOK("binding", c.t["binding"][b], c.next)
    BY <1>1, <1>2 DEF TablesOK
  <2>2. g.next \in Nat
    BY <1>14 DEF Recorded
  <2>. QED
    BY <1>2, <1>15, <2>1, <2>2 DEF RowOK
<1>17. row = [c.t.binding[b] EXCEPT !.bundle = c.next]
  OBVIOUS
<1>. HIDE DEF row
<1>18. Recorded(f, d) /\ RowChanged(g, d, "binding", b, row)
  BY <1>1, <1>14, <1>16, RecordedUpdateRow
<1>. HIDE DEF d
<1>19. d.t["member"] = g.t["member"] /\ d.t["bundle"] = e.t["bundle"] /\ d.next = g.next
  BY <1>1, <1>15, <1>18 DEF RowChanged, Leaves
<1>20. Leaves(c, d, {"bundle", "member", "binding"})
  BY <1>5, <1>14, <1>18 DEF RowAdded, RowChanged, Leaves
<1>21. GrownBy(c.t, d.t, c.next)
  BY <1>6, <1>14, <1>19 DEF GrownBy
<1>22. ASSUME NEW m \in MembersOf(c.t, c.t.binding[b].bundle)
       PROVE  \E k \in MembersOf(d.t, c.next) : d.t.member[k].asset = c.t.member[m].asset
  <2> DEFINE i == Place(R, ids, m)
             k == e.next + i - 1
  <2>1. i \in 1..Cardinality(ids) /\ list[i] = m
    BY <1>8, <1>9, <1>10
  <2>. HIDE DEF i
  <2>2. k \in NewIds(e, Len(files)) /\ k - e.next + 1 = i
    BY <1>6, <1>7, <1>11, <2>1 DEF NewIds
  <2>3. files[i] = c.t.member[m].asset
    BY <1>6, <1>12, <2>1
  <2>. HIDE DEF k
  <2>4. k \in DOMAIN g.t.member /\ g.t.member[k].bundle = c.next
        /\ g.t.member[k].asset = c.t.member[m].asset
    BY <1>14, <2>2, <2>3
  <2>. QED
    BY <1>19, <2>4 DEF MembersOf
<1>23. SplitOff(c, d, b)
  BY <1>6, <1>15, <1>17, <1>18, <1>19, <1>20, <1>21, <1>22 DEF SplitOff, RowChanged
<1>. QED
  BY <1>3, <1>18, <1>23

-----------------------------------------------------------------------------
(* An owner's set                                                           *)

\* The baseline that comes first.
Foremost(t, owner, b) ==
  /\ b \in BaselineBindings(t, owner)
  /\ \A d \in BaselineBindings(t, owner) :
       \/ t.binding[b].precedence < t.binding[d].precedence
       \/ t.binding[b].precedence = t.binding[d].precedence /\ b <= d

LEMMA BindingTypes ==
  ASSUME NEW t, NEW n \in Nat, TablesOK(t, n)
  PROVE  \A b \in DOMAIN t.binding :
           /\ b \in Nat /\ b < n
           /\ t.binding[b].precedence \in Nat
           /\ t.binding[b].baseline \in BOOLEAN
           /\ t.binding[b].bundle \in Nat /\ t.binding[b].bundle < n
BY DEF TablesOK, RowOK, Tables

LEMMA BindingShape ==
  ASSUME NEW t, NEW n, TablesOK(t, n)
  PROVE  \A b \in DOMAIN t.binding :
           t.binding[b] =
             [owner |-> t.binding[b].owner, bundle |-> t.binding[b].bundle,
              baseline |-> t.binding[b].baseline,
              precedence |-> t.binding[b].precedence,
              when |-> t.binding[b].when, replaces |-> t.binding[b].replaces]
BY DEF TablesOK, RowOK, Tables

LEMMA OneForemost ==
  ASSUME NEW t, NEW n \in Nat, TablesOK(t, n), NEW owner,
         NEW b, NEW d, Foremost(t, owner, b), Foremost(t, owner, d)
  PROVE  b = d
<1>1. b \in DOMAIN t.binding /\ d \in DOMAIN t.binding
  BY DEF Foremost, BaselineBindings, BindingsOf
<1>. QED
  BY <1>1, BindingTypes DEF Foremost

LEMMA BaselineSetFirst ==
  ASSUME NEW t, NEW n \in Nat, TablesOK(t, n), NEW owner,
         BaselineBindings(t, owner) # {}
  PROVE  Foremost(t, owner, BaselineSet(t, owner))
<1> DEFINE S == BaselineBindings(t, owner)
           ranks == {t.binding[b].precedence : b \in S}
<1>1. S \subseteq DOMAIN t.binding
  BY DEF BaselineBindings, BindingsOf
<1>2. \A b \in S : b \in Nat /\ t.binding[b].precedence \in Nat
  BY <1>1, BindingTypes
<1>3. S # {}
  OBVIOUS
<1>. HIDE DEF S
<1>4. ranks \in SUBSET Nat /\ ranks # {}
  BY <1>2, <1>3
<1>5. PICK p \in ranks : \A k \in ranks : p <= k
  BY <1>4, LeastExists
<1> DEFINE firsts == {b \in S : t.binding[b].precedence = p}
<1>6. firsts \in SUBSET Nat /\ firsts # {}
  BY <1>2, <1>5
<1>7. PICK b \in firsts : \A k \in firsts : b <= k
  BY <1>6, LeastExists
<1>8. b \in S /\ t.binding[b].precedence = p
  BY <1>7
<1>9. \A d \in S : \/ t.binding[b].precedence < t.binding[d].precedence
                   \/ t.binding[b].precedence = t.binding[d].precedence /\ b <= d
  <2> SUFFICES ASSUME NEW d \in S
               PROVE  \/ p < t.binding[d].precedence
                      \/ p = t.binding[d].precedence /\ b <= d
    BY <1>8
  <2>1. p <= t.binding[d].precedence /\ p \in Nat /\ t.binding[d].precedence \in Nat
    BY <1>2, <1>4, <1>5
  <2>2. t.binding[d].precedence = p => b <= d
    BY <1>7
  <2>. QED
    BY <2>1, <2>2
<1>. QED
  BY <1>8, <1>9 DEF S, BaselineSet, Foremost

\* The new member of nobody else's set: how the set is made ready.
Readied(c, d, owner, shared) ==
  LET b == BaselineSet(c.t, owner)
  IN  \/ /\ BaselineBindings(c.t, owner) = {}
         /\ BindingAdded(c, d,
              [owner |-> owner, bundle |-> c.next, baseline |-> TRUE,
               precedence |-> 0, when |-> None, replaces |-> FALSE])
      \/ /\ Foremost(c.t, owner, b)
         /\ SharedWith(c.t, c.t.binding[b].bundle, owner) # {}
         /\ SplitOff(c, d, b)
      \/ /\ Foremost(c.t, owner, b)
         /\ shared = "split" => SharedWith(c.t, c.t.binding[b].bundle, owner) = {}
         /\ d = c

LEMMA RecordedReadySet ==
  ASSUME NEW f, NEW c, Recorded(f, c), NEW owner, NEW shared
  PROVE  /\ Recorded(f, ReadySet(c, owner, shared))
         /\ Readied(c, ReadySet(c, owner, shared), owner, shared)
<1> DEFINE b == BaselineSet(c.t, owner)
           d == ReadySet(c, owner, shared)
           row == [owner |-> owner, bundle |-> c.next, baseline |-> TRUE,
                   precedence |-> 0, when |-> None, replaces |-> FALSE]
<1>1. c.next \in Nat /\ TablesOK(c.t, c.next)
  BY DEF Recorded
<1>2. CASE BaselineBindings(c.t, owner) = {}
  <2>1. d = NewBinding(c, owner, TRUE, 0, None, FALSE)
    BY <1>2 DEF ReadySet, NewBaseline
  <2>2. Recorded(f, d) /\ BindingAdded(c, d, row)
    BY <2>1, RecordedNewBinding
  <2>. QED
    BY <1>2, <2>2 DEF Readied
<1>3. CASE BaselineBindings(c.t, owner) # {}
  <2>1. Foremost(c.t, owner, b) /\ b \in DOMAIN c.t.binding
    BY <1>1, <1>3, BaselineSetFirst DEF Foremost, BaselineBindings, BindingsOf
  <2>2. CASE shared = "split" /\ SharedWith(c.t, c.t.binding[b].bundle, owner) # {}
    <3>1. d = Split(c, owner, b)
      BY <1>3, <2>2 DEF ReadySet
    <3>2. Recorded(f, d) /\ SplitOff(c, d, b)
      BY <2>1, <3>1, RecordedSplit
    <3>. QED
      BY <2>1, <2>2, <3>2 DEF Readied
  <2>3. CASE ~(shared = "split" /\ SharedWith(c.t, c.t.binding[b].bundle, owner) # {})
    <3>1. d = c
      BY <1>3, <2>3 DEF ReadySet
    <3>. QED
      BY <2>1, <2>3, <3>1 DEF Readied
  <2>. QED
    BY <2>2, <2>3
<1>. QED
  BY <1>2, <1>3

\* Bindings and bundles go on: what is new is a baseline, and only a baseline
\* is given another bundle, a new one.
BindingsKept(c, d) ==
  /\ DOMAIN c.t.bundle \subseteq DOMAIN d.t.bundle
  /\ \A k \in DOMAIN d.t.bundle \ DOMAIN c.t.bundle : k >= c.next
  /\ DOMAIN c.t.binding \subseteq DOMAIN d.t.binding
  /\ \A k \in DOMAIN c.t.binding :
       \/ d.t.binding[k] = c.t.binding[k]
       \/ /\ IsPure(c.t.binding[k])
          /\ d.t.binding[k] = [c.t.binding[k] EXCEPT !.bundle = c.next]
  /\ \A k \in DOMAIN d.t.binding \ DOMAIN c.t.binding :
       k >= c.next /\ IsPure(d.t.binding[k])

LEMMA ReadiedKeeps ==
  ASSUME NEW f, NEW c, Recorded(f, c), NEW owner, NEW shared,
         NEW d, Readied(c, d, owner, shared)
  PROVE  /\ BindingsKept(c, d)
         /\ Leaves(c, d, {"bundle", "member", "binding"})
<1> DEFINE b == BaselineSet(c.t, owner)
           row == [owner |-> owner, bundle |-> c.next, baseline |-> TRUE,
                   precedence |-> 0, when |-> None, replaces |-> FALSE]
<1>1. c.next \in Nat
  BY DEF Recorded
<1>2. CASE BindingAdded(c, d, row)
  <2>1. IsPure(row)
    BY DEF IsPure
  <2>. HIDE DEF row
  <2>. QED
    BY <1>1, <1>2, <2>1 DEF BindingAdded, BindingsKept, Leaves
<1>3. CASE Foremost(c.t, owner, b) /\ SplitOff(c, d, b)
  <2>1. b \in DOMAIN c.t.binding /\ IsPure(c.t.binding[b])
    BY <1>3 DEF Foremost, BaselineBindings, BindingsOf
  <2>. HIDE DEF b
  <2>. QED
    BY <1>1, <1>3, <2>1 DEF SplitOff, BindingsKept
<1>4. CASE d = c
  BY <1>4 DEF BindingsKept, Leaves
<1>. QED
  BY <1>2, <1>3, <1>4 DEF Readied

\* The bundle a set's new files go to: a new one, or one that is there and
\* that, once others are to be left alone, nobody else uses.
LEMMA ReadiedBundle ==
  ASSUME NEW f, NEW c, Recorded(f, c), NEW owner, NEW shared,
         NEW d, Recorded(f, d), Readied(c, d, owner, shared)
  PROVE  LET b == BaselineSet(d.t, owner)
             bundle == d.t.binding[b].bundle
         IN  /\ b \in BaselineBindings(d.t, owner)
             /\ bundle \in 1..(d.next - 1)
             /\ \/ bundle = c.next
                \/ /\ d = c
                   /\ shared = "split" => SharedWith(c.t, bundle, owner) = {}
<1> DEFINE b == BaselineSet(c.t, owner)
           e == BaselineSet(d.t, owner)
           row == [owner |-> owner, bundle |-> c.next, baseline |-> TRUE,
                   precedence |-> 0, when |-> None, replaces |-> FALSE]
<1>1. /\ c.next \in Nat /\ TablesOK(c.t, c.next)
      /\ d.next \in Nat /\ TablesOK(d.t, d.next)
  BY DEF Recorded
<1>2. \A k \in DOMAIN c.t.binding : c.t.binding[k].bundle # c.next
                                    /\ c.t.binding[k].bundle \in Nat
  BY <1>1, BindingTypes
<1>3. CASE BaselineBindings(c.t, owner) = {} /\ BindingAdded(c, d, row)
  <2>1. row.bundle = c.next /\ row.owner = owner /\ IsPure(row)
    BY DEF IsPure
  <2>. HIDE DEF row
  <2>2. ASSUME NEW k \in BaselineBindings(d.t, owner), k # c.next + 1
        PROVE  FALSE
    <3>1. k \in DOMAIN c.t.binding /\ d.t.binding[k] = c.t.binding[k]
          /\ c.t.binding[k].bundle \in DOMAIN d.t.bundle
          /\ IsPure(c.t.binding[k]) /\ c.t.binding[k].owner = owner
      BY <1>3, <2>2 DEF BindingAdded, BaselineBindings, BindingsOf
    <3>2. c.t.binding[k].bundle \in DOMAIN c.t.bundle
      BY <1>2, <1>3, <3>1 DEF BindingAdded
    <3>. QED
      BY <1>3, <3>1, <3>2 DEF BaselineBindings, BindingsOf
  <2>3. c.next + 1 \in BaselineBindings(d.t, owner)
    BY <1>3, <2>1 DEF BindingAdded, BaselineBindings, BindingsOf
  <2>4. e \in BaselineBindings(d.t, owner)
    BY <1>1, <2>3, BaselineSetFirst DEF Foremost
  <2>5. e = c.next + 1
    BY <2>2, <2>4
  <2>. HIDE DEF e
  <2>6. d.t.binding[e].bundle = c.next
    BY <1>3, <2>1, <2>5 DEF BindingAdded
  <2>7. c.next \in 1..(d.next - 1)
    <3>1. c.next # 0 /\ d.next = c.next + 2
      BY <1>3 DEF Recorded, BindingAdded
    <3>. QED
      BY <1>1, <3>1
  <2>. QED
    BY <2>4, <2>6, <2>7 DEF e
<1>4. CASE Foremost(c.t, owner, b) /\ SplitOff(c, d, b)
  <2>1. b \in DOMAIN c.t.binding /\ b \in BaselineBindings(c.t, owner)
    BY <1>4 DEF Foremost, BaselineBindings, BindingsOf
  <2>. HIDE DEF b
  <2>2. /\ d.t.binding[b].bundle = c.next
        /\ d.t.binding[b].owner = c.t.binding[b].owner
        /\ IsPure(d.t.binding[b]) = IsPure(c.t.binding[b])
        /\ d.t.binding[b].precedence = c.t.binding[b].precedence
    <3>1. c.t.binding[b] = [owner |-> c.t.binding[b].owner,
             bundle |-> c.t.binding[b].bundle,
             baseline |-> c.t.binding[b].baseline,
             precedence |-> c.t.binding[b].precedence,
             when |-> c.t.binding[b].when, replaces |-> c.t.binding[b].replaces]
      BY <1>1, <2>1 DEF TablesOK, RowOK, Tables
    <3>2. d.t.binding[b] = [c.t.binding[b] EXCEPT !.bundle = c.next]
      BY <1>4 DEF SplitOff
    <3>. QED
      BY <3>1, <3>2 DEF IsPure
  <2>3. \A k \in DOMAIN c.t.binding \ {b} : d.t.binding[k] = c.t.binding[k]
    BY <1>4 DEF SplitOff
  <2>4. \A k \in DOMAIN c.t.binding : d.t.binding[k].precedence = c.t.binding[k].precedence
    BY <2>2, <2>3
  <2>5. BaselineBindings(d.t, owner) = BaselineBindings(c.t, owner)
    <3>1. DOMAIN d.t.binding = DOMAIN c.t.binding
          /\ DOMAIN d.t.bundle = DOMAIN c.t.bundle \cup {c.next}
      BY <1>4 DEF SplitOff
    <3>. QED
      BY <1>2, <2>1, <2>2, <2>3, <3>1 DEF BaselineBindings, BindingsOf
  <2>6. Foremost(d.t, owner, b)
    <3>1. BaselineBindings(c.t, owner) \subseteq DOMAIN c.t.binding
      BY DEF BaselineBindings, BindingsOf
    <3>. QED
      BY <1>4, <2>1, <2>4, <2>5, <3>1 DEF Foremost
  <2>7. e = b
    BY <1>1, <2>1, <2>5, <2>6, BaselineSetFirst, OneForemost
  <2>8. c.next \in 1..(d.next - 1)
    <3>1. c.next # 0 /\ c.next < d.next
      BY <1>4 DEF Recorded, SplitOff
    <3>. QED
      BY <1>1, <3>1
  <2>. QED
    BY <2>1, <2>2, <2>5, <2>7, <2>8
<1>5. CASE /\ Foremost(c.t, owner, b) /\ d = c
           /\ shared = "split" => SharedWith(c.t, c.t.binding[b].bundle, owner) = {}
  <2>1. b \in DOMAIN c.t.binding /\ b \in BaselineBindings(c.t, owner)
    BY <1>5 DEF Foremost, BaselineBindings, BindingsOf
  <2>2. c.t.binding[b].bundle \in 1..(c.next - 1)
    BY <1>1, <2>1 DEF TablesOK, RowOK, Tables
  <2>. QED
    BY <1>5, <2>1, <2>2
<1>. QED
  BY <1>3, <1>4, <1>5 DEF Readied

\* What is added to a set.
LEMMA RecordedAddToSet ==
  ASSUME NEW f, NEW c, Recorded(f, c), NEW owner, NEW assets, Listing(assets),
         NEW shared, NEW to, to = None \/ to \in 1..(c.next - 1)
  PROVE  LET g == AddToSet(c, owner, assets, shared, to)
         IN  /\ Recorded(f, g)
             /\ Leaves(c, g, {"bundle", "member", "binding"})
             /\ BindingsKept(c, g)
             /\ to = None =>
                  \E d, bundle :
                    /\ Recorded(f, d) /\ Readied(c, d, owner, shared)
                    /\ bundle = d.t.binding[BaselineSet(d.t, owner)].bundle
                    /\ Leaves(d, g, {"member"}) /\ GrownBy(d.t, g.t, bundle)
<1> DEFINE d == ReadySet(c, owner, shared)
           bundle == d.t.binding[BaselineSet(d.t, owner)].bundle
           g == AddToSet(c, owner, assets, shared, to)
<1>1. {"bundle", "member", "binding"} \subseteq Tables
  BY DEF Tables
<1>2. CASE to # None
  <2>1. g = AddMembers(c, to, assets)
    BY <1>2 DEF AddToSet
  <2>2. to \in 1..(c.next - 1)
    BY <1>2
  <2>. HIDE DEF g
  <2>3. Recorded(f, g) /\ Leaves(c, g, {"member"})
    BY <2>1, <2>2, RecordedAddMembers
  <2>4. g.t["bundle"] = c.t["bundle"] /\ g.t["binding"] = c.t["binding"]
    BY <1>1, <2>3 DEF Leaves
  <2>5. BindingsKept(c, g)
    BY <2>4 DEF BindingsKept
  <2>6. Leaves(c, g, {"bundle", "member", "binding"})
    BY <2>3 DEF Leaves
  <2>. QED
    BY <1>2, <2>3, <2>5, <2>6 DEF g
<1>3. CASE to = None
  <2>1. g = AddMembers(d, bundle, assets)
    BY <1>3 DEF AddToSet
  <2>2. Recorded(f, d) /\ Readied(c, d, owner, shared)
    BY RecordedReadySet
  <2>. HIDE DEF d, g
  <2>3. bundle \in 1..(d.next - 1)
    BY <2>2, ReadiedBundle
  <2>. HIDE DEF bundle
  <2>4. Recorded(f, g) /\ Leaves(d, g, {"member"}) /\ GrownBy(d.t, g.t, bundle)
    BY <2>1, <2>2, <2>3, RecordedAddMembers
  <2>5. BindingsKept(c, d) /\ Leaves(c, d, {"bundle", "member", "binding"})
    BY <2>2, ReadiedKeeps
  <2>6. g.t["bundle"] = d.t["bundle"] /\ g.t["binding"] = d.t["binding"]
    BY <1>1, <2>4 DEF Leaves
  <2>7. BindingsKept(c, g)
    BY <2>5, <2>6 DEF BindingsKept
  <2>8. Leaves(c, g, {"bundle", "member", "binding"})
    BY <2>4, <2>5 DEF Leaves
  <2>. QED
    BY <2>2, <2>4, <2>7, <2>8 DEF g, bundle
<1>. QED
  BY <1>2, <1>3

LEMMA RecordedAttachInto ==
  ASSUME NEW f, NEW c, Recorded(f, c), NEW owner, NEW assets, Listing(assets),
         NEW purpose, NEW shared, NEW to, to = None \/ to \in 1..(c.next - 1)
  PROVE  LET g == AttachInto(c, owner, assets, purpose, shared, to)
         IN  /\ Recorded(f, g)
             /\ Leaves(c, g, Tables \ {"asset"})
             /\ BindingsKept(c, g)
<1> DEFINE g == AttachInto(c, owner, assets, purpose, shared, to)
<1>1. Tables = {"asset", "bundle", "member", "binding", "related", "anchor"}
  BY DEF Tables
<1>2. CASE purpose = "identity"
  <2>1. g = AddAnchors(c, owner, assets)
    BY <1>2 DEF AttachInto
  <2>. HIDE DEF g
  <2>2. Recorded(f, g) /\ Leaves(c, g, {"anchor"})
    BY <2>1, RecordedAddAnchors
  <2>3. g.t["bundle"] = c.t["bundle"] /\ g.t["binding"] = c.t["binding"]
    BY <1>1, <2>2 DEF Leaves
  <2>4. BindingsKept(c, g)
    BY <2>3 DEF BindingsKept
  <2>5. Leaves(c, g, Tables \ {"asset"})
    BY <1>1, <2>2 DEF Leaves
  <2>. QED
    BY <2>2, <2>4, <2>5 DEF g
<1>3. CASE purpose = "set"
  <2>1. g = AddToSet(c, owner, assets, shared, to)
    BY <1>3 DEF AttachInto
  <2>. HIDE DEF g
  <2>2. /\ Recorded(f, g) /\ Leaves(c, g, {"bundle", "member", "binding"})
        /\ BindingsKept(c, g)
    BY <2>1, RecordedAddToSet
  <2>3. Leaves(c, g, Tables \ {"asset"})
    BY <1>1, <2>2 DEF Leaves
  <2>. QED
    BY <2>2, <2>3 DEF g
<1>4. CASE purpose # "identity" /\ purpose # "set"
  <2>1. g = AddRelated(c, owner, assets, purpose)
    BY <1>4 DEF AttachInto
  <2>. HIDE DEF g
  <2>2. Recorded(f, g) /\ Leaves(c, g, {"related"})
    BY <2>1, RecordedAddRelated
  <2>3. g.t["bundle"] = c.t["bundle"] /\ g.t["binding"] = c.t["binding"]
    BY <1>1, <2>2 DEF Leaves
  <2>4. BindingsKept(c, g)
    BY <2>3 DEF BindingsKept
  <2>5. Leaves(c, g, Tables \ {"asset"})
    BY <1>1, <2>2 DEF Leaves
  <2>. QED
    BY <2>2, <2>4, <2>5 DEF g
<1>. QED
  BY <1>2, <1>3, <1>4

-----------------------------------------------------------------------------
(* The look of an owner                                                     *)

LEMMA InLook ==
  ASSUME NEW t, NEW owner, NEW file
  PROVE  file \in Look(t, owner) <=>
           \E b \in BaselineBindings(t, owner), m \in DOMAIN t.member :
             /\ t.member[m].bundle = t.binding[b].bundle
             /\ t.member[m].asset = file
<1>1. file \in Look(t, owner) <=>
        \E m \in UNION {MembersOf(t, t.binding[b].bundle) :
                          b \in BaselineBindings(t, owner)} : file = t.member[m].asset
  BY DEF Look
<1>2. \A m : m \in UNION {MembersOf(t, t.binding[b].bundle) :
                            b \in BaselineBindings(t, owner)}
               <=> \E b \in BaselineBindings(t, owner) :
                     m \in MembersOf(t, t.binding[b].bundle)
  OBVIOUS
<1>3. \A m, b : m \in MembersOf(t, b) <=> m \in DOMAIN t.member /\ t.member[m].bundle = b
  BY DEF MembersOf
<1>. QED
  BY <1>1, <1>2, <1>3

\* The owner who is given files keeps those there were.
LEMMA LookGrows ==
  ASSUME NEW f, NEW c, Recorded(f, c), NEW owner, NEW shared,
         NEW d, Recorded(f, d), Readied(c, d, owner, shared),
         NEW g, NEW bundle, Leaves(d, g, {"member"}), GrownBy(d.t, g.t, bundle)
  PROVE  Look(c.t, owner) \subseteq Look(g.t, owner)
<1> SUFFICES ASSUME NEW file \in Look(c.t, owner)
             PROVE  file \in Look(g.t, owner)
  OBVIOUS
<1> DEFINE b == BaselineSet(c.t, owner)
<1>1. PICK k \in BaselineBindings(c.t, owner), m \in DOMAIN c.t.member :
        /\ c.t.member[m].bundle = c.t.binding[k].bundle
        /\ c.t.member[m].asset = file
  BY InLook
<1>2. /\ c.next \in Nat /\ TablesOK(c.t, c.next)
      /\ k \in DOMAIN c.t.binding /\ c.t.binding[k].bundle \in DOMAIN c.t.bundle
      /\ c.t.binding[k].owner = owner /\ IsPure(c.t.binding[k])
  BY DEF Recorded, BaselineBindings, BindingsOf
<1>3. g.t["bundle"] = d.t["bundle"] /\ g.t["binding"] = d.t["binding"]
  <2>1. {"bundle", "binding"} \subseteq Tables
    BY DEF Tables
  <2>. QED
    BY <2>1 DEF Leaves
<1>4. \A i \in DOMAIN d.t.member : i \in DOMAIN g.t.member /\ g.t.member[i] = d.t.member[i]
  BY DEF GrownBy
<1>5. CASE d = c
  <2>1. k \in BaselineBindings(g.t, owner)
    BY <1>2, <1>3, <1>5 DEF BaselineBindings, BindingsOf
  <2>. QED
    BY <1>1, <1>3, <1>4, <1>5, <2>1, InLook
<1>6. CASE Foremost(c.t, owner, b) /\ SplitOff(c, d, b)
  <2>1. b \in DOMAIN c.t.binding
    BY <1>6 DEF Foremost, BaselineBindings, BindingsOf
  <2>2. \A i \in DOMAIN c.t.member : i \in DOMAIN g.t.member /\ g.t.member[i] = c.t.member[i]
    BY <1>4, <1>6 DEF SplitOff, GrownBy
  <2>3. DOMAIN d.t.binding = DOMAIN c.t.binding
        /\ DOMAIN d.t.bundle = DOMAIN c.t.bundle \cup {c.next}
    BY <1>6 DEF SplitOff
  <2>. HIDE DEF b
  <2>4. CASE k # b
    <3>1. d.t.binding[k] = c.t.binding[k]
      BY <1>2, <1>6, <2>4 DEF SplitOff
    <3>2. k \in BaselineBindings(g.t, owner)
      BY <1>2, <1>3, <2>3, <3>1 DEF BaselineBindings, BindingsOf
    <3>3. g.t.binding[k].bundle = c.t.binding[k].bundle
      BY <1>3, <3>1
    <3>4. m \in DOMAIN g.t.member /\ g.t.member[m] = c.t.member[m]
      BY <2>2
    <3>5. /\ g.t.member[m].bundle = g.t.binding[k].bundle
          /\ g.t.member[m].asset = file
      BY <1>1, <3>3, <3>4
    <3>. QED
      BY <3>2, <3>4, <3>5, InLook
  <2>5. CASE k = b
    <3>1. c.t.binding[b] = [owner |-> c.t.binding[b].owner,
             bundle |-> c.t.binding[b].bundle,
             baseline |-> c.t.binding[b].baseline,
             precedence |-> c.t.binding[b].precedence,
             when |-> c.t.binding[b].when, replaces |-> c.t.binding[b].replaces]
      BY <1>2, <2>1 DEF TablesOK, RowOK, Tables
    <3>2. d.t.binding[b] = [c.t.binding[b] EXCEPT !.bundle = c.next]
      BY <1>6 DEF SplitOff
    <3>3. /\ d.t.binding[b].bundle = c.next
          /\ d.t.binding[b].owner = owner /\ IsPure(d.t.binding[b])
      BY <1>2, <2>5, <3>1, <3>2 DEF IsPure
    <3>4. b \in BaselineBindings(g.t, owner)
      BY <1>3, <2>1, <2>3, <3>3 DEF BaselineBindings, BindingsOf
    <3>5. m \in MembersOf(c.t, c.t.binding[b].bundle)
      BY <1>1, <2>5 DEF MembersOf
    <3>6. PICK i \in MembersOf(d.t, c.next) : d.t.member[i].asset = c.t.member[m].asset
      BY <1>6, <3>5 DEF SplitOff
    <3>7. i \in DOMAIN d.t.member /\ d.t.member[i].bundle = c.next
      BY <3>6 DEF MembersOf
    <3>. QED
      BY <1>1, <1>3, <1>4, <3>3, <3>4, <3>6, <3>7, InLook
  <2>. QED
    BY <2>4, <2>5
<1>. QED
  BY <1>1, <1>5, <1>6 DEF Readied

\* Another owner's look is as it was when the bundle is the owner's own.
LEMMA LookOfOthers ==
  ASSUME NEW f, NEW c, Recorded(f, c), NEW owner, NEW shared,
         NEW d, Recorded(f, d), Readied(c, d, owner, shared),
         NEW g, NEW bundle, Leaves(d, g, {"member"}), GrownBy(d.t, g.t, bundle),
         NEW other, other # owner,
         bundle = c.next \/ (d = c /\ SharedWith(c.t, bundle, owner) = {})
  PROVE  Look(g.t, other) = Look(c.t, other)
<1> DEFINE b == BaselineSet(c.t, owner)
           row == [owner |-> owner, bundle |-> c.next, baseline |-> TRUE,
                   precedence |-> 0, when |-> None, replaces |-> FALSE]
<1>1. c.next \in Nat /\ TablesOK(c.t, c.next)
  BY DEF Recorded
<1>2. g.t["bundle"] = d.t["bundle"] /\ g.t["binding"] = d.t["binding"]
  <2>1. {"bundle", "binding"} \subseteq Tables
    BY DEF Tables
  <2>. QED
    BY <2>1 DEF Leaves
<1>3. \A k \in DOMAIN c.t.binding : c.t.binding[k].bundle # c.next
  BY <1>1, BindingTypes
<1>4. /\ \A k \in DOMAIN d.t.binding : d.t.binding[k].owner = other =>
           k \in DOMAIN c.t.binding
      /\ \A k \in DOMAIN c.t.binding : c.t.binding[k].owner = other =>
           k \in DOMAIN d.t.binding /\ d.t.binding[k] = c.t.binding[k]
      /\ \A k \in DOMAIN c.t.binding :
           d.t.binding[k].owner = c.t.binding[k].owner
      /\ \A k \in DOMAIN d.t.bundle : k # c.next => k \in DOMAIN c.t.bundle
      /\ DOMAIN c.t.bundle \subseteq DOMAIN d.t.bundle
      /\ \A i \in DOMAIN c.t.member :
           i \in DOMAIN d.t.member /\ d.t.member[i] = c.t.member[i]
      /\ \A i \in DOMAIN d.t.member \ DOMAIN c.t.member :
           d.t.member[i].bundle = c.next
  <2>1. CASE BindingAdded(c, d, row)
    <3>1. row.owner = owner
      OBVIOUS
    <3>. HIDE DEF row
    <3>2. d.t["member"] = c.t["member"]
      BY <2>1 DEF BindingAdded, Leaves, Tables
    <3>. QED
      BY <2>1, <3>1, <3>2 DEF BindingAdded
  <2>2. CASE Foremost(c.t, owner, b) /\ SplitOff(c, d, b)
    <3>1. b \in DOMAIN c.t.binding /\ c.t.binding[b].owner = owner
      BY <2>2 DEF Foremost, BaselineBindings, BindingsOf
    <3>. HIDE DEF b
    <3>2. c.t.binding[b] = [owner |-> c.t.binding[b].owner,
             bundle |-> c.t.binding[b].bundle,
             baseline |-> c.t.binding[b].baseline,
             precedence |-> c.t.binding[b].precedence,
             when |-> c.t.binding[b].when, replaces |-> c.t.binding[b].replaces]
      BY <1>1, <3>1 DEF TablesOK, RowOK, Tables
    <3>3. d.t.binding[b] = [c.t.binding[b] EXCEPT !.bundle = c.next]
      BY <2>2 DEF SplitOff
    <3>4. d.t.binding[b].owner = owner
      BY <3>1, <3>2, <3>3
    <3>. QED
      BY <2>2, <3>1, <3>4 DEF SplitOff, GrownBy
  <2>3. CASE d = c
    BY <2>3
  <2>. QED
    BY <2>1, <2>2, <2>3 DEF Readied
<1>5. BaselineBindings(g.t, other) = BaselineBindings(c.t, other)
  BY <1>2, <1>3, <1>4 DEF BaselineBindings, BindingsOf
<1>6. ASSUME NEW k \in BaselineBindings(c.t, other)
      PROVE  /\ k \in DOMAIN c.t.binding
             /\ g.t.binding[k] = c.t.binding[k]
             /\ c.t.binding[k].bundle # c.next /\ c.t.binding[k].bundle # bundle
  <2>1. k \in DOMAIN c.t.binding /\ c.t.binding[k].owner = other
    BY DEF BaselineBindings, BindingsOf
  <2>2. ASSUME c.t.binding[k].bundle = bundle PROVE FALSE
    <3>1. SharedWith(c.t, bundle, owner) = {}
      BY <1>3, <2>1, <2>2
    <3>2. k \in {i \in DOMAIN c.t.binding : c.t.binding[i].bundle = bundle}
      BY <2>1, <2>2
    <3>. QED
      BY <2>1, <3>1, <3>2 DEF SharedWith
  <2>. QED
    BY <1>2, <1>3, <1>4, <2>1, <2>2
<1>7. \A i \in DOMAIN c.t.member : i \in DOMAIN g.t.member /\ g.t.member[i] = c.t.member[i]
  BY <1>4 DEF GrownBy
<1>8. \A i \in DOMAIN g.t.member \ DOMAIN c.t.member :
        g.t.member[i].bundle = c.next \/ g.t.member[i].bundle = bundle
  BY <1>4 DEF GrownBy
<1>9. ASSUME NEW file
      PROVE  file \in Look(g.t, other) <=> file \in Look(c.t, other)
  BY <1>5, <1>6, <1>7, <1>8, InLook
<1>. QED
  BY <1>9 DEF Look

-----------------------------------------------------------------------------
(* The calls                                                                *)

\* A change that leaves every baseline a baseline and no other row one.
SamePure(f, c) ==
  \A k \in DOMAIN c.t.binding :
    \/ k >= f.next
    \/ k \in DOMAIN f.t.binding /\ (IsPure(c.t.binding[k]) <=> IsPure(f.t.binding[k]))

\* What each call's change is: recorded, with the baselines and the ranks kept.
Sound(f, c) ==
  /\ Recorded(f, c)
  /\ SamePure(f, c)
  /\ \A owner : RanksApart(f.t, owner) => RanksApart(c.t, owner)

LEMMA SoundElsewhere ==
  ASSUME NEW f, NEW c, Recorded(f, c), NEW tables, Leaves(Begin(f), c, tables),
         "binding" \notin tables, "bundle" \notin tables
  PROVE  Sound(f, c)
<1>1. c.t["binding"] = f.t["binding"] /\ c.t["bundle"] = f.t["bundle"]
  <2>1. FilmOK(f)
    BY DEF Recorded
  <2>2. Begin(f).t = f.t
    BY <2>1, RecordedBegin
  <2>. QED
    BY <2>2 DEF Leaves, Tables
<1>2. SamePure(f, c)
  BY <1>1 DEF SamePure
<1>3. ASSUME NEW owner PROVE RanksApart(f.t, owner) => RanksApart(c.t, owner)
  <2>1. Exceptions(c.t, owner) = Exceptions(f.t, owner)
    BY <1>1 DEF Exceptions, BaselineBindings, BindingsOf
  <2>. QED
    BY <1>1, <2>1 DEF RanksApart
<1>. QED
  BY <1>2, <1>3 DEF Sound

LEMMA SoundKept ==
  ASSUME NEW f, FilmOK(f), NEW c, c.t["binding"] = f.t["binding"],
         c.t["bundle"] = f.t["bundle"], c.next = f.next,
         NEW d, Recorded(f, d), BindingsKept(c, d)
  PROVE  Sound(f, d)
<1>1. f.next \in Nat /\ TablesOK(f.t, f.next)
  BY DEF FilmOK
<1>2. \A k \in DOMAIN f.t.binding :
        f.t.binding[k] =
          [owner |-> f.t.binding[k].owner, bundle |-> f.t.binding[k].bundle,
           baseline |-> f.t.binding[k].baseline,
           precedence |-> f.t.binding[k].precedence,
           when |-> f.t.binding[k].when, replaces |-> f.t.binding[k].replaces]
  BY <1>1, BindingShape
<1>3. /\ DOMAIN f.t.bundle \subseteq DOMAIN d.t.bundle
      /\ \A k \in DOMAIN d.t.bundle \ DOMAIN f.t.bundle : k >= f.next
      /\ DOMAIN f.t.binding \subseteq DOMAIN d.t.binding
      /\ \A k \in DOMAIN f.t.binding :
           \/ d.t.binding[k] = f.t.binding[k]
           \/ /\ IsPure(f.t.binding[k])
              /\ d.t.binding[k] = [f.t.binding[k] EXCEPT !.bundle = f.next]
      /\ \A k \in DOMAIN d.t.binding \ DOMAIN f.t.binding :
           k >= f.next /\ IsPure(d.t.binding[k])
  BY DEF BindingsKept
<1>4. ASSUME NEW k \in DOMAIN f.t.binding
      PROVE  /\ IsPure(d.t.binding[k]) = IsPure(f.t.binding[k])
             /\ IsPure(f.t.binding[k]) \/ d.t.binding[k] = f.t.binding[k]
  <2>1. CASE d.t.binding[k] = f.t.binding[k]
    BY <2>1
  <2>2. CASE /\ IsPure(f.t.binding[k])
             /\ d.t.binding[k] = [f.t.binding[k] EXCEPT !.bundle = f.next]
    BY <1>2, <2>2 DEF IsPure
  <2>. QED
    BY <1>3, <2>1, <2>2
<1>5. SamePure(f, d)
  BY <1>3, <1>4 DEF SamePure
<1>6. ASSUME NEW owner PROVE RanksApart(f.t, owner) => RanksApart(d.t, owner)
  <2>1. ASSUME NEW k \in Exceptions(d.t, owner)
        PROVE  k \in Exceptions(f.t, owner) /\ d.t.binding[k] = f.t.binding[k]
    <3>1. /\ k \in DOMAIN d.t.binding /\ d.t.binding[k].owner = owner
          /\ d.t.binding[k].bundle \in DOMAIN d.t.bundle
          /\ ~IsPure(d.t.binding[k])
      BY DEF Exceptions, BaselineBindings, BindingsOf
    <3>2. k \in DOMAIN f.t.binding
      BY <1>3, <3>1
    <3>3. d.t.binding[k] = f.t.binding[k] /\ ~IsPure(f.t.binding[k])
      BY <1>4, <3>1, <3>2
    <3>4. f.t.binding[k].bundle \in DOMAIN f.t.bundle
      <4>1. f.t.binding[k].bundle < f.next /\ f.t.binding[k].bundle \in Nat
        BY <1>1, <3>2, BindingTypes
      <4>2. f.t.binding[k].bundle \in DOMAIN d.t.bundle
        BY <3>1, <3>3
      <4>. QED
        BY <1>1, <1>3, <4>1, <4>2
    <3>. QED
      BY <3>1, <3>2, <3>3, <3>4 DEF Exceptions, BaselineBindings, BindingsOf
  <2>. QED
    BY <2>1 DEF RanksApart
<1>. QED
  BY <1>5, <1>6 DEF Sound

LEMMA BeginSound ==
  ASSUME NEW f, FilmOK(f)
  PROVE  Sound(f, Begin(f)) /\ \A tables : Leaves(Begin(f), Begin(f), tables)
<1>1. Recorded(f, Begin(f))
  BY RecordedBegin
<1>2. Leaves(Begin(f), Begin(f), {})
  BY DEF Leaves
<1>3. Sound(f, Begin(f))
  BY <1>1, <1>2, SoundElsewhere
<1>. QED
  BY <1>3 DEF Leaves

LEMMA AttachSound ==
  ASSUME NEW f, FilmOK(f), NEW owner, NEW assets, Listing(assets), NEW purpose,
         NEW shared, NEW to, to = None \/ to \in 1..(f.next - 1)
  PROVE  LET c == Attach(f, owner, assets, purpose, shared, to)
         IN  /\ Sound(f, c)
             /\ c.t["asset"] = f.t["asset"]
             /\ c.made["asset"] = {} /\ c.was["asset"] = <<>>
<1> DEFINE b == Begin(f)
           c == Attach(f, owner, assets, purpose, shared, to)
<1>1. /\ Recorded(f, b) /\ b.t = f.t /\ b.next = f.next
      /\ b.made = NoRows /\ b.was = NoTables
  BY RecordedBegin
<1>2. c = AttachInto(b, owner, assets, purpose, shared, to)
  BY DEF Attach
<1>. HIDE DEF b, c
<1>3. /\ Recorded(f, c) /\ Leaves(b, c, Tables \ {"asset"})
      /\ BindingsKept(b, c)
  BY <1>1, <1>2, RecordedAttachInto
<1>4. Sound(f, c)
  BY <1>1, <1>3, SoundKept
<1>5. /\ c.t["asset"] = b.t["asset"] /\ c.made["asset"] = b.made["asset"]
      /\ c.was["asset"] = b.was["asset"]
  BY <1>3 DEF Leaves, Tables
<1>6. NoRows["asset"] = {} /\ NoTables["asset"] = <<>>
  BY DEF NoRows, NoTables, Tables
<1>. QED
  BY <1>1, <1>4, <1>5, <1>6 DEF c

LEMMA RecordedDetach ==
  ASSUME NEW f, FilmOK(f), NEW tile, tile.at[1] \in {"anchor", "related", "member"}
  PROVE  LET c == Detach(f, tile)
         IN  /\ Recorded(f, c)
             /\ Leaves(Begin(f), c, {tile.at[1]})
             /\ c.next = f.next
<1> DEFINE c == Detach(f, tile)
<1>1. c = Delete(Begin(f), tile.at[1], {tile.at[2]})
  BY DEF Detach
<1>2. Recorded(f, Begin(f)) /\ Begin(f).next = f.next
  BY RecordedBegin
<1>3. tile.at[1] \in Tables
  BY DEF Tables
<1>4. /\ Recorded(f, c)
      /\ c.t = [tb \in Tables |-> IF tb = tile.at[1]
                                  THEN Without(Begin(f).t[tile.at[1]], {tile.at[2]})
                                  ELSE Begin(f).t[tb]]
      /\ c.next = Begin(f).next /\ c.made = Begin(f).made
      /\ \A tb \in Tables : tb # tile.at[1] => c.was[tb] = Begin(f).was[tb]
  BY <1>1, <1>2, <1>3, RecordedDelete
<1>. QED
  BY <1>2, <1>4 DEF Leaves

LEMMA DetachSound ==
  ASSUME NEW f, FilmOK(f), NEW tile, tile.at[1] \in {"anchor", "related", "member"}
  PROVE  Sound(f, Detach(f, tile))
<1>1. "binding" \notin {tile.at[1]} /\ "bundle" \notin {tile.at[1]}
  OBVIOUS
<1>. QED
  <2>1. Recorded(f, Detach(f, tile)) /\ Leaves(Begin(f), Detach(f, tile), {tile.at[1]})
    BY RecordedDetach
  <2>. QED
    BY <1>1, <2>1, SoundElsewhere

LEMMA RepurposeSound ==
  ASSUME NEW f, FilmOK(f), NEW owner, NEW tile,
         tile.at[1] \in {"anchor", "related", "member"}, NEW purpose, NEW shared
  PROVE  Sound(f, Repurpose(f, owner, tile, purpose, shared))
<1> DEFINE b == Detach(f, tile)
           c == Repurpose(f, owner, tile, purpose, shared)
           assets == <<tile.asset>>
<1>1. c = AttachInto(b, owner, assets, purpose, shared, None)
  BY DEF Repurpose
<1>2. Recorded(f, b) /\ Leaves(Begin(f), b, {tile.at[1]}) /\ b.next = f.next
  BY RecordedDetach
<1>3. Listing(assets)
  BY DEF Listing
<1>4. Begin(f).t = f.t
  BY RecordedBegin
<1>. HIDE DEF b, c, assets
<1>5. b.t["binding"] = f.t["binding"] /\ b.t["bundle"] = f.t["bundle"]
  BY <1>2, <1>4 DEF Leaves, Tables
<1>6. Recorded(f, c) /\ BindingsKept(b, c)
  BY <1>1, <1>2, <1>3, RecordedAttachInto
<1>7. Sound(f, c)
  BY <1>2, <1>5, <1>6, SoundKept
<1>. QED
  BY <1>7 DEF c

LEMMA RowChangeSound ==
  ASSUME NEW f, FilmOK(f), NEW table \in {"anchor", "related"},
         NEW id \in DOMAIN f.t[table], NEW row, RowOK(table, row, f.next)
  PROVE  Sound(f, UpdateRow(Begin(f), table, id, row))
<1> DEFINE b == Begin(f)
           c == UpdateRow(b, table, id, row)
<1>1. Recorded(f, b) /\ b.t = f.t /\ b.next = f.next
  BY RecordedBegin
<1>2. table \in Tables
  BY DEF Tables
<1>. HIDE DEF b
<1>3. Recorded(f, c) /\ RowChanged(b, c, table, id, row)
  BY <1>1, <1>2, RecordedUpdateRow
<1>. HIDE DEF c
<1>4. Leaves(b, c, {table})
  BY <1>3 DEF RowChanged
<1>. QED
  BY <1>3, <1>4, SoundElsewhere DEF b, c

LEMMA ConfirmSound ==
  ASSUME NEW f, FilmOK(f), NEW anchor
  PROVE  Sound(f, ConfirmIdentity(f, anchor))
<1>1. CASE anchor \notin DOMAIN f.t.anchor
  BY <1>1, BeginSound DEF ConfirmIdentity
<1>2. CASE anchor \in DOMAIN f.t.anchor
  <2> DEFINE row == [f.t.anchor[anchor] EXCEPT !.status = "verified"]
  <2>1. RowOK("anchor", row, f.next)
    BY DEF RowOK
  <2>2. ConfirmIdentity(f, anchor) = UpdateRow(Begin(f), "anchor", anchor, row)
    BY <1>2 DEF ConfirmIdentity
  <2>. HIDE DEF row
  <2>. QED
    BY <1>2, <2>1, <2>2, RowChangeSound
<1>. QED
  BY <1>1, <1>2

LEMMA SetTypeSound ==
  ASSUME NEW f, FilmOK(f), NEW r, NEW type
  PROVE  Sound(f, SetMediaType(f, r, type))
<1>1. CASE r \notin DOMAIN f.t.related
  BY <1>1, BeginSound DEF SetMediaType
<1>2. CASE r \in DOMAIN f.t.related
  <2> DEFINE row == [f.t.related[r] EXCEPT !.type = type]
  <2>1. RowOK("related", row, f.next)
    <3>1. RowOK("related", f.t["related"][r], f.next)
      BY <1>2 DEF FilmOK, TablesOK, Tables
    <3>. QED
      BY <3>1 DEF RowOK
  <2>2. SetMediaType(f, r, type) = UpdateRow(Begin(f), "related", r, row)
    BY <1>2 DEF SetMediaType
  <2>. HIDE DEF row
  <2>. QED
    BY <1>2, <2>1, <2>2, RowChangeSound
<1>. QED
  BY <1>1, <1>2

LEMMA RegisterSound ==
  ASSUME NEW f, FilmOK(f), NEW file
  PROVE  Sound(f, RegisterFile(f, file))
<1>1. CASE AssetsOf(f.t, file) # {}
  BY <1>1, BeginSound DEF RegisterFile
<1>2. CASE AssetsOf(f.t, file) = {}
  <2> DEFINE b == Begin(f)
             row == [file |-> file]
             c == InsertRow(b, "asset", row)
  <2>1. c = RegisterFile(f, file)
    BY <1>2 DEF RegisterFile
  <2>2. Recorded(f, b)
    BY RecordedBegin
  <2>3. RowOK("asset", row, b.next + 1) /\ "asset" \in Tables
    BY DEF RowOK, Tables
  <2>. HIDE DEF b, row
  <2>4. Recorded(f, c) /\ RowAdded(b, c, "asset", row)
    BY <2>2, <2>3, RecordedInsertRow
  <2>. HIDE DEF c
  <2>5. Leaves(b, c, {"asset"})
    BY <2>4 DEF RowAdded
  <2>6. Sound(f, c)
    BY <2>4, <2>5, SoundElsewhere DEF b
  <2>. QED
    BY <2>1, <2>6
<1>. QED
  BY <1>1, <1>2

\* Writing places back changes orders alone.
Renumbered(c, d, table, place, was) ==
  /\ Leaves(c, d, {table})
  /\ d.next = c.next
  /\ DOMAIN d.t[table] = DOMAIN c.t[table]
  /\ \A k \in DOMAIN c.t[table] \ DOMAIN place : d.t[table][k] = c.t[table][k]
  /\ \A k \in DOMAIN c.t[table] \cap DOMAIN place :
       d.t[table][k] = IF was[k] # place[k]
                       THEN [c.t[table][k] EXCEPT !.order = place[k]]
                       ELSE c.t[table][k]

\* Renumber where the rows it writes are rows of the table.
LEMMA RecordedReorder ==
  ASSUME NEW f, NEW c, Recorded(f, c), NEW table \in Tables, NEW place, NEW was,
         \A k \in DOMAIN place \cap DOMAIN c.t[table] :
            RowOK(table, [c.t[table][k] EXCEPT !.order = place[k]], c.next)
  PROVE  /\ Recorded(f, Renumber(c, table, place, was))
         /\ Renumbered(c, Renumber(c, table, place, was), table, place, was)
<1> DEFINE moved == {k \in DOMAIN place \cap DOMAIN c.t[table] : was[k] # place[k]}
           rows == [k \in moved |-> [c.t[table][k] EXCEPT !.order = place[k]]]
           d == Update(c, table, rows)
           new == [k \in DOMAIN c.t[table] |->
                     IF k \in DOMAIN rows THEN rows[k] ELSE c.t[table][k]]
<1>1. d = Renumber(c, table, place, was)
  BY DEF Renumber
<1>2. DOMAIN rows = moved
  OBVIOUS
<1>3. \A k \in moved : rows[k] = [c.t[table][k] EXCEPT !.order = place[k]]
  OBVIOUS
<1>4. \A k : k \in moved <=> k \in DOMAIN place /\ k \in DOMAIN c.t[table]
                             /\ was[k] # place[k]
  OBVIOUS
<1>. HIDE DEF rows, moved
<1>5. \A k \in DOMAIN rows \cap DOMAIN c.t[table] : RowOK(table, rows[k], c.next)
  BY <1>2, <1>3, <1>4
<1>6. /\ Recorded(f, d)
      /\ d.t = [tb \in Tables |-> IF tb = table THEN new ELSE c.t[tb]]
      /\ d.next = c.next /\ d.made = c.made
      /\ \A tb \in Tables : tb # table => d.was[tb] = c.was[tb]
  BY <1>5, RecordedUpdate
<1>. HIDE DEF d
<1>7. Leaves(c, d, {table})
  BY <1>6 DEF Leaves
<1>8. d.t[table] = new
  BY <1>6
<1>9. Renumbered(c, d, table, place, was)
  BY <1>2, <1>3, <1>4, <1>6, <1>7, <1>8 DEF Renumbered
<1>. QED
  BY <1>1, <1>6, <1>9

\* Renumber of related files and of members, whose places are numbers.
LEMMA RecordedRenumber ==
  ASSUME NEW f, NEW c, Recorded(f, c), NEW table \in {"related", "member"},
         NEW place, \A k \in DOMAIN place : place[k] \in Nat, NEW was
  PROVE  /\ Recorded(f, Renumber(c, table, place, was))
         /\ Renumbered(c, Renumber(c, table, place, was), table, place, was)
<1>1. table \in Tables
  BY DEF Tables
<1>2. ASSUME NEW k \in DOMAIN place \cap DOMAIN c.t[table]
      PROVE  RowOK(table, [c.t[table][k] EXCEPT !.order = place[k]], c.next)
  <2>1. RowOK(table, c.t[table][k], c.next)
    BY <1>1 DEF Recorded, TablesOK
  <2>2. place[k] \in Nat
    OBVIOUS
  <2>. QED
    BY <2>1, <2>2 DEF RowOK
<1>. QED
  BY <1>1, <1>2, RecordedReorder

LEMMA RenumberSound ==
  ASSUME NEW f, FilmOK(f), NEW table \in {"related", "member"},
         NEW place, \A k \in DOMAIN place : place[k] \in Nat, NEW was
  PROVE  /\ Sound(f, Renumber(Begin(f), table, place, was))
         /\ Renumbered(Begin(f), Renumber(Begin(f), table, place, was),
                       table, place, was)
<1> DEFINE d == Renumber(Begin(f), table, place, was)
<1>1. Recorded(f, Begin(f))
  BY RecordedBegin
<1>2. Recorded(f, d) /\ Renumbered(Begin(f), d, table, place, was)
  BY <1>1, RecordedRenumber
<1>. HIDE DEF d
<1>3. Leaves(Begin(f), d, {table})
  BY <1>2 DEF Renumbered
<1>4. Sound(f, d)
  BY <1>2, <1>3, SoundElsewhere
<1>. QED
  BY <1>2, <1>4 DEF d

-----------------------------------------------------------------------------
(* Exceptions                                                               *)

LEMMA InExceptions ==
  ASSUME NEW t, NEW owner, NEW b
  PROVE  b \in Exceptions(t, owner) <=>
           /\ b \in DOMAIN t.binding /\ t.binding[b].owner = owner
           /\ t.binding[b].bundle \in DOMAIN t.bundle
           /\ ~IsPure(t.binding[b])
BY DEF Exceptions, BaselineBindings, BindingsOf

LEMMA ExceptionsFinite ==
  ASSUME NEW t, NEW n \in Nat, TablesOK(t, n), NEW owner
  PROVE  /\ IsFiniteSet(BindingsOf(t, owner)) /\ IsFiniteSet(Exceptions(t, owner))
         /\ Cardinality(Exceptions(t, owner)) \in Nat
<1>1. /\ Exceptions(t, owner) \subseteq BindingsOf(t, owner)
      /\ BindingsOf(t, owner) \subseteq DOMAIN t.binding
  BY DEF Exceptions, BindingsOf
<1>2. BindingsOf(t, owner) \in SUBSET Nat /\ \A k \in BindingsOf(t, owner) : k <= n
  BY <1>1, BindingTypes
<1>3. IsFiniteSet(BindingsOf(t, owner))
  BY <1>2, Finite
<1>. QED
  BY <1>1, <1>3, FS_Subset, FS_CardinalityType

\* The top precedence is one no binding of the owner's is above.
LEMMA TopPrecedenceType ==
  ASSUME NEW t, NEW n \in Nat, TablesOK(t, n), NEW owner
  PROVE  /\ TopPrecedence(t, owner) \in Nat
         /\ \A b \in BindingsOf(t, owner) :
              t.binding[b].precedence <= TopPrecedence(t, owner)
<1> DEFINE ids == BindingsOf(t, owner)
           S == {t.binding[b].precedence : b \in ids}
           g == [b \in ids |-> t.binding[b].precedence]
<1>1. ids \subseteq DOMAIN t.binding
  BY DEF BindingsOf
<1>2. \A b \in ids : t.binding[b].precedence \in Nat
  BY <1>1, BindingTypes
<1>3. IsFiniteSet(ids)
  BY ExceptionsFinite
<1>. HIDE DEF ids
<1>4. IsFiniteSet({g[b] : b \in ids})
  <2>. HIDE DEF g
  <2>. QED
    BY <1>3, ImageFinite
<1>5. {g[b] : b \in ids} = S
  OBVIOUS
<1>6. S \in SUBSET Nat
  BY <1>2
<1>7. \A b \in ids : t.binding[b].precedence \in S
  OBVIOUS
<1>. HIDE DEF S, g
<1>8. Greatest(S) \in Nat /\ \A k \in S : k <= Greatest(S)
  BY <1>4, <1>5, <1>6, FiniteGreatest
<1>. QED
  BY <1>7, <1>8 DEF TopPrecedence, S, ids

LEMMA AddExceptionSound ==
  ASSUME NEW f, FilmOK(f), NEW owner, NEW when, NEW replaces
  PROVE  Sound(f, AddException(f, owner, when, replaces))
<1> DEFINE b == Begin(f)
           p == TopPrecedence(f.t, owner) + 1
           row == [owner |-> owner, bundle |-> b.next, baseline |-> FALSE,
                   precedence |-> p, when |-> when, replaces |-> replaces]
           c == NewBinding(b, owner, FALSE, p, when, replaces)
<1>1. c = AddException(f, owner, when, replaces)
  BY DEF AddException
<1>2. f.next \in Nat /\ TablesOK(f.t, f.next)
  BY DEF FilmOK
<1>3. /\ TopPrecedence(f.t, owner) \in Nat /\ p \in Nat /\ p > 0
      /\ \A d \in BindingsOf(f.t, owner) : f.t.binding[d].precedence < p
  <2>1. /\ TopPrecedence(f.t, owner) \in Nat
        /\ \A d \in BindingsOf(f.t, owner) :
             f.t.binding[d].precedence <= TopPrecedence(f.t, owner)
    BY <1>2, TopPrecedenceType
  <2>2. \A d \in BindingsOf(f.t, owner) : f.t.binding[d].precedence \in Nat
    BY <1>2, BindingTypes DEF BindingsOf
  <2>. QED
    BY <2>1, <2>2
<1>4. Recorded(f, b) /\ b.t = f.t /\ b.next = f.next
  BY RecordedBegin
<1>. HIDE DEF b, p
<1>5. Recorded(f, c) /\ BindingAdded(b, c, row)
  BY <1>3, <1>4, RecordedNewBinding
<1>6. /\ row.owner = owner /\ row.precedence = p /\ ~IsPure(row)
  BY DEF IsPure
<1>. HIDE DEF c, row
<1>7. /\ DOMAIN c.t.bundle = DOMAIN f.t.bundle \cup {f.next}
      /\ DOMAIN c.t.binding = DOMAIN f.t.binding \cup {f.next + 1}
      /\ f.next + 1 \notin DOMAIN f.t.binding
      /\ \A k \in DOMAIN f.t.binding : c.t.binding[k] = f.t.binding[k]
      /\ c.t.binding[f.next + 1] = row
  BY <1>4, <1>5 DEF BindingAdded
<1>8. SamePure(f, c)
  BY <1>2, <1>7 DEF SamePure
<1>9. ASSUME NEW o, NEW k \in Exceptions(c.t, o)
      PROVE  \/ k = f.next + 1 /\ o = owner /\ c.t.binding[k].precedence = p
             \/ k \in Exceptions(f.t, o) /\ c.t.binding[k] = f.t.binding[k]
  <2>1. /\ k \in DOMAIN c.t.binding /\ c.t.binding[k].owner = o
        /\ c.t.binding[k].bundle \in DOMAIN c.t.bundle
        /\ ~IsPure(c.t.binding[k])
    BY InExceptions
  <2>2. CASE k = f.next + 1
    BY <1>6, <1>7, <2>1, <2>2
  <2>3. CASE k \in DOMAIN f.t.binding
    <3>1. c.t.binding[k] = f.t.binding[k]
      BY <1>7, <2>3
    <3>2. f.t.binding[k].bundle # f.next
      BY <1>2, <2>3, BindingTypes
    <3>3. f.t.binding[k].bundle \in DOMAIN f.t.bundle
      BY <1>7, <2>1, <3>1, <3>2
    <3>. QED
      BY <2>1, <2>3, <3>1, <3>3, InExceptions
  <2>. QED
    BY <1>7, <2>1, <2>2, <2>3
<1>10. ASSUME NEW o, RanksApart(f.t, o) PROVE RanksApart(c.t, o)
  <2>1. Exceptions(f.t, o) \subseteq BindingsOf(f.t, o)
    BY DEF Exceptions
  <2>2. \A k \in Exceptions(f.t, o) : o = owner =>
          f.t.binding[k].precedence < p /\ f.t.binding[k].precedence \in Nat
    BY <1>2, <1>3, <2>1, BindingTypes DEF BindingsOf
  <2>. QED
    BY <1>3, <1>9, <1>10, <2>2 DEF RanksApart
<1>. QED
  BY <1>1, <1>5, <1>8, <1>10 DEF Sound

\* An exception stays one under another condition.
LEMMA UpdateExceptionSound ==
  ASSUME NEW f, FilmOK(f), NEW b, b \in DOMAIN f.t.binding => ~IsPure(f.t.binding[b]),
         NEW when, when # None
  PROVE  Sound(f, UpdateException(f, b, when))
<1>1. CASE b \notin DOMAIN f.t.binding
  BY <1>1, BeginSound DEF UpdateException
<1>2. CASE b \in DOMAIN f.t.binding
  <2> DEFINE e == Begin(f)
             row == [f.t.binding[b] EXCEPT !.when = when]
             c == UpdateRow(e, "binding", b, row)
  <2>1. c = UpdateException(f, b, when)
    BY <1>2 DEF UpdateException
  <2>2. f.next \in Nat /\ TablesOK(f.t, f.next)
    BY DEF FilmOK
  <2>3. Recorded(f, e) /\ e.t = f.t /\ e.next = f.next
    BY RecordedBegin
  <2>. HIDE DEF e
  <2>4. "binding" \in Tables
    BY DEF Tables
  <2>5. RowOK("binding", row, f.next)
    <3>1. RowOK("binding", f.t["binding"][b], f.next)
      BY <1>2, <2>2, <2>4 DEF TablesOK
    <3>. QED
      BY <3>1 DEF RowOK
  <2>6. /\ row.owner = f.t.binding[b].owner /\ row.bundle = f.t.binding[b].bundle
        /\ row.precedence = f.t.binding[b].precedence /\ ~IsPure(row)
    <3>1. f.t.binding[b] =
             [owner |-> f.t.binding[b].owner, bundle |-> f.t.binding[b].bundle,
              baseline |-> f.t.binding[b].baseline,
              precedence |-> f.t.binding[b].precedence,
              when |-> f.t.binding[b].when, replaces |-> f.t.binding[b].replaces]
      BY <1>2, <2>2, BindingShape
    <3>. QED
      BY <3>1 DEF IsPure
  <2>. HIDE DEF row
  <2>7. Recorded(f, c) /\ RowChanged(e, c, "binding", b, row)
    BY <1>2, <2>3, <2>4, <2>5, RecordedUpdateRow
  <2>. HIDE DEF c
  <2>8. /\ DOMAIN c.t["binding"] = DOMAIN f.t["binding"]
        /\ c.t["binding"][b] = row
        /\ \A k \in DOMAIN f.t["binding"] \ {b} : c.t["binding"][k] = f.t["binding"][k]
        /\ c.t["bundle"] = f.t["bundle"]
    BY <2>3, <2>7 DEF RowChanged, Leaves, Tables
  <2>9. SamePure(f, c)
    BY <1>2, <2>6, <2>8 DEF SamePure
  <2>10. ASSUME NEW k \in DOMAIN f.t.binding
         PROVE  /\ c.t.binding[k].owner = f.t.binding[k].owner
                /\ c.t.binding[k].bundle = f.t.binding[k].bundle
                /\ c.t.binding[k].precedence = f.t.binding[k].precedence
                /\ IsPure(c.t.binding[k]) <=> IsPure(f.t.binding[k])
    BY <1>2, <2>6, <2>8
  <2>11. ASSUME NEW o PROVE Exceptions(c.t, o) = Exceptions(f.t, o)
    <3>1. \A k : k \in Exceptions(c.t, o) <=> k \in Exceptions(f.t, o)
      BY <2>8, <2>10, InExceptions
    <3>. QED
      BY <3>1 DEF Exceptions
  <2>12. ASSUME NEW o, RanksApart(f.t, o) PROVE RanksApart(c.t, o)
    <3>1. \A k \in Exceptions(f.t, o) : k \in DOMAIN f.t.binding
      BY InExceptions
    <3>. QED
      BY <2>10, <2>11, <2>12, <3>1 DEF RanksApart
  <2>. QED
    BY <2>1, <2>7, <2>9, <2>12 DEF Sound
<1>. QED
  BY <1>1, <1>2

LEMMA RemoveExceptionSound ==
  ASSUME NEW f, FilmOK(f), NEW b
  PROVE  Sound(f, RemoveException(f, b))
<1>1. CASE b \notin DOMAIN f.t.binding
  BY <1>1, BeginSound DEF RemoveException
<1>2. CASE b \in DOMAIN f.t.binding
  <2> DEFINE e == Begin(f)
             bundle == f.t.binding[b].bundle
             gone == Delete(e, "binding", {b})
             less == Delete(gone, "member", MembersOf(f.t, bundle))
             none == Delete(less, "bundle", {bundle})
             c == RemoveException(f, b)
  <2>1. {"binding", "member", "bundle"} \subseteq Tables
    BY DEF Tables
  <2>2. Recorded(f, e) /\ e.t = f.t
    BY RecordedBegin
  <2>3. c = gone \/ c = none
    BY <1>2 DEF RemoveException
  <2>. HIDE DEF c, e
  <2>4. /\ Recorded(f, gone)
        /\ gone.t = [tb \in Tables |-> IF tb = "binding" THEN Without(e.t["binding"], {b})
                                       ELSE e.t[tb]]
    BY <2>1, <2>2, RecordedDelete
  <2>. HIDE DEF gone, bundle
  <2>5. /\ Recorded(f, less)
        /\ less.t = [tb \in Tables |->
                       IF tb = "member"
                       THEN Without(gone.t["member"], MembersOf(f.t, bundle))
                       ELSE gone.t[tb]]
    <3> DEFINE ids == MembersOf(f.t, bundle)
    <3>1. Recorded(f, gone) /\ "member" \in Tables
      BY <2>1, <2>4
    <3>. HIDE DEF ids
    <3>2. /\ Recorded(f, Delete(gone, "member", ids))
          /\ Delete(gone, "member", ids).t =
               [tb \in Tables |-> IF tb = "member" THEN Without(gone.t["member"], ids)
                                  ELSE gone.t[tb]]
      BY <3>1, RecordedDelete
    <3>. QED
      BY <3>2 DEF ids
  <2>. HIDE DEF less
  <2>6. /\ Recorded(f, none)
        /\ none.t = [tb \in Tables |-> IF tb = "bundle"
                                       THEN Without(less.t["bundle"], {bundle})
                                       ELSE less.t[tb]]
    <3> DEFINE ids == {bundle}
    <3>1. Recorded(f, less) /\ "bundle" \in Tables
      BY <2>1, <2>5
    <3>. HIDE DEF ids
    <3>2. /\ Recorded(f, Delete(less, "bundle", ids))
          /\ Delete(less, "bundle", ids).t =
               [tb \in Tables |-> IF tb = "bundle" THEN Without(less.t["bundle"], ids)
                                  ELSE less.t[tb]]
      BY <3>1, RecordedDelete
    <3>. QED
      BY <3>2 DEF ids
  <2>. HIDE DEF none
  <2>7. /\ c.t["binding"] = Without(f.t["binding"], {b})
        /\ c.t["bundle"] = f.t["bundle"]
           \/ c.t["bundle"] = Without(f.t["bundle"], {bundle})
    <3>1. /\ gone.t["binding"] = Without(f.t["binding"], {b})
          /\ gone.t["bundle"] = f.t["bundle"]
      BY <2>1, <2>2, <2>4
    <3>2. none.t["binding"] = gone.t["binding"]
          /\ none.t["bundle"] = Without(gone.t["bundle"], {bundle})
      BY <2>1, <2>5, <2>6
    <3>. QED
      BY <2>3, <3>1, <3>2
  <2>8. /\ DOMAIN c.t["binding"] \subseteq DOMAIN f.t["binding"]
        /\ \A k \in DOMAIN c.t["binding"] : c.t["binding"][k] = f.t["binding"][k]
        /\ DOMAIN c.t["bundle"] \subseteq DOMAIN f.t["bundle"]
    BY <2>7 DEF Without
  <2>9. SamePure(f, c)
    BY <2>8 DEF SamePure
  <2>10. ASSUME NEW o PROVE \A k \in Exceptions(c.t, o) :
           k \in Exceptions(f.t, o) /\ c.t.binding[k] = f.t.binding[k]
    BY <2>8, InExceptions
  <2>11. ASSUME NEW o, RanksApart(f.t, o) PROVE RanksApart(c.t, o)
    BY <2>10, <2>11 DEF RanksApart
  <2>12. Recorded(f, c)
    BY <2>3, <2>4, <2>6
  <2>. QED
    BY <2>9, <2>11, <2>12 DEF Sound, c
<1>. QED
  BY <1>1, <1>2

LEMMA PrecedenceOrder ==
  ASSUME NEW t, NEW n \in Nat, TablesOK(t, n), NEW ids \in SUBSET DOMAIN t.binding
  PROVE  StrictOrder(ByPrecedence(t.binding, ids), ids)
<1> DEFINE R == ByPrecedence(t.binding, ids)
<1>1. \A a, b \in ids :
        <<a, b>> \in R <=>
          \/ t.binding[a].precedence > t.binding[b].precedence
          \/ t.binding[a].precedence = t.binding[b].precedence /\ a < b
  BY DEF ByPrecedence
<1>2. \A a \in ids : a \in Nat /\ t.binding[a].precedence \in Nat
  BY BindingTypes
<1>. HIDE DEF R
<1>. QED
  BY <1>1, <1>2 DEF StrictOrder, R

\* Renumbered with two of them swapped, the ranks are still apart.
LEMMA MoveExceptionSound ==
  ASSUME NEW f, FilmOK(f), NEW owner, NEW b, NEW up \in BOOLEAN
  PROVE  Sound(f, MoveException(f, owner, b, up))
<1> DEFINE rows  == f.t.binding
           ids   == Exceptions(f.t, owner)
           n     == Cardinality(ids)
           R     == ByPrecedence(rows, ids)
           place == Places(R, ids)
           at    == IF up THEN place[b] - 1 ELSE place[b] + 1
           swap  == Swapped(place, b, at)
           rank  == [k \in ids |-> n + 1 - swap[k]]
           moved == {k \in ids : rows[k].precedence # rank[k]}
           new   == [k \in moved |-> [rows[k] EXCEPT !.precedence = rank[k]]]
           e     == Begin(f)
           c     == Update(e, "binding", new)
<1>1. /\ f.next \in Nat /\ TablesOK(f.t, f.next)
      /\ ids \subseteq DOMAIN f.t.binding
      /\ IsFiniteSet(ids) /\ n \in Nat
  BY ExceptionsFinite, InExceptions DEF FilmOK
<1>2. b \notin ids \/ at \notin 1..n \/ c = MoveException(f, owner, b, up)
  BY DEF MoveException
<1>3. b \notin ids \/ at \notin 1..n => MoveException(f, owner, b, up) = Begin(f)
  BY DEF MoveException
<1>4. CASE b \notin ids \/ at \notin 1..n
  BY <1>3, <1>4, BeginSound
<1>5. CASE b \in ids /\ at \in 1..n
  <2>1. StrictOrder(R, ids)
    BY <1>1, PrecedenceOrder
  <2>. HIDE DEF ids, R
  <2>2. \A k \in ids : place[k] = Place(R, ids, k) /\ place[k] \in 1..n
    BY <1>1, <2>1, PlaceBound DEF Places
  <2>3. \A k, d \in ids : place[k] = place[d] => k = d
    BY <1>1, <2>1, <2>2, PlaceOrder
  <2>4. DOMAIN place = ids /\ at # place[b]
    BY <1>1, <1>5, <2>2 DEF Places
  <2>. HIDE DEF place, at, n
  <2>5. \A k \in ids : swap[k] = IF k = b THEN at
                                 ELSE IF place[k] = at THEN place[b] ELSE place[k]
    BY <2>4 DEF Swapped
  <2>. HIDE DEF swap
  <2>6. \A k \in ids : swap[k] \in 1..n
    BY <1>5, <2>2, <2>5
  <2>7. \A k, d \in ids : swap[k] = swap[d] => k = d
    BY <1>5, <2>3, <2>4, <2>5
  <2>8. \A k \in ids : rank[k] \in Nat /\ rank[k] > 0
    BY <1>1, <2>6
  <2>9. \A k, d \in ids : rank[k] = rank[d] => k = d
    BY <1>1, <2>6, <2>7
  <2>. HIDE DEF rank
  <2>10. Recorded(f, e) /\ e.t = f.t /\ e.next = f.next
    BY RecordedBegin
  <2>. HIDE DEF e
  <2>11. ASSUME NEW k \in ids
         PROVE  /\ f.t.binding[k] =
                    [owner |-> f.t.binding[k].owner, bundle |-> f.t.binding[k].bundle,
                     baseline |-> f.t.binding[k].baseline,
                     precedence |-> f.t.binding[k].precedence,
                     when |-> f.t.binding[k].when,
                     replaces |-> f.t.binding[k].replaces]
                /\ RowOK("binding", f.t["binding"][k], f.next)
    BY <1>1, BindingShape DEF TablesOK, Tables
  <2>12. \A k \in DOMAIN new : k \in ids
           /\ new[k] = [f.t.binding[k] EXCEPT !.precedence = rank[k]]
    OBVIOUS
  <2>13. \A k \in ids : k \notin DOMAIN new => f.t.binding[k].precedence = rank[k]
    OBVIOUS
  <2>. HIDE DEF new
  <2>14. \A k \in DOMAIN new \cap DOMAIN e.t["binding"] : RowOK("binding", new[k], e.next)
    BY <2>8, <2>10, <2>11, <2>12 DEF RowOK
  <2>15. "binding" \in Tables
    BY DEF Tables
  <2>16. /\ Recorded(f, c)
         /\ c.t = [tb \in Tables |->
                     IF tb = "binding"
                     THEN [k \in DOMAIN e.t["binding"] |->
                             IF k \in DOMAIN new THEN new[k] ELSE e.t["binding"][k]]
                     ELSE e.t[tb]]
    BY <2>10, <2>14, <2>15, RecordedUpdate
  <2>. HIDE DEF c
  <2>17. /\ DOMAIN c.t["binding"] = DOMAIN f.t["binding"]
         /\ c.t["bundle"] = f.t["bundle"]
         /\ \A k \in DOMAIN f.t["binding"] :
              c.t["binding"][k] = IF k \in DOMAIN new THEN new[k] ELSE f.t["binding"][k]
    BY <2>10, <2>15, <2>16 DEF Tables
  <2>18. ASSUME NEW k \in DOMAIN f.t.binding
         PROVE  /\ c.t.binding[k].owner = f.t.binding[k].owner
                /\ c.t.binding[k].bundle = f.t.binding[k].bundle
                /\ IsPure(c.t.binding[k]) <=> IsPure(f.t.binding[k])
                /\ k \in ids => c.t.binding[k].precedence = rank[k]
                /\ k \notin ids => c.t.binding[k] = f.t.binding[k]
    <3>1. CASE k \in DOMAIN new
      <4>1. k \in ids /\ c.t.binding[k] = [f.t.binding[k] EXCEPT !.precedence = rank[k]]
        BY <2>12, <2>17, <3>1
      <4>. QED
        BY <2>11, <4>1 DEF IsPure
    <3>2. CASE k \notin DOMAIN new
      BY <2>13, <2>17, <3>2
    <3>. QED
      BY <3>1, <3>2
  <2>19. SamePure(f, c)
    BY <2>17, <2>18 DEF SamePure
  <2>20. ASSUME NEW o PROVE \A k : k \in Exceptions(c.t, o) <=> k \in Exceptions(f.t, o)
    BY <2>17, <2>18, InExceptions
  <2>21. RanksApart(c.t, owner)
    <3>1. \A k \in Exceptions(c.t, owner) :
            k \in ids /\ k \in DOMAIN f.t.binding
            /\ c.t.binding[k].precedence = rank[k]
      BY <1>1, <2>18, <2>20 DEF ids
    <3>. QED
      BY <2>8, <2>9, <3>1 DEF RanksApart
  <2>22. ASSUME NEW o, o # owner, RanksApart(f.t, o) PROVE RanksApart(c.t, o)
    <3>1. \A k \in Exceptions(f.t, o) :
            k \in DOMAIN f.t.binding /\ c.t.binding[k] = f.t.binding[k]
      <4>1. \A k \in Exceptions(f.t, o) : k \in DOMAIN f.t.binding /\ k \notin ids
        BY <2>22, InExceptions DEF ids
      <4>. QED
        BY <2>18, <4>1
    <3>. QED
      BY <2>20, <2>22, <3>1 DEF RanksApart
  <2>. QED
    BY <1>2, <1>5, <2>16, <2>19, <2>21, <2>22 DEF Sound
<1>. QED
  BY <1>4, <1>5

-----------------------------------------------------------------------------
(* Moves                                                                    *)

LEMMA StoredOrder ==
  ASSUME NEW rows, NEW ids \in SUBSET Nat, \A k \in ids : rows[k].order \in Nat
  PROVE  StrictOrder(ByOrder(rows, ids), ids)
<1> DEFINE R == ByOrder(rows, ids)
<1>1. \A a, b \in ids :
        <<a, b>> \in R <=>
          \/ rows[a].order # 0 /\ (rows[b].order = 0 \/ rows[a].order < rows[b].order)
          \/ rows[a].order = rows[b].order /\ a < b
  BY DEF ByOrder, None
<1>. HIDE DEF R
<1>2. \A a \in ids : <<a, a>> \notin R
  BY <1>1
<1>3. \A a, b, d \in ids : <<a, b>> \in R /\ <<b, d>> \in R => <<a, d>> \in R
  BY <1>1
<1>4. \A a, b \in ids : a # b => <<a, b>> \in R \/ <<b, a>> \in R
  BY <1>1
<1>. QED
  BY <1>2, <1>3, <1>4 DEF StrictOrder, R

\* Past its neighbour, a tile is next to it, and the rest is as it was.
LEMMA PastOrder ==
  ASSUME NEW R, NEW ids, StrictOrder(R, ids), IsFiniteSet(ids),
         NEW id \in ids, NEW neighbour \in ids, id # neighbour,
         NEW delta \in {"earlier", "later"}
  PROVE  LET P == Past(R, ids, id, neighbour, delta)
         IN  /\ P \subseteq ids \X ids
             /\ StrictOrder(P, ids)
             /\ \A a, b \in ids \ {id} : <<a, b>> \in P <=> <<a, b>> \in R
             /\ delta = "earlier" => Place(P, ids, neighbour) = Place(P, ids, id) + 1
             /\ delta = "later" => Place(P, ids, id) = Place(P, ids, neighbour) + 1
<1> DEFINE P == Past(R, ids, id, neighbour, delta)
<1>1. P \subseteq ids \X ids
  BY DEF Past
<1>2. /\ <<id, id>> \notin P
      /\ \A b \in ids \ {id} :
           /\ <<id, b>> \in P <=> \/ <<neighbour, b>> \in R
                                  \/ b = neighbour /\ delta = "earlier"
           /\ <<b, id>> \in P <=> \/ <<b, neighbour>> \in R
                                  \/ b = neighbour /\ delta = "later"
      /\ \A a, b \in ids \ {id} : <<a, b>> \in P <=> <<a, b>> \in R
  BY DEF Past
<1>. HIDE DEF P
<1>3. /\ \A a \in ids : <<a, a>> \notin R
      /\ \A a, b, d \in ids : <<a, b>> \in R /\ <<b, d>> \in R => <<a, d>> \in R
      /\ \A a, b \in ids : a # b => <<a, b>> \in R \/ <<b, a>> \in R
  BY DEF StrictOrder
<1>4. \A a \in ids : <<a, a>> \notin P
  BY <1>2, <1>3
<1>5. ASSUME NEW a \in ids, NEW b \in ids, NEW d \in ids,
             <<a, b>> \in P, <<b, d>> \in P
      PROVE  <<a, d>> \in P
  <2>1. CASE a = id
    <3>1. b # id
      BY <1>2, <1>5, <2>1
    <3>2. d # id
      BY <1>2, <1>3, <1>5, <2>1, <3>1
    <3>. QED
      BY <1>2, <1>3, <1>5, <2>1, <3>1, <3>2
  <2>2. CASE a # id /\ b = id
    <3>1. d # id
      BY <1>2, <1>5, <2>2
    <3>. QED
      BY <1>2, <1>3, <1>5, <2>2, <3>1
  <2>3. CASE a # id /\ b # id /\ d = id
    BY <1>2, <1>3, <1>5, <2>3
  <2>4. CASE a # id /\ b # id /\ d # id
    BY <1>2, <1>3, <1>5, <2>4
  <2>. QED
    BY <2>1, <2>2, <2>3, <2>4
<1>6. ASSUME NEW a \in ids, NEW b \in ids, a # b
      PROVE  <<a, b>> \in P \/ <<b, a>> \in P
  BY <1>2, <1>3, <1>6
<1>7. StrictOrder(P, ids)
  BY <1>4, <1>5, <1>6 DEF StrictOrder
<1>8. delta = "earlier" => Place(P, ids, neighbour) = Place(P, ids, id) + 1
  <2> SUFFICES ASSUME delta = "earlier"
               PROVE  Place(P, ids, neighbour) = Place(P, ids, id) + 1
    OBVIOUS
  <2>1. <<id, neighbour>> \in P
    BY <1>2
  <2>2. \A d \in ids : <<d, neighbour>> \in P => d = id \/ <<d, id>> \in P
    BY <1>2
  <2>. QED
    BY <1>7, <2>1, <2>2, PlaceNext
<1>9. delta = "later" => Place(P, ids, id) = Place(P, ids, neighbour) + 1
  <2> SUFFICES ASSUME delta = "later"
               PROVE  Place(P, ids, id) = Place(P, ids, neighbour) + 1
    OBVIOUS
  <2>1. <<neighbour, id>> \in P
    BY <1>2
  <2>2. \A d \in ids : <<d, id>> \in P => d = neighbour \/ <<d, neighbour>> \in P
    BY <1>2, <1>4
  <2>. QED
    BY <1>7, <2>1, <2>2, PlaceNext
<1>. QED
  BY <1>1, <1>2, <1>7, <1>8, <1>9 DEF P

\* The sequence a tile is in.
SequenceOf(t, owner, tile) ==
  IF tile.at[1] = "related" THEN RelatedOf(t, owner) ELSE MembersOf(t, tile.bundle)

LEMMA SequenceType ==
  ASSUME NEW t, NEW n \in Nat, TablesOK(t, n), NEW owner,
         NEW tile, tile.at[1] \in {"related", "member"}
  PROVE  LET ids == SequenceOf(t, owner, tile)
         IN  /\ ids \in SUBSET Nat /\ IsFiniteSet(ids)
             /\ ids \subseteq DOMAIN t[tile.at[1]]
             /\ \A k \in ids : t[tile.at[1]][k].order \in Nat
<1> DEFINE ids == SequenceOf(t, owner, tile)
<1>1. ids \subseteq DOMAIN t[tile.at[1]]
  BY DEF SequenceOf, RelatedOf, MembersOf
<1>. HIDE DEF ids
<1>2. tile.at[1] \in Tables
  BY DEF Tables
<1>3. /\ DOMAIN t[tile.at[1]] \subseteq 1..(n - 1)
      /\ \A k \in DOMAIN t[tile.at[1]] : RowOK(tile.at[1], t[tile.at[1]][k], n)
  BY <1>2 DEF TablesOK
<1>4. \A k \in ids : t[tile.at[1]][k].order \in Nat
  BY <1>1, <1>3 DEF RowOK
<1>5. ids \in SUBSET Nat /\ \A k \in ids : k <= n
  BY <1>1, <1>3
<1>6. IsFiniteSet(ids)
  BY <1>5, Finite
<1>. QED
  BY <1>1, <1>4, <1>5, <1>6 DEF ids

LEMMA MoveTileSound ==
  ASSUME NEW f, FilmOK(f), NEW owner, NEW tile, NEW neighbour, NEW delta,
         tile.at[1] \in {"related", "member"}
  PROVE  Sound(f, MoveTile(f, owner, tile, neighbour, delta))
<1> DEFINE table == tile.at[1]
           ids   == SequenceOf(f.t, owner, tile)
           P     == Past(ByOrder(f.t[table], ids), ids, tile.at[2], neighbour.at[2],
                         delta)
           place == Places(P, ids)
           was   == [k \in ids |-> f.t[table][k].order]
           c     == MoveTile(f, owner, tile, neighbour, delta)
<1>1. c = Begin(f) \/ c = Renumber(Begin(f), table, place, was)
  BY DEF MoveTile, SequenceOf
<1>2. f.next \in Nat /\ TablesOK(f.t, f.next)
  BY DEF FilmOK
<1>3. IsFiniteSet(ids)
  BY <1>2, SequenceType
<1>. HIDE DEF ids, P, was, c
<1>4. \A k \in DOMAIN place : place[k] \in Nat
  BY <1>3, PlaceType DEF Places
<1>. HIDE DEF place
<1>5. Sound(f, Renumber(Begin(f), table, place, was))
  BY <1>4, RenumberSound
<1>. QED
  BY <1>1, <1>5, BeginSound DEF c

\* A move takes the tile past its neighbour, and leaves the rest in order.
LEMMA MoveTileOrder ==
  ASSUME NEW f, FilmOK(f), NEW owner, NEW tile, NEW neighbour,
         NEW delta \in {"earlier", "later"},
         tile.at[1] \in {"related", "member"}, tile.at[2] # neighbour.at[2]
  PROVE  LET u == MoveTile(f, owner, tile, neighbour, delta).t
             ids(t)   == SequenceOf(t, owner, tile)
             order(t) == ByOrder(t[tile.at[1]], ids(t))
             rest(t)  == {p \in order(t) : tile.at[2] \notin {p[1], p[2]}}
             place(k) == Place(order(u), ids(u), k)
         IN  /\ ids(u) = ids(f.t)
             /\ rest(u) = rest(f.t)
             /\ {tile.at[2], neighbour.at[2]} \subseteq ids(f.t) =>
                  place(tile.at[2])
                    = place(neighbour.at[2]) + (IF delta = "earlier" THEN -1 ELSE 1)
<1> DEFINE table == tile.at[1]
           id    == tile.at[2]
           next  == neighbour.at[2]
           ids   == SequenceOf(f.t, owner, tile)
           R     == ByOrder(f.t[table], ids)
           P     == Past(R, ids, id, next, delta)
           place == Places(P, ids)
           was   == [k \in ids |-> f.t[table][k].order]
           b     == Begin(f)
           c     == MoveTile(f, owner, tile, neighbour, delta)
           new   == ByOrder(c.t[table], SequenceOf(c.t, owner, tile))
<1>1. f.next \in Nat /\ TablesOK(f.t, f.next) /\ b.t = f.t
  BY RecordedBegin DEF FilmOK
<1>2. /\ ids \in SUBSET Nat /\ IsFiniteSet(ids) /\ ids \subseteq DOMAIN f.t[table]
      /\ \A k \in ids : f.t[table][k].order \in Nat
  BY <1>1, SequenceType
<1>3. CASE ~({id, next} \subseteq ids)
  <2>1. c = b
    BY <1>3 DEF MoveTile, SequenceOf
  <2>2. c.t = f.t
    BY <1>1, <2>1
  <2>. HIDE DEF c
  <2>. QED
    BY <1>3, <2>2 DEF c
<1>4. CASE {id, next} \subseteq ids
  <2>1. c = Renumber(b, table, place, was)
    BY <1>1, <1>4 DEF MoveTile, SequenceOf
  <2>2. \A a, d : <<a, d>> \in R => a \in ids /\ d \in ids
    BY DEF ByOrder
  <2>. HIDE DEF ids, b, c
  <2>3. StrictOrder(R, ids)
    BY <1>2, StoredOrder
  <2>. HIDE DEF R
  <2>4. /\ P \subseteq ids \X ids
        /\ StrictOrder(P, ids)
        /\ \A k, d \in ids \ {id} : <<k, d>> \in P <=> <<k, d>> \in R
        /\ delta = "earlier" => Place(P, ids, next) = Place(P, ids, id) + 1
        /\ delta = "later" => Place(P, ids, id) = Place(P, ids, next) + 1
    BY <1>2, <1>4, <2>3, PastOrder
  <2>. HIDE DEF P
  <2>5. DOMAIN place = ids /\ \A k \in ids : place[k] = Place(P, ids, k)
    BY DEF Places
  <2>6. \A k \in ids : place[k] \in Nat \ {0}
    BY <1>2, <2>5, PlaceType
  <2>7. ASSUME NEW k \in ids, NEW d \in ids
        PROVE  /\ place[k] < place[d] <=> <<k, d>> \in P
               /\ place[k] = place[d] => k = d
    <3>1. /\ Place(P, ids, k) < Place(P, ids, d) <=> <<k, d>> \in P
          /\ Place(P, ids, k) = Place(P, ids, d) => k = d
      BY <1>2, <2>4, PlaceOrder
    <3>. QED
      BY <2>5, <3>1
  <2>8. \A k \in ids : was[k] = f.t[table][k].order
    OBVIOUS
  <2>. HIDE DEF place, was
  <2>9. Renumbered(b, c, table, place, was)
    BY <2>1, <2>5, <2>6, RenumberSound DEF b
  <2>10. /\ DOMAIN c.t[table] = DOMAIN f.t[table]
         /\ \A k \in DOMAIN f.t[table] \ ids : c.t[table][k] = f.t[table][k]
         /\ \A k \in ids :
              c.t[table][k] = IF was[k] # place[k]
                              THEN [f.t[table][k] EXCEPT !.order = place[k]]
                              ELSE f.t[table][k]
    BY <1>1, <1>2, <2>5, <2>9 DEF Renumbered
  <2>11. ASSUME NEW k \in ids
         PROVE  /\ c.t[table][k].order = place[k]
                /\ table = "related" => c.t[table][k].owner = f.t[table][k].owner
                /\ table = "member" => c.t[table][k].bundle = f.t[table][k].bundle
    <3>1. k \in DOMAIN f.t[table] /\ table \in Tables
      BY <1>2 DEF Tables
    <3>2. RowOK(table, f.t[table][k], f.next)
      BY <1>1, <3>1 DEF TablesOK
    <3>3. CASE was[k] # place[k]
      <4>1. c.t[table][k] = [f.t[table][k] EXCEPT !.order = place[k]]
        BY <2>10, <3>3
      <4>. QED
        BY <3>2, <4>1 DEF RowOK
    <3>4. CASE was[k] = place[k]
      <4>1. c.t[table][k] = f.t[table][k]
        BY <2>10, <3>4
      <4>. QED
        BY <2>8, <3>4, <4>1
    <3>. QED
      BY <3>3, <3>4
  <2>12. SequenceOf(c.t, owner, tile) = ids
    <3>1. ids = SequenceOf(f.t, owner, tile)
      BY DEF ids
    <3>2. CASE table = "related"
      <4>1. DOMAIN c.t.related = DOMAIN f.t.related
            /\ \A k \in DOMAIN f.t.related :
                 c.t.related[k].owner = f.t.related[k].owner
        BY <2>10, <2>11, <3>2
      <4>2. RelatedOf(c.t, owner) = RelatedOf(f.t, owner)
        BY <4>1 DEF RelatedOf
      <4>. QED
        BY <3>1, <3>2, <4>2 DEF SequenceOf
    <3>3. CASE table = "member"
      <4>1. DOMAIN c.t.member = DOMAIN f.t.member
            /\ \A k \in DOMAIN f.t.member :
                 c.t.member[k].bundle = f.t.member[k].bundle
        BY <2>10, <2>11, <3>3
      <4>2. MembersOf(c.t, tile.bundle) = MembersOf(f.t, tile.bundle)
        BY <4>1 DEF MembersOf
      <4>. QED
        BY <3>1, <3>3, <4>2 DEF SequenceOf
    <3>. QED
      BY <3>2, <3>3
  <2>13. new = P
    <3>1. new = ByOrder(c.t[table], ids)
      BY <2>12
    <3>2. ASSUME NEW k \in ids, NEW d \in ids
          PROVE  <<k, d>> \in ByOrder(c.t[table], ids) <=> <<k, d>> \in P
      <4>1. <<k, d>> \in ByOrder(c.t[table], ids) <=>
              \/ place[k] # 0 /\ (place[d] = 0 \/ place[k] < place[d])
              \/ place[k] = place[d] /\ k < d
        BY <2>11 DEF ByOrder, None
      <4>2. place[k] \in Nat \ {0} /\ place[d] \in Nat \ {0} /\ k \in Nat /\ d \in Nat
        BY <1>2, <2>6
      <4>. QED
        BY <2>7, <4>1, <4>2
    <3>3. ByOrder(c.t[table], ids) \subseteq ids \X ids
      BY DEF ByOrder
    <3>. QED
      BY <2>4, <3>1, <3>2, <3>3
  <2>14. {p \in new : id \notin {p[1], p[2]}} = {p \in R : id \notin {p[1], p[2]}}
    <3>1. R \subseteq ids \X ids
      BY DEF R, ByOrder
    <3>2. ASSUME NEW p \in ids \X ids, id \notin {p[1], p[2]}
          PROVE  p \in P <=> p \in R
      BY <2>4, <3>2
    <3>. QED
      BY <2>4, <2>13, <3>1, <3>2
  <2>15. Place(new, ids, id)
           = Place(new, ids, next) + (IF delta = "earlier" THEN -1 ELSE 1)
    <3>1. Place(P, ids, id) \in Nat /\ Place(P, ids, next) \in Nat
      BY <1>2, <1>4, PlaceType
    <3>. QED
      BY <2>4, <2>13, <3>1
  <2>. QED
    BY <2>12, <2>14, <2>15 DEF c, ids, R
<1>. QED
  BY <1>3, <1>4

\* A strip as a window read it.
StripOK(strip) ==
  /\ Cardinality(DOMAIN strip.place) \in Nat
  /\ \A k \in DOMAIN strip.place : strip.place[k] \in Nat

LEMMA TilesType ==
  ASSUME NEW t, NEW n \in Nat, TablesOK(t, n), NEW owner
  PROVE  LET ids == TilesOf(t, owner)
         IN  /\ ids \subseteq DOMAIN t.related
             /\ IsFiniteSet(ids) /\ StripOK(Strip(t, ids))
             /\ DOMAIN Strip(t, ids).place = ids
<1> DEFINE ids == TilesOf(t, owner)
           place == Places(ByOrder(t.related, ids), ids)
<1>1. ids \subseteq DOMAIN t.related /\ DOMAIN t.related \subseteq 1..(n - 1)
  BY DEF TilesOf, RelatedOf, TablesOK, Tables
<1>2. ids \in SUBSET Nat /\ \A k \in ids : k <= n
  BY <1>1
<1>3. Strip(t, ids).place = place
  BY DEF Strip
<1>. HIDE DEF ids
<1>4. IsFiniteSet(ids) /\ Cardinality(ids) \in Nat
  BY <1>2, Finite
<1>5. DOMAIN place = ids /\ \A k \in ids : place[k] \in Nat
  BY <1>4, PlaceType DEF Places
<1>. HIDE DEF place
<1>. QED
  BY <1>1, <1>3, <1>4, <1>5 DEF StripOK, ids

LEMMA MoveMediaSound ==
  ASSUME NEW f, FilmOK(f), NEW strip, StripOK(strip),
         NEW id \in DOMAIN strip.place, NEW delta
  PROVE  Sound(f, MoveMedia(f, strip, id, delta))
<1> DEFINE at == strip.place[id]
           to == IF delta = "earlier" THEN at - 1 ELSE at + 1
           place == Swapped(strip.place, id, to)
<1>1. CASE to \notin 1..Cardinality(DOMAIN strip.place)
  BY <1>1, BeginSound DEF MoveMedia
<1>2. CASE to \in 1..Cardinality(DOMAIN strip.place)
  <2>1. MoveMedia(f, strip, id, delta)
          = Renumber(Begin(f), "related", place, strip.order)
    BY <1>2 DEF MoveMedia
  <2>2. to \in Nat
    BY <1>2 DEF StripOK
  <2>. HIDE DEF to
  <2>3. \A k \in DOMAIN place : place[k] \in Nat
    BY <2>2 DEF Swapped, StripOK
  <2>. HIDE DEF place
  <2>. QED
    BY <2>1, <2>3, RenumberSound
<1>. QED
  BY <1>1, <1>2

LEMMA SetPosterSound ==
  ASSUME NEW f, FilmOK(f), NEW project, NEW asset
  PROVE  Sound(f, SetPoster(f, project, asset))
<1> DEFINE posters(t) == {r \in TilesOf(t, project) : /\ t.related[r].asset = asset
                                                      /\ t.related[r].type = "poster"}
           b == Begin(f)
           row == [owner |-> project, asset |-> asset, type |-> "poster", order |-> None]
           with == IF posters(f.t) # {} THEN b ELSE InsertRow(b, "related", row)
           strip == Strip(with.t, TilesOf(with.t, project))
           chosen == CHOOSE r \in posters(with.t) :
                       \A k \in posters(with.t) : strip.place[r] <= strip.place[k]
           place == [k \in DOMAIN strip.place |->
                       IF k = chosen THEN 1
                       ELSE IF strip.place[k] < strip.place[chosen]
                            THEN strip.place[k] + 1 ELSE strip.place[k]]
           c == Renumber(with, "related", place, strip.order)
<1>1. c = SetPoster(f, project, asset)
  BY DEF SetPoster
<1>2. Recorded(f, b)
  BY RecordedBegin
<1>3. RowOK("related", row, b.next + 1) /\ "related" \in Tables
  BY DEF RowOK, Tables, None
<1>. HIDE DEF b, row
<1>4. Recorded(f, with) /\ Leaves(b, with, {"related"})
  <2>1. CASE with = b
    BY <1>2, <2>1 DEF Leaves
  <2>2. CASE with = InsertRow(b, "related", row)
    <3>1. RowAdded(b, InsertRow(b, "related", row), "related", row)
          /\ Recorded(f, InsertRow(b, "related", row))
      BY <1>2, <1>3, RecordedInsertRow
    <3>. QED
      BY <2>2, <3>1 DEF RowAdded
  <2>. QED
    BY <2>1, <2>2
<1>. HIDE DEF with
<1>5. StripOK(strip)
  <2>1. TablesOK(with.t, with.next) /\ with.next \in Nat
    BY <1>4 DEF Recorded
  <2>. QED
    BY <2>1, TilesType
<1>. HIDE DEF strip, chosen
<1>6. \A k \in DOMAIN place : place[k] \in Nat
  BY <1>5 DEF StripOK
<1>. HIDE DEF place
<1>7. Recorded(f, c) /\ Renumbered(with, c, "related", place, strip.order)
  BY <1>4, <1>6, RecordedRenumber
<1>. HIDE DEF c
<1>8. Leaves(b, c, {"related"})
  BY <1>4, <1>7 DEF Renumbered, Leaves
<1>9. Sound(f, c)
  BY <1>7, <1>8, SoundElsewhere DEF b
<1>. QED
  BY <1>1, <1>9

-----------------------------------------------------------------------------
(* The calls under way                                                      *)

LEMMA QueueAppend ==
  ASSUME NEW q, Listing(q), q = [i \in 1..Len(q) |-> q[i]], NEW x
  PROVE  LET u == Append(q, x)
         IN  /\ Listing(u) /\ u = [i \in 1..Len(u) |-> u[i]]
             /\ Len(u) = Len(q) + 1
             /\ u[Len(u)] = x
             /\ \A i \in 1..Len(q) : u[i] = q[i]
<1> DEFINE S == {q[i] : i \in 1..Len(q)} \cup {x}
           u == Append(q, x)
<1>1. q \in Seq(S)
  <2>1. q \in [1..Len(q) -> S]
    OBVIOUS
  <2>. QED
    BY <2>1, SeqDef DEF Listing
<1>2. /\ u \in Seq(S) /\ Len(u) = Len(q) + 1 /\ u[Len(u)] = x
      /\ \A i \in 1..Len(q) : u[i] = q[i]
  BY <1>1
<1>. HIDE DEF u, S
<1>3. Len(u) \in Nat /\ u \in [1..Len(u) -> S] /\ DOMAIN u = 1..Len(u)
  BY <1>2, LenProperties
<1>. QED
  BY <1>2, <1>3 DEF Listing, u

LEMMA QueueTail ==
  ASSUME NEW q, Listing(q), q = [i \in 1..Len(q) |-> q[i]], q # <<>>
  PROVE  LET u == Tail(q)
         IN  /\ Listing(u) /\ u = [i \in 1..Len(u) |-> u[i]]
             /\ Len(u) = Len(q) - 1
             /\ \A i \in 1..Len(u) : i + 1 \in 1..Len(q) /\ u[i] = q[i + 1]
             /\ 1 \in 1..Len(q)
<1> DEFINE S == {q[i] : i \in 1..Len(q)}
           u == Tail(q)
<1>1. q \in Seq(S)
  <2>1. q \in [1..Len(q) -> S]
    OBVIOUS
  <2>. QED
    BY <2>1, SeqDef DEF Listing
<1>2. /\ u \in Seq(S) /\ Len(u) = Len(q) - 1 /\ Len(q) > 0
      /\ \A i \in 1..Len(u) : u[i] = q[i + 1]
  BY <1>1
<1>. HIDE DEF u, S
<1>3. Len(u) \in Nat /\ u \in [1..Len(u) -> S] /\ DOMAIN u = 1..Len(u)
  BY <1>2, LenProperties
<1>4. Len(q) \in Nat
  BY DEF Listing
<1>5. \A i \in 1..Len(u) : i + 1 \in 1..Len(q)
  BY <1>2, <1>3, <1>4
<1>6. u = [i \in 1..Len(u) |-> u[i]]
  BY <1>3
<1>7. 1 \in 1..Len(q)
  BY <1>2, <1>4
<1>. QED
  BY <1>2, <1>3, <1>5, <1>6, <1>7 DEF Listing, u

\* P holds the ids of the baselines of the tables t.
PureIn(t, P) == \A k \in DOMAIN t.binding : IsPure(t.binding[k]) <=> k \in P

\* A change that can be undone, and whose old rows say what the film says of
\* them but for their content.
ChangeOK(change, next, P) ==
  /\ TablesOK(change.was, next)
  /\ PureIn(change.was, P)
  /\ ApplyUndoChange(change.to, change) = change.from

\* What a call holds of what its panel showed.
CallOK(call, next, P) ==
  /\ call.do = "attach" =>
       /\ Listing(call.assets)
       /\ call.to = None \/ call.to \in 1..(next - 1)
  /\ call.do \in {"attach", "register"} => call.shared \in Sharings
  /\ call.do \in {"detach", "repurpose"} =>
       call.tile.at[1] \in {"anchor", "related", "member"}
  /\ call.do = "moveTile" =>
       /\ call.tile.at[1] \in {"related", "member"}
       /\ call.tile.at[2] # call.neighbour.at[2]
       /\ call.delta \in {"earlier", "later"}
  /\ call.do = "updateException" =>
       /\ call.binding \in Nat /\ call.binding < next /\ call.binding \notin P
       /\ call.when # None
  /\ call.do = "moveException" => call.up \in BOOLEAN
  /\ call.do = "moveMedia" =>
       StripOK(call.strip) /\ call.link \in DOMAIN call.strip.place
  /\ call.do = "undo" => ChangeOK(call.change, next, P)

CallsOK(q, next, P) ==
  /\ Listing(q) /\ q = [i \in 1..Len(q) |-> q[i]]
  /\ \A i \in 1..Len(q) : CallOK(q[i], next, P)

\* The baselines stay the baselines, in the film, in what is shown, and in
\* what is kept to be undone, so an exception cannot turn into one.
Marked(P) ==
  /\ PureIn(film.t, P) /\ PureIn(seen, P)
  /\ ChangeOK(last, film.next, P)
  /\ CallsOK(calls, film.next, P)

Inv == TypeOK /\ \E P \in SUBSET Nat : Marked(P)

LEMMA PureAgain ==
  ASSUME NEW n \in Nat, NEW P, NEW Q, \A k \in Nat : k < n => (k \in Q <=> k \in P),
         NEW t, TablesOK(t, n), PureIn(t, P)
  PROVE  PureIn(t, Q)
<1>1. \A k \in DOMAIN t.binding : k \in Nat /\ k < n
  BY BindingTypes
<1>. QED
  BY <1>1 DEF PureIn

LEMMA ChangeAgain ==
  ASSUME NEW n \in Nat, NEW m \in Nat, n <= m, NEW P, NEW Q,
         \A k \in Nat : k < n => (k \in Q <=> k \in P),
         NEW change, ChangeOK(change, n, P)
  PROVE  ChangeOK(change, m, Q)
<1>1. PureIn(change.was, Q) /\ TablesOK(change.was, m)
  BY PureAgain, TablesGrow DEF ChangeOK
<1>. QED
  BY <1>1 DEF ChangeOK

LEMMA CallsAgain ==
  ASSUME NEW n \in Nat, NEW m \in Nat, n <= m, NEW P, NEW Q,
         \A k \in Nat : k < n => (k \in Q <=> k \in P),
         NEW q, CallsOK(q, n, P)
  PROVE  CallsOK(q, m, Q)
<1>1. ASSUME NEW call, CallOK(call, n, P) PROVE CallOK(call, m, Q)
  <2>1. call.do = "undo" => ChangeOK(call.change, m, Q)
    BY <1>1, ChangeAgain DEF CallOK
  <2>. QED
    BY <1>1, <2>1 DEF CallOK
<1>. QED
  BY <1>1 DEF CallsOK

LEMMA CallsAppend ==
  ASSUME NEW q, NEW n, NEW P, CallsOK(q, n, P), NEW call, CallOK(call, n, P)
  PROVE  CallsOK(Append(q, call), n, P) /\ Len(Append(q, call)) = Len(q) + 1
<1> DEFINE u == Append(q, call)
<1>1. /\ Listing(u) /\ u = [i \in 1..Len(u) |-> u[i]]
      /\ Len(u) = Len(q) + 1 /\ u[Len(u)] = call
      /\ \A i \in 1..Len(q) : u[i] = q[i]
  BY QueueAppend DEF CallsOK
<1>2. Len(q) \in Nat
  BY DEF CallsOK, Listing
<1>. HIDE DEF u
<1>3. ASSUME NEW i \in 1..Len(u) PROVE CallOK(u[i], n, P)
  <2>1. CASE i \in 1..Len(q)
    BY <1>1, <2>1 DEF CallsOK
  <2>2. CASE i = Len(u)
    BY <1>1, <2>2
  <2>. QED
    BY <1>1, <1>2, <2>1, <2>2
<1>. QED
  BY <1>1, <1>3 DEF CallsOK, u

LEMMA CallsTail ==
  ASSUME NEW q, NEW n, NEW P, CallsOK(q, n, P), q # <<>>
  PROVE  /\ CallsOK(Tail(q), n, P) /\ CallOK(q[1], n, P)
         /\ Len(Tail(q)) = Len(q) - 1 /\ Len(q) \in Nat
<1> DEFINE u == Tail(q)
<1>1. /\ Listing(u) /\ u = [i \in 1..Len(u) |-> u[i]]
      /\ Len(u) = Len(q) - 1
      /\ \A i \in 1..Len(u) : i + 1 \in 1..Len(q) /\ u[i] = q[i + 1]
      /\ 1 \in 1..Len(q)
  BY QueueTail DEF CallsOK
<1>. HIDE DEF u
<1>2. \A i \in 1..Len(u) : CallOK(u[i], n, P)
  BY <1>1 DEF CallsOK
<1>3. CallOK(q[1], n, P) /\ Len(q) \in Nat
  BY <1>1 DEF CallsOK, Listing
<1>. QED
  BY <1>1, <1>2, <1>3 DEF CallsOK, u

-----------------------------------------------------------------------------
(* Settling a change                                                        *)

\* The change a window keeps is undone to where it began, without the assets
\* that were registered for it.
LEMMA SettledUndo ==
  ASSUME NEW f, NEW c, Recorded(f, c), NEW created,
         \/ created = {}
         \/ c.t["asset"] = f.t["asset"] /\ c.made["asset"] = {} /\ c.was["asset"] = <<>>,
         NEW ch, ch.made = WithCreatedAssets(c, created).made, ch.was = c.was
  PROVE  ApplyUndoChange(c.t, ch) = [f.t EXCEPT !.asset = Without(@, created)]
<1> DEFINE back(table) == PutOver(Without(c.t[table], ch.made[table]), ch.was[table])
           from == [f.t EXCEPT !.asset = Without(@, created)]
<1>1. /\ c = [t |-> c.t, next |-> c.next, made |-> c.made, was |-> c.was]
      /\ c.made = [table \in Tables |-> c.made[table]]
  BY DEF Recorded
<1>2. \A table \in Tables : ch.made[table] = IF table = "asset"
                                             THEN created \cup c.made["asset"]
                                             ELSE c.made[table]
  BY <1>1 DEF WithCreatedAssets
<1>3. /\ f.t = [table \in Tables |-> f.t[table]]
      /\ \A table \in Tables : f.t[table] = [k \in DOMAIN f.t[table] |-> f.t[table][k]]
  BY DEF Recorded, FilmOK, TablesOK
<1>4. \A table \in Tables :
        PutOver(Without(c.t[table], c.made[table]), c.was[table]) = f.t[table]
  <2>1. ApplyUndoChange(c.t, c) = f.t
    BY RecordedUndo
  <2>. QED
    BY <2>1 DEF ApplyUndoChange
<1>5. ASSUME NEW table \in Tables
      PROVE  back(table) = IF table = "asset" THEN Without(f.t["asset"], created)
                           ELSE f.t[table]
  <2>1. CASE table # "asset"
    BY <1>2, <1>4, <2>1
  <2>2. CASE table = "asset" /\ created = {}
    <3>1. ch.made[table] = c.made[table]
      BY <1>2, <2>2
    <3>2. back(table) = f.t["asset"]
      BY <1>4, <2>2, <3>1
    <3>3. Without(f.t["asset"], {}) = f.t["asset"]
      BY <1>3, <2>2 DEF Without
    <3>. QED
      BY <2>2, <3>2, <3>3
  <2>3. CASE /\ table = "asset"
             /\ c.t["asset"] = f.t["asset"] /\ c.made["asset"] = {} /\ c.was["asset"] = <<>>
    <3>1. ch.made[table] = created
      BY <1>2, <2>3
    <3>2. back(table) = PutOver(Without(f.t["asset"], created), <<>>)
      BY <2>3, <3>1
    <3>3. DOMAIN <<>> = {}
      OBVIOUS
    <3>4. PutOver(Without(f.t["asset"], created), <<>>) = Without(f.t["asset"], created)
      BY <3>3 DEF PutOver, Without
    <3>. QED
      BY <2>3, <3>2, <3>4
  <2>. QED
    BY <2>1, <2>2, <2>3
<1>6. from = [table \in Tables |-> IF table = "asset" THEN Without(f.t["asset"], created)
                                   ELSE f.t[table]]
  BY <1>3 DEF Tables
<1>. HIDE DEF from
<1>7. ApplyUndoChange(c.t, ch)
        = [table \in Tables |-> IF table = "asset" THEN Without(f.t["asset"], created)
                                ELSE f.t[table]]
  BY <1>5 DEF ApplyUndoChange
<1>. QED
  BY <1>6, <1>7 DEF from

\* The old rows are rows of the film.
LEMMA KeptRows ==
  ASSUME NEW f, NEW c, Recorded(f, c)
  PROVE  /\ TablesOK(c.was, c.next)
         /\ \A k \in DOMAIN c.was["binding"] :
              k \in DOMAIN f.t["binding"] /\ c.was["binding"][k] = f.t["binding"][k]
<1>1. /\ f.next \in Nat /\ c.next \in Nat /\ f.next <= c.next
      /\ TablesOK(f.t, f.next)
  BY DEF Recorded, FilmOK
<1>2. TablesOK(f.t, c.next)
  BY <1>1, TablesGrow
<1>3. c.was = [table \in Tables |-> [k \in DOMAIN c.was[table] |-> f.t[table][k]]]
  BY DEF Recorded
<1>4. ASSUME NEW table \in Tables
      PROVE  /\ c.was[table] = [k \in DOMAIN c.was[table] |-> c.was[table][k]]
             /\ DOMAIN c.was[table] \subseteq DOMAIN f.t[table]
             /\ \A k \in DOMAIN c.was[table] : c.was[table][k] = f.t[table][k]
  <2>1. c.was[table] = [k \in DOMAIN c.was[table] |-> f.t[table][k]]
    BY <1>3
  <2>2. DOMAIN c.was[table] \subseteq DOMAIN f.t[table]
    BY DEF Recorded
  <2>. QED
    BY <2>1, <2>2
<1>5. c.was = [table \in Tables |-> c.was[table]]
  BY <1>3
<1>6. TablesOK(c.was, c.next)
  BY <1>2, <1>4, <1>5 DEF TablesOK
<1>7. "binding" \in Tables
  BY DEF Tables
<1>. QED
  BY <1>4, <1>6, <1>7

\* The baselines once a change was made.
LEMMA MarkedOn ==
  ASSUME NEW f, NEW c, Sound(f, c), NEW P \in SUBSET Nat, PureIn(f.t, P)
  PROVE  \E Q \in SUBSET Nat :
           /\ \A k \in Nat : k < f.next => (k \in Q <=> k \in P)
           /\ PureIn(c.t, Q) /\ PureIn(c.was, Q)
<1>1. /\ f.next \in Nat /\ c.next \in Nat /\ TablesOK(f.t, f.next)
      /\ TablesOK(c.t, c.next) /\ Recorded(f, c)
  BY DEF Sound, Recorded, FilmOK
<1> DEFINE Q == {k \in Nat : IF k < f.next THEN k \in P
                             ELSE k \in DOMAIN c.t.binding /\ IsPure(c.t.binding[k])}
<1>2. \A k \in Nat : k < f.next => (k \in Q <=> k \in P)
  OBVIOUS
<1>3. PureIn(c.t, Q)
  <2>1. \A k \in DOMAIN c.t.binding : k \in Nat
    BY <1>1, BindingTypes
  <2>2. ASSUME NEW k \in DOMAIN c.t.binding, k < f.next
        PROVE  IsPure(c.t.binding[k]) <=> k \in P
    BY <1>1, <2>1, <2>2 DEF Sound, SamePure, PureIn
  <2>. QED
    BY <1>1, <2>1, <2>2 DEF PureIn
<1>4. PureIn(c.was, Q)
  <2>1. \A k \in DOMAIN c.was["binding"] :
          k \in DOMAIN f.t["binding"] /\ c.was["binding"][k] = f.t["binding"][k]
    BY <1>1, KeptRows
  <2>2. \A k \in DOMAIN f.t["binding"] : k \in Nat /\ k < f.next
    BY <1>1, BindingTypes
  <2>. HIDE DEF Q
  <2>. QED
    BY <1>2, <2>1, <2>2 DEF PureIn
<1>5. Q \in SUBSET Nat
  OBVIOUS
<1>. HIDE DEF Q
<1>. QED
  BY <1>2, <1>3, <1>4, <1>5

LEMMA SettleKeeps ==
  ASSUME FilmOK(film), NEW P \in SUBSET Nat, PureIn(film.t, P),
         ChangeOK(last, film.next, P),
         NEW change, Sound(film, change), NEW created,
         \/ created = {}
         \/ /\ change.t["asset"] = film.t["asset"]
            /\ change.made["asset"] = {} /\ change.was["asset"] = <<>>,
         Settle(change, created)
  PROVE  /\ FilmOK(film') /\ film.next <= film'.next
         /\ \E Q \in SUBSET Nat :
              /\ \A k \in Nat : k < film.next => (k \in Q <=> k \in P)
              /\ PureIn(film'.t, Q) /\ ChangeOK(last', film'.next, Q)
<1> DEFINE whole == WithCreatedAssets(change, created)
           from  == [film.t EXCEPT !.asset = Without(@, created)]
           ch    == [made |-> whole.made, was |-> change.was,
                     from |-> from, to |-> change.t]
<1>1. film' = [t |-> change.t, next |-> change.next] /\ last' \in {last, ch}
  BY DEF Settle
<1>2. /\ Recorded(film, change) /\ film.next \in Nat /\ change.next \in Nat \ {0}
      /\ film.next <= change.next /\ TablesOK(change.t, change.next)
  BY DEF Sound, Recorded, FilmOK
<1>3. FilmOK(film') /\ film'.next = change.next /\ film'.t = change.t
  BY <1>1, <1>2 DEF FilmOK
<1>4. PICK Q \in SUBSET Nat :
        /\ \A k \in Nat : k < film.next => (k \in Q <=> k \in P)
        /\ PureIn(change.t, Q) /\ PureIn(change.was, Q)
  BY MarkedOn
<1>5. ChangeOK(last, change.next, Q)
  BY <1>2, <1>4, ChangeAgain
<1>6. ch.made = whole.made /\ ch.was = change.was /\ ch.from = from /\ ch.to = change.t
  OBVIOUS
<1>. HIDE DEF ch
<1>7. ApplyUndoChange(change.t, ch) = from
  BY <1>2, <1>6, SettledUndo
<1>. HIDE DEF from, whole
<1>8. ChangeOK(ch, change.next, Q)
  BY <1>2, <1>4, <1>6, <1>7, KeptRows DEF ChangeOK
<1>9. ChangeOK(last', film'.next, Q)
  BY <1>1, <1>3, <1>5, <1>8
<1>. QED
  BY <1>2, <1>3, <1>4, <1>9

-----------------------------------------------------------------------------
(* The invariant                                                            *)

LEMMA NoChangeOK ==
  ASSUME NEW n \in Nat, NEW P
  PROVE  ChangeOK(NoChange, n, P)
<1>1. DOMAIN <<>> = {}
  OBVIOUS
<1>2. /\ NoChange.was = NoTables /\ NoChange.to = NoTables /\ NoChange.from = NoTables
      /\ NoChange.made = NoRows
  BY DEF NoChange
<1>3. /\ NoTables = [table \in Tables |-> NoTables[table]]
      /\ \A table \in Tables : NoTables[table] = <<>> /\ NoRows[table] = {}
  BY DEF NoTables, NoRows
<1>4. <<>> = [k \in {} |-> <<>>[k]]
  OBVIOUS
<1>5. TablesOK(NoTables, n)
  <2>1. \A table \in Tables : NoTables[table] = [k \in DOMAIN NoTables[table] |->
                                                   NoTables[table][k]]
    BY <1>1, <1>3, <1>4
  <2>2. \A table \in Tables : DOMAIN NoTables[table] = {}
    BY <1>1, <1>3
  <2>. QED
    BY <1>3, <2>1, <2>2 DEF TablesOK
<1>6. PureIn(NoTables, P)
  <2>1. DOMAIN NoTables["binding"] = {}
    BY <1>1, <1>3 DEF Tables
  <2>. QED
    BY <2>1 DEF PureIn
<1>7. ApplyUndoChange(NoTables, NoChange) = NoTables
  <2>1. PutOver(Without(<<>>, {}), <<>>) = <<>>
    <3> DEFINE u == PutOver(Without(<<>>, {}), <<>>)
    <3>1. u = [k \in {} |-> u[k]]
      BY <1>1 DEF PutOver, Without
    <3>. QED
      BY <1>4, <3>1
  <2>. QED
    BY <1>2, <1>3, <2>1 DEF ApplyUndoChange
<1>. QED
  BY <1>2, <1>5, <1>6, <1>7 DEF ChangeOK

LEMMA InitInv ==
  Init => Inv
<1> SUFFICES ASSUME Init PROVE Inv
  OBVIOUS
<1>1. FilmOK(film) /\ film.next \in Nat /\ seen = film.t /\ last = NoChange
      /\ TablesOK(film.t, film.next)
  BY FirstFilmAssumption DEF Init, FilmOK
<1> DEFINE P == {b \in Nat : b \in DOMAIN film.t.binding /\ IsPure(film.t.binding[b])}
<1>2. PureIn(film.t, P)
  BY <1>1, BindingTypes DEF PureIn
<1>3. P \in SUBSET Nat
  OBVIOUS
<1>. HIDE DEF P
<1>4. ChangeOK(last, film.next, P)
  BY <1>1, NoChangeOK
<1>5. CallsOK(calls, film.next, P) /\ Len(calls) = 0
  BY DEF Init, CallsOK, Listing
<1>6. TypeOK
  <2>1. TablesOK(last.was, film.next)
    BY <1>4 DEF ChangeOK
  <2>2. asks \in 0..MaxAsks /\ Len(calls) <= MaxQueue
    BY <1>5, BoundsAssumption DEF Init
  <2>. QED
    BY <1>1, <2>1, <2>2 DEF TypeOK
<1>7. Marked(P)
  BY <1>1, <1>2, <1>4, <1>5 DEF Marked
<1>. QED
  BY <1>3, <1>6, <1>7 DEF Inv

\* A panel's call is well-formed when it is queued.
LEMMA AskKeeps ==
  ASSUME Inv, NEW P \in SUBSET Nat, Marked(P),
         NEW call, CallOK(call, film.next, P), Len(calls) < MaxQueue,
         calls' = Append(calls, call), asks' \in 0..MaxAsks,
         UNCHANGED <<film, seen, last>>
  PROVE  Inv'
<1>1. CallsOK(calls', film.next, P) /\ Len(calls') = Len(calls) + 1
      /\ Len(calls) \in Nat
  BY CallsAppend DEF Marked, CallsOK, Listing
<1>2. Marked(P)'
  BY <1>1 DEF Marked
<1>3. TypeOK'
  BY <1>1, BoundsAssumption DEF Inv, TypeOK
<1>. QED
  BY <1>2, <1>3 DEF Inv

\* The host runs the call at the head.
LEMMA SettleInv ==
  ASSUME Inv, NEW P \in SUBSET Nat, Marked(P),
         NEW change, Sound(film, change), NEW created,
         \/ created = {}
         \/ /\ change.t["asset"] = film.t["asset"]
            /\ change.made["asset"] = {} /\ change.was["asset"] = <<>>,
         Settle(change, created), calls # <<>>, calls' = Tail(calls),
         UNCHANGED <<seen, asks>>
  PROVE  Inv'
<1>1. /\ FilmOK(film) /\ TablesOK(seen, film.next) /\ PureIn(film.t, P)
      /\ ChangeOK(last, film.next, P) /\ CallsOK(calls, film.next, P)
      /\ PureIn(seen, P)
  BY DEF Inv, TypeOK, Marked
<1>2. FilmOK(film') /\ film.next <= film'.next
  BY <1>1, SettleKeeps
<1>3. PICK Q \in SUBSET Nat :
        /\ \A k \in Nat : k < film.next => (k \in Q <=> k \in P)
        /\ PureIn(film'.t, Q) /\ ChangeOK(last', film'.next, Q)
  BY <1>1, SettleKeeps
<1>4. film.next \in Nat /\ film'.next \in Nat
  BY <1>1, <1>2 DEF FilmOK
<1>5. PureIn(seen', Q) /\ TablesOK(seen', film'.next)
  BY <1>1, <1>2, <1>3, <1>4, PureAgain, TablesGrow
<1>6. CallsOK(calls', film'.next, Q) /\ Len(calls') <= MaxQueue
  <2>1. /\ CallsOK(Tail(calls), film.next, P) /\ Len(Tail(calls)) = Len(calls) - 1
        /\ Len(calls) \in Nat
    BY <1>1, CallsTail
  <2>2. CallsOK(Tail(calls), film'.next, Q)
    BY <1>2, <1>3, <1>4, <2>1, CallsAgain
  <2>. QED
    BY <2>1, <2>2, BoundsAssumption DEF Inv, TypeOK
<1>7. Marked(Q)'
  BY <1>3, <1>5, <1>6 DEF Marked
<1>8. TypeOK'
  BY <1>2, <1>3, <1>5, <1>6 DEF Inv, TypeOK, ChangeOK
<1>. QED
  BY <1>7, <1>8 DEF Inv

LEMMA SkipInv ==
  ASSUME Inv, calls # <<>>, calls' = Tail(calls), UNCHANGED <<film, seen, last, asks>>
  PROVE  Inv'
<1>1. PICK P \in SUBSET Nat : Marked(P)
  BY DEF Inv
<1>2. /\ CallsOK(calls', film.next, P) /\ Len(calls') = Len(calls) - 1
      /\ Len(calls) \in Nat
  BY <1>1, CallsTail DEF Marked
<1>3. Marked(P)'
  BY <1>1, <1>2 DEF Marked
<1>4. TypeOK'
  BY <1>2, BoundsAssumption DEF Inv, TypeOK
<1>. QED
  BY <1>3, <1>4 DEF Inv

-----------------------------------------------------------------------------
(* What the panels ask                                                      *)

LEMMA RefreshInv ==
  ASSUME Inv, Refresh
  PROVE  Inv'
<1>1. PICK P \in SUBSET Nat : Marked(P)
  BY DEF Inv
<1>2. TypeOK'
  BY DEF Inv, TypeOK, FilmOK, Refresh
<1>3. Marked(P)'
  BY <1>1 DEF Marked, Refresh
<1>. QED
  BY <1>2, <1>3 DEF Inv

LEMMA AskInv ==
  ASSUME Inv, NEW call, Ask(call),
         \A P \in SUBSET Nat : Marked(P) => CallOK(call, film.next, P)
  PROVE  Inv'
<1>1. PICK P \in SUBSET Nat : Marked(P)
  BY DEF Inv
<1>2. /\ Len(calls) < MaxQueue /\ calls' = Append(calls, call)
      /\ UNCHANGED <<film, seen, last>>
  BY DEF Ask
<1>3. asks' \in 0..MaxAsks
  BY BoundsAssumption DEF Inv, TypeOK, Ask
<1>4. CallOK(call, film.next, P)
  BY <1>1
<1>. QED
  BY <1>1, <1>2, <1>3, <1>4, AskKeeps

\* One asset is a sequence.
LEMMA OneListed ==
  ASSUME NEW x
  PROVE  Listing(<<x>>)
BY DEF Listing

LEMMA AskToAttachInv ==
  ASSUME Inv, AskToAttach
  PROVE  Inv'
<1>1. PICK owner \in Subjects \cup Shots, asset \in DOMAIN seen.asset :
        \E purpose \in PurposesOf(owner) : \E shared \in SharingsFor(purpose) :
          Ask([do |-> "attach", owner |-> owner, assets |-> <<asset>>,
               purpose |-> purpose, shared |-> shared, to |-> None,
               created |-> {}])
  BY DEF AskToAttach
<1>2. PICK purpose \in PurposesOf(owner) : \E shared \in SharingsFor(purpose) :
        Ask([do |-> "attach", owner |-> owner, assets |-> <<asset>>,
             purpose |-> purpose, shared |-> shared, to |-> None,
             created |-> {}])
  BY <1>1
<1>3. PICK shared \in SharingsFor(purpose) :
        Ask([do |-> "attach", owner |-> owner, assets |-> <<asset>>,
             purpose |-> purpose, shared |-> shared, to |-> None,
             created |-> {}])
  BY <1>2
<1> DEFINE call == [do |-> "attach", owner |-> owner, assets |-> <<asset>>,
                    purpose |-> purpose, shared |-> shared, to |-> None,
                    created |-> {}]
<1>4. /\ call.do = "attach" /\ call.assets = <<asset>> /\ call.to = None
      /\ call.shared \in Sharings
  BY DEF SharingsFor, Sharings
<1>5. Ask(call)
  BY <1>3
<1>. HIDE DEF call
<1>6. \A P \in SUBSET Nat : CallOK(call, film.next, P)
  BY <1>4, OneListed DEF CallOK
<1>. QED
  BY <1>5, <1>6, AskInv

LEMMA AskToAttachToExceptionInv ==
  ASSUME Inv, AskToAttachToException
  PROVE  Inv'
<1> DEFINE call(owner, asset, b) ==
             [do |-> "attach", owner |-> owner, assets |-> <<asset>>,
              purpose |-> "set", shared |-> "ask",
              to |-> seen.binding[b].bundle, created |-> {}]
<1>1. PICK owner \in Subjects, asset \in DOMAIN seen.asset :
        \E b \in Exceptions(seen, owner) : Ask(call(owner, asset, b))
  BY DEF AskToAttachToException
<1>2. PICK b \in Exceptions(seen, owner) : Ask(call(owner, asset, b))
  BY <1>1
<1>3. seen.binding[b].bundle \in 1..(film.next - 1)
  <2>1. TablesOK(seen, film.next) /\ b \in DOMAIN seen.binding
    BY DEF Inv, TypeOK, Exceptions, BindingsOf
  <2>. QED
    BY <2>1 DEF TablesOK, RowOK, Tables
<1>4. \A P \in SUBSET Nat : CallOK(call(owner, asset, b), film.next, P)
  BY <1>3, OneListed DEF CallOK, Sharings
<1>. HIDE DEF call
<1>. QED
  BY <1>2, <1>4, AskInv

LEMMA AskToDropInv ==
  ASSUME Inv, AskToDrop
  PROVE  Inv'
<1>1. PICK owner \in Subjects \cup Shots, file \in Files :
        \E purpose \in PurposesOf(owner) : \E shared \in SharingsFor(purpose) :
          Ask([do |-> "register", owner |-> owner, file |-> file,
               purpose |-> purpose, shared |-> shared])
  BY DEF AskToDrop
<1>2. PICK purpose \in PurposesOf(owner) : \E shared \in SharingsFor(purpose) :
        Ask([do |-> "register", owner |-> owner, file |-> file,
             purpose |-> purpose, shared |-> shared])
  BY <1>1
<1>3. PICK shared \in SharingsFor(purpose) :
        Ask([do |-> "register", owner |-> owner, file |-> file,
             purpose |-> purpose, shared |-> shared])
  BY <1>2
<1> DEFINE call == [do |-> "register", owner |-> owner, file |-> file,
                    purpose |-> purpose, shared |-> shared]
<1>4. call.do = "register" /\ Ask(call) /\ call.shared \in Sharings
  BY <1>3 DEF SharingsFor, Sharings
<1>. HIDE DEF call
<1>5. \A P \in SUBSET Nat : CallOK(call, film.next, P)
  BY <1>4 DEF CallOK
<1>. QED
  BY <1>4, <1>5, AskInv

\* The tables a tile may be a row of.
LEMMA TileTables ==
  ASSUME NEW owner, NEW tile \in BoardTiles(owner) \cup ExceptionTiles(owner)
  PROVE  /\ tile = [at |-> <<tile.at[1], tile.at[2]>>, asset |-> tile.asset,
                    bundle |-> tile.bundle]
         /\ tile.at[1] \in {"anchor", "related", "member"}
<1>1. ASSUME NEW table, NEW id, NEW bundle, tile = Tile(table, id, bundle),
             table \in {"anchor", "related", "member"}
      PROVE  /\ tile = [at |-> <<tile.at[1], tile.at[2]>>, asset |-> tile.asset,
                        bundle |-> tile.bundle]
             /\ tile.at[1] \in {"anchor", "related", "member"}
  BY <1>1 DEF Tile
<1>2. ASSUME NEW bundle, tile \in SetTiles(bundle)
      PROVE  \E m : tile = Tile("member", m, bundle)
  BY <1>2 DEF SetTiles
<1>3. \/ \E a : tile = Tile("anchor", a, None)
      \/ \E r : tile = Tile("related", r, None)
      \/ \E bundle : tile \in SetTiles(bundle)
  BY DEF BoardTiles, ExceptionTiles
<1>. QED
  BY <1>1, <1>2, <1>3

LEMMA AskToDetachInv ==
  ASSUME Inv, AskToDetach
  PROVE  Inv'
<1> DEFINE call(tile) == [do |-> "detach", tile |-> tile]
<1>1. PICK owner \in Subjects \cup Shots :
        \E tile \in BoardTiles(owner) \cup ExceptionTiles(owner) : Ask(call(tile))
  BY DEF AskToDetach
<1>2. PICK tile \in BoardTiles(owner) \cup ExceptionTiles(owner) : Ask(call(tile))
  BY <1>1
<1>3. tile.at[1] \in {"anchor", "related", "member"}
  BY TileTables
<1>4. \A P \in SUBSET Nat : CallOK(call(tile), film.next, P)
  BY <1>3 DEF CallOK
<1>. HIDE DEF call
<1>. QED
  BY <1>2, <1>4, AskInv

LEMMA AskToRepurposeInv ==
  ASSUME Inv, AskToRepurpose
  PROVE  Inv'
<1> DEFINE call(owner, tile, purpose) ==
             [do |-> "repurpose", owner |-> owner, tile |-> tile, purpose |-> purpose]
<1>1. PICK owner \in Subjects : \E tile \in BoardTiles(owner) :
        \E purpose \in Purposes \ {PurposeOf(tile)} : Ask(call(owner, tile, purpose))
  BY DEF AskToRepurpose
<1>2. PICK tile \in BoardTiles(owner) :
        \E purpose \in Purposes \ {PurposeOf(tile)} : Ask(call(owner, tile, purpose))
  BY <1>1
<1>3. PICK purpose : Ask(call(owner, tile, purpose))
  BY <1>2
<1>4. tile.at[1] \in {"anchor", "related", "member"}
  BY TileTables
<1>5. \A P \in SUBSET Nat : CallOK(call(owner, tile, purpose), film.next, P)
  BY <1>4 DEF CallOK
<1>. HIDE DEF call
<1>. QED
  BY <1>3, <1>5, AskInv

\* Two tiles of one table are told apart by their rows.
LEMMA AskToMoveTileInv ==
  ASSUME Inv, AskToMoveTile
  PROVE  Inv'
<1> DEFINE call(owner, tile, neighbour, delta) ==
             [do |-> "moveTile", owner |-> owner, tile |-> tile,
              neighbour |-> neighbour, delta |-> delta]
<1>1. PICK owner \in Subjects, delta \in {"earlier", "later"} :
        \E tile, neighbour \in BoardTiles(owner) :
          SameSequence(tile, neighbour) /\ Ask(call(owner, tile, neighbour, delta))
  BY DEF AskToMoveTile
<1>2. PICK tile \in BoardTiles(owner), neighbour \in BoardTiles(owner) :
        SameSequence(tile, neighbour) /\ Ask(call(owner, tile, neighbour, delta))
  BY <1>1
<1>3. tile.at[1] \in {"related", "member"}
  BY <1>2 DEF SameSequence
<1>4. tile.at[2] # neighbour.at[2]
  <2>1. tile.at = <<tile.at[1], tile.at[2]>>
    BY TileTables
  <2>2. neighbour.at = <<neighbour.at[1], neighbour.at[2]>>
    BY TileTables
  <2>. QED
    BY <1>2, <2>1, <2>2 DEF SameSequence
<1>5. \A P \in SUBSET Nat : CallOK(call(owner, tile, neighbour, delta), film.next, P)
  BY <1>3, <1>4 DEF CallOK
<1>. HIDE DEF call
<1>. QED
  BY <1>2, <1>5, AskInv

LEMMA AskToConfirmInv ==
  ASSUME Inv, AskToConfirm
  PROVE  Inv'
<1> DEFINE call(a) == [do |-> "confirm", anchor |-> a]
<1>1. PICK a \in DOMAIN seen.anchor : Ask(call(a))
  BY DEF AskToConfirm
<1>2. \A P \in SUBSET Nat : CallOK(call(a), film.next, P)
  BY DEF CallOK
<1>. HIDE DEF call
<1>. QED
  BY <1>1, <1>2, AskInv

LEMMA AskToAddExceptionInv ==
  ASSUME Inv, AskToAddException
  PROVE  Inv'
<1> DEFINE call(owner, when, replaces) ==
             [do |-> "addException", owner |-> owner, when |-> when,
              replaces |-> replaces]
<1>1. PICK owner \in Subjects, when \in When, replaces \in BOOLEAN :
        Ask(call(owner, when, replaces))
  BY DEF AskToAddException
<1>2. \A P \in SUBSET Nat : CallOK(call(owner, when, replaces), film.next, P)
  BY DEF CallOK
<1>. HIDE DEF call
<1>. QED
  BY <1>1, <1>2, AskInv

\* What the panel shows as an exception is none of the marked.
LEMMA AskOfExceptionInv ==
  ASSUME Inv, AskOfException
  PROVE  Inv'
<1> DEFINE update(b, when) == [do |-> "updateException", binding |-> b, when |-> when]
           move(owner, b, up) == [do |-> "moveException", owner |-> owner,
                                  binding |-> b, up |-> up]
           remove(b) == [do |-> "removeException", binding |-> b]
<1>1. PICK owner \in Subjects : \E b \in Exceptions(seen, owner) :
        \/ \E when \in When \ {seen.binding[b].when} : Ask(update(b, when))
        \/ \E up \in BOOLEAN : Ask(move(owner, b, up))
        \/ Ask(remove(b))
  BY DEF AskOfException
<1>2. PICK b \in Exceptions(seen, owner) :
        \/ \E when \in When \ {seen.binding[b].when} : Ask(update(b, when))
        \/ \E up \in BOOLEAN : Ask(move(owner, b, up))
        \/ Ask(remove(b))
  BY <1>1
<1>3. b \in DOMAIN seen.binding /\ ~IsPure(seen.binding[b])
  BY InExceptions
<1>4. b \in Nat /\ b < film.next
  <2>1. TablesOK(seen, film.next) /\ film.next \in Nat
    BY DEF Inv, TypeOK, FilmOK
  <2>. QED
    BY <1>3, <2>1, BindingTypes
<1>5. CASE \E when \in When \ {seen.binding[b].when} : Ask(update(b, when))
  <2>1. PICK when \in When : Ask(update(b, when))
    BY <1>5
  <2>2. when # None
    BY WhenAssumption
  <2>3. \A P \in SUBSET Nat : Marked(P) => b \notin P
    BY <1>3 DEF Marked, PureIn
  <2>4. \A P \in SUBSET Nat : Marked(P) => CallOK(update(b, when), film.next, P)
    BY <1>4, <2>2, <2>3 DEF CallOK
  <2>. HIDE DEF update
  <2>. QED
    BY <2>1, <2>4, AskInv
<1>6. CASE \E up \in BOOLEAN : Ask(move(owner, b, up))
  <2>1. PICK up \in BOOLEAN : Ask(move(owner, b, up))
    BY <1>6
  <2>2. \A P \in SUBSET Nat : CallOK(move(owner, b, up), film.next, P)
    BY DEF CallOK
  <2>. HIDE DEF move
  <2>. QED
    BY <2>1, <2>2, AskInv
<1>7. CASE Ask(remove(b))
  <2>1. \A P \in SUBSET Nat : CallOK(remove(b), film.next, P)
    BY DEF CallOK
  <2>. HIDE DEF remove
  <2>. QED
    BY <1>7, <2>1, AskInv
<1>. QED
  BY <1>2, <1>5, <1>6, <1>7

LEMMA AskOfStripInv ==
  ASSUME Inv, AskOfStrip
  PROVE  Inv'
<1> DEFINE strip(shot) == Strip(seen, TilesOf(seen, shot))
           set(id, type) == [do |-> "setType", link |-> id, type |-> type]
           move(shot, id, delta) == [do |-> "moveMedia", strip |-> strip(shot),
                                     link |-> id, delta |-> delta]
<1>1. PICK shot \in Shots : \E id \in TilesOf(seen, shot) :
        \/ \E type \in Types \ {seen.related[id].type} : Ask(set(id, type))
        \/ \E delta \in {"earlier", "later"} : Ask(move(shot, id, delta))
  BY DEF AskOfStrip
<1>2. PICK id \in TilesOf(seen, shot) :
        \/ \E type \in Types \ {seen.related[id].type} : Ask(set(id, type))
        \/ \E delta \in {"earlier", "later"} : Ask(move(shot, id, delta))
  BY <1>1
<1>3. StripOK(strip(shot)) /\ id \in DOMAIN strip(shot).place
  <2>1. TablesOK(seen, film.next) /\ film.next \in Nat
    BY DEF Inv, TypeOK, FilmOK
  <2>. QED
    BY <2>1, TilesType
<1>. HIDE DEF strip
<1>4. CASE \E type \in Types \ {seen.related[id].type} : Ask(set(id, type))
  <2>1. PICK type : Ask(set(id, type))
    BY <1>4
  <2>2. \A P \in SUBSET Nat : CallOK(set(id, type), film.next, P)
    BY DEF CallOK
  <2>. HIDE DEF set
  <2>. QED
    BY <2>1, <2>2, AskInv
<1>5. CASE \E delta \in {"earlier", "later"} : Ask(move(shot, id, delta))
  <2>1. PICK delta : Ask(move(shot, id, delta))
    BY <1>5
  <2>2. \A P \in SUBSET Nat : CallOK(move(shot, id, delta), film.next, P)
    BY <1>3 DEF CallOK
  <2>. HIDE DEF move
  <2>. QED
    BY <2>1, <2>2, AskInv
<1>. QED
  BY <1>2, <1>4, <1>5

LEMMA AskForPosterInv ==
  ASSUME Inv, AskForPoster
  PROVE  Inv'
<1> DEFINE call(asset) == [do |-> "setPoster", asset |-> asset]
<1>1. PICK asset \in DOMAIN seen.asset : Ask(call(asset))
  BY DEF AskForPoster
<1>2. \A P \in SUBSET Nat : CallOK(call(asset), film.next, P)
  BY DEF CallOK
<1>. HIDE DEF call
<1>. QED
  BY <1>1, <1>2, AskInv

\* The change an undo takes is the one that is kept.
LEMMA AskToUndoInv ==
  ASSUME Inv, AskToUndo
  PROVE  Inv'
<1> DEFINE call == [do |-> "undo", change |-> last]
<1>1. PICK P \in SUBSET Nat : Marked(P)
  BY DEF Inv
<1>2. CallOK(call, film.next, P)
  BY <1>1 DEF CallOK, Marked
<1>3. /\ Len(calls) < MaxQueue /\ calls' = Append(calls, call)
      /\ UNCHANGED <<film, seen, last, asks>>
  BY DEF AskToUndo
<1>4. asks' \in 0..MaxAsks
  BY <1>3 DEF Inv, TypeOK
<1>. HIDE DEF call
<1>. QED
  BY <1>1, <1>2, <1>3, <1>4, AskKeeps

-----------------------------------------------------------------------------
(* What the host runs                                                       *)

\* The call at the head was refused or made a sound change.
RunSoundly ==
  /\ calls # <<>> /\ calls' = Tail(calls) /\ UNCHANGED <<seen, asks>>
  /\ \/ UNCHANGED <<film, last>>
     \/ \E change, created :
          /\ Sound(film, change)
          /\ \/ created = {}
             \/ /\ change.t["asset"] = film.t["asset"]
                /\ change.made["asset"] = {} /\ change.was["asset"] = <<>>
          /\ Settle(change, created)

LEMMA HeadOK ==
  ASSUME Inv, calls # <<>>
  PROVE  /\ FilmOK(film)
         /\ \E P \in SUBSET Nat : Marked(P) /\ CallOK(calls[1], film.next, P)
<1>1. PICK P \in SUBSET Nat : Marked(P)
  BY DEF Inv
<1>2. CallOK(calls[1], film.next, P)
  BY <1>1, CallsTail DEF Marked
<1>. QED
  BY <1>1, <1>2 DEF Inv, TypeOK

LEMMA RunSoundlyInv ==
  ASSUME Inv, RunSoundly
  PROVE  Inv'
<1>1. PICK P \in SUBSET Nat : Marked(P)
  BY DEF Inv
<1>2. calls # <<>> /\ calls' = Tail(calls) /\ UNCHANGED <<seen, asks>>
  BY DEF RunSoundly
<1>3. CASE UNCHANGED <<film, last>>
  BY <1>2, <1>3, SkipInv
<1>4. CASE \E change, created :
             /\ Sound(film, change)
             /\ \/ created = {}
                \/ /\ change.t["asset"] = film.t["asset"]
                   /\ change.made["asset"] = {} /\ change.was["asset"] = <<>>
             /\ Settle(change, created)
  <2>1. PICK change, created :
             /\ Sound(film, change)
             /\ \/ created = {}
                \/ /\ change.t["asset"] = film.t["asset"]
                   /\ change.made["asset"] = {} /\ change.was["asset"] = <<>>
             /\ Settle(change, created)
    BY <1>4
  <2>. QED
    BY <1>1, <1>2, <2>1, SettleInv
<1>. QED
  BY <1>3, <1>4 DEF RunSoundly

LEMMA AnsweredSoundly ==
  ASSUME calls # <<>>, calls' = Tail(calls), UNCHANGED <<seen, asks>>,
         NEW change, Sound(film, change), Settle(change, {})
  PROVE  RunSoundly
BY DEF RunSoundly

LEMMA RunAttachSound ==
  ASSUME Inv, RunAttach
  PROVE  RunSoundly
<1> DEFINE c == calls[1]
           change == Attach(film, c.owner, c.assets, c.purpose, c.shared, c.to)
<1>1. /\ calls # <<>> /\ c.do = "attach" /\ calls' = Tail(calls)
      /\ UNCHANGED <<seen, asks>>
      /\ UNCHANGED <<film, last>> \/ Settle(change, c.created)
  BY DEF RunAttach, Head1
<1>2. /\ FilmOK(film)
      /\ Listing(c.assets) /\ (c.to = None \/ c.to \in 1..(film.next - 1))
  BY <1>1, HeadOK DEF CallOK
<1>. HIDE DEF c
<1>3. /\ Sound(film, change) /\ change.t["asset"] = film.t["asset"]
      /\ change.made["asset"] = {} /\ change.was["asset"] = <<>>
  BY <1>2, AttachSound
<1>. HIDE DEF change
<1>. QED
  BY <1>1, <1>3 DEF RunSoundly

LEMMA RunDetachSound ==
  ASSUME Inv, RunDetach
  PROVE  RunSoundly
<1>1. /\ calls # <<>> /\ calls[1].do = "detach" /\ calls' = Tail(calls)
      /\ UNCHANGED <<seen, asks>> /\ Settle(Detach(film, calls[1].tile), {})
  BY DEF RunDetach, Answer, Head1
<1>2. FilmOK(film) /\ calls[1].tile.at[1] \in {"anchor", "related", "member"}
  BY <1>1, HeadOK DEF CallOK
<1>. QED
  BY <1>1, <1>2, DetachSound, AnsweredSoundly

LEMMA RunRepurposeSound ==
  ASSUME Inv, RunRepurpose
  PROVE  RunSoundly
<1> DEFINE c == calls[1]
           change == Repurpose(film, c.owner, c.tile, c.purpose, "ask")
<1>1. /\ calls # <<>> /\ c.do = "repurpose" /\ calls' = Tail(calls)
      /\ UNCHANGED <<seen, asks>>
      /\ UNCHANGED <<film, last>> \/ Settle(change, {})
  BY DEF RunRepurpose, Head1
<1>2. FilmOK(film) /\ c.tile.at[1] \in {"anchor", "related", "member"}
  BY <1>1, HeadOK DEF CallOK
<1>. HIDE DEF c
<1>3. Sound(film, change)
  BY <1>2, RepurposeSound
<1>. HIDE DEF change
<1>. QED
  BY <1>1, <1>3 DEF RunSoundly

LEMMA RunMoveTileSound ==
  ASSUME Inv, RunMoveTile
  PROVE  RunSoundly
<1>1. /\ calls # <<>> /\ calls[1].do = "moveTile" /\ calls' = Tail(calls)
      /\ UNCHANGED <<seen, asks>>
      /\ Settle(MoveTile(film, calls[1].owner, calls[1].tile, calls[1].neighbour,
                         calls[1].delta), {})
  BY DEF RunMoveTile, Answer, Head1
<1>2. FilmOK(film) /\ calls[1].tile.at[1] \in {"related", "member"}
  BY <1>1, HeadOK DEF CallOK
<1>. QED
  BY <1>1, <1>2, MoveTileSound, AnsweredSoundly

LEMMA RunConfirmSound ==
  ASSUME Inv, RunConfirm
  PROVE  RunSoundly
<1>1. /\ calls # <<>> /\ calls' = Tail(calls) /\ UNCHANGED <<seen, asks>>
      /\ Settle(ConfirmIdentity(film, calls[1].anchor), {})
  BY DEF RunConfirm, Answer, Head1
<1>. QED
  BY <1>1, HeadOK, ConfirmSound, AnsweredSoundly

LEMMA RunAddExceptionSound ==
  ASSUME Inv, RunAddException
  PROVE  RunSoundly
<1>1. /\ calls # <<>> /\ calls' = Tail(calls) /\ UNCHANGED <<seen, asks>>
      /\ Settle(AddException(film, calls[1].owner, calls[1].when, calls[1].replaces),
                {})
  BY DEF RunAddException, Answer, Head1
<1>. QED
  BY <1>1, HeadOK, AddExceptionSound, AnsweredSoundly

LEMMA RunUpdateExceptionSound ==
  ASSUME Inv, RunUpdateException
  PROVE  RunSoundly
<1> DEFINE b == calls[1].binding
<1>1. /\ calls # <<>> /\ calls[1].do = "updateException" /\ calls' = Tail(calls)
      /\ UNCHANGED <<seen, asks>>
      /\ Settle(UpdateException(film, b, calls[1].when), {})
  BY DEF RunUpdateException, Answer, Head1
<1>2. PICK P \in SUBSET Nat : Marked(P) /\ CallOK(calls[1], film.next, P)
  BY <1>1, HeadOK
<1>3. FilmOK(film) /\ b \notin P /\ calls[1].when # None
  BY <1>1, <1>2, HeadOK DEF CallOK
<1>4. b \in DOMAIN film.t.binding => ~IsPure(film.t.binding[b])
  BY <1>2, <1>3 DEF Marked, PureIn
<1>. HIDE DEF b
<1>. QED
  BY <1>1, <1>3, <1>4, UpdateExceptionSound, AnsweredSoundly

LEMMA RunMoveExceptionSound ==
  ASSUME Inv, RunMoveException
  PROVE  RunSoundly
<1>1. /\ calls # <<>> /\ calls[1].do = "moveException" /\ calls' = Tail(calls)
      /\ UNCHANGED <<seen, asks>>
      /\ Settle(MoveException(film, calls[1].owner, calls[1].binding, calls[1].up), {})
  BY DEF RunMoveException, Answer, Head1
<1>2. FilmOK(film) /\ calls[1].up \in BOOLEAN
  BY <1>1, HeadOK DEF CallOK
<1>. QED
  BY <1>1, <1>2, MoveExceptionSound, AnsweredSoundly

LEMMA RunRemoveExceptionSound ==
  ASSUME Inv, RunRemoveException
  PROVE  RunSoundly
<1>1. /\ calls # <<>> /\ calls' = Tail(calls) /\ UNCHANGED <<seen, asks>>
      /\ Settle(RemoveException(film, calls[1].binding), {})
  BY DEF RunRemoveException, Answer, Head1
<1>. QED
  BY <1>1, HeadOK, RemoveExceptionSound, AnsweredSoundly

LEMMA RunSetTypeSound ==
  ASSUME Inv, RunSetType
  PROVE  RunSoundly
<1>1. /\ calls # <<>> /\ calls' = Tail(calls) /\ UNCHANGED <<seen, asks>>
      /\ Settle(SetMediaType(film, calls[1].link, calls[1].type), {})
  BY DEF RunSetType, Answer, Head1
<1>. QED
  BY <1>1, HeadOK, SetTypeSound, AnsweredSoundly

LEMMA RunMoveMediaSound ==
  ASSUME Inv, RunMoveMedia
  PROVE  RunSoundly
<1>1. /\ calls # <<>> /\ calls[1].do = "moveMedia" /\ calls' = Tail(calls)
      /\ UNCHANGED <<seen, asks>>
      /\ Settle(MoveMedia(film, calls[1].strip, calls[1].link, calls[1].delta), {})
  BY DEF RunMoveMedia, Answer, Head1
<1>2. /\ FilmOK(film) /\ StripOK(calls[1].strip)
      /\ calls[1].link \in DOMAIN calls[1].strip.place
  BY <1>1, HeadOK DEF CallOK
<1>. QED
  BY <1>1, <1>2, MoveMediaSound, AnsweredSoundly

LEMMA RunSetPosterSound ==
  ASSUME Inv, RunSetPoster
  PROVE  RunSoundly
<1> DEFINE change == IF calls[1].asset \in DOMAIN film.t.asset
                     THEN SetPoster(film, Project, calls[1].asset) ELSE Begin(film)
<1>1. /\ calls # <<>> /\ calls' = Tail(calls) /\ UNCHANGED <<seen, asks>>
      /\ Settle(change, {})
  BY DEF RunSetPoster, Answer, Head1
<1>2. FilmOK(film)
  BY <1>1, HeadOK
<1>3. Sound(film, change)
  BY <1>2, SetPosterSound, BeginSound
<1>. HIDE DEF change
<1>. QED
  BY <1>1, <1>3, AnsweredSoundly

LEMMA RunRegisterInv ==
  ASSUME Inv, RunRegister
  PROVE  Inv'
<1> DEFINE c == calls[1]
           change == RegisterFile(film, c.file)
           call(asset) == [do |-> "attach", owner |-> c.owner, assets |-> <<asset>>,
                           purpose |-> c.purpose, shared |-> c.shared, to |-> None,
                           created |-> change.made["asset"]]
<1>1. /\ calls # <<>> /\ film' = [t |-> change.t, next |-> change.next]
      /\ UNCHANGED <<seen, last, asks>>
      /\ \E asset : calls' = Append(Tail(calls), call(asset))
  BY DEF RunRegister, Head1
<1>2. PICK asset : calls' = Append(Tail(calls), call(asset))
  BY <1>1
<1>3. ASSUME NEW n, NEW Q PROVE CallOK(call(asset), n, Q)
  <2>1. c.do = "register"
    BY DEF RunRegister, Head1
  <2>2. c.shared \in Sharings
    BY <1>1, <2>1, HeadOK DEF CallOK
  <2>. QED
    BY <2>2, OneListed DEF CallOK
<1>. HIDE DEF call
<1>4. PICK P \in SUBSET Nat : Marked(P)
  BY DEF Inv
<1>5. /\ FilmOK(film) /\ film.next \in Nat /\ TablesOK(seen, film.next)
      /\ PureIn(film.t, P) /\ PureIn(seen, P) /\ ChangeOK(last, film.next, P)
      /\ CallsOK(calls, film.next, P)
  BY <1>4 DEF Inv, TypeOK, FilmOK, Marked
<1>6. Sound(film, change)
  BY <1>5, RegisterSound
<1>. HIDE DEF change, c
<1>7. PICK Q \in SUBSET Nat :
        /\ \A k \in Nat : k < film.next => (k \in Q <=> k \in P)
        /\ PureIn(change.t, Q)
  BY <1>5, <1>6, MarkedOn
<1>8. /\ change.next \in Nat \ {0} /\ film.next <= change.next
      /\ TablesOK(change.t, change.next)
  BY <1>6 DEF Sound, Recorded
<1>9. film'.t = change.t /\ film'.next = change.next /\ FilmOK(film')
  BY <1>1, <1>8 DEF FilmOK
<1>10. PureIn(seen', Q) /\ TablesOK(seen', film'.next)
  BY <1>1, <1>5, <1>7, <1>8, <1>9, PureAgain, TablesGrow
<1>11. ChangeOK(last', film'.next, Q)
  BY <1>1, <1>5, <1>7, <1>8, <1>9, ChangeAgain
<1>12. /\ CallsOK(Tail(calls), film.next, P) /\ Len(Tail(calls)) = Len(calls) - 1
       /\ Len(calls) \in Nat
  BY <1>1, <1>5, CallsTail
<1>13. CallsOK(Tail(calls), film'.next, Q)
  BY <1>5, <1>7, <1>8, <1>9, <1>12, CallsAgain
<1>14. CallsOK(calls', film'.next, Q) /\ Len(calls') = Len(calls)
  BY <1>2, <1>3, <1>12, <1>13, CallsAppend
<1>15. Marked(Q)'
  BY <1>7, <1>9, <1>10, <1>11, <1>14 DEF Marked
<1>16. TypeOK'
  BY <1>1, <1>9, <1>10, <1>11, <1>14 DEF Inv, TypeOK, ChangeOK
<1>. QED
  BY <1>15, <1>16 DEF Inv

\* What an undo writes back is among the film's baselines or among neither.
LEMMA UndoKeeps ==
  ASSUME NEW t, NEW n \in Nat, TablesOK(t, n), NEW P, PureIn(t, P),
         NEW change, TablesOK(change.was, n), PureIn(change.was, P)
  PROVE  LET u == ApplyUndoChange(t, change) IN TablesOK(u, n) /\ PureIn(u, P)
<1> DEFINE u == ApplyUndoChange(t, change)
<1>1. u = [table \in Tables |->
             PutOver(Without(t[table], change.made[table]), change.was[table])]
  BY DEF ApplyUndoChange
<1>2. ASSUME NEW table \in Tables
      PROVE  /\ u[table] = [k \in DOMAIN u[table] |-> u[table][k]]
             /\ \A k \in DOMAIN u[table] :
                  \/ k \in DOMAIN change.was[table] /\ u[table][k] = change.was[table][k]
                  \/ k \in DOMAIN t[table] /\ u[table][k] = t[table][k]
  BY <1>1 DEF PutOver, Without
<1>. HIDE DEF u
<1>3. u = [table \in Tables |-> u[table]]
  BY <1>1
<1>4. u = [table \in Tables |-> [k \in DOMAIN u[table] |-> u[table][k]]]
  BY <1>2, <1>3
<1>5. ASSUME NEW table \in Tables, NEW k \in DOMAIN u[table]
      PROVE  k \in 1..(n - 1) /\ RowOK(table, u[table][k], n)
  <2>1. CASE k \in DOMAIN change.was[table] /\ u[table][k] = change.was[table][k]
    BY <2>1 DEF TablesOK
  <2>2. CASE k \in DOMAIN t[table] /\ u[table][k] = t[table][k]
    BY <2>2 DEF TablesOK
  <2>. QED
    BY <1>2, <2>1, <2>2
<1>6. TablesOK(u, n)
  BY <1>4, <1>5 DEF TablesOK
<1>7. PureIn(u, P)
  <2>1. "binding" \in Tables
    BY DEF Tables
  <2>. QED
    BY <1>2, <2>1 DEF PureIn
<1>. QED
  BY <1>6, <1>7 DEF u

LEMMA RunUndoInv ==
  ASSUME Inv, RunUndo
  PROVE  Inv'
<1> DEFINE u == ApplyUndoChange(film.t, calls[1].change)
<1>1. /\ calls # <<>> /\ calls[1].do = "undo" /\ film' = [film EXCEPT !.t = u]
      /\ last' = NoChange /\ calls' = Tail(calls) /\ UNCHANGED <<seen, asks>>
  BY DEF RunUndo, Head1
<1>2. PICK P \in SUBSET Nat : Marked(P) /\ CallOK(calls[1], film.next, P)
  BY <1>1, HeadOK
<1>3. /\ FilmOK(film) /\ film.next \in Nat \ {0} /\ TablesOK(film.t, film.next)
      /\ PureIn(film.t, P) /\ PureIn(seen, P) /\ CallsOK(calls, film.next, P)
      /\ film = [t |-> film.t, next |-> film.next]
  BY <1>2 DEF Inv, TypeOK, FilmOK, Marked
<1>4. ChangeOK(calls[1].change, film.next, P)
  BY <1>1, <1>2 DEF CallOK
<1>5. TablesOK(u, film.next) /\ PureIn(u, P)
  BY <1>3, <1>4, UndoKeeps DEF ChangeOK
<1>. HIDE DEF u
<1>6. film' = [t |-> u, next |-> film.next]
  BY <1>1, <1>3
<1>7. film'.t = u /\ film'.next = film.next /\ FilmOK(film')
  BY <1>3, <1>5, <1>6 DEF FilmOK
<1>8. /\ CallsOK(Tail(calls), film.next, P) /\ Len(Tail(calls)) = Len(calls) - 1
      /\ Len(calls) \in Nat
  BY <1>1, <1>3, CallsTail
<1>9. ChangeOK(last', film'.next, P)
  BY <1>1, <1>3, <1>7, NoChangeOK
<1>10. Marked(P)'
  BY <1>1, <1>3, <1>5, <1>7, <1>8, <1>9 DEF Marked
<1>11. TypeOK'
  BY <1>1, <1>7, <1>8, <1>9, BoundsAssumption DEF Inv, TypeOK, ChangeOK
<1>. QED
  BY <1>10, <1>11 DEF Inv

\* What a step of the host other than these two does.
HostRuns ==
  \/ RunAttach \/ RunDetach \/ RunRepurpose \/ RunMoveTile \/ RunConfirm
  \/ RunAddException \/ RunUpdateException \/ RunMoveException
  \/ RunRemoveException \/ RunSetType \/ RunMoveMedia \/ RunSetPoster

Asks ==
  \/ Refresh
  \/ AskToAttach \/ AskToAttachToException \/ AskToDrop \/ AskToDetach
  \/ AskToRepurpose \/ AskToMoveTile \/ AskToConfirm \/ AskToAddException
  \/ AskOfException \/ AskOfStrip \/ AskForPoster \/ AskToUndo

LEMMA HostRunsSoundly ==
  ASSUME Inv, HostRuns
  PROVE  RunSoundly
BY RunAttachSound, RunDetachSound, RunRepurposeSound, RunMoveTileSound,
   RunConfirmSound, RunAddExceptionSound, RunUpdateExceptionSound,
   RunMoveExceptionSound, RunRemoveExceptionSound, RunSetTypeSound,
   RunMoveMediaSound, RunSetPosterSound DEF HostRuns

LEMMA NextCases ==
  Next <=> Asks \/ RunRegister \/ HostRuns \/ RunUndo
BY DEF Next, Asks, HostRuns

LEMMA AsksInv ==
  ASSUME Inv, Asks
  PROVE  Inv'
BY RefreshInv, AskToAttachInv, AskToAttachToExceptionInv, AskToDropInv,
   AskToDetachInv, AskToRepurposeInv, AskToMoveTileInv, AskToConfirmInv,
   AskToAddExceptionInv, AskOfExceptionInv, AskOfStripInv, AskForPosterInv,
   AskToUndoInv DEF Asks

LEMMA StutterInv ==
  ASSUME Inv, UNCHANGED vars
  PROVE  Inv'
<1>1. PICK P \in SUBSET Nat : Marked(P)
  BY DEF Inv
<1>2. TypeOK'
  BY DEF Inv, TypeOK, vars
<1>3. Marked(P)'
  BY <1>1 DEF Marked, vars
<1>. QED
  BY <1>2, <1>3 DEF Inv

\* The invariant is inductive.
LEMMA NextInv ==
  Inv /\ [Next]_vars => Inv'
<1> SUFFICES ASSUME Inv, [Next]_vars PROVE Inv'
  OBVIOUS
<1>1. CASE Asks
  BY <1>1, AsksInv
<1>2. CASE RunRegister
  BY <1>2, RunRegisterInv
<1>3. CASE HostRuns
  BY <1>3, HostRunsSoundly, RunSoundlyInv
<1>4. CASE RunUndo
  BY <1>4, RunUndoInv
<1>5. CASE UNCHANGED vars
  BY <1>5, StutterInv
<1>. QED
  BY <1>1, <1>2, <1>3, <1>4, <1>5, NextCases

LEMMA SpecInv ==
  Spec => []Inv
BY InitInv, NextInv, PTL DEF Spec

-----------------------------------------------------------------------------
(* Theorems                                                                 *)

\* Whatever was dropped, moved, split and undone, in whatever order the calls
\* came, the film stays one: every row has an id that was given out, a member
\* and a binding name a bundle that was, and what is kept to be undone is such
\* rows as well (mediaOps.ts, undoChange.ts).
THEOREM TypeCorrect ==
  Spec => []TypeOK
<1>1. Inv => TypeOK
  BY DEF Inv
<1>. QED
  BY <1>1, SpecInv, PTL

\* A step that shortens the queue is the host's, and of the call's kind.
LEMMA AskGrows ==
  ASSUME Inv, NEW call, calls' = Append(calls, call)
  PROVE  ~(Len(calls') < Len(calls))
<1>1. PICK P \in SUBSET Nat : Marked(P)
  BY DEF Inv
<1>2. Listing(calls) /\ calls = [i \in 1..Len(calls) |-> calls[i]]
  BY <1>1 DEF Marked, CallsOK
<1>3. Len(calls') = Len(calls) + 1
  BY <1>2, QueueAppend
<1>. QED
  BY <1>2, <1>3 DEF Listing

LEMMA AsksGrow ==
  ASSUME Inv, Asks
  PROVE  ~(Len(calls') < Len(calls))
<1> DEFINE G == ~(Len(calls') < Len(calls))
<1>1. \A call : Ask(call) => G
  BY AskGrows DEF Ask
<1>2. Len(calls) \in Nat
  BY DEF Inv, Marked, CallsOK, Listing
<1>3. Refresh => G
  BY <1>2 DEF Refresh
<1>4. AskToUndo => G
  BY AskGrows DEF AskToUndo
<1>. HIDE DEF G
<1>5. AskToAttach => G
  BY <1>1 DEF AskToAttach
<1>6. AskToAttachToException => G
  BY <1>1 DEF AskToAttachToException
<1>7. AskToDrop => G
  BY <1>1 DEF AskToDrop
<1>8. AskToDetach => G
  BY <1>1 DEF AskToDetach
<1>9. AskToRepurpose => G
  BY <1>1 DEF AskToRepurpose
<1>10. AskToMoveTile => G
  BY <1>1 DEF AskToMoveTile
<1>11. AskToConfirm => G
  BY <1>1 DEF AskToConfirm
<1>12. AskToAddException => G
  BY <1>1 DEF AskToAddException
<1>13. AskOfException => G
  BY <1>1 DEF AskOfException
<1>14. AskOfStrip => G
  BY <1>1 DEF AskOfStrip
<1>15. AskForPoster => G
  BY <1>1 DEF AskForPoster
<1>16. G
  BY <1>3, <1>4, <1>5, <1>6, <1>7, <1>8, <1>9, <1>10, <1>11, <1>12, <1>13, <1>14,
     <1>15 DEF Asks
<1>. QED
  BY <1>16 DEF G

LEMMA RegisterGrows ==
  ASSUME Inv, RunRegister
  PROVE  ~(Len(calls') < Len(calls))
<1>1. PICK P \in SUBSET Nat : Marked(P)
  BY DEF Inv
<1>2. calls # <<>> /\ \E call : calls' = Append(Tail(calls), call)
  BY DEF RunRegister, Head1
<1>3. /\ Listing(calls) /\ calls = [i \in 1..Len(calls) |-> calls[i]]
  BY <1>1 DEF Marked, CallsOK
<1>4. /\ Listing(Tail(calls)) /\ Len(Tail(calls)) = Len(calls) - 1
      /\ Tail(calls) = [i \in 1..Len(Tail(calls)) |-> Tail(calls)[i]]
  BY <1>2, <1>3, QueueTail
<1>5. Len(calls') = Len(Tail(calls)) + 1
  BY <1>2, <1>4, QueueAppend
<1>. QED
  BY <1>3, <1>4, <1>5 DEF Listing

LEMMA RunKinds ==
  /\ RunAttach => Head1("attach")
  /\ RunDetach => Head1("detach")
  /\ RunRepurpose => Head1("repurpose")
  /\ RunMoveTile => Head1("moveTile")
  /\ RunConfirm => Head1("confirm")
  /\ RunAddException => Head1("addException")
  /\ RunUpdateException => Head1("updateException")
  /\ RunMoveException => Head1("moveException")
  /\ RunRemoveException => Head1("removeException")
  /\ RunSetType => Head1("setType")
  /\ RunMoveMedia => Head1("moveMedia")
  /\ RunSetPoster => Head1("setPoster")
  /\ RunUndo => Head1("undo")
<1>1. RunAttach => Head1("attach")
  BY DEF RunAttach
<1>2. RunDetach => Head1("detach")
  BY DEF RunDetach, Answer
<1>3. RunRepurpose => Head1("repurpose")
  BY DEF RunRepurpose
<1>4. RunMoveTile => Head1("moveTile")
  BY DEF RunMoveTile, Answer
<1>5. RunConfirm => Head1("confirm")
  BY DEF RunConfirm, Answer
<1>6. RunAddException => Head1("addException")
  BY DEF RunAddException, Answer
<1>7. RunUpdateException => Head1("updateException")
  BY DEF RunUpdateException, Answer
<1>8. RunMoveException => Head1("moveException")
  BY DEF RunMoveException, Answer
<1>9. RunRemoveException => Head1("removeException")
  BY DEF RunRemoveException, Answer
<1>10. RunSetType => Head1("setType")
  BY DEF RunSetType, Answer
<1>11. RunMoveMedia => Head1("moveMedia")
  BY DEF RunMoveMedia, Answer
<1>12. RunSetPoster => Head1("setPoster")
  BY DEF RunSetPoster, Answer
<1>13. RunUndo => Head1("undo")
  BY DEF RunUndo
<1>. QED
  BY <1>1, <1>2, <1>3, <1>4, <1>5, <1>6, <1>7, <1>8, <1>9, <1>10, <1>11, <1>12, <1>13

LEMMA RanIsRun ==
  ASSUME Inv, [Next]_vars
  PROVE  /\ Ran("undo") => RunUndo
         /\ Ran("attach") => RunAttach
         /\ Ran("moveTile") => RunMoveTile
<1>1. ASSUME Len(calls') < Len(calls) PROVE HostRuns \/ RunUndo
  <2>1. Len(calls) \in Nat
    BY DEF Inv, Marked, CallsOK, Listing
  <2>2. ~UNCHANGED vars
    BY <1>1, <2>1 DEF vars
  <2>3. Next
    BY <2>2
  <2>. QED
    BY <1>1, <2>3, NextCases, AsksGrow, RegisterGrows
<1>2. ASSUME NEW do, Ran(do) PROVE HostRuns \/ RunUndo
  BY <1>1, <1>2 DEF Ran
<1>3. \A do : Ran(do) => calls[1].do = do
  BY DEF Ran, Head1
<1>4. \A do : Head1(do) => calls[1].do = do
  BY DEF Head1
<1>5. Ran("undo") => RunUndo
  BY <1>2, <1>3, <1>4, RunKinds DEF HostRuns
<1>6. Ran("attach") => RunAttach
  BY <1>2, <1>3, <1>4, RunKinds DEF HostRuns
<1>7. Ran("moveTile") => RunMoveTile
  BY <1>2, <1>3, <1>4, RunKinds DEF HostRuns
<1>. QED
  BY <1>5, <1>6, <1>7

\* Undoing a change gives the film as it was back: what a change keeps is made
\* so that, applied to the tables it led to, it leads to those it began from,
\* whatever rows the change made, wrote to twice or took away (undoChange.ts).
THEOREM UndoTheorem ==
  Spec => UndoRestores
<1>1. ASSUME Inv, [Next]_vars, Ran("undo"), film.t = calls[1].change.to
      PROVE  film'.t = calls[1].change.from
  <2>1. RunUndo
    BY <1>1, RanIsRun
  <2>2. /\ calls # <<>> /\ calls[1].do = "undo"
        /\ film' = [film EXCEPT !.t = ApplyUndoChange(film.t, calls[1].change)]
    BY <2>1 DEF RunUndo, Head1
  <2>3. PICK P \in SUBSET Nat : CallOK(calls[1], film.next, P)
    BY <1>1, <2>2, HeadOK
  <2>4. ApplyUndoChange(film.t, calls[1].change) = calls[1].change.from
    BY <1>1, <2>2, <2>3 DEF CallOK, ChangeOK
  <2>5. film = [t |-> film.t, next |-> film.next]
    BY <1>1 DEF Inv, TypeOK, FilmOK
  <2>. QED
    BY <2>2, <2>4, <2>5
<1>2. Inv /\ [Next]_vars
        => [Ran("undo") /\ film.t = calls[1].change.to
              => film'.t = calls[1].change.from]_vars
  BY <1>1
<1>. QED
  BY <1>2, SpecInv, PTL DEF Spec, UndoRestores

\* Ranks that are apart stay apart in every change the host makes, undoing
\* apart: a new exception ranks above all of its owner's, a move gives each a
\* place of its own, and no condition is taken from an exception, so nothing
\* turns into a baseline (addException, moveException).
THEOREM RanksTheorem ==
  Spec => RanksStayApart
<1>1. ASSUME Inv, [Next]_vars, ~Ran("undo"), NEW owner, RanksApart(film.t, owner)
      PROVE  RanksApart(film'.t, owner)
  <2>1. CASE UNCHANGED film
    BY <1>1, <2>1
  <2>2. ASSUME NEW change, Sound(film, change), film'.t = change.t
        PROVE  RanksApart(film'.t, owner)
    BY <1>1, <2>2 DEF Sound
  <2>3. CASE HostRuns
    <3>1. RunSoundly
      BY <1>1, <2>3, HostRunsSoundly
    <3>2. UNCHANGED film \/ \E change, created : Sound(film, change) /\ Settle(change, created)
      BY <3>1 DEF RunSoundly
    <3>3. \A change, created : Settle(change, created) => film'.t = change.t
      BY DEF Settle
    <3>. QED
      BY <2>1, <2>2, <3>2, <3>3
  <2>4. CASE RunRegister
    <3>1. film'.t = RegisterFile(film, calls[1].file).t
      BY <2>4 DEF RunRegister
    <3>2. FilmOK(film)
      BY <1>1 DEF Inv, TypeOK
    <3>. QED
      BY <2>2, <3>1, <3>2, RegisterSound
  <2>5. CASE Asks
    <3>1. \A call : Ask(call) => UNCHANGED film
      BY DEF Ask
    <3>2. Refresh \/ AskToUndo => UNCHANGED film
      BY DEF Refresh, AskToUndo
    <3>3. AskToAttach => UNCHANGED film
      BY <3>1 DEF AskToAttach
    <3>4. AskToAttachToException => UNCHANGED film
      BY <3>1 DEF AskToAttachToException
    <3>5. AskToDrop => UNCHANGED film
      BY <3>1 DEF AskToDrop
    <3>6. AskToDetach => UNCHANGED film
      BY <3>1 DEF AskToDetach
    <3>7. AskToRepurpose => UNCHANGED film
      BY <3>1 DEF AskToRepurpose
    <3>8. AskToMoveTile => UNCHANGED film
      BY <3>1 DEF AskToMoveTile
    <3>9. AskToConfirm => UNCHANGED film
      BY <3>1 DEF AskToConfirm
    <3>10. AskToAddException => UNCHANGED film
      BY <3>1 DEF AskToAddException
    <3>11. AskOfException => UNCHANGED film
      BY <3>1 DEF AskOfException
    <3>12. AskOfStrip => UNCHANGED film
      BY <3>1 DEF AskOfStrip
    <3>13. AskForPoster => UNCHANGED film
      BY <3>1 DEF AskForPoster
    <3>. QED
      BY <2>1, <2>5, <3>2, <3>3, <3>4, <3>5, <3>6, <3>7, <3>8, <3>9, <3>10, <3>11,
         <3>12, <3>13 DEF Asks
  <2>6. CASE RunUndo
    <3>1. PICK P \in SUBSET Nat : Marked(P)
      BY <1>1 DEF Inv
    <3>2. Head1("undo") /\ calls # <<>> /\ calls' = Tail(calls)
      BY <2>6 DEF RunUndo, Head1
    <3>3. Len(calls') < Len(calls)
      BY <3>1, <3>2, CallsTail DEF Marked
    <3>. QED
      BY <1>1, <3>2, <3>3 DEF Ran
  <2>. QED
    BY <1>1, <2>1, <2>3, <2>4, <2>5, <2>6, NextCases DEF vars
<1>2. Inv /\ [Next]_vars
        => [~Ran("undo") => \A owner \in Subjects :
              RanksApart(film.t, owner) => RanksApart(film'.t, owner)]_vars
  BY <1>1
<1>. QED
  BY <1>2, SpecInv, PTL DEF Spec, RanksStayApart

\* A file added to an owner's set reaches nobody else's look unless the writer
\* chose so, and takes none from the owner: the bundle it goes to is new or the
\* owner's alone, whatever was queued between the question and the answer
\* (attachInto, splitInto).
THEOREM AskedTheorem ==
  Spec => OthersAreAsked
<1>1. ASSUME Inv, [Next]_vars, Ran("attach"),
             calls[1].purpose = "set", calls[1].to = None
      PROVE  /\ Look(film.t, calls[1].owner) \subseteq Look(film'.t, calls[1].owner)
             /\ calls[1].shared # "both" =>
                  \A other \in Subjects \ {calls[1].owner} :
                    Look(film'.t, other) = Look(film.t, other)
  <2> DEFINE owner  == calls[1].owner
             shared == calls[1].shared
             assets == calls[1].assets
             c == Begin(film)
             g == AddToSet(c, owner, assets, shared, None)
  <2>1. RunAttach
    BY <1>1, RanIsRun
  <2>2. /\ calls # <<>> /\ calls[1].do = "attach"
        /\ IF Refuses(film.t, owner, shared) THEN UNCHANGED film
           ELSE film'.t = g.t
    <3>1. Attach(film, owner, assets, calls[1].purpose, shared, calls[1].to) = g
      BY <1>1 DEF Attach, AttachInto
    <3>2. \A change, created : Settle(change, created) => film'.t = change.t
      BY DEF Settle
    <3>. QED
      BY <1>1, <2>1, <3>1, <3>2 DEF RunAttach, Head1
  <2>3. /\ FilmOK(film) /\ Listing(assets) /\ shared \in Sharings
    BY <1>1, <2>2, HeadOK DEF CallOK
  <2>4. CASE Refuses(film.t, owner, shared)
    BY <2>2, <2>4
  <2>5. CASE ~Refuses(film.t, owner, shared)
    <3>1. Recorded(film, c) /\ c.t = film.t /\ c.next = film.next
      BY <2>3, RecordedBegin
    <3>. HIDE DEF c, owner, shared, assets, g
    <3>2. film'.t = g.t
      BY <2>2, <2>5
    <3>3. PICK d, bundle :
            /\ Recorded(film, d) /\ Readied(c, d, owner, shared)
            /\ bundle = d.t.binding[BaselineSet(d.t, owner)].bundle
            /\ Leaves(d, g, {"member"}) /\ GrownBy(d.t, g.t, bundle)
      BY <2>3, <3>1, RecordedAddToSet DEF g
    <3>4. Look(film.t, owner) \subseteq Look(film'.t, owner)
      <4>1. Look(c.t, owner) \subseteq Look(g.t, owner)
        BY <3>1, <3>3, LookGrows
      <4>. QED
        BY <3>1, <3>2, <4>1
    <3>5. ASSUME shared # "both", NEW other \in Subjects \ {owner}
          PROVE  Look(film'.t, other) = Look(film.t, other)
      <4>1. /\ BaselineSet(d.t, owner) \in BaselineBindings(d.t, owner)
            /\ \/ bundle = c.next
               \/ d = c /\ (shared = "split" => SharedWith(c.t, bundle, owner) = {})
        BY <3>1, <3>3, ReadiedBundle
      <4>2. d = c /\ shared = "ask" => SharedWith(c.t, bundle, owner) = {}
        BY <2>5, <3>1, <3>3, <4>1 DEF Refuses
      <4>3. bundle = c.next \/ (d = c /\ SharedWith(c.t, bundle, owner) = {})
        BY <2>3, <3>5, <4>1, <4>2 DEF Sharings
      <4>4. other # owner
        BY <3>5
      <4>5. Look(g.t, other) = Look(c.t, other)
        BY <3>1, <3>3, <4>3, <4>4, LookOfOthers
      <4>. QED
        BY <3>1, <3>2, <4>5
    <3>. QED
      BY <3>4, <3>5 DEF owner, shared
  <2>. QED
    BY <2>4, <2>5
<1>2. Inv /\ [Next]_vars
        => [Ran("attach") /\ calls[1].purpose = "set" /\ calls[1].to = None
              => /\ Look(film.t, calls[1].owner) \subseteq Look(film'.t, calls[1].owner)
                 /\ calls[1].shared # "both" =>
                      \A owner \in Subjects \ {calls[1].owner} :
                        Look(film'.t, owner) = Look(film.t, owner)]_vars
  BY <1>1
<1>. QED
  BY <1>2, SpecInv, PTL DEF Spec, OthersAreAsked

\* A move leaves the sequence the rows it had, takes the tile to the place next
\* to its neighbour and leaves all the others, shown or hidden, in the order
\* they had, orders that are the same or missing among them (moveTile).
THEOREM OrderTheorem ==
  Spec => MovesKeepOrder
<1> DEFINE Keeps ==
      LET c     == calls[1]
          tile  == c.tile.at[2]
          next  == c.neighbour.at[2]
          ids(t) == IF c.tile.at[1] = "related" THEN RelatedOf(t, c.owner)
                    ELSE MembersOf(t, c.tile.bundle)
          order(t)    == ByOrder(t[c.tile.at[1]], ids(t))
          place(t, k) == Place(order(t), ids(t), k)
          rest(t)     == {p \in order(t) : tile \notin {p[1], p[2]}}
      IN  /\ ids(film'.t) = ids(film.t)
          /\ rest(film'.t) = rest(film.t)
          /\ {tile, next} \subseteq ids(film.t) =>
               place(film'.t, tile)
                 = place(film'.t, next) + (IF c.delta = "earlier" THEN -1 ELSE 1)
<1>1. ASSUME Inv, [Next]_vars, Ran("moveTile")
      PROVE  Keeps
  <2> DEFINE owner == calls[1].owner
             tile  == calls[1].tile
             next  == calls[1].neighbour
             delta == calls[1].delta
             u     == MoveTile(film, owner, tile, next, delta).t
             ids(t)   == SequenceOf(t, owner, tile)
             order(t) == ByOrder(t[tile.at[1]], ids(t))
             rest(t)  == {p \in order(t) : tile.at[2] \notin {p[1], p[2]}}
             place(k) == Place(order(u), ids(u), k)
  <2>1. RunMoveTile
    BY <1>1, RanIsRun
  <2>2. calls # <<>> /\ calls[1].do = "moveTile" /\ film'.t = u
    BY <2>1 DEF RunMoveTile, Answer, Head1, Settle
  <2>3. /\ FilmOK(film) /\ tile.at[1] \in {"related", "member"}
        /\ tile.at[2] # next.at[2] /\ delta \in {"earlier", "later"}
    BY <1>1, <2>2, HeadOK DEF CallOK
  <2>4. /\ ids(u) = ids(film.t)
        /\ rest(u) = rest(film.t)
        /\ {tile.at[2], next.at[2]} \subseteq ids(film.t) =>
             place(tile.at[2]) = place(next.at[2]) + (IF delta = "earlier" THEN -1 ELSE 1)
    BY <2>3, MoveTileOrder
  <2>. HIDE DEF u
  <2>. QED
    BY <2>2, <2>4 DEF SequenceOf
<1>2. Inv /\ [Next]_vars => [Ran("moveTile") => Keeps]_vars
  BY <1>1
<1>. QED
  BY <1>2, SpecInv, PTL DEF Spec, MovesKeepOrder
=============================================================================
