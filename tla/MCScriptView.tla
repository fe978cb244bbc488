----------------------------- MODULE MCScriptView -----------------------------
EXTENDS ScriptView
CONSTANTS l1, l2, l3, l4

Heading(l, s) == [id |-> l, type |-> "heading", text |-> 0, scene |-> s, ref |-> None]
Section(l, s) == [Heading(l, s) EXCEPT !.type = "section"]

\* Two scenes, numbered by their place, with a section line between them that
\* no span is bound to yet; a span from the second scene on, and a shot in the
\* first.
SmallFilm ==
  [rows    |-> <<Heading(l1, 1), Section(l2, 1), Heading(l3, 2)>>,
   scenes  |-> <<1, 2>>,
   spans   |-> <<[name |-> 9, start |-> 2, num |-> 1]>>,
   shots   |-> <<[scene |-> 1, code |-> [num |-> 1, letter |-> 0]]>>,
   members |-> (<<2, 1>> :> 1),
   policy  |-> "derived",
   next    |-> [scene |-> 3, span |-> 2, shot |-> 2]]
=============================================================================
