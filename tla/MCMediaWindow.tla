----------------------------- MODULE MCMediaWindow -----------------------------
EXTENDS MediaWindow, TLC

\* Two subjects sharing an empty set, the first with two exceptions, a proposed
\* identity and two files of its own, unordered; a shot with three, in
\* order; and a poster.  Rows are numbered across the tables.
related(owner, asset, type, order) ==
  [owner |-> owner, asset |-> asset, type |-> type, order |-> order]
binding(owner, bundle, baseline, precedence, when) ==
  [owner |-> owner, bundle |-> bundle, baseline |-> baseline,
   precedence |-> precedence, when |-> when, replaces |-> FALSE]

SmallFilm ==
  [t |-> [asset   |-> 1 :> [file |-> "f1"] @@ 2 :> [file |-> "f2"],
          bundle  |-> 3 :> [of |-> "anna"] @@ 4 :> [of |-> "anna"]
                        @@ 5 :> [of |-> "anna"],
          member  |-> 6 :> [bundle |-> 4, asset |-> 1, order |-> 1],
          binding |-> 7 :> binding("anna", 3, TRUE, 0, None)
                        @@ 8 :> binding("bob", 3, TRUE, 0, None)
                        @@ 9 :> binding("anna", 4, FALSE, 1, 1)
                        @@ 10 :> binding("anna", 5, FALSE, 2, 2),
          related |-> 11 :> related("anna", 1, "concept", None)
                        @@ 12 :> related("anna", 2, "concept", None)
                        @@ 13 :> related("anna", 1, "moodboard", None)
                        @@ 14 :> related("shot", 1, "storyboard", 1)
                        @@ 15 :> related("shot", 2, "storyboard", 2)
                        @@ 16 :> related("shot", 1, "start", 3)
                        @@ 17 :> related("project", 1, "poster", None),
          anchor  |-> 18 :> [owner |-> "anna", asset |-> 1,
                             status |-> "candidate"]],
   next |-> 19]
=============================================================================
