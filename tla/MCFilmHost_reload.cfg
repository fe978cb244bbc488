CONSTANTS
  window = window
  agent = agent
  w1 = w1
  a1 = a1
  film1 = film1
  film2 = film2
  OnePath = film1
  Conns = {window, agent}
  Actors = {w1, a1}
  ConnOf <- OneSlotEach
  Paths = {film1}
  Present = {film1}
  Requests <- LiveRequests
  Watchers = {}
  Drops = {}
  Migrations <- NoMigration
  MaxRequests = 5
  MaxFilms = 3
  MaxOutside = 0
SPECIFICATION Spec
INVARIANT ReloadIsNew
