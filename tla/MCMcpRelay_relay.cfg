CONSTANTS
  f1 = f1
  f2 = f2
  r1 = r1
  r2 = r2
  Pipes = {p1}
  Films = {f1, f2}
  Roots = {r1, r2}
  Args = {None, f1}
  Lines <- FewLines
  None = None
  StateKept = 2
  MaxLines = 4
  MaxReloads = 1
SPECIFICATION FairSpec
INVARIANTS AnsweredOnce ResumedAsLeft
PROPERTIES MessagesInOrder PipesAreTold CallsAreAnswered
CHECK_DEADLOCK FALSE
