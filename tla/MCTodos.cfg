SPECIFICATION Spec
CONSTANTS
  u1 = u1
  c1 = c1
  c2 = c2
  t1 = t1
  None = None
  Client = {c1, c2}
  Local = {c1, c2}
  User = {u1}
  Owner <- MCOwner
  Title = {t1}
  Input <- MCInput
  Change <- MCChange
  Limit = 1
  BatchTake = 1
  MaxSize = 2
SYMMETRY Symmetry
INVARIANTS TypeOK AnswersFresh NotFoundTrue DeletedOnce PageAgrees ToggleFlips LoaderFinds ViewFollows
PROPERTY StoreSpec
