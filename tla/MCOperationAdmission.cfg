SPECIFICATION Spec
CONSTANTS
  Handlers = {h1, h2}
  Ops = {o1}
  RequireConfirm = {o1}
  Subjects = {s1, s2}
  Params = {p1, p2}
  StaleAfter = 1
  AwaitTtl = 1
  MaxTime = 3
  NoRequest = NoRequest
  h1 = h1
  h2 = h2
  o1 = o1
  s1 = s1
  s2 = s2
  p1 = p1
  p2 = p2
SYMMETRY Symmetry
INVARIANTS
  TypeOK
  OneHandlerPerOperation
  EffectAtMostOnce
  RecordTellsTruth
  AnswersStayTrue
  ConfirmedRunsWhatWasAsked
PROPERTIES
  DefiniteStatusIsFinal
  ImplementsOnce
