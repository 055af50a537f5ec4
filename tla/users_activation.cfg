SPECIFICATION Spec
CONSTANTS
  a = a b = b c = c wheel = wheel audio = audio games = games
  None = None
  Users = {a, b, c}
  Groups = {wheel, audio, games}
  Ids = {1, 2, 3, 4, 5, 6}
  SysIds = {1, 2, 6}
  NormalIds = {3, 4, 5}
  SubIds = {1, 2}
  Nss = {5, 6}
  Specs <- ManySpecs
  LocalUsers <- CarolLocal
  LocalGroups <- GroupLocal
  StopAt = {"groups", "group", "gid map", "users", "passwd", "uid map", "shadow", "subs", "sub map"}
  ActAt = {"idle"}
  MaxRuns = 3 MaxStops = 1 MaxActs = 1
INVARIANTS IdsUnique AccountsRight
PROPERTIES IdsKept PasswordsSurvive Settles
CHECK_DEADLOCK FALSE
