SPECIFICATION HooksSpec
CONSTANTS
  Hook = {h1, h2}
  Tasks = 2
  MaxIterations = 5
  MaxRetries = 3
  MaxComplete = 5
  MaxKills = 1
  Torn = Torn
  Session = {s1, s2}
  Note = {n1}
  Empty = Empty
  LoopBudget = 3
  MaxHookKills = 1
  File = {"hookA", "hookB", "skill"}
  Registered = {"hookA", "hookB"}
  Core = {"hookA", "hookB"}
  NeedsBinary = {"skill"}
  OwnHook = "own"
  Ships <- ShipsIn
  Place = {"onBash", "onEdit"}
  PlaceOf <- PlacesIn
  Path = {p1, p2}
  Key = {shared}
  ToolCall = {c1, c2}
  MaxSentinels = 1
  MaxCommits = 2
  Editor = {e1, e2}
  Script = {"f1", "f2"}
  Package <- PackageOfScript
  NoPackage = "none"
  Worktree = {"w1", "w2"}
  ProjectOf <- ProjectOfTree
  MaxAge = 0
  KeepCheckpoints = 1
  MaxDays = 2
  MaxCompactions = 2
INVARIANTS QueueIsHonest EditGuardsSafe ShipGateSafe
PROPERTIES LoopsEnd RalphSafe InstallerCorrect StopsBlameRight NotesCorrect
CHECK_DEADLOCK FALSE
