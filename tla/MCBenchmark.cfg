SPECIFICATION FairSpec
CONSTANTS
  j1 = j1
  j2 = j2
  p1 = p1
  a = a
  b = b
  Absent = Absent
  Empty = Empty
  Garbled = Garbled
  Shipped <- MCShipped
  NoModel = NoModel
  Names = {"scores", "champion"}
  Jobs = {j1, j2}
  Operators = {p1}
  Models = {a, b}
  UsePostgres = TRUE
  MayRaise = TRUE
  MayCrash = TRUE
  Ephemeral = TRUE
  MaxRuns = 2
CHECK_DEADLOCK FALSE
INVARIANTS
  JobStatusTrue
  LatestWins
  ChampionOfScores
PROPERTIES
  JobEnds
