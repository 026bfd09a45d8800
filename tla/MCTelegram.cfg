SPECIFICATION FairTelegramSpec
CONSTANTS
  r1 = r1
  c1 = c1
  ana = ana
  bia = bia
  Requests = {r1, c1}
  Chats = {c1}
  Users = {ana, bia}
  Role <- RoleOf
  MaxClock = 2
  MaxAudits = 1
CHECK_DEADLOCK FALSE
INVARIANT AuditTellsTheTruth
PROPERTY ImplementsSystemControl
PROPERTY StopLiftedOnlyByReleaseOrRace
PROPERTY KillTakesEffect
PROPERTY DuplicateKillOnlyByRace
PROPERTY KillLands
