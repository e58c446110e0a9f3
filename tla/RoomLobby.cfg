CONSTANTS
  None = None
  Unset = Unset
  AnySkill = AnySkill
  Accounts = {host, guest}
  Host = host
  MaxPlayers = 2
  Modules = {m1}
  Attributes <- MCAttributes
  Builds <- MCBuilds
  Rolls <- MCRolls
  Ruleset <- MCRuleset
  Requests = {r1, r2}
  Overlapping = {"join", "begin", "draft"}
  MaxWrites = 4
SPECIFICATION Spec
INVARIANTS BegunOnce ActorsAreFit RollIsAttested
SYMMETRY Symmetry
CHECK_DEADLOCK FALSE
