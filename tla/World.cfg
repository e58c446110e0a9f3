SPECIFICATION Spec
CONSTANTS
  Drafts <- MCDrafts
  a = a
  b = b
  None = None
  Actors <- MCActors
  Kit <- MCKit
  Module <- MCModule
  Adjudications <- MCAdjudications
  PublicKeys = {"open", "locked"}
  MaxCommands = 3
  MaxPending = 1
  AgendaDepth = 3
  AgendaSteps = 8
INVARIANTS HangsTogether ShownExitsAreAnswered AgendaAccounts PublishedModulesRun
PROPERTIES SecretsStay TravelNeedsAWay
CHECK_DEADLOCK FALSE
