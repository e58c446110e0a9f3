SPECIFICATION HostSpec
CONSTANTS
  Drafts = {}
  a = a
  b = b
  None = None
  Actors <- HostActors
  Kit <- MCKit
  Module <- HostModule
  Adjudications = {}
  PublicKeys = {"open", "locked"}
  MaxCommands = 2
  MaxPending = 1
  AgendaDepth = 3
  AgendaSteps = 8
  Connectors <- HostConnectors
  Utterances <- HostUtterances
  Proposals <- HostProposals
  MaxRepairs = 2
INVARIANTS HostDecisionsStand NothingSmuggledIn
PROPERTIES NamedPlaceWins
CHECK_DEADLOCK FALSE
