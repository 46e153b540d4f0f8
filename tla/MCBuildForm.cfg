SPECIFICATION ResolveSpec
CONSTANTS
  Services <- MCServices
  Sidecars <- MCSidecars
  Requires <- MCRequires
  Postgres = "postgres"
  Default <- MCDefault
  Typed = {0, 9090, 65536}
  Blank = Blank
  MaxPort = 65535
  Preselected = {}
  MaxEdits = 3
INVARIANTS TypeOK AcceptedStackStarts ConfirmIsWarranted ResolvesInOrder ResolveIInv
PROPERTIES PanelNeverOlder
