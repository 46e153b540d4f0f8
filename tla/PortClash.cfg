SPECIFICATION ResolveSpec
CONSTANTS
  Services <- MCServices
  Sidecars <- MCSidecars
  Requires <- MCRequires
  Postgres = "postgres"
  Default <- MCDefault
  Typed = {9090}
  Blank = Blank
  MaxPort = 65535
  Preselected = {}
  MaxEdits = 3
INVARIANT NoSilentClash
