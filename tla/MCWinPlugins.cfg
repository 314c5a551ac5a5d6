SPECIFICATION Spec
CONSTANTS
  lib = lib
  tool = tool
  app = app
  r1 = r1
  r2 = r2
  c1 = c1
  c2 = c2
  p1 = p1
  p2 = p2
  Callers = {c1, c2}
  PlanIds = {p1, p2}
  Packages <- MCPackages
  Uploads <- MCUploads
  Worlds <- MCWorlds
  Fragile = {tool}
  NoCaller = NoCaller
  NoPlan = NoPlan
  NoPackage = NoPackage
  NoRuntime = NoRuntime
  MaxCalls = 4
  MaxMishaps = 2
SYMMETRY Symmetry
CHECK_DEADLOCK FALSE
INVARIANTS
  Consistent
  UpdateKeepsPlugin
  PlanIsInstallable
  InstalledAsApproved
