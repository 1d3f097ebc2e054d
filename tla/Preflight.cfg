SPECIFICATION Spec
CONSTANTS
  Names <- MCNames
  Absent = Absent
  NoFile = NoFile
  Bad = Bad
  Packs <- MCPacks
  Clis <- MCClis
  Hosts <- MCHosts
  Layers <- MCLayers
  Policies <- MCPolicies
  Engines <- MCEngines
  MaxEdits = 1
INVARIANTS
  TypeOK
  EnforceIsForAllRules
  RefusalIsWarranted
  CheckPredictsGate
  RecordReloads
\* The run has started, been refused or failed, and so has the check.
CHECK_DEADLOCK FALSE
