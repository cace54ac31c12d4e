SPECIFICATION LiveSpec
CONSTANTS
  Replicas = {r1, r2}
  Managers = {r1, r2}
  Elements = {e1}
  MaxAdds = 1
  Keeps = {}
  Tasks = 1
  Removable = TRUE
PROPERTIES  ImplementsReplicatedSet
CHECK_DEADLOCK FALSE
