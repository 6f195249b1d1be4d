SPECIFICATION FairSpec
CONSTANTS
  None = None
  o1 = o1
  o2 = o2
  o3 = o3
  i1 = i1
  i2 = i2
  Ids = {i1, i2}
  Objs = {o1, o2, o3}
  IdOf <- Retracked
PROPERTIES OwnLifecycle
