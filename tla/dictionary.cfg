CONSTANTS
  Handlers = {h1, h2}
  Keywords = {safe, injured}
  CategoryOf <- TwoCategories
  Cycles = {c1}
  MaxVersion = 2
  safe = safe
  injured = injured
SPECIFICATION DictionarySpec
CHECK_DEADLOCK FALSE
SYMMETRY HandlerSymmetry
INVARIANTS
  DictionaryTypeOK
  CycleJudgedAlike
  
PROPERTIES
  SnapshotFrozen
