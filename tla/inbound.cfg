CONSTANTS
  Contacts = {c1, c2}
  Cycles = {k1, k2}
  NoRow = NoRow
  MaxFailures = 1
  RowsPerBatch = 1
SPECIFICATION AnonymizationSpec
SYMMETRY InboundSymmetry
INVARIANTS
  InboundTypeOK
  
  
  AnonymizationComplete
PROPERTIES
  AnswersSurvive
