SPECIFICATION Spec
CONSTANTS
  Threads = {t1, t2}
  Concurrent = FALSE
  Configs <- MCConfigs
  Rules <- MCRules
  Commands <- MCCommands
  Datas <- MCDatas
  Chunk = 3
  MaxByte = 5
  SW61 = 3
  SW6C = 4
  SW90 = 5
  SW69 = 1
  INS_C0 = 2
  MaxCalls = 2
  MaxSent = 20
SYMMETRY Symmetry
INVARIANTS
  TypeOK
  OnlyRulesChange
  RulesSeeOwnExchange
  AnswerComplete
  FailureIsEmpty
  BytesCounted
PROPERTIES
  AsksForHeldData
