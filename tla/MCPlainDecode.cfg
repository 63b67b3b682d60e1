CONSTANTS
  Token <- MCToken
  Eos <- MCEos
  Model <- MCModel
  Target <- MCTarget
  Prompts <- MCPrompts
  Budgets <- MCBudgets
  MaxPosition = 7
  NumSlots = 3
  AttentionSlots <- MCAttentionSlots
  NoToken = NoToken

SPECIFICATION FairSpec

INVARIANTS
  TypeOK
  EachTokenReadOnce
  GuessesBalance
PROPERTIES
  RefinesGreedy
  CallsReturn
