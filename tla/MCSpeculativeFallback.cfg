CONSTANTS
  Token <- MCToken
  Eos <- MCEos
  Model <- MCModel
  Target <- MCTarget
  Prompts <- MCPrompts
  Budgets <- MCBudgets
  MaxPosition = 8
  NumSlots = 3
  AttentionSlots <- MCAttentionSlots
  Width = 3
  NoToken = NoToken

SPECIFICATION Spec

INVARIANT NoProposalAfterMismatch
