SPECIFICATION AgentSpec
CONSTANTS
  MaxVersion <- MCMaxVersion
  MaxAgents <- MCMaxAgents
INVARIANTS
  SizesAreReal
  AgentCurrent
  HelperVisible
