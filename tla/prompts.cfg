SPECIFICATION Spec
CONSTANTS
  MINUTES = 5
  PARTS = 2
  MAX_ATTEMPTS = 3
  MAX_CHATGPT_PROMPTS = 4
  FirstConfig <- MCConfig
  Forms <- MCForms
  MaxEvents = 1
INVARIANTS PromptInv OneRunPerMinute MinutesServed
