\* An operational and an LLM enricher on one message; a later build may bump,
\* add and drop both.
SPECIFICATION FairSpec
CONSTANTS
  Mail = {1}
  Enrichers = {1, 2}
  Operational = {1}
  Llm = {2}
  Removable = {1, 2}
  MaxVersion = 2
  MaxAttempts = 2
  Batch = 1
  LlmBatch = 1
  Passes = 2
  HealLimit = 2
  MaxRestarts = 2
  MaxFaults = 1
INVARIANT LedgerIsTrue
PROPERTY Covered
