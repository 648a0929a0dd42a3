SPECIFICATION Spec
CONSTANTS
  Request = {r1, r2}
  MaxBytes = 0
  SendBound = 1
  NumCtx = 8
  NumPredict = 3
  TemplateTokens = 2
  Category = {advice}
  Workers = 1
  Asked <- AnyBesideExplain
  OllamaReply <- AllReplies
INVARIANTS
  TypeOK
  OnlyVerifiedTextLeaves
  StatusTellsWhoFailed
  LogMatchesAnswer
PROPERTIES
  EveryRequestCompletes
CHECK_DEADLOCK FALSE
