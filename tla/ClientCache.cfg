SPECIFICATION Spec
CONSTANTS
  Request = {r1, r2, r3}
  MaxBytes = 0
  SendBound = 0
  NumCtx = 8
  NumPredict = 3
  TemplateTokens = 2
  Category = {advice}
  Workers = 2
  Asked <- AllExplain
  OllamaReply <- PlainReplies
INVARIANTS
  ClientsBounded
CHECK_DEADLOCK FALSE
