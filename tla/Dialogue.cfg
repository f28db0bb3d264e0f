CONSTANTS
  Chunk = {3, 278}
  Answers = {24, 267}
SPECIFICATION FairSpec
INVARIANTS TypeOK WelcomeLeavesPrompt InStep StallHasCause
PROPERTIES PromptFollowsEntry SessionEnds ClientNotices
