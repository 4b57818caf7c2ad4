SPECIFICATION FairSpec
CONSTANTS
 PromptLen = 2
 PipeSize = 1
 MaxOutput = 2
 MaxWrites = 3
 Calls <- MCCalls
INVARIANTS NoCircularWait AnswerIsWhole
PROPERTIES CallReturns
CHECK_DEADLOCK FALSE
