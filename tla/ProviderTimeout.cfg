SPECIFICATION FairSpec
CONSTANTS
 PromptLen = 2
 PipeSize = 1
 MaxOutput = 2
 MaxWrites = 3
 Calls <- MCCalls
PROPERTIES TimeoutIsHard
CHECK_DEADLOCK FALSE
