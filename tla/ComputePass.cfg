\* Two callers and a queue with room for one command buffer.
SPECIFICATION Spec
CONSTANTS
  gray = gray
  red = red     blue = blue
  light = light dark = dark
  Callers = {main, worker}
  Texels <- MCTexels
  Pictures <- MCPictures
  Jobs = {gray}
  Kernel <- MCKernel
  ExecutionWidth <- MCWidth
  MaxThreads <- MCThreads
  QueueLimit = 1
INVARIANTS
  ResultCorrect
PROPERTIES
  ReadbackIsFinal
  EveryCallReturns
  RefinesImageOp
