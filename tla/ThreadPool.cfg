SPECIFICATION Spec
CONSTANTS
  Cores <- MCCores
  LastCore = 2
  Bsp = 1
  Args <- MCArgs
  NoArg = none
  Funs = {f, g}
  Bufs = {b1, b2, b3}
  Free = free
  NoFun = nofun
  NoBuf = nobuf
  LateStart = FALSE
  Careful = TRUE
INVARIANTS EverySliceOnce MailboxSound 
  
CHECK_DEADLOCK FALSE
