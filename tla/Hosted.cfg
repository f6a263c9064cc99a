SPECIFICATION Spec
CONSTANTS
  Direct = 1
  Per = 2
  Physical = {1, 2, 3}
  Paths <- MCPaths
  FDs <- MCFDs
  CAP = 2
  HOSTED_HEAP_SZ = 1
  KBUF_SZ = 5
  RAW_SZ = 3
  Ps2Keys <- MCKeys
  Packets <- MCPackets
  MAX_VOICES = 2
  BDL_ENTRIES = 4
  QUEUE = 2
  MUSIC_RING_FRAMES = 2
  CountMod = 4
  GenMod = 8
  ToneMod = 3
  FadeSteps = 1
  ED_MAX_LINES = 3
  ED_MAX_COLS = 3
  ED_UNDO_MAX = 2
  ED_UNDO_CAP = 7
  ED_YANK_CAP = 4
  TermRows = 4
  Scenarios <- MCScenarios
INVARIANTS   MixerSound UndoExact EditorSound
CHECK_DEADLOCK FALSE
