CONSTANTS
  a1 = a1
  a2 = a2
  Agent = {a1, a2}
  Channel = "dsk.bus.channel.default"
  CasKeys = {"dsk.bus.cursor.default"}
  LooseKeys = {"dsk.bus.cursor.default"}
  Fenced = TRUE
  MaxRetries = 2
  MaxOps = 4
SPECIFICATION Spec
SYMMETRY Symmetry
CHECK_DEADLOCK FALSE
PROPERTY NoSilentOverwrite
