CONSTANTS
  Size = 9
  Gap = 3
  Byte = {0, 255}
  FF = 255
SPECIFICATION ImageSpec
INVARIANT LoadedAsBuilt
CHECK_DEADLOCK FALSE
