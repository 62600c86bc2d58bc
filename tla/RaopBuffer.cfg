CONSTANTS
  RAOP_BUFFER_LENGTH = 3
  Laps = 2
SPECIFICATION BufferSpec
INVARIANTS
  WindowInv
PROPERTIES
  StoredFrameFate
  ResendsAreGaps
  ImplementsJitterBuffer
