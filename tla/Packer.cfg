SPECIFICATION Spec
CONSTANTS
  Texts <- MCTexts
  MaxLength = 8
  ChunkSize = 4
  Overlap = 2
\* The packer stops when the text is packed.
CHECK_DEADLOCK FALSE
INVARIANTS TypeOK Covered Bounded Progress Dense
