SPECIFICATION Spec
CONSTANTS
  djb2_hash <- Djb2
  NL = "nl"
  CR = "cr"
  ALPHABET <- Letters
  File <- SmallFiles
  OCCURENCES_THRESHOLD = 2
  COUNT_BUCKETS = 3
  COUNT_LINE_LEN = 7
  MAX_WORD_LEN = 8
INVARIANTS
  TypeOK
  WordsAreTheLines
  
  
  EverySubstrHasAnAnswer
