SPECIFICATION Spec
CONSTANTS
  HashBytes = 2
  MaxChars = 5
  Urls = {"https", "other", "empty"}
  Idles = {0, 1, 30000}
INVARIANTS
  HashOrSentence
CHECK_DEADLOCK FALSE
