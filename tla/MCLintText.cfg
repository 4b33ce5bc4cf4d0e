SPECIFICATION TextSpec
CONSTANTS
  Alphabets <- MCAlphabets
  MaxChars <- MCMaxChars
  MaxLines = 3
INVARIANTS ExpressionsAgree TextAgrees OpenEndsReported
CHECK_DEADLOCK FALSE
