SPECIFICATION Spec
CONSTANTS
  CppHeaders <- MCCppHeaders
  ThirdParty <- MCThirdParty
  LetterOrder <- MCLetterOrder
  NormalTrigger = 1
  TestTrigger = 2
  Punctuation <- MCPunctuation
  Capitals <- MCCapitals
  TestNames = {"TEST"}
  NamespaceLines = 3
  SectionLines = 2
  Words <- MCWords
  MacroNames <- MCMacroNames
  Alphabets <- MCAlphabets
  Sizes <- MCSizes
  Settings <- MCSettings
INVARIANTS BlocksAgree AssemblyAgrees LayoutAgrees FunctionSizeAgrees
INVARIANTS IncludeOrderAgrees HeadersAskedFor NamesAgree GuardAgrees
CHECK_DEADLOCK FALSE
