SPECIFICATION Spec
CONSTANTS
  Files <- Programs
  CommandLines <- MCCommandLines
  Lines <- MCLines
  MaxLines = 3
  lexer_scan <- LexerScan
  parser_parse <- ParserParse
  compiler_compile <- CompilerCompile
  engine_run <- TreeInterpret
INVARIANTS RejectedRunsNothing ExitCodeTellsFailure SessionIsSumOfLines
CHECK_DEADLOCK FALSE
