SPECIFICATION Spec
CONSTANTS
  Files <- ReturnFiles
  CommandLines <- ReturnCommandLines
  Lines = {}
  MaxLines = 0
  lexer_scan <- LexerScan
  parser_parse <- ParserParse
  compiler_compile <- CompilerCompile
  engine_run <- TreeInterpret
INVARIANT ExitCodesDocumented
CHECK_DEADLOCK FALSE
