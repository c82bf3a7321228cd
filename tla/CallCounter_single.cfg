SPECIFICATION Spec
CONSTANTS
  Thread = {t}
  Function = {f, g}
  Handler = {}
  Wrap = 3
  MaxCalls = 4
INVARIANT TypeOK
PROPERTY ImplementsTally
PROPERTY ReportCompletes
