SPECIFICATION Spec
CONSTANTS
  getDashboards = getDashboards
  getDashboard = getDashboard
  getReport = getReport
  FieldName = {"oid", "n", "ok", "error", "k1", "k2", "result"}
  ReadTool = {getDashboards, getDashboard, getReport}
  Derive <- MCDerive
  SkippedTools = {getReport}
  ResultsOf <- MCResultsOf
  MaxDepth = 2
  SampleItems = 2
  MaxProps = 2
  MaxCaptures = 3
  Method <- MCMethod
  FieldDescriptions <- MCFieldDescriptions
  SchemaRules <- MCSchemaRules
  ArgumentValue <- MCArgumentValue
  MaxAnnotationDepth = 6
INVARIANTS TypeOK ResultsConform SchemasAreOrderFree MeantCallsArrive IncompleteCallsAreStopped DocumentationArrives
