SPECIFICATION Spec
CONSTANTS
  Sources <- MCSources
  ScanText <- MCScanText
  ParseTokens <- MCParseTokens
  AnalyzeAst <- MCAnalyzeAst
  LowerTree <- Lower
  TuneHir <- OptimizeHir
  LowerHir <- MCLowerHir
  TuneFunctions <- OptimizeMir
  EmitFunctions <- MCGenerate
  TextOf <- ToS
  InspectedText <- Inspect
  TextOfClass <- ClassText
  IntegerOp <- FuseOp
  HirPrograms <- MCHir
  ConstantNames <- MCConstants
  IvarNames <- MCIvars
  GlobalNames = {}
  TaskMethods <- MCTasks
  Upper <- MCUpper
INVARIANTS
  OptimizerKeepsMeaning
