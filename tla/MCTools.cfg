SPECIFICATION Spec
CONSTANTS
  None = None
  Scalar = Scalar
  Wildcards = {2}
  Inherited <- MCInherited
  InheritedIds = {"inherited"}
  Suffixed = {}
  Alphabet <- MCAlphabet
  Package <- MCPackage
  JavaLang = {0}
  Supplied <- MCSupplied
  MaxRows = 2
  MaxImports = 8
  Literals <- MCLiterals
  Defaults <- MCLiterals
  VariableOf <- MCVariableOf
  Numbered <- MCNumbered
  Lambdas = {"lambda"}
  Getters = {"getMessage"}
  Limits <- MCLimits
  Modes <- MCModes
  Packs <- MCPacks
  Items <- MCItems
  Sources <- MCSources
  Requests <- MCRequests
  AnswerItems <- MCAnswerItems
  RepairItems <- MCRepairItems
  Answers <- MCAnswers
  Repairs <- MCRepairs
  Builds <- MCBuilds
  Reports <- MCReports
  Contexts <- MCContexts
  Packings <- MCPackings
  Roots <- MCRoots
  ModuleLists <- MCModuleLists
  Projects <- MCProjects
  MethodNames <- MCMethodNames
  Completions <- MCCompletions
INVARIANTS SentIsAnswerable AnswersAreSettled PlanIsDerived PlanIsRanked PackIsFaithful GatesAgree
CHECK_DEADLOCK FALSE
