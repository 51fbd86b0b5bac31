\* Every part.
CONSTANTS
\* Validator
  Node <- Nodes
  Root <- TopNode
  Height <- Levels
  Name <- FieldNames
  Schemas <- CheckedSchemas
  NoNode <- NoItems
  Data <- EntityData
  Values <- AllData
  Nesting <- Deepness
  Unset = Unset
  Registrations <- CheckedKinds
  Returned <- ConstructorStatuses
  Handlers = {r1}
\* Interface
  Segment <- PathSegments
  Params <- ParamNames
  Void = "void"
  Plain = "plain"
  Descriptions <- AllDescriptions
  Later <- LaterDescriptions
  Unknown = Unknown
\* Procedures
  OwnStatuses = {404, 599}
  NoError = NoError
  MaxDepth = 3
SPECIFICATION Spec
INVARIANTS TypeOK SpecHasNoStatusOnly StatusConforms DocumentedAsValidated
  DocumentedIsServed ClientIsServed RefsLeadHome CodeSurvives CauseIsNearest
