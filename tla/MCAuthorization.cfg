CONSTANTS
  None = None
  Direct = Direct
  Wildcard = Wildcard
  Namespace <- NamespaceDef
  Name <- NameDef
  Rule <- RuleDef
  Id <- IdDef
  Updates <- UpdatesDef
  Pool <- PoolDef
  Subjects <- SubjectsDef
  Objects <- ObjectsDef
  MaxDepth = 25
  Shallower = {1, 3, 4}
SPECIFICATION Spec
INVARIANTS
  TypeOK
  CheckExact
  DepthOnlyForgets
  EdgesDefined
PROPERTIES
  ModelIsOfRegistry
  WritesNeverRevoke
