CONSTANTS
  Schema <- MCSchema
  Root = "Top"
  Fields <- MCFields
  StrOrder <- MCStrOrder
  Docs <- DuplicateScalarDocs
  Overwrite = FALSE
SPECIFICATION Spec
INVARIANT ConflictSymmetry
