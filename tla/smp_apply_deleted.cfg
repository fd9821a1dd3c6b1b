CONSTANTS
  Schema <- MCSchema
  Root = "Top"
  Fields <- MCFields
  StrOrder <- MCStrOrder
  Docs <- ListDocs
  Overwrite = TRUE
SPECIFICATION Spec
PROPERTY ApplyRemovesDeleted
