CONSTANTS
  Schema <- MCSchema
  Root = "Top"
  Fields <- MCFields
  StrOrder <- MCStrOrder
  Docs <- MixedKeyDocs
  Overwrite = TRUE
SPECIFICATION Spec
INVARIANT RoundTrip
