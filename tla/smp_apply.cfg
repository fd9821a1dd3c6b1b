CONSTANTS
  Schema <- MCSchema
  Root = "Top"
  Fields <- MCFields
  StrOrder <- MCStrOrder
  Docs <- ApplyDocs
  Overwrite = FALSE
SPECIFICATION Spec
INVARIANT TypeOK
INVARIANT RoundTrip
PROPERTY ApplyEstablishesConfig
PROPERTY NoSilentOverwrite
