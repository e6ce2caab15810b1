SPECIFICATION Spec
CONSTANTS
  d1 = d1  d2 = d2  s1 = s1  s2 = s2
  None = None
  TrueId = TrueId
  Docs <- MCDocs
  Dims <- MCDims
  Schemas <- MCSchemas
  Years <- MCYears
  Texts <- AllTexts
  MaxInserts = 2
  MaxChanges = 1
SYMMETRY Symmetry
INVARIANTS TypeOK LabelsResolve OnlyExportedContent OwnPlainBundleRestores
