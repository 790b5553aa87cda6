\* Keyword arrays may repeat a value: the postings contract's one entry
\* per document and term is checked against what AddDocument appends.
CONSTANTS
    ExtIds = {"d1", "d2"}
    SchemaFields <- WrSchemaFields
    DefaultAnalyzer = ""
    FieldValues <- WrFieldValuesRepeat
    MaxDocsFed = 2
SPECIFICATION Spec
INVARIANT PostingsMatchDocuments
