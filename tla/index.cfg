SPECIFICATION Spec
CONSTANTS
  MaxTf = 4
  MaxExtracted = 4
  Scale = 60
  Weight <- MCWeight
  MaxZstdRatio = 2
  MaxDecompressed = 82
  CompressedLen <- MCCompressedLen
  Docs <- MCDocs
  Dim = 2
  Metric = "dot"
  EmbedderId = 8
  CandidateFloor = 1
  Queries <- MCQueries
  GraphAnswers <- MCGraphAnswers
  Default <- MCDefault
  RelatedK = 2
INVARIANTS
  Faithful
  SearchExact
  RelatedExact
  TiersExact
  LookupFused
