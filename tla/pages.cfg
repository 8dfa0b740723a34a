SPECIFICATION Spec
CONSTANTS
  Served <- MCServed
  Fragments <- MCFragments
  Join <- MCJoin
  Extension <- MCExtension
  Tag <- MCTag
  MaxEdges = 2
  MaxHeadings = 1
  MaxTags = 2
  MaxTerms = 5
  MaxFragments = 2
INVARIANTS
  OneEntryPerPage
  ReadAsWritten
