SPECIFICATION Spec
CONSTANTS
  MaxRows = 3
  MaxOffset = 3
  InitialRows = 2
  Events <- MCEvents
  PageSizes <- MCPageSizes
  Catalogue <- MCCatalogue
  Family <- MCFamily
INVARIANT SelectedBenchmarkExists
