SPECIFICATION Spec
CONSTANTS
  geocode = geocode current = current premium = premium
  h1 = h1 h2 = h2
  None = None
  Names <- ThreeNames
  Handlers <- TwoHandlers
  MaxBatch = 3
SYMMETRY Symmetry
INVARIANTS TypeOK NamesUnique CallsWhatIsListed
PROPERTIES CatalogGrows
