CONSTANTS
  p1 = p1
  p2 = p2
  Publishers <- MCPublishers
  Watched <- MCWatched
SPECIFICATION Spec
SYMMETRY Symmetry
INVARIANTS SchemaOfRevision RevisionsReachable Consistent ApiNeverAhead
PROPERTIES PublishedIsBuilt
