CONSTANTS
  p1 = p1
  p2 = p2
  Publishers <- MCPublishers
  Watched <- MCWatched
SPECIFICATION FirstSpec
SYMMETRY Symmetry
INVARIANTS PlansAreSeeded
