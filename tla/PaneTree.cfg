CONSTANTS
  MaxPanes = 3
  NoPane = NoPane
  Remote = {1, 3}
  Rezoomed = FALSE
SPECIFICATION Spec
INVARIANTS TypeOK ProperTree ZoomedListed NoneForgotten
PROPERTIES FocusKept SplitLands
