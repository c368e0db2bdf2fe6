CONSTANTS
  PRs = {p1, p2}
  Jobs = {j1, j2}
  NoPR = NoPR
SPECIFICATION Spec
SYMMETRY Symmetry
PROPERTY RefreshDoesNotInterfere
