SPECIFICATION Spec
CONSTANTS
  Proxied = {p1, p2}
  Local = {h1}
  Statuses = {101, 404}
  MaxRestarts = 1
  MaxFaults = 0
SYMMETRY ProxiedSymmetry
INVARIANTS LedgerJoins
