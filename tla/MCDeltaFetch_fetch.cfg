\* One client fetches three times while three creations or edits are made of three
\* reports; pages of one report, followed or not.
SPECIFICATION Spec
CONSTANTS
  Report = {r1, r2, r3}
  Edit = {e1, e2, e3}
  Original = Original
  Client = {c1}
  PageSize = 1
  MaxFetch = 3
SYMMETRY Symmetry
INVARIANTS TypeOK QuietEditsArrive
PROPERTIES CursorNeverGoesBack
