SPECIFICATION Spec
CONSTANTS
  Requests = {q1, q2}
  Workspaces = {w1, w2}
  Preferences = {p1}
SYMMETRY Alike
PROPERTIES
  DoesWhatIsAsked
