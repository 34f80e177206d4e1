CONSTANTS
  r1 = r1
  r2 = r2
  q1 = q1
  q2 = q2
  Runs = {r1, r2}
  Readers = {q1}
  Wants = {"get_run", "get_run_state", "list_awaiting", "ready"}
SYMMETRY Symmetry
SPECIFICATION Spec
INVARIANT
  TypeOK
  DecidedShowsDecision
