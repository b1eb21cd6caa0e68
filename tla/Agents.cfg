SPECIFICATION Spec
CONSTANTS
  None = None
  Units = {"loop", "phase", "recovery", "graph", "budget", "compaction", "guard", "memory"}
INVARIANTS TypesOK OnceOnly OutcomesTruthful
PROPERTY EndsStand
CHECK_DEADLOCK FALSE
