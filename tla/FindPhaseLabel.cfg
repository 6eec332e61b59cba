\* cn28.rs: the decoder never invents a phase label; bursts that also lose a line.
SPECIFICATION Spec
CONSTANTS
  None = None
  Grants = {16}
  Draws = {11}
  Codes = {e1}
  Damages = {"intact", "label", "line"}
  Reconnects = FALSE
  MaxWire = 4
INVARIANTS
  PhasesAreTrue
