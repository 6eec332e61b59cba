\* Bursts that lose a label or a meter, lines destroyed, windows that end anywhere,
\* sessions lost in the middle of a burst or a line.
SPECIFICATION Spec
CONSTANTS
  None = None
  Grants = {16}
  Draws = {11}
  Codes = {e1}
  Damages = {"intact", "label"}
  Reconnects = TRUE
  MaxWire = 3
INVARIANTS
  FeedTypeOK
  PhasesAreTrue
  
  ShownFaultStands
  PilotTrueOrUnknown
