SPECIFICATION Spec
CONSTANTS
  NumSteps = 3
  HasUndo = {0, 2}
  MaxFaults = 6
INVARIANTS JournaledNotRepeated JournalIsTrue OnlyTheStepInFlightIsLeft
PROPERTY ResumeCompletes
