SPECIFICATION FairSpec

CONSTANTS
  PipelineScans = {pulses}
  DelayScans    = {tmbdav}
  Script        = Script
  Seconds       = 2
  Depths        = {1, 2}
  MaxTasks      = 2
  MaxThrows     = 1

INVARIANTS
  PulsesAreTaken
  RunsGoToTheirDirectory
  TrueIfInTime

PROPERTIES
  TaskEnds
  ComesToRest

CHECK_DEADLOCK FALSE
