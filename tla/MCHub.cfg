CONSTANTS
  Tab = {a, b}
  Topic = {s}
  MaxMoves = 3
  MaxFaults = 1
  MaxEvents = 1
  QuickLeaves = TRUE
SPECIFICATION Spec
INVARIANTS NoTopicForgotten
PROPERTIES MissedIsHealed
CHECK_DEADLOCK FALSE
