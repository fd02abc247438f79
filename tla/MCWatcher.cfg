SPECIFICATION FairSpec
CONSTANTS
  Boxes = {b1}
  Uids = {1}
  MaxTries = 2
  MaxFetches = 2
  MaxFaults = 3
INVARIANTS
  TimersBelong
  NeverSilentlyOff
  StaysOff
  SeenIsQueued
PROPERTIES
  MailGetsQueued
