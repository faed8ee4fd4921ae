SPECIFICATION FairSpec
CONSTANTS
  Tasks = {t1, t2, t3}
  MsTicks = 2
  StartTime = 65536
  EndTime = 65541
  MaxTarget = 65538
  Uint16Max = 65535
  Never = 99999
INVARIANTS TypeOK TasksConserved WakeupArmed TimerBracketsFirstTask
PROPERTIES RefinesTaskRunner EveryTaskRuns
CHECK_DEADLOCK FALSE
