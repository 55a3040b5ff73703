CONSTANTS
  b1 = b1
  b2 = b2
  c1 = c1
  c2 = c2
  c3 = c3
  zero = zero
  Producers <- MC_OneProducer
  Commands <- MC_Commands
  Zeroed = zero
  MaxCommands <- MC_MaxCommands
  MaxTime <- MC_MaxTime
SPECIFICATION Spec
INVARIANT StatusResolved
\* The commands are finite; once all are submitted and the queue is empty the
\* worker of pgraft_main only sleeps and polls, a state with no step here.
CHECK_DEADLOCK FALSE
