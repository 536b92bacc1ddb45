SPECIFICATION ProgressSpec
CONSTANTS
  NULL = NULL
  \* Staleness: H4 bars, a worker that lives, one provider outage
  BarHours = 4
  MinThreshold = 1
  WorkerDies = FALSE
  Outages = 1
\* Clocks, bars, alerts and faults are bounded, and at the bounds some
\* components have nothing left to do; a backtest ends.
CHECK_DEADLOCK FALSE
INVARIANTS
  SweepIsAccurate
PROPERTIES
  IngestionRecovers
  WorkIsDone
  DecisionsArrive
  StatusFollows
  PageIsLive
  GaugeFollows
