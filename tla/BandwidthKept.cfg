\* Does run() keep the bandwidth of a test that succeeded?
SPECIFICATION Spec
INVARIANT MeasurementKept
\* Both threads end.
CHECK_DEADLOCK FALSE
