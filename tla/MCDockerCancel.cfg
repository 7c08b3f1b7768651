SPECIFICATION FairSpec
PROPERTY CancelStops
\* the box may be left alone
CHECK_DEADLOCK FALSE
