\* Up to three things wrong at once; the scripts end.
SPECIFICATION Spec
CONSTANT MaxWrong = 3
INVARIANT GreenMeansClean GreenMeansFired GreenMeansVerdicts
PROPERTY HealthyEndsGreen
CHECK_DEADLOCK FALSE
