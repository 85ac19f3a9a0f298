SPECIFICATION Spec
CONSTANTS
    s1 = s1
    s2 = s2
    q1 = q1
    q2 = q2
    c1 = c1
    c2 = c2
    States <- OneState
    Questions <- OneQuestion
    Calibrators <- NoCalibrator
    MaxVersions = 1
    MaxExamples = 1
    MaxEdits = 1
    MaxJobs = 2
    MaxReports = 2
    MaxFits = 0
    MaxCrashes = 0
INVARIANT TrustedMeetsTargets
CHECK_DEADLOCK FALSE
