SPECIFICATION Spec
CONSTANTS
    s1 = s1
    s2 = s2
    q1 = q1
    q2 = q2
    c1 = c1
    c2 = c2
    States <- TwoStates
    Questions <- OneQuestion
    Calibrators <- OneCalibrator
    MaxVersions = 1
    MaxExamples = 2
    MaxEdits = 2
    MaxJobs = 2
    MaxReports = 2
    MaxFits = 1
    MaxCrashes = 0
INVARIANT AnswersMeetTheirLabels
SYMMETRY Interchangeable
CHECK_DEADLOCK FALSE
