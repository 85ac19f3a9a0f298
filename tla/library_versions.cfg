SPECIFICATION Spec
CONSTANTS
    s1 = s1
    s2 = s2
    q1 = q1
    q2 = q2
    c1 = c1
    c2 = c2
    States <- OneState
    Questions <- TwoQuestions
    Calibrators <- OneCalibrator
    MaxVersions = 2
    MaxExamples = 1
    MaxEdits = 1
    MaxJobs = 2
    MaxReports = 2
    MaxFits = 1
    MaxCrashes = 1
INVARIANT RefIsOwnReport
INVARIANT EvidenceIsOwn
INVARIANT TrustedOnEvidence
SYMMETRY Interchangeable
CHECK_DEADLOCK FALSE
