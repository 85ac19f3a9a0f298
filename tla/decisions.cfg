SPECIFICATION Spec
CONSTANTS
    OptionCap = 5
    MinOptionBudget = 3
    PerFloor = 2
    HeadFloor = 2
    HeadMax = 11
    InputMax = 20
    MinStateRoom = 2
    ManyLabels = 4
    LongText = 7
    MaxQuestions = 2
    Top = 3
    GridLow = 1
    GridHigh = 2
    MinAnswers = 2
    MinExamples = 3
    MinFit = 2
    TypeOf <- Types
    LabelsOf <- Labels
    TargetOf <- Targets
    QuestionSets <- SomeSets
    Evidences <- EvidenceOf
    FewEvidences <- FewEvidenceOf
    Answers <- AnswersOf
    DefaultThreshold = 2
    RowBudget = 2
    MaxCall = 2
    MaxItems = 3
    PageSize = 1
    Filters <- SomeFilters
    MaxReports = 3
    FewReports = 1
INVARIANT ValidMeansUsable
INVARIANT NoSilentCut
INVARIANT ThresholdIsLowest
INVARIANT DecidedMeetsTarget
INVARIANT TargetsAgree
INVARIANT PagesComplete
INVARIANT PagesMissNothing
INVARIANT SampleUsable
CHECK_DEADLOCK FALSE
