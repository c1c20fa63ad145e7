SPECIFICATION FairSpec
CONSTANTS
    Mode <- MCMode
    Concurrency <- MCConcurrency
    Count <- MCCount
    RunsOn <- MCRunsOn
    Routes <- MCRoutes
    Connections <- MCConnections
    Models = {"m", "n"}
    Workloads = {"single", "rush", "steady"}
    Runtimes = {"a", "b"}
    Suites <- MCSuites
    Focuses <- MCFocuses
    Trials = 1
    Repetitions = 2
    MaxDiagnose = 1
INVARIANTS
    TrialSound
    EndsAsRecorded
    NothingLeftBehind
PROPERTIES
    CommandEnds
