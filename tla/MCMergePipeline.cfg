\* Two tasks; one check of each kind that matters to the verdict.
CONSTANTS
    Tasks = {t1, t2}
    None = None
    Enabled = {"tests", "sast"}
    Detected = {"python", "node"}
    Configured = "docker"
    DockerAnswers = TRUE
SPECIFICATION FairSpec
INVARIANTS
    HighRiskNotMerged
    MergedPassedGates
    StatusTellsTruth
PROPERTIES
    LifeSpec
    PipelineReturns
\* the pipelines end
CHECK_DEADLOCK FALSE
