\* Two tasks; one check of each kind that matters to the verdict.
CONSTANTS
    Tasks = {t1, t2}
    None = None
    Enabled = {"tests", "sast"}
    Detected = {"python", "node"}
    Configured = "docker"
    DockerAnswers = TRUE
SPECIFICATION Spec
INVARIANT NoSilentPass
CHECK_DEADLOCK FALSE
