\* The job may die after the flag has moved: the next run does not repair it.
SPECIFICATION PipelineSpec
CONSTANTS
    Cert = {"ca", "l"}
    SignedBy <- OneCA
    Instance = {i1, i2}
    MaxAged = 1
    CrashWhileRegenerating = TRUE
PROPERTIES
    RerunCompletes
