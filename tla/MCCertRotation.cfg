\* One CA that signs two certificates, two VMs, two generations; jobs fail, but not
\* between the move of a flag and the last regeneration that follows it, and an
\* operator starts rotate-certs again at any time between deploys; from some time on
\* they do not.
SPECIFICATION FairSpec
CONSTANTS
    Cert = {"ca", "l", "k"}
    SignedBy <- OneCA
    Instance = {i1, i2}
    MaxAged = 2
    CrashWhileRegenerating = FALSE
INVARIANTS
    TypeOK
    Trust
    NoOrphans
PROPERTIES
    TrustedBeforeUse
    RetiredAfterUse
    RotationCompletes
