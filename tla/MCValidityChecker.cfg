\* One certificate, every validity window and start time.
SPECIFICATION Spec
CONSTANTS
    a = a
    b = b
    None = None
    CertList <- MCCertOne
    Offset = 2
    Interval = 1
    MaxTime = 5
INVARIANT WarnedBeforeExpiry
