\* Two certificates: the first keeps a problem while the second nears expiry.
SPECIFICATION Spec
CONSTANTS
    a = a
    b = b
    None = None
    CertList <- MCCertList
    Offset = 2
    Interval = 1
    MaxTime = 5
INVARIANT WarnedBeforeExpiry
