\* Objects with fields of up to two bytes; buffers of up to ten bytes over
\* {0, 1, 2}, so that header lengths are small (0..2), 65536 and beyond.
\* Seeks with every start and end, and without an end.
SPECIFICATION Spec
CONSTANTS
    ObjBytes = {0, 255}
    ObjLen = 2
    BufBytes = {0, 1, 2}
    BufLen = 10
    NoEnd = NoEnd
    SeekArgs <- MCSeeks
INVARIANT RoundTrip CanonicalLayout
