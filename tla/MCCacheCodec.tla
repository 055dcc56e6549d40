---------------------------- MODULE MCCacheCodec ----------------------------
(***************************************************************************)
(* Checks the CacheObject layout and the hit handler over bounded inputs. *)
(* The state holds one input, an object (to encode) or a buffer (to      *)
(* decode), which Init enumerates and no step changes, and a CompleteHit *)
(* over the object's body that lookup built, which seeks and reads.      *)
(***************************************************************************)
EXTENDS CacheCodec, CacheHit, SequencesExt, TLC

CONSTANTS
    ObjBytes,   \* byte values of object fields
    ObjLen,     \* maximum length of meta0, meta1 and body
    BufBytes,   \* byte values of raw buffers
    BufLen      \* maximum length of raw buffers

VARIABLES obj, buf

vars == <<obj, buf, body, done, range_start, range_end, served>>

BoundedObjects ==
    [meta : SeqOf(ObjBytes, ObjLen) \X SeqOf(ObjBytes, ObjLen),
     body : SeqOf(ObjBytes, ObjLen)]

Init ==
    /\ \/ obj \in BoundedObjects /\ buf = <<>>
       \/ obj = DefaultObject /\ buf \in SeqOf(BufBytes, BufLen)
    /\ Lookup(obj.body)

Next == HitNext /\ UNCHANGED <<obj, buf>>

\* Every seek: a start within or past the body, an end before, inside or
\* past it, or the end left out.
MCSeeks == ((0..ObjLen) \X (0..(ObjLen + 1))) \union {<<s, NoEnd>> : s \in 0..ObjLen}

Spec == Init /\ [][Next]_vars

\* Decoding what From<CacheObject> encoded gives the object back
\* (decode(encode(x)) == x, the layout invariant of the persisted format).
RoundTrip == Decode(Encode(obj)) = obj

\* Every file of at least 8 bytes that From<Vec<u8>> decodes without a
\* panic is the encoding of the object it decodes to: no two files decode
\* to the same object, so a decoded object never silently drops bytes.
CanonicalLayout ==
    LET d == Decode(buf)
    IN Len(buf) >= SizeByte /\ d # SlicePanic => Encode(d) = buf
=============================================================================
