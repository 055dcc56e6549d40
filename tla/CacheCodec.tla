----------------------------- MODULE CacheCodec -----------------------------
(***************************************************************************)
(* The binary layout of a CacheObject (src/src/cache/http_cache.rs,        *)
(* From<CacheObject> for Vec<u8> and From<Vec<u8>> for CacheObject):      *)
(*   0..4  meta0 length (u32, big-endian)                                  *)
(*   4..8  meta1 length (u32, big-endian)                                  *)
(*   8..   meta0 ++ meta1 ++ body                                          *)
(* A buffer is a sequence of bytes (0..255).  A decode whose header asks   *)
(* for more bytes than the buffer has slices out of range and panics; the  *)
(* result SlicePanic stands for that.                                      *)
(***************************************************************************)
EXTENDS Integers, Sequences

SizeByte == 8

\* CacheObject::default(): empty meta and body.
DefaultObject == [meta |-> <<<<>>, <<>>>>, body |-> <<>>]

\* The panic of `value[start..end]` with end beyond the buffer.
SlicePanic == [panic |-> "slice index out of range"]

\* `len() as u32` then BufMut::put_u32: four bytes, most significant first.
\* The cast truncates lengths of 4 GiB and more; TLC's integers stop at
\* 2^31, and the lengths of the models are a few bytes, so it is omitted.
PutU32(n) ==
    <<(n \div 2^24) % 256, (n \div 2^16) % 256, (n \div 2^8) % 256, n % 256>>

\* Fault variants for checking the properties: the header read as
\* little-endian; the body slice not advanced past meta1.
U32AtLittleEndian(buf, i) ==
    ((buf[i + 3] * 256 + buf[i + 2]) * 256 + buf[i + 1]) * 256 + buf[i]

\* u32::from_be_bytes(value[i..i+4]).
U32At(buf, i) ==
    ((buf[i] * 256 + buf[i + 1]) * 256 + buf[i + 2]) * 256 + buf[i + 3]

\* From<CacheObject> for Vec<u8>.
Encode(o) ==
    PutU32(Len(o.meta[1])) \o PutU32(Len(o.meta[2]))
        \o o.meta[1] \o o.meta[2] \o o.body

DecodeBodyFromMeta1(buf) ==
    IF Len(buf) < SizeByte THEN DefaultObject
    ELSE LET end0 == SizeByte + U32At(buf, 1)
             end1 == end0 + U32At(buf, 5)
         IN IF end1 > Len(buf) THEN SlicePanic
            ELSE [meta |-> <<SubSeq(buf, SizeByte + 1, end0),
                             SubSeq(buf, end0 + 1, end1)>>,
                  body |-> SubSeq(buf, end0 + 1, Len(buf))]

\* From<Vec<u8>> for CacheObject.
Decode(buf) ==
    IF Len(buf) < SizeByte THEN DefaultObject
    ELSE LET end0 == SizeByte + U32At(buf, 1)
             end1 == end0 + U32At(buf, 5)
         IN IF end1 > Len(buf) THEN SlicePanic
            ELSE [meta |-> <<SubSeq(buf, SizeByte + 1, end0),
                             SubSeq(buf, end0 + 1, end1)>>,
                  body |-> SubSeq(buf, end1 + 1, Len(buf))]

=============================================================================
