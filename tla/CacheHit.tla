------------------------------ MODULE CacheHit ------------------------------
(***************************************************************************)
(* The hit handler HttpCache::lookup builds (CompleteHit in              *)
(* src/src/cache/http_cache.rs): the whole body of the object, a done    *)
(* flag and the byte range the next read returns.  The runtime calls     *)
(* seek once per requested range and reads until None.  A read result   *)
(* is a record: ok is FALSE when the slice panicked.                     *)
(***************************************************************************)
EXTENDS Integers, Sequences

CONSTANTS
    SeekArgs,   \* <<start, end>> pairs the runtime may seek with
    NoEnd       \* the end argument None

VARIABLES
    body,         \* CompleteHit.body
    done,         \* CompleteHit.done
    range_start,  \* CompleteHit.range_start
    range_end,    \* CompleteHit.range_end
    served        \* the result of the last read since the last seek

NotRead == [ok |-> TRUE, bytes |-> <<>>]

hitVars == <<body, done, range_start, range_end, served>>

\* HttpCache::lookup on a hit: CompleteHit over the whole body.
Lookup(b) ==
    /\ body = b
    /\ done = FALSE
    /\ range_start = 0
    /\ range_end = Len(b)
    /\ served = NotRead

\* body[from..to) of a Vec, 0-based, panicking when from > to or when to
\* is past the end.
Slice(b, from, to) ==
    IF from > to \/ to > Len(b) THEN [ok |-> FALSE, bytes |-> <<>>]
    ELSE [ok |-> TRUE, bytes |-> SubSeq(b, from + 1, to)]

\* CompleteHit::seek: a start at or beyond the body is Error::Invalid and
\* changes nothing; otherwise the start is set, the end only when given
\* (clamped to the body), and reading starts over.
Seek(s, e) ==
    IF s >= Len(body)
      THEN UNCHANGED hitVars
      ELSE /\ range_start' = s
           /\ range_end' = IF e = NoEnd THEN range_end
                           ELSE IF Len(body) < e THEN Len(body) ELSE e
           /\ done' = FALSE
           /\ served' = NotRead
           /\ UNCHANGED body

\* CompleteHit::get (read_body): the range once, then None.  The None
\* branch changes nothing and is left as stuttering.
Read ==
    /\ ~done
    /\ done' = TRUE
    /\ served' = Slice(body, range_start, range_end)
    /\ UNCHANGED <<body, range_start, range_end>>

HitNext == (\E r \in SeekArgs : Seek(r[1], r[2])) \/ Read

=============================================================================
