------------------------------ MODULE FileCache ------------------------------
(***************************************************************************)
(* The two-tier cache of src/src/cache/file.rs behind the Storage surface *)
(* of src/src/cache/http_cache.rs.  A memory tier (TinyUfo) is consulted  *)
(* first; each key also has a file holding the encoded object.  Callers   *)
(* are concurrent tasks.  Each await of the code is a step boundary:      *)
(* fs::read is one step (an atomic snapshot of the file), fs::write opens *)
(* the file with truncation and then writes the buffer in chunks, each    *)
(* writer at its own offset through its own descriptor.                   *)
(***************************************************************************)
EXTENDS Integers, Sequences, FiniteSets, CacheCodec

CONSTANTS
    Clients,    \* concurrent tasks calling the storage
    Keys,       \* cache keys (request fingerprints)
    Objects,    \* objects a miss handler may finish with
    Metas,      \* serialized metas update_meta may install
    Ops,        \* operations the tasks issue, a subset of OpKinds
    Faults,     \* environment faults enabled, a subset of FaultKinds
    None,       \* Option::None
    NoFile      \* no file at the key's path

OpKinds == {"get", "put", "update", "purge"}
FaultKinds == {"crash", "write_error"}

ASSUME Ops \subseteq OpKinds /\ Faults \subseteq FaultKinds

VARIABLES
    mem,      \* the TinyUfo tier: key -> object or None
    disk,     \* the file of each key: a byte sequence or NoFile
    pc,       \* phase of each task
    op,       \* operation of each task
    key,      \* key of each task's operation
    meta,     \* meta an update_meta installs
    buf,      \* the encoded buffer fs::write is writing
    wrote,    \* bytes of buf written so far
    linked,   \* the writer's descriptor still names the file at the path
    got,      \* result of the task's last get (None, an object or SlicePanic)
    purged,   \* result of the task's last purge, or None
    puts      \* history: objects ever put under each key

vars == <<mem, disk, pc, op, key, meta, buf, wrote, linked, got, purged, puts>>

Phases == {"idle", "get_file", "put_open", "put_write"}

Writing(c) == pc[c] \in {"put_open", "put_write"}

\* The contents after writing buf[from..to] at offset from-1 of file f; a
\* file shorter than the offset (truncated by another writer) gets a hole
\* of zero bytes.
WriteAt(f, b, from, to) ==
    [i \in 1..IF Len(f) > to THEN Len(f) ELSE to |->
        IF i >= from /\ i <= to THEN b[i]
        ELSE IF i <= Len(f) THEN f[i] ELSE 0]

\* FileCache::get after the memory miss: fs::read, then the length check.
FileObject(f) ==
    IF f = NoFile \/ Len(f) < SizeByte THEN None ELSE Decode(f)

Init ==
    /\ mem = [k \in Keys |-> None]
    /\ disk = [k \in Keys |-> NoFile]
    /\ pc = [c \in Clients |-> "idle"]
    /\ op = [c \in Clients |-> "get"]
    /\ key \in [Clients -> Keys]
    /\ meta = [c \in Clients |-> CHOOSE m \in Metas : TRUE]
    /\ buf = [c \in Clients |-> <<>>]
    /\ wrote = [c \in Clients |-> 0]
    /\ linked = [c \in Clients |-> FALSE]
    /\ got = [c \in Clients |-> None]
    /\ purged = [c \in Clients |-> None]
    /\ puts = [k \in Keys |-> {}]

\* FileCache::put up to its first await: TinyUfo put, then encoding.
StartWrite(c, k, o) ==
    /\ mem' = [mem EXCEPT ![k] = o]
    /\ puts' = [puts EXCEPT ![k] = @ \union {o}]
    /\ buf' = [buf EXCEPT ![c] = Encode(o)]
    /\ pc' = [pc EXCEPT ![c] = "put_open"]

\* FileCache::get: a memory hit returns at once, a miss awaits fs::read.
Get(c, k) ==
    /\ pc[c] = "idle" /\ "get" \in Ops
    /\ op' = [op EXCEPT ![c] = "get"]
    /\ key' = [key EXCEPT ![c] = k]
    /\ IF mem[k] # None
         THEN got' = [got EXCEPT ![c] = mem[k]] /\ UNCHANGED pc
         ELSE /\ pc' = [pc EXCEPT ![c] = "get_file"]
              /\ got' = [got EXCEPT ![c] = None]
    /\ UNCHANGED <<mem, disk, meta, buf, wrote, linked, purged, puts>>

\* ObjectMissHandler::finish: put the accumulated object.
Put(c, k, o) ==
    /\ pc[c] = "idle" /\ "put" \in Ops
    /\ op' = [op EXCEPT ![c] = "put"]
    /\ key' = [key EXCEPT ![c] = k]
    /\ StartWrite(c, k, o)
    /\ got' = [got EXCEPT ![c] = None]
    /\ UNCHANGED <<disk, meta, wrote, linked, purged>>

\* HttpCache::update_meta: get the object, replace its meta, put it back.
UpdateMeta(c, k, m) ==
    /\ pc[c] = "idle" /\ "update" \in Ops
    /\ op' = [op EXCEPT ![c] = "update"]
    /\ key' = [key EXCEPT ![c] = k]
    /\ meta' = [meta EXCEPT ![c] = m]
    /\ IF mem[k] # None
         THEN StartWrite(c, k, [meta |-> m, body |-> mem[k].body])
         ELSE pc' = [pc EXCEPT ![c] = "get_file"] /\ UNCHANGED <<mem, puts, buf>>
    /\ got' = [got EXCEPT ![c] = None]
    /\ UNCHANGED <<disk, wrote, linked, purged>>

\* The fs::read of a get or of update_meta's get completes.  A buffer whose
\* header overruns it panics in CacheObject::from (the task unwinds).  For
\* update_meta a None is the Invalid "no meta found" error; otherwise the
\* put follows without an await in between.
ReadFile(c) ==
    LET k == key[c]
        r == FileObject(disk[k])
    IN /\ pc[c] = "get_file"
       /\ IF op[c] = "get" \/ r = None \/ r = SlicePanic
            THEN /\ got' = [got EXCEPT ![c] = IF op[c] = "get" THEN r ELSE @]
                 /\ pc' = [pc EXCEPT ![c] = "idle"]
                 /\ UNCHANGED <<mem, puts, buf>>
            ELSE /\ StartWrite(c, k, [meta |-> meta[c], body |-> r.body])
                 /\ UNCHANGED got
       /\ UNCHANGED <<disk, op, key, meta, wrote, linked, purged>>

\* Fault variants of the write path, for checking that the properties
\* detect them: the descriptor offset is not reset on open; the path is
\* opened without truncation; a single write(2) is taken for write_all.
OpenFileKeepsOffset(c) ==
    /\ pc[c] = "put_open"
    /\ disk' = [disk EXCEPT ![key[c]] = <<>>]
    /\ linked' = [linked EXCEPT ![c] = TRUE]
    /\ pc' = [pc EXCEPT ![c] = "put_write"]
    /\ UNCHANGED <<mem, op, key, meta, buf, wrote, got, purged, puts>>

OpenFileNoTruncate(c) ==
    /\ pc[c] = "put_open"
    /\ disk' = [disk EXCEPT ![key[c]] = IF @ = NoFile THEN <<>> ELSE @]
    /\ wrote' = [wrote EXCEPT ![c] = 0]
    /\ linked' = [linked EXCEPT ![c] = TRUE]
    /\ pc' = [pc EXCEPT ![c] = "put_write"]
    /\ UNCHANGED <<mem, op, key, meta, buf, got, purged, puts>>

WriteChunkNoLoop(c) ==
    /\ pc[c] = "put_write"
    /\ \E n \in (wrote[c] + 1)..Len(buf[c]) :
         /\ disk' = IF linked[c]
                      THEN [disk EXCEPT ![key[c]] = WriteAt(@, buf[c], wrote[c] + 1, n)]
                      ELSE disk
         /\ wrote' = [wrote EXCEPT ![c] = n]
         /\ pc' = [pc EXCEPT ![c] = "idle"]
    /\ UNCHANGED <<mem, op, key, meta, buf, linked, got, purged, puts>>

\* fs::write opens the path with create and truncate.
OpenFile(c) ==
    /\ pc[c] = "put_open"
    /\ disk' = [disk EXCEPT ![key[c]] = <<>>]
    /\ wrote' = [wrote EXCEPT ![c] = 0]
    /\ linked' = [linked EXCEPT ![c] = TRUE]
    /\ pc' = [pc EXCEPT ![c] = "put_write"]
    /\ UNCHANGED <<mem, op, key, meta, buf, got, purged, puts>>

\* One write(2) of write_all: the next n bytes at the descriptor's offset.
\* A descriptor whose file was unlinked writes to the orphaned inode.  The
\* last chunk completes put with Ok.
WriteChunk(c) ==
    /\ pc[c] = "put_write"
    /\ \E n \in (wrote[c] + 1)..Len(buf[c]) :
         /\ disk' = IF linked[c]
                      THEN [disk EXCEPT ![key[c]] = WriteAt(@, buf[c], wrote[c] + 1, n)]
                      ELSE disk
         /\ wrote' = [wrote EXCEPT ![c] = n]
         /\ pc' = [pc EXCEPT ![c] = IF n = Len(buf[c]) THEN "idle" ELSE @]
    /\ UNCHANGED <<mem, op, key, meta, buf, linked, got, purged, puts>>

\* A write(2) fails (disk full): put returns Error::Io, the file keeps the
\* bytes written so far and the memory tier keeps the object.
WriteError(c) ==
    /\ pc[c] = "put_write" /\ "write_error" \in Faults
    /\ pc' = [pc EXCEPT ![c] = "idle"]
    /\ UNCHANGED <<mem, disk, op, key, meta, buf, wrote, linked, got, purged, puts>>

\* HttpCache::purge: FileCache::remove unlinks the file and answers
\* Ok(None), or an Io error when there is none; purge reports is_some().
Purge(c, k) ==
    /\ pc[c] = "idle" /\ "purge" \in Ops
    /\ op' = [op EXCEPT ![c] = "purge"]
    /\ key' = [key EXCEPT ![c] = k]
    /\ disk' = [disk EXCEPT ![k] = NoFile]
    /\ linked' = [d \in Clients |-> linked[d] /\ key[d] # k]
    /\ purged' = [purged EXCEPT ![c] = FALSE]
    /\ got' = [got EXCEPT ![c] = None]
    /\ UNCHANGED <<mem, pc, meta, buf, wrote, puts>>

\* TinyUfo evicts an entry under admission pressure.
Evict(k) ==
    /\ mem[k] # None
    /\ mem' = [mem EXCEPT ![k] = None]
    /\ UNCHANGED <<disk, pc, op, key, meta, buf, wrote, linked, got, purged, puts>>

\* The process stops and new_file_cache builds an empty TinyUfo over the
\* same directory; files keep what was written.
Crash ==
    /\ "crash" \in Faults
    /\ mem' = [k \in Keys |-> None]
    /\ pc' = [c \in Clients |-> "idle"]
    /\ linked' = [c \in Clients |-> FALSE]
    /\ UNCHANGED <<disk, op, key, meta, buf, wrote, got, purged, puts>>

Next ==
    \/ \E c \in Clients, k \in Keys :
         \/ Get(c, k)
         \/ \E o \in Objects : Put(c, k, o)
         \/ \E m \in Metas : UpdateMeta(c, k, m)
         \/ Purge(c, k)
    \/ \E c \in Clients : ReadFile(c) \/ OpenFile(c) \/ WriteChunk(c) \/ WriteError(c)
    \/ \E k \in Keys : Evict(k)
    \/ Crash

Spec == Init /\ [][Next]_vars

-----------------------------------------------------------------------------

TypeOK ==
    /\ mem \in [Keys -> Objects \cup {None} \cup {[meta |-> m, body |-> o.body] : m \in Metas, o \in Objects}]
    /\ \A k \in Keys : disk[k] = NoFile \/ disk[k] \in Seq(0..255)
    /\ pc \in [Clients -> Phases]
    /\ op \in [Clients -> OpKinds]
    /\ key \in [Clients -> Keys]
    /\ \A c \in Clients : pc[c] = "put_write" => wrote[c] \in 0..Len(buf[c])
    /\ linked \in [Clients -> BOOLEAN]
    /\ purged \in [Clients -> {None, FALSE, TRUE}]

\* Every file holds a prefix of the encoding of one object put under its
\* key: writers never interleave their bytes in one file, and a crash or a
\* failed write leaves a truncated encoding rather than a mixture.
DiskHoldsPrefix ==
    \A k \in Keys :
        disk[k] # NoFile =>
            \E o \in puts[k] :
                /\ Len(disk[k]) <= Len(Encode(o))
                /\ disk[k] = SubSeq(Encode(o), 1, Len(disk[k]))

\* A get (FileCache::get, reached from lookup and update_meta) returns None
\* or an object some put stored under that key: never an object decoded
\* from a torn or partly written file, and never a CacheObject::from panic.
GetReturnsPutObject ==
    \A c \in Clients : got[c] \in {None} \cup puts[key[c]]

\* When no put of a key is in flight, the memory tier and the file agree:
\* a get answered from memory and a get answered from disk after an
\* eviction or a restart return the same object (last-write-wins).
TiersAgree ==
    \A k \in Keys :
        /\ \A c \in Clients : ~(Writing(c) /\ key[c] = k)
        /\ mem[k] # None
        /\ disk[k] # NoFile
        => FileObject(disk[k]) = mem[k]

\* The refinement mapping to CacheStore: what a get of the key would
\* return, taking the object of a put in flight as already stored, and
\* whether the key was purged since its last put.  It is meant for a
\* single task (a writer in flight is then unique).
AbsStore ==
    [k \in Keys |->
        IF \E c \in Clients : Writing(c) /\ key[c] = k
          THEN Decode(buf[CHOOSE c \in Clients : Writing(c) /\ key[c] = k])
        ELSE IF mem[k] # None THEN mem[k]
        ELSE FileObject(disk[k])]

AbsRemoved ==
    [k \in Keys |->
        /\ disk[k] = NoFile
        /\ puts[k] # {}
        /\ \A c \in Clients : ~(Writing(c) /\ key[c] = k)]

AbsValues == {[meta |-> m, body |-> o.body] : m \in {o2.meta : o2 \in Objects} \cup Metas, o \in Objects}

Abstract == INSTANCE CacheStore WITH
    store <- AbsStore, removed <- AbsRemoved, Values <- AbsValues

\* FileCache implements CacheStore: every step changes what gets return
\* only as an atomic put, update_meta, purge or forgetting of a purged
\* object would.  Eviction and restart never change what a get returns,
\* and a put or update_meta never exposes a partial or mixed object.
ImplementsCacheStore == Abstract!Spec

=============================================================================
