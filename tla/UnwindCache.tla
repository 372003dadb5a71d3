----------------------------- MODULE UnwindCache -----------------------------
(***************************************************************************)
(* The unwind information cache: one file per executable in a directory   *)
(* that outlives the program.  A file is created empty, gets a dummy       *)
(* header and the rows, and last the real header; the program may crash,   *)
(* or the disk refuse to be written, between any two.  A fetch reads the   *)
(* file, and regenerates it on any error; only regenerating counts as use, *)
(* and more than max_cached_files uses delete the file of the oldest.      *)
(*                                                                         *)
(* What is in a file is one of                                             *)
(*   empty    created, nothing flushed                                     *)
(*   partial  dummy header (no rows, digest 0), rows behind it             *)
(*   valid    the executable's table                                       *)
(*   corrupt  a good header, rows the disk has altered                     *)
(*   old      written by another version of the program                    *)
(***************************************************************************)
EXTENDS LastUsed, Sequences, Functions

CONSTANTS
    ExecutableId,
    NoUnwindInfo,       \* executables that have none, or an unreadable file
    max_cached_files,
    OldFiles,           \* files of another version, there from the start
    ListingMayFail,     \* whether the directory may hold a file that ends its listing
    DiskMayFail,        \* whether a file may fail to be opened, read or written
    DiskMayCorrupt      \* whether the disk may alter a file

ASSUME UnwindCacheAssumption ==
    /\ max_cached_files \in Nat
    /\ OldFiles \subseteq ExecutableId /\ IsFiniteSet(OldFiles)
    /\ NoUnwindInfo \subseteq ExecutableId

Absent == "absent"
NotWriting == "idle"

ASSUME NotWritingAssumption == NotWriting \notin ExecutableId

VARIABLES
    disk,             \* executable -> what its file holds, or Absent
    created,          \* executable with a file -> when the file was created
    usage_tracking,   \* the uses, oldest first
    writing,          \* the executable whose file is being written, or NotWriting
    fetched,          \* the outcome of the last fetch
    running,
    \* History: files that no use was counted for, and whether a crash, a failed
    \* write or the disk has left a damaged file.
    uncounted, damaged

cacheVars == <<disk, created, usage_tracking, writing, fetched, running, uncounted, damaged>>

NoFetch == [check_digest |-> FALSE, unwind_info |-> "none"]

CacheInit ==
    /\ disk = [e \in ExecutableId |-> IF e \in OldFiles THEN "old" ELSE Absent]
    /\ created \in Bijection(OldFiles, 0..(Cardinality(OldFiles) - 1))
    /\ usage_tracking = <<>>
    /\ writing = NotWriting
    /\ fetched = NoFetch
    /\ running = FALSE
    /\ uncounted = {}
    /\ damaged = FALSE

-----------------------------------------------------------------------------
\* Reader::new and unwind_info: whether a file is read without an error, and
\* what comes back.
NeverRejects(content, check_digest) == content \in {"partial", "valid", "corrupt"}
ReadsOk(content, check_digest) ==
    \/ content = "valid"
    \/ content \in {"partial", "corrupt"} /\ ~check_digest

\* A partial file has zero rows.
read_from_cache(e, check_digest) ==
    /\ running /\ writing = NotWriting
    /\ ReadsOk(disk[e], check_digest)
    /\ fetched' = [check_digest |-> check_digest,
                   unwind_info |-> IF disk[e] = "partial" THEN "empty" ELSE disk[e]]
    /\ UNCHANGED <<disk, created, usage_tracking, writing, running, uncounted, damaged>>

\* File::create: a file that is there keeps its creation time.
Created(e) == IF disk[e] = Absent THEN Stamp(created, {e}) ELSE created

\* read_from_cache returns an error: of the reader, or of the disk.
ReadFails(e, check_digest) == ReadsOk(disk[e], check_digest) => DiskMayFail

\* "No matter the error, regenerate the unwind information."
write_to_cache(e, check_digest) ==
    /\ running /\ writing = NotWriting
    /\ ReadFails(e, check_digest)
    /\ disk' = [disk EXCEPT ![e] = "empty"]
    /\ created' = Created(e)
    /\ writing' = e
    /\ UNCHANGED <<usage_tracking, fetched, running, uncounted, damaged>>

\* ... and the file cannot be created either.
create_fails(e, check_digest) ==
    /\ running /\ writing = NotWriting
    /\ ReadFails(e, check_digest)
    /\ DiskMayFail
    /\ fetched' = NoFetch
    /\ UNCHANGED <<disk, created, usage_tracking, writing, running, uncounted, damaged>>

\* Writer::write fails before it writes anything.
read_unwind_info_fails ==
    /\ running /\ writing \in NoUnwindInfo
    /\ writing' = NotWriting
    /\ fetched' = NoFetch
    /\ uncounted' = uncounted \cup ({writing} \ Range(usage_tracking))
    /\ UNCHANGED <<disk, created, usage_tracking, running, damaged>>

write_unwind_info ==
    /\ running /\ writing \in ExecutableId \ NoUnwindInfo
    /\ disk[writing] = "empty"
    /\ disk' = [disk EXCEPT ![writing] = "partial"]
    /\ UNCHANGED <<created, usage_tracking, writing, fetched, running, uncounted, damaged>>

\* Writing a header or a row fails, and the file stays as far as it was written:
\* behind a dummy header it looks like a table without rows.
write_fails ==
    /\ DiskMayFail
    /\ running /\ writing \in ExecutableId \ NoUnwindInfo
    /\ writing' = NotWriting
    /\ fetched' = NoFetch
    /\ uncounted' = uncounted \cup ({writing} \ Range(usage_tracking))
    /\ damaged' = (damaged \/ disk[writing] = "partial")
    /\ UNCHANGED <<disk, created, usage_tracking, running>>

NoEviction(uses) == {}
\* maybe_evict: the executables whose files go when there are these uses.
maybe_evict(uses) == IF Len(uses) > max_cached_files THEN {Head(uses)} ELSE {}

RemoveFiles(S, contents) == [e \in ExecutableId |-> IF e \in S THEN Absent ELSE contents[e]]
LatestUses(uses) == IF Len(uses) > max_cached_files THEN Tail(uses) ELSE uses

\* The real header is written into the buffer; fetch_unwind_info then counts the
\* use.  The buffer is flushed when it is dropped, where an error is ignored.
write_header(flushed) ==
    /\ ~flushed => DiskMayFail
    /\ running /\ writing \in ExecutableId
    /\ disk[writing] = "partial"
    /\ LET uses == Append(usage_tracking, writing)
           evicted == maybe_evict(uses)
       IN  /\ usage_tracking' = LatestUses(uses)
           /\ disk' = RemoveFiles(evicted, [disk EXCEPT ![writing] = IF flushed THEN "valid" ELSE "partial"])
           /\ created' = Drop(created, evicted)
           /\ uncounted' = uncounted \ (evicted \cup {writing})
    /\ fetched' = [check_digest |-> FALSE, unwind_info |-> "valid"]
    /\ writing' = NotWriting
    /\ damaged' = (damaged \/ ~flushed)
    /\ UNCHANGED running

-----------------------------------------------------------------------------
\* Usages come out of the heap by their instants: these executables, oldest file first.
ByAge(S) == {s \in Bijection(1..Cardinality(S), S) :
                \A i, j \in DOMAIN s : i < j => created[s[i]] < created[s[j]]}
\* The newest n of a sequence.
Newest(s, n) == IF Len(s) <= n THEN s ELSE SubSeq(s, Len(s) - n + 1, Len(s))

\* UnwindInfoManager::new with bump_already_present: the files listed are
\* counted as used when they were created, and the oldest deleted.  The
\* listing stops at the first entry it cannot make sense of.
new(listed) ==
    /\ ~running
    /\ listed # DOMAIN created => ListingMayFail
    /\ \E files \in ByAge(listed) :
        LET kept == Newest(files, max_cached_files)
            evicted == listed \ Range(kept)
        IN  /\ usage_tracking' = kept
            /\ disk' = RemoveFiles(evicted, disk)
            /\ created' = Drop(created, evicted)
    /\ running' = TRUE
    /\ uncounted' = DOMAIN created \ listed
    /\ UNCHANGED <<writing, fetched, damaged>>

\* The program ends, in the middle of a write or not.
Crash ==
    /\ running
    /\ running' = FALSE
    /\ usage_tracking' = <<>>
    /\ writing' = NotWriting
    /\ fetched' = NoFetch
    /\ uncounted' = {}
    /\ damaged' = (damaged \/ writing # NotWriting)
    /\ UNCHANGED <<disk, created>>

\* The disk alters the rows of a file.
Corrupt(e) ==
    /\ DiskMayCorrupt
    /\ disk[e] = "valid" /\ writing = NotWriting
    /\ disk' = [disk EXCEPT ![e] = "corrupt"]
    /\ fetched' = NoFetch
    /\ damaged' = TRUE
    /\ UNCHANGED <<created, usage_tracking, writing, running, uncounted>>

CacheNext ==
    \/ \E e \in ExecutableId, check_digest \in BOOLEAN : read_from_cache(e, check_digest)
    \/ \E e \in ExecutableId, check_digest \in BOOLEAN : write_to_cache(e, check_digest)
    \/ \E e \in ExecutableId, check_digest \in BOOLEAN : create_fails(e, check_digest)
    \/ read_unwind_info_fails
    \/ write_unwind_info
    \/ write_fails
    \/ \E flushed \in BOOLEAN : write_header(flushed)
    \/ \E listed \in SUBSET DOMAIN created : new(listed)
    \/ Crash
    \/ \E e \in ExecutableId : Corrupt(e)

CacheSpec == CacheInit /\ [][CacheNext]_cacheVars

-----------------------------------------------------------------------------
\* What a fetch that checks the digest returns is the table of the executable,
\* whatever crashed, altered or older file it met ("to ensure that the unwind
\* information we are reading is not corrupted in any way we compute a hash",
\* persist.rs:35-37).  The profiler's fetches do not check it (profiler.rs:1510,
\* 1532): theirs return the table as long as no file was damaged.  A file is
\* damaged by the disk, by a crash while it is written, and without any crash by a
\* write that fails behind the dummy header (persist.rs:71-75), which a later
\* unchecked fetch returns as a table without rows.
FetchReturnsTable ==
    fetched.check_digest \/ ~damaged => fetched.unwind_info \in {"none", "valid"}

\* "Expiring older files if there are more than `max_cached_files`" (manager.rs:
\* 55-56): between fetches, also after a crash, there are no more files than that
\* besides those left by a failed write or passed over by a failed listing,
\* which no use is counted for (manager.rs:93-95, 145-155).
CacheBounded ==
    running /\ writing = NotWriting => Cardinality(DOMAIN created \ uncounted) <= max_cached_files
=============================================================================
