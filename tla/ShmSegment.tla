----------------------------- MODULE ShmSegment -----------------------------
(***************************************************************************)
(* The shared buffer of cache_line_open and cache_line_close               *)
(* (src/ccbench.c) across successive or simultaneous runs of ccbench.      *)
(*                                                                         *)
(* The leader of a run opens the POSIX shm name /cache_line with O_EXCL;   *)
(* if the name exists it opens it again without O_EXCL (O_CREAT still set) *)
(* and skips ftruncate.  It maps test_cache_line_num * 64 bytes, checks    *)
(* the result against NULL (mmap reports failure with MAP_FAILED) and      *)
(* memsets the whole mapping, which raises SIGBUS on pages past the end of *)
(* the object.  ID 0 unlinks the name when the run ends; a run that is     *)
(* killed leaves it behind.  barriers_init and barriers_term (src/         *)
(* barrier.c) treat /barrier_mem the same way with a fixed size.           *)
(*                                                                         *)
(* An shm object is a number; name is the object /cache_line names, or 0.  *)
(* Sizes are in pages, rounded up: the kernel raises SIGBUS on an access   *)
(* to a page that lies wholly past the end of the object, so a buffer of   *)
(* test_cache_line_num * 64 bytes is backed exactly when the object spans  *)
(* as many pages.                                                          *)
(***************************************************************************)
EXTENDS Naturals, FiniteSets, FiniteSetsExt

CONSTANTS
    Size,          \* Size[r]: test_cache_line_num of run r, runs 1..Len
    Concurrent,    \* may a run start before the earlier ones have ended?
    MmapMayFail,   \* may mmap fail (ENOMEM) for a nonzero length?
    FtruncateMayFail, \* may ftruncate fail (e.g. EFBIG, or ENOSPC on /dev/shm)?
    CrashAt        \* the steps at which a run may be killed

Runs == DOMAIN Size
MaxSize == Max({Size[r] : r \in Runs})
Objs == Runs        \* each run creates at most one object

VARIABLES
    pc,       \* pc[r]
    fd,       \* fd[r]: the object run r opened, 0 before
    mapped,   \* mapped[r]: did mmap return a mapping?
    name,     \* the object /cache_line names, 0 if none
    objSize,  \* objSize[o]: the length of object o
    created   \* the objects created so far

vars == <<pc, fd, mapped, name, objSize, created>>

Ended == {"done", "crashed", "exit", "sigbus", "sigsegv"}

\* The next object shm_open(O_CREAT) makes, with length 0.
NewObj == Cardinality(created) + 1

Create(r) ==
    /\ fd' = [fd EXCEPT ![r] = NewObj]
    /\ name' = NewObj
    /\ objSize' = [objSize EXCEPT ![NewObj] = 0]
    /\ created' = created \cup {NewObj}

Init ==
    /\ pc = [r \in Runs |-> "idle"]
    /\ fd = [r \in Runs |-> 0]
    /\ mapped = [r \in Runs |-> FALSE]
    /\ name = 0
    /\ objSize = [o \in Objs |-> 0]
    /\ created = {}

(* The run is started: after the earlier runs, or at any time.  *)
Start(r) ==
    /\ pc[r] = "idle"
    /\ Concurrent \/ \A q \in Runs : q < r => pc[q] \in Ended
    /\ pc' = [pc EXCEPT ![r] = "open"]
    /\ UNCHANGED <<fd, mapped, name, objSize, created>>

(* shm_open(O_CREAT | O_EXCL): a new object, or EEXIST. *)
OpenExcl(r) ==
    /\ pc[r] = "open"
    /\ IF name = 0
         THEN /\ Create(r)
              /\ pc' = [pc EXCEPT ![r] = "ftruncate"]
         ELSE /\ pc' = [pc EXCEPT ![r] = "reopen"]
              /\ UNCHANGED <<fd, name, objSize, created>>
    /\ UNCHANGED mapped

(* shm_open(O_CREAT): the object the name has now, or a new one if it was *)
(* unlinked since the first call; no ftruncate either way.                 *)
Reopen(r) ==
    /\ pc[r] = "reopen"
    /\ IF name = 0
         THEN Create(r)
         ELSE /\ fd' = [fd EXCEPT ![r] = name]
              /\ UNCHANGED <<name, objSize, created>>
    /\ pc' = [pc EXCEPT ![r] = "mmap"]
    /\ UNCHANGED mapped

\* Mutant: ftruncate to the line count where pages are counted.
MutantFtruncateLines(r) ==
    /\ pc[r] = "ftruncate"
    /\ objSize' = [objSize EXCEPT ![fd[r]] = 64 * Size[r]]
    /\ pc' = [pc EXCEPT ![r] = "mmap"]
    /\ UNCHANGED <<fd, mapped, name, created>>

\* Mutant: ftruncate to one page less than the buffer.
MutantFtruncate(r) ==
    /\ pc[r] = "ftruncate"
    /\ objSize' = [objSize EXCEPT ![fd[r]] = Size[r] - 1]
    /\ pc' = [pc EXCEPT ![r] = "mmap"]
    /\ UNCHANGED <<fd, mapped, name, created>>

(* ftruncate(ssmpfd, size), only on the object this run created. *)
Ftruncate(r) ==
    /\ pc[r] = "ftruncate"
    /\ objSize' = [objSize EXCEPT ![fd[r]] = Size[r]]
    /\ pc' = [pc EXCEPT ![r] = "mmap"]
    /\ UNCHANGED <<fd, mapped, name, created>>

(* perror and exit(1) when shm_open fails otherwise or ftruncate fails. *)
SetupError(r) ==
    /\ pc[r] \in {"open", "reopen"} \/ (pc[r] = "ftruncate" /\ FtruncateMayFail)
    /\ pc' = [pc EXCEPT ![r] = "exit"]
    /\ UNCHANGED <<fd, mapped, name, objSize, created>>

(* mmap(size): a length of 0 is EINVAL; a larger length may fail with    *)
(* ENOMEM.  The result is compared with NULL, which mmap never returns,   *)
(* so exit(134) is not reached and the run goes on either way.            *)
Mmap(r) ==
    /\ pc[r] = "mmap"
    /\ \E ok \in IF Size[r] = 0 THEN {FALSE}
                 ELSE IF MmapMayFail THEN BOOLEAN ELSE {TRUE} :
           mapped' = [mapped EXCEPT ![r] = ok]
    /\ pc' = [pc EXCEPT ![r] = "memset"]
    /\ UNCHANGED <<fd, name, objSize, created>>

(* memset(cache_line, '1', size): through MAP_FAILED it faults unless the *)
(* length is 0; past the end of the object it raises SIGBUS.              *)
Memset(r) ==
    /\ pc[r] = "memset"
    /\ pc' = [pc EXCEPT ![r] =
                 CASE ~mapped[r] /\ Size[r] > 0        -> "sigsegv"
                   [] mapped[r] /\ objSize[fd[r]] < Size[r] -> "sigbus"
                   [] OTHER                             -> "running"]
    /\ UNCHANGED <<fd, mapped, name, objSize, created>>

(* cache_line_close: ID 0 unlinks /cache_line, whichever object it names. *)
Close(r) ==
    /\ pc[r] = "running"
    /\ name' = 0
    /\ pc' = [pc EXCEPT ![r] = "done"]
    /\ UNCHANGED <<fd, mapped, objSize, created>>

(* The run is killed (a signal, an assertion) between open and close.    *)
Crash(r) ==
    /\ pc[r] \in CrashAt
    /\ pc' = [pc EXCEPT ![r] = "crashed"]
    /\ UNCHANGED <<fd, mapped, name, objSize, created>>

Next ==
    \E r \in Runs :
        \/ Start(r)
        \/ OpenExcl(r)
        \/ Reopen(r)
        \/ Ftruncate(r)
        \/ SetupError(r)
        \/ Mmap(r)
        \/ Memset(r)
        \/ Close(r)
        \/ Crash(r)

Spec == Init /\ [][Next]_vars

(***************************************************************************)
(* Properties                                                              *)
(***************************************************************************)

TypeOK ==
    /\ pc \in [Runs -> {"idle", "open", "reopen", "ftruncate", "mmap",
                        "memset", "running"} \cup Ended]
    /\ fd \in [Runs -> Objs \cup {0}]
    /\ mapped \in [Runs -> BOOLEAN]
    /\ name \in created \cup {0}
    /\ objSize \in [Objs -> 0..MaxSize]

\* Every byte of the buffer a run maps is backed by its shm object, so the
\* memset of cache_line_open, and the tests after it, never raise SIGBUS;
\* also when an earlier, killed run left /cache_line behind.
BufferBacked == \A r \in Runs : pc[r] # "sigbus"

\* A run raises SIGBUS only on an object that another run created and then
\* died without unlinking (killed, or exit(1) after a failed ftruncate): an
\* object a run creates and truncates itself always backs its mapping.
SigbusOnlyOnLeftover ==
    \A r \in Runs :
        pc[r] = "sigbus" =>
            \E q \in Runs \ {r} : fd[q] = fd[r] /\ pc[q] \in Ended \ {"done"}
=============================================================================
