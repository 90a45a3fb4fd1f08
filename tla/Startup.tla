------------------------------ MODULE Startup ------------------------------
(***************************************************************************)
(* main()'s start-up in order: the options and their assertions (Options), *)
(* then, in the leader and for LOAD_FROM_MEM_SIZE, the pointer-chasing     *)
(* list cache_line_open has create_rand_list_cl build over test_mem_size   *)
(* bytes (RandList), then the fork loop, the pinning and the first B0      *)
(* (Launch).  The composition shows which buffers the assertions let reach *)
(* create_rand_list_cl (LOAD_FROM_MEM_SIZE is exempt from                  *)
(* assert(test_stride < test_cache_line_num)), and that the processes are  *)
(* created only once the leader has the buffer and its list.               *)
(***************************************************************************)
EXTENDS Integers

CONSTANTS W, RepArgs, StrideArgs, MemArgs, TestArgs,
          DefaultReps, DefaultStride, DefaultMemSize
CONSTANTS Cores, Core1, Core2, Core3, CoreOthers, Cpus, MaxProcs

VARIABLES pc, test_reps, stride_arg, test_stride, test_mem_size, test_test,
          test_flush, test_cache_line_num
VARIABLES ln, lpc, llist, lused, lidx, lused_num
VARIABLES ppc, rank, core, reported, crossing

O == INSTANCE Options

L == INSTANCE RandList
        WITH MemSizes <- {}, n <- ln, pc <- lpc, list <- llist,
             used <- lused, idx <- lidx, used_num <- lused_num

Ln == INSTANCE Launch WITH pc <- ppc

listVars == <<ln, lpc, llist, lused, lidx, lused_num>>
launchVars == <<ppc, rank, core, reported, crossing>>
optVars == <<pc, test_reps, stride_arg, test_stride, test_mem_size, test_test,
             test_flush, test_cache_line_num>>
vars == <<optVars, listVars, launchVars>>

Init ==
    /\ O!Init
    /\ ln = 0 /\ lpc = "none" /\ llist = <<>> /\ lused = {} /\ lidx = 0
    /\ lused_num = 0
    /\ Ln!Init

(* The getopt loop and the assertions. *)
GetOpt == O!Next /\ UNCHANGED <<listVars, launchVars>>

(* cache_line_open in the leader: if (test_test == LOAD_FROM_MEM_SIZE)    *)
(* create_rand_list_cl(cache_line, test_mem_size / sizeof(uint64_t)).     *)
OpenBuffer ==
    /\ pc = "run"
    /\ test_test = O!LOAD_FROM_MEM_SIZE
    /\ lpc = "none"
    /\ ln' = (test_mem_size \div 8) \div L!per_cl
    /\ lpc' = "calloc"
    /\ llist' = [l \in 0..ln'-1 |-> L!NULL]
    /\ lused' = {} /\ lidx' = 0 /\ lused_num' = 0
    /\ UNCHANGED <<optVars, launchVars>>

(* The steps of create_rand_list_cl. *)
BuildList == L!Next /\ UNCHANGED <<optVars, launchVars>>

\* cache_line_open has returned in the leader: the options were admitted
\* and, for LOAD_FROM_MEM_SIZE, the list is built.
BufferReady == pc = "run" /\ (test_test # O!LOAD_FROM_MEM_SIZE \/ lpc = "done")

(* The fork loop and what each process does up to the first B0. *)
LaunchStep(q) == BufferReady /\ Ln!Step(q) /\ UNCHANGED <<optVars, listVars>>

Next == GetOpt \/ OpenBuffer \/ BuildList \/ \E q \in Ln!Pids : LaunchStep(q)

\* The leader's steps are those of one process; the generator eventually
\* draws a free line (see RandList); each process is scheduled (Launch).
Spec == Init /\ [][Next]_vars /\ WF_vars(BuildList)
            /\ \A q \in Ln!Pids : WF_vars(LaunchStep(q))

(***************************************************************************)
(* Properties                                                              *)
(***************************************************************************)

TypeOK == O!TypeOK /\ (lpc # "none" => L!TypeOK) /\ Ln!TypeOK

\* parse_size gives -m arguments with a unit their size in bytes (Options).
ParseSizeUnits == O!ParseSizeUnits

\* The state of the list as RandCycle describes it.
ListState ==
    CASE lpc = "none"                       -> "idle"
      [] lpc \in {"calloc", "loop", "pick"} -> "building"
      [] lpc = "done"                       -> "built"
      [] OTHER                              -> "died"

RC == INSTANCE RandCycle
        WITH NULL <- L!NULL, n <- ln, state <- ListState,
             list <- IF lpc = "done" THEN llist ELSE [l \in 0..ln-1 |-> L!NULL]

\* create_rand_list_cl implements its contract: no other process sees the
\* list before it is one cycle through every line of the buffer, the
\* leader dies in it only for a buffer without lines, and once started it
\* returns.
RefinesRandCycle == RC!Spec

\* Every buffer the options admit for LOAD_FROM_MEM_SIZE gets its list,
\* instead of the leader dying in create_rand_list_cl.
ListBuilt == L!ListBuilt

\* The fork loop gives every process it creates its own ID (Launch).
UniqueIds == Ln!UniqueIds

\* Once the leader has its buffer, start-up never hangs silently: every
\* process created returns from the first B0, or a failure of fork() or
\* of sched_setaffinity was printed (Launch).
LaunchCompletes == BufferReady ~> Ln!LaunchOver
=============================================================================
