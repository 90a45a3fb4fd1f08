------------------------------- MODULE CCBench -------------------------------
(***************************************************************************)
(* The measurement driver of src/src/ccbench.c: main() after the fork,     *)
(* run by test_cores processes that share the cache-line buffer and the    *)
(* barrier slots.                                                          *)
(*                                                                         *)
(* Each process executes a fixed program: the setup (B0, PFDINIT for       *)
(* ID < 3, B0), test_reps repetitions of the per-test script that the      *)
(* switch on test_test and ID selects, and the report loop.  A program is  *)
(* a sequence of instructions; pc[p] is the index of the next one.         *)
(*                                                                         *)
(* Barriers are the atomic rendezvous of BarrierSpec, one per slot the     *)
(* B0..B10 macros use: module Barrier shows the three-counter barrier_wait *)
(* implements it.  The buffer is modelled by word[0] of every cache line,  *)
(* the value the atomic operations read and write; coherence states and    *)
(* fences are hardware and not modelled.  The profiler is modelled by      *)
(* whether each entry of each store holds a measurement of this run.       *)
(***************************************************************************)
EXTENDS Naturals, Sequences, FiniteSets

CONSTANTS
  Cores,         \* test_cores
  Tests,         \* the values of test_test explored, one per behaviour
  Reps,          \* test_reps
  Stride,        \* test_stride, a power of two (pow2roundup)
  CacheLineNum,  \* test_cache_line_num
  Fence,         \* test_fence
  Flush,         \* test_flush
  AoSuccess,     \* test_ao_success
  WordMod,       \* 2^32, the range of uint32_t (see below)
  MaxLoop        \* bound: iterations with cln > 0 of one *_eventually call

ASSUME Cores \in Nat \ {0} /\ Reps \in Nat \ {0} /\ CacheLineNum \in Nat \ {0}
ASSUME \E k \in 0..8 : Stride = 2^k
ASSUME \E k \in 8..30 : WordMod = 2^k
ASSUME MaxLoop \in Nat
ASSUME Fence \in 0..9 /\ Flush \in BOOLEAN /\ AoSuccess \in BOOLEAN

Procs == 0..Cores-1
Lines == 0..CacheLineNum-1
(* uint32_t arithmetic is modulo WordMod.  The code's modulus is 2^32,   *)
(* beyond TLC's integers; any power of two of at least 2^8 above every    *)
(* value the tests store keeps what matters: the all-ones word has low    *)
(* byte 255 and FAI wraps it to 0.                                         *)
Word32 == WordMod

(* moesi_type_t (src/include/ccbench.h)                                    *)
STORE_ON_MODIFIED == 0
STORE_ON_MODIFIED_NO_SYNC == 1
STORE_ON_EXCLUSIVE == 2
STORE_ON_SHARED == 3
STORE_ON_OWNED_MINE == 4
STORE_ON_OWNED == 5
STORE_ON_INVALID == 6
LOAD_FROM_MODIFIED == 7
LOAD_FROM_EXCLUSIVE == 8
LOAD_FROM_SHARED == 9
LOAD_FROM_OWNED == 10
LOAD_FROM_INVALID == 11
CAS == 12
FAI == 13
TAS == 14
SWAP == 15
CAS_ON_MODIFIED == 16
FAI_ON_MODIFIED == 17
TAS_ON_MODIFIED == 18
SWAP_ON_MODIFIED == 19
CAS_ON_SHARED == 20
FAI_ON_SHARED == 21
TAS_ON_SHARED == 22
SWAP_ON_SHARED == 23
CAS_CONCURRENT == 24
FAI_ON_INVALID == 25
LOAD_FROM_L1 == 26
LOAD_FROM_MEM_SIZE == 27
LFENCE == 28
SFENCE == 29
MFENCE == 30
PROFILER == 31
PAUSE == 32
NOP == 33

ASSUME Tests \subseteq 0..33

(* The assertions main() checks before the fork.  The product is uint32.   *)
ConfigAsserts(t) ==
  /\ (t \in {STORE_ON_EXCLUSIVE, STORE_ON_INVALID, LOAD_FROM_INVALID,
             LOAD_FROM_EXCLUSIVE, LOAD_FROM_SHARED} /\ ~Flush)
       => (Reps * Stride) % Word32 <= CacheLineNum
  /\ t # LOAD_FROM_MEM_SIZE => Stride < CacheLineNum

(* switch (test_fence): the store-fence level; 3 is "double write".        *)
SFenceOf(f) ==
  CASE f \in {1, 4, 7} -> 1
    [] f \in {2, 6, 8} -> 2
    [] f = 9           -> 3
    [] OTHER           -> 0

(* Slots of the barrier macros: B0 -> 0, B1 -> 2, B2 -> 3, B3 -> 4,        *)
(* B10 -> 11.                                                              *)
Slots == {0, 2, 3, 4, 11}

Ins(op, arg) == [op |-> op, arg |-> arg, rep |-> 0]
Do(op) == Ins(op, 0)
B0 == Ins("B", 0)
B1 == Ins("B", 2)
B2 == Ins("B", 3)
B3 == Ins("B", 4)
B10 == Ins("B", 11)
MutantAdv == <<Do("adv")>>

(* if (!test_flush) cache_line += test_stride;                            *)
Adv == IF Flush THEN <<>> ELSE <<Do("adv")>>

SE == Do("store_0_eventually")
SE1 == Do("store_0_eventually_pfd1")
LE == Do("load_0_eventually")
LNP == Do("load_0_eventually_no_pf")
CE == Do("cas_0_eventually")
SetWord(v) == Ins("set_word", v)
FFFFFFFF == Word32 - 1

(* switch (ID) inside a test case: roles 0, 1, 2 and the rest.           *)
Roles(id, s0, s1, s2, sRest) ==
  CASE id = 0 -> s0
    [] id = 1 -> s1
    [] id = 2 -> s2
    [] OTHER  -> sRest

MutantAfterB1(id, op0, op1) == Roles(id, op0 \o <<B1>>, op1, <<B1>>, <<B1>>)

(* The shapes the test cases share: role 0 acts before B1 and role 1       *)
(* after it; roles 0 and 2 load before B2 and role 1 acts after it.        *)
AfterB1(id, op0, op1) == Roles(id, op0 \o <<B1>>, <<B1>> \o op1, <<B1>>, <<B1>>)

OnShared(id, op1) ==
  Roles(id, <<LE, B1, B2>>, <<B1, B2, op1>>, <<B1, LE, B2>>, <<B1, LNP, B2>>)

(* switch (test_test), the store cases 0..6.                               *)
ScriptStore(t, id) ==
  CASE t = STORE_ON_MODIFIED -> AfterB1(id, <<SE>>, <<SE>>)
    [] t = STORE_ON_MODIFIED_NO_SYNC ->
         IF id < 3 THEN <<Do("store_0")>> ELSE <<Do("store_0_no_pf")>>
    [] t = STORE_ON_EXCLUSIVE -> AfterB1(id, <<LE>>, <<SE>>) \o Adv
    [] t = STORE_ON_SHARED -> OnShared(id, SE)
    [] t = STORE_ON_OWNED_MINE ->
         Roles(id, <<B1, LE, B2>>, <<SE, B1, B2, SE1>>, <<B1, LNP, B2>>, <<B1, LNP, B2>>)
    [] t = STORE_ON_OWNED ->
         Roles(id, <<SE, B1, B2>>, <<B1, LE, B2, SE1>>, <<B1, LNP, B2>>, <<B1, LNP, B2>>)
    [] t = STORE_ON_INVALID ->
         Roles(id, <<B1, Do("store_0")>> \o Adv, <<Do("invalidate")>> \o Adv \o <<B1>>,
               <<B1>>, <<B1>>)

(* switch (test_test), the load cases 7..11.                               *)
ScriptLoad(t, id) ==
  CASE t = LOAD_FROM_MODIFIED -> AfterB1(id, <<SE>>, <<LE>>)
    [] t = LOAD_FROM_EXCLUSIVE ->
         Roles(id, <<LE, B1>> \o Adv, <<B1, LE>> \o Adv, <<B1>>, <<B1>>)
    [] t = LOAD_FROM_SHARED ->
         Roles(id, <<LE, B1, B2>>, <<B1, LE, B2>>, <<B1, B2, LE>>, <<B1, LNP, B2>>) \o Adv
    [] t = LOAD_FROM_OWNED ->
         Roles(id, <<SE, B1, B2>>, <<B1, LE, B2>>, <<B1, B2, LE>>, <<B1, B2>>)
    [] t = LOAD_FROM_INVALID ->
         Roles(id, <<B1, LE>>, <<Do("invalidate"), B1>>, <<B1>>, <<B1>>) \o Adv

(* switch (test_test), the atomic-operation cases 12..25.                  *)
ScriptAtomic(t, id) ==
  CASE t = CAS -> AfterB1(id, <<CE>>, <<CE>>)
    [] t = FAI -> AfterB1(id, <<Do("fai")>>, <<Do("fai")>>)
    [] t = TAS ->
         Roles(id, <<Do("tas"), B1, B2>>, <<B1, Do("tas"), SetWord(0), B2>>,
               <<B1, B2>>, <<B1, B2>>)
    [] t = SWAP -> AfterB1(id, <<Do("swap")>>, <<Do("swap")>>)
    [] t = CAS_ON_MODIFIED ->
         AfterB1(id, <<SE>> \o (IF AoSuccess THEN <<Do("set_word_parity")>> ELSE <<>>),
                 <<CE>>)
    [] t = FAI_ON_MODIFIED -> AfterB1(id, <<SE>>, <<Do("fai")>>)
    [] t = TAS_ON_MODIFIED ->
         AfterB1(id, <<SE>> \o (IF AoSuccess THEN <<>> ELSE <<SetWord(FFFFFFFF)>>),
                 <<Do("tas")>>)
    [] t = SWAP_ON_MODIFIED -> AfterB1(id, <<SE>>, <<Do("swap")>>)
    [] t = CAS_ON_SHARED -> OnShared(id, CE)
    [] t = FAI_ON_SHARED -> OnShared(id, Do("fai"))
    [] t = TAS_ON_SHARED ->
         IF id = 0
           THEN <<SetWord(IF AoSuccess THEN 0 ELSE FFFFFFFF), LE, B1, B2>>
           ELSE OnShared(id, Do("tas"))
    [] t = SWAP_ON_SHARED -> OnShared(id, Do("swap"))
    [] t = CAS_CONCURRENT -> IF id < 2 THEN <<Do("cas")>> ELSE <<Do("cas_no_pf")>>
    [] t = FAI_ON_INVALID ->
         Roles(id, <<B1, Do("fai")>>, <<Do("invalidate"), B1>>, <<B1>>, <<B1>>) \o Adv

(* switch (test_test), cases 26..33 and the default branch.                *)
ScriptOther(t, id) ==
  CASE t = LOAD_FROM_L1 ->
         IF id = 0 THEN <<Do("load_0"), Do("load_0"), Do("load_0")>> ELSE <<>>
    [] t = LOAD_FROM_MEM_SIZE -> IF id < 3 THEN <<Do("load_next")>> ELSE <<>>
    [] t \in {LFENCE, SFENCE, MFENCE, PAUSE, NOP} ->
         IF id < 2 THEN <<Do("pfd_empty")>> ELSE <<>>
    [] OTHER -> <<Do("pfd_empty")>>

(* The body of the repetition loop: the optional flush of the line, B0,   *)
(* the test case, B3.                                                      *)
Script(t, id) ==
  CASE t \in 0..6   -> ScriptStore(t, id)
    [] t \in 7..11  -> ScriptLoad(t, id)
    [] t \in 12..25 -> ScriptAtomic(t, id)
    [] OTHER        -> ScriptOther(t, id)

RepBody(t, id) ==
  (IF Flush THEN <<Do("flush")>> ELSE <<>>) \o <<B0>> \o Script(t, id) \o <<B3>>

MutantSetup(id) == <<B0>> \o (IF id < 2 THEN <<Do("pfdinit")>> ELSE <<>>) \o <<B0>>

(* Setup after the fork: B0, PFDINIT(test_reps) for ID < 3, B0.            *)
Setup(id) == <<B0>> \o (IF id < 3 THEN <<Do("pfdinit")>> ELSE <<>>) \o <<B0>>

(* The stores PFDPN prints in the report loop for a process with ID < 3.   *)
ReportedStores(t, id) ==
  CASE t \in {STORE_ON_OWNED_MINE, STORE_ON_OWNED} ->
         IF id < 2 THEN {0} \cup (IF id = 1 THEN {1} ELSE {}) ELSE {}
    [] t = CAS_CONCURRENT -> IF id < 2 THEN {0} ELSE {}
    [] t = LOAD_FROM_L1 -> IF id < 1 THEN {0} ELSE {}
    [] OTHER -> {0}

RECURSIVE MutantReportLoop(_, _, _)
MutantReportLoop(t, id, c) ==
  IF c = Cores THEN <<B10, B0>>
  ELSE (IF id = c /\ id < 3 /\ ReportedStores(t, id) # {}
          THEN <<Ins("report", ReportedStores(t, id)), B0>> ELSE <<>>)
       \o MutantReportLoop(t, id, c + 1)

(* for (id = 0; id < test_cores; id++) { print if ID == id < 3; B0; }       *)
(* then B10, the leader's summary (no shared state), B0.                   *)
RECURSIVE ReportLoop(_, _, _)
ReportLoop(t, id, c) ==
  IF c = Cores THEN <<B10, B0>>
  ELSE (IF id = c /\ id < 3 /\ ReportedStores(t, id) # {}
          THEN <<Ins("report", ReportedStores(t, id))>> ELSE <<>>)
       \o <<B0>> \o ReportLoop(t, id, c + 1)

Tag(s, r) == [i \in 1..Len(s) |-> [s[i] EXCEPT !.rep = r]]

\* Mutant: for (rep = 0; rep <= test_reps; rep++), one repetition too many.
RECURSIVE MutantRepeat(_, _, _)
MutantRepeat(t, id, r) ==
  IF r = Reps + 1 THEN <<>> ELSE Tag(RepBody(t, id), r) \o MutantRepeat(t, id, r + 1)

RECURSIVE Repeat(_, _, _)
Repeat(t, id, r) ==
  IF r = Reps THEN <<>> ELSE Tag(RepBody(t, id), r) \o Repeat(t, id, r + 1)

(* After the last B0: if (ID < 3) print cache_line->word[0], read        *)
(* through the cache_line the advancing tests moved test_reps times by     *)
(* test_stride.  cache_line_close and barriers_term touch no line.         *)
FinalRead(id) == IF id < 3 THEN <<Do("read_word")>> ELSE <<>>

Program(t, id) ==
  Setup(id) \o Repeat(t, id, 0) \o ReportLoop(t, id, 0) \o FinalRead(id)

Prog == [t \in Tests |-> [id \in Procs |-> Program(t, id)]]

SFence == SFenceOf(Fence)

LoopOps == {"store_0_eventually", "store_0_eventually_pfd1", "load_0_eventually",
            "load_0_eventually_no_pf", "cas_0_eventually", "fai", "tas", "swap"}
SingleOps == {"store_0", "store_0_no_pf", "load_0", "invalidate", "cas", "cas_no_pf",
              "set_word", "set_word_parity", "flush", "load_next", "pfd_empty",
              "read_word"}
(* Operations timed between PFDI(store) and PFDO(store, reps).             *)
Profiled == {"store_0_eventually", "store_0_eventually_pfd1", "load_0_eventually",
             "cas_0_eventually", "fai", "tas", "swap", "store_0", "load_0",
             "invalidate", "cas", "load_next", "pfd_empty"}
MutantStoreOf(op) == 0

(* store_0_eventually_pfd1 times into store 1, every other operation     *)
(* into store 0.                                                           *)
StoreOf(op) == IF op = "store_0_eventually_pfd1" THEN 1 ELSE 0

(* store_0 and store_0_eventually_pfd1 have no branch for test_sfence = 3: *)
(* they do nothing at all.                                                 *)
IsNoOp(op) == op \in {"store_0", "store_0_eventually_pfd1"} /\ SFence = 3

(* Lines an operation touches at cache_line + cln: store_0_eventually_dw  *)
(* also writes w[16], word 0 of the next line.  load_next follows the     *)
(* list create_rand_list_cl built inside the buffer.                       *)
Touched(op, l) ==
  CASE op \in {"load_next", "pfd_empty"} -> {}
    [] op = "store_0_eventually" /\ SFence = 3 -> {l, l + 1}
    [] OTHER -> {l}

MutantCasU32(old, r) == IF old = r % 2 THEN r % 2 ELSE old

(* CAS_U32(cl->word, o, !o) with o = reps & 0x1.                           *)
CasU32(old, r) == IF old = r % 2 THEN 1 - (r % 2) ELSE old

(* The new word 0 of the line an operation targets.                        *)
NewWord(op, old, p, r, cln, arg) ==
  CASE op \in {"store_0", "store_0_no_pf"} -> r % Word32
    [] op \in {"store_0_eventually", "store_0_eventually_pfd1"} -> cln
    [] op \in {"cas", "cas_no_pf", "cas_0_eventually"} -> CasU32(old, r)
    [] op = "fai" -> (old + 1) % Word32
    [] op = "tas" -> old - (old % 256) + 255      \* TAS_U8 on the low byte
    [] op = "swap" -> p                            \* SWAP_U32(cl1->word, ID)
    [] op = "set_word" -> arg
    [] op = "set_word_parity" -> r % 2            \* word[0] = reps & 0x01
    [] OTHER -> old

(* The result the test case adds to sum: CAS succeeded (r == o), TAS found *)
(* the byte clear (r != 255).                                              *)
Succeeded(op, old, r) ==
  IF op = "tas" THEN old % 256 # 255 ELSE old = r % 2

-----------------------------------------------------------------------------
VARIABLES
  test,        \* test_test of this run
  pc,          \* [Procs -> Nat]: index of the next instruction of each process
  cache_line,  \* [Procs -> Nat]: the line cache_line points to, as an index
  inB,         \* [Procs -> BOOLEAN]: the process waits in its current barrier
  bdone,       \* [Slots -> [Procs -> Nat]]: barrier_wait calls returned per slot
  word,        \* [Nat -> Nat]: word[0] of each line of the buffer (and beyond)
  pfdInit,     \* [Procs -> BOOLEAN]: pfd_store_init has run in this process
  pfd_store,   \* [Procs -> [0..1 -> [0..Reps-1 -> Entry]]]
  success,     \* [Procs -> [0..Reps-1 -> Outcome]]: atomic op results
  fault,       \* [Procs -> Fault]: how the process died, or "none"
  iters        \* [Procs -> 0..MaxLoop]: iterations of the current loop so far

vars == <<test, pc, cache_line, inB, bdone, word, pfdInit, pfd_store, success, fault, iters>>

Entry == {"none", "calib", "meas"}     \* unset, calibration value, measured
Outcome == {"none", "succ", "fail"}
Fault == {"none", "oob", "null_pfd"}  \* access outside the mmap; NULL _pfd_s

(* Lines past the buffer a faulty run can reach; word is kept for them so *)
(* the fault is observed rather than ruled out by the types.               *)
MemLines == 0..(CacheLineNum + Reps * Stride + Stride)

Cur(p) == Prog[test][p][pc[p]]
Running(p) == fault[p] = "none" /\ pc[p] <= Len(Prog[test][p])
Done(p) == pc[p] = Len(Prog[test][p]) + 1

(* A test value main() accepts: the assertions on the command line pass.  *)
Init ==
  /\ test \in {t \in Tests : ConfigAsserts(t)}
  /\ pc = [p \in Procs |-> 1]
  /\ cache_line = [p \in Procs |-> 0]
  /\ inB = [p \in Procs |-> FALSE]
  /\ bdone = [s \in Slots |-> [p \in Procs |-> 0]]
  /\ word = [l \in MemLines |-> 0]
  /\ pfdInit = [p \in Procs |-> FALSE]
  /\ pfd_store = [p \in Procs |-> [s \in 0..1 |-> [e \in 0..Reps-1 |-> "none"]]]
  /\ success = [p \in Procs |-> [r \in 0..Reps-1 |-> "none"]]
  /\ fault = [p \in Procs |-> "none"]
  /\ iters = [p \in Procs |-> 0]

(* barrier_wait on a slot, as BarrierSpec: every process of the run takes *)
(* part (color_all).  The call counts of the slot give the rendezvous.     *)
Arrived(s, q) == bdone[s][q] + IF inB[q] /\ Cur(q).arg = s THEN 1 ELSE 0

BarrierArrive(p) ==
  /\ Running(p)
  /\ Cur(p).op = "B"
  /\ ~inB[p]
  /\ inB' = [inB EXCEPT ![p] = TRUE]
  /\ UNCHANGED <<test, pc, cache_line, bdone, word, pfdInit, pfd_store, success, fault, iters>>

BarrierDepart(p) ==
  LET s == Cur(p).arg IN
  /\ Running(p)
  /\ inB[p]
  /\ \A q \in Procs : Arrived(s, q) >= bdone[s][p] + 1
  /\ inB' = [inB EXCEPT ![p] = FALSE]
  /\ bdone' = [bdone EXCEPT ![s][p] = @ + 1]
  /\ pc' = [pc EXCEPT ![p] = @ + 1]
  /\ UNCHANGED <<test, cache_line, word, pfdInit, pfd_store, success, fault, iters>>

(* Steps that touch no shared state: cache_line += test_stride, PFDPN of  *)
(* the report loop.                                                        *)
LocalStep(p) ==
  /\ Running(p)
  /\ Cur(p).op \in {"adv", "report"}
  /\ cache_line' = [cache_line EXCEPT ![p] =
                      IF Cur(p).op = "adv" THEN @ + Stride ELSE @]
  /\ pc' = [pc EXCEPT ![p] = @ + 1]
  /\ UNCHANGED <<test, inB, bdone, word, pfdInit, pfd_store, success, fault, iters>>

MutantPfdInit(p) ==
  /\ Running(p)
  /\ Cur(p).op = "pfdinit"
  /\ pfdInit' = [pfdInit EXCEPT ![p] = TRUE]
  /\ pfd_store' = [pfd_store EXCEPT ![p][0] = [e \in 1..Reps |-> "calib"]]
  /\ pc' = [pc EXCEPT ![p] = @ + 1]
  /\ UNCHANGED <<test, cache_line, inB, bdone, word, success, fault, iters>>

(* PFDINIT(test_reps): pfd_store_init allocates the stores and _pfd_s and *)
(* calibrates pfd_correction by timing empty PFDI/PFDO pairs into store 0. *)
PfdInit(p) ==
  /\ Running(p)
  /\ Cur(p).op = "pfdinit"
  /\ pfdInit' = [pfdInit EXCEPT ![p] = TRUE]
  /\ pfd_store' = [pfd_store EXCEPT ![p][0] = [e \in 0..Reps-1 |-> "calib"]]
  /\ pc' = [pc EXCEPT ![p] = @ + 1]
  /\ UNCHANGED <<test, cache_line, inB, bdone, word, success, fault, iters>>

MutantClRand == {0, Stride}

(* clrand(): xorshf96() & (test_stride - 1), a line offset below the      *)
(* stride.  The generator is not modelled: any offset may come next, and   *)
(* the loops of the *_eventually operations end when it is 0.              *)
ClRand == 0..Stride-1

Draws(op) == IF op \in LoopOps THEN ClRand ELSE {0}

(* One iteration of an operation on the buffer, from its PFDI to its PFDO: *)
(* with cln = 0 the last one, after which the operation returns.  PFDI     *)
(* stores into _pfd_s before the access, so without PFDINIT the process    *)
(* dies on the NULL pointer first; an access past the buffer ends the      *)
(* process's defined behaviour.                                            *)
MemAccess(p, cln) ==
  LET ins == Cur(p)
      op == ins.op
      r == ins.rep
      l == cache_line[p] + cln
      hit == Touched(op, l)
  IN
  /\ Running(p)
  /\ op \in LoopOps \cup SingleOps
  /\ cln \in Draws(op)
  /\ cln > 0 => iters[p] < MaxLoop
  /\ CASE IsNoOp(op) ->
            /\ pc' = [pc EXCEPT ![p] = @ + 1]
            /\ UNCHANGED <<word, pfd_store, success, fault>>
       [] op \in Profiled /\ ~pfdInit[p] ->
            /\ fault' = [fault EXCEPT ![p] = "null_pfd"]
            /\ UNCHANGED <<pc, word, pfd_store, success>>
       [] ~(hit \subseteq Lines) ->
            /\ fault' = [fault EXCEPT ![p] = "oob"]
            /\ UNCHANGED <<pc, word, pfd_store, success>>
       [] OTHER ->
            /\ word' = [m \in DOMAIN word |->
                          IF m \in hit THEN NewWord(op, word[l], p, r, cln, ins.arg)
                          ELSE word[m]]
            /\ pfd_store' = IF op \in Profiled
                              THEN [pfd_store EXCEPT ![p][StoreOf(op)][r] = "meas"]
                              ELSE pfd_store
            /\ success' = IF cln = 0 /\ op \in {"cas", "cas_no_pf", "cas_0_eventually", "tas"}
                            THEN [success EXCEPT ![p][r] =
                                    IF Succeeded(op, word[l], r) THEN "succ" ELSE "fail"]
                            ELSE success
            /\ pc' = IF cln = 0 THEN [pc EXCEPT ![p] = @ + 1] ELSE pc
            /\ UNCHANGED fault
  /\ iters' = [iters EXCEPT ![p] = IF cln = 0 THEN 0 ELSE @ + 1]
  /\ UNCHANGED <<test, cache_line, inB, bdone, pfdInit>>

Next ==
  \E p \in Procs :
    \/ BarrierArrive(p)
    \/ BarrierDepart(p)
    \/ LocalStep(p)
    \/ PfdInit(p)
    \/ \E cln \in ClRand : MemAccess(p, cln)

(* Every process is pinned to its own core (set_cpu) and never blocks     *)
(* except in barrier_wait, whose spinning is the step BarrierDepart.  The  *)
(* draw of offset 0 that ends a loop is always possible next; xorshf96     *)
(* has full period, so it is eventually drawn: weak fairness of the        *)
(* iteration with cln = 0.                                                 *)
Fairness ==
  \A p \in Procs :
    /\ WF_vars(BarrierArrive(p)) /\ WF_vars(BarrierDepart(p))
    /\ WF_vars(LocalStep(p)) /\ WF_vars(PfdInit(p))
    /\ WF_vars(MemAccess(p, 0))

Spec == Init /\ [][Next]_vars /\ Fairness

-----------------------------------------------------------------------------
TypeOK ==
  /\ test \in Tests
  /\ \A p \in Procs : pc[p] \in 1..Len(Prog[test][p]) + 1
  /\ cache_line \in [Procs -> 0..Reps * Stride]
  /\ inB \in [Procs -> BOOLEAN]
  /\ bdone \in [Slots -> [Procs -> Nat]]
  /\ word \in [MemLines -> 0..Word32 - 1]
  /\ pfdInit \in [Procs -> BOOLEAN]
  /\ pfd_store \in [Procs -> [0..1 -> [0..Reps-1 -> Entry]]]
  /\ success \in [Procs -> [0..Reps-1 -> Outcome]]
  /\ fault \in [Procs -> Fault]
  /\ iters \in [Procs -> 0..MaxLoop]

(* Every process runs its whole program and exits: the processes call the *)
(* barriers of the slots in the same order and as often, whatever the     *)
(* test and the ID, and no process dies.                                   *)
AllFinish == <>(\A p \in Procs : Done(p))

(* No access of the test cases, the clrand offsets added, leaves the      *)
(* buffer of test_cache_line_num lines that main() maps: the assertions   *)
(* on test_reps * test_stride protect every test that advances cache_line. *)
NoOutOfBoundsAccess == \A p \in Procs : fault[p] # "oob"

(* No process enters a PFDI/PFDO region before its PFDINIT allocated      *)
(* _pfd_s and pfd_store.                                                   *)
ProfilerInitializedBeforeUse == \A p \in Procs : fault[p] # "null_pfd"

(* The results the leader's summary attributes ("Results from Core c") to *)
(* a store of a core are measurements of this test: when the leader       *)
(* passes B10 every entry of that store was written by a PFDO of the test, *)
(* none is a calibration value or uninitialized.                           *)
Claims(t) ==
  LET base == {<<0, 0>>, <<1, 0>>} IN
  CASE t = STORE_ON_MODIFIED_NO_SYNC -> IF Flush THEN {} ELSE base
    [] t \in {STORE_ON_OWNED_MINE, STORE_ON_OWNED} -> base \cup {<<1, 1>>}
    [] t = LOAD_FROM_SHARED -> base \cup (IF Cores >= 3 THEN {<<2, 0>>} ELSE {})
    [] t = LOAD_FROM_OWNED -> base \cup (IF Cores = 3 THEN {<<2, 0>>} ELSE {})
    [] t \in {STORE_ON_SHARED, CAS_ON_SHARED, FAI_ON_SHARED, TAS_ON_SHARED,
              SWAP_ON_SHARED, LOAD_FROM_MEM_SIZE} -> base \cup {<<2, 0>>}
    [] t = LOAD_FROM_L1 -> {<<0, 0>>}
    [] t \in {PAUSE, NOP} -> {}
    [] OTHER -> base

ClaimedResultsMeasured ==
  bdone[11][0] >= 1 =>
    \A cs \in Claims(test) :
      cs[1] \in Procs =>
        \A e \in 0..Reps-1 : pfd_store[cs[1]][cs[2]][e] = "meas"

(* The success rates the summary prints for the atomic operations hold in *)
(* every repetition: CAS and TAS succeed on core 0 and fail on core 1;     *)
(* CAS_ON_MODIFIED succeeds in every repetition with test_ao_success, else *)
(* in the even ones; TAS_ON_MODIFIED and TAS_ON_SHARED succeed exactly     *)
(* with test_ao_success; CAS_ON_SHARED always succeeds.                    *)
Expected(t, c, r) ==
  CASE t \in {CAS, TAS} /\ c = 0 -> "succ"
    [] t \in {CAS, TAS} /\ c = 1 -> "fail"
    [] t = CAS_ON_MODIFIED /\ c = 1 ->
         IF AoSuccess \/ r % 2 = 0 THEN "succ" ELSE "fail"
    [] t \in {TAS_ON_MODIFIED, TAS_ON_SHARED} /\ c = 1 ->
         IF AoSuccess THEN "succ" ELSE "fail"
    [] t = CAS_ON_SHARED /\ c = 1 -> "succ"
    [] OTHER -> "any"

AtomicOutcomes ==
  \A c \in Procs, r \in 0..Reps-1 :
    success[c][r] # "none" /\ Expected(test, c, r) # "any" =>
      success[c][r] = Expected(test, c, r)

=============================================================================
