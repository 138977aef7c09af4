# A verification model of the CVE2 core, its vector extension and its scripts

This directory holds TLA+ modules, TLC configurations and TLAPS proofs about two
things.

- *The RTL* under `src/rtl/`: CVE2, a 2-stage RV32 core, extended with a vector unit
  that keeps its registers in data memory.  The code is SystemVerilog: every module
  is a synchronous circuit, and **one step of a specification is one rising clock
  edge**.  Registers are the variables and keep their source names (`valid_req_q`,
  `ls_fsm_cs`, `vrf_state`, ...); wires are operators of the registers and of the
  cycle's inputs; an `always_comb` case statement becomes one action per state.
  Time-outs, crashes and retries do not exist there.  What makes it hard is timing:
  grants and answers on the buses, redirects, stalls, and units that take turns on
  one port.
- *The scripts* under `src/util/`, in Python: the one that imports third-party code, and
  those that a build of the core goes through.  **One step is one effect on the world
  outside the process** (a directory removed, a file copied, a patch applied, the lock
  file cut off, the lock file written, something staged, something committed), with
  the computation up to it.  A run may end after any of them.  What makes these hard is
  what the last run has left behind: half a tree, half the patches, half a lock file, a
  file converted already.

## 1. The system

| part (`src/rtl/`) | state | operations | talks to |
|---|---|---|---|
| prefetch buffer, fetch FIFO (`cve2_prefetch_buffer.sv`, `cve2_fetch_fifo.sv`) | pending request, outstanding and discard flags, fetch address, FIFO of words | request, grant, answer, redirect, pop | instruction bus (OBI), IF stage |
| IF stage (`cve2_if_stage.sv`) | IF/ID register, fetch-error flops | take an instruction, squash, redirect | prefetch buffer, PMP, controller, ID stage |
| ID stage, decoder (`cve2_id_stage.sv`, `cve2_decoder.sv`) | FSM FIRST_CYCLE/MULTI_CYCLE, intermediate values | decode, stall, finish, write back | everything |
| controller (`cve2_controller.sv`) | FSM of ten states, exception flops, NMI and debug mode | boot, sleep, interrupt, NMI, debug entry, exception, return | IF, ID, CSRs |
| CSRs (`cve2_cs_registers.sv`, `cve2_csr.sv`, `cve2_counter.sv`) | mstatus and trap stacks, mepc, mcause, debug CSRs, PMP configuration, counters | CSR instructions, trap entry and return | controller, PMP |
| vector CSRs (`cve2_cs_registers_vec.sv`) | vl, vtype | vsetvl | decoder, vector unit |
| load/store unit (`cve2_load_store_unit.sv`) | FSM of five states, first half of a split access, error flops, last address | scalar or vector access, split when misaligned | ID stage, PMP, data bus |
| VRF interface (`cve2_vrf_interface.sv`) | sequencer of 15 states, iteration counter, operand and slide buffers, delay FSM | every vector instruction, one word at a time | AGU, LSU, data bus |
| AGU (`cve2_agu.sv`) | three word counters | load, increment | VRF interface |
| LSU interface (`cve2_lsu_interface.sv`) | memory address of a vector load or store | start, next element | VRF interface, LSU |
| data memory switch (`cve2_dmem_switch.sv`) | who asked last | route requests and answers | VRF interface, LSU, data bus |
| PMP (`cve2_pmp.sv`) | none | region match, verdict | IF stage, LSU |
| multiplier, divider (`cve2_multdiv_*.sv`) | sequential FSMs | multiply, divide | ID stage |
| ALU, fractured adder, compressed decoder, register file, write-back | combinational, or an array | | ID stage |

| part (`src/util/`) | state | operations | talks to |
|---|---|---|---|
| `vendor.py` | target directory, patches, lock file; what git has staged and committed | check the arguments, the description and the lock file; refresh the patches; clone; replace the tree item by item and patch it; write the lock file; commit | git, the upstream repositories, the patch repository, the developer |
| `cve2_config.py`, with `Makefile` and `ci/cve2-rtl-ci-steps.yml` | `cve2_configs.yaml` | verify the file, print a configuration as options of fusesoc, VCS, Xcelium, Riviera, Questa | make, CI, fusesoc |
| `check_tool_requirements.py`, `tool_requirements.py` | none; tools found missing so far | read the requirements, ask each tool for its version, compare | fusesoc (a hook before the build), the user |
| `sv2v_in_place.py` | the files of a build directory, a temporary directory | convert every `.sv` file, copy the results back, empty every header | fusesoc (a hook before the build), sv2v |

The circuits share no memory but registers; they interact through valid/ready wires inside
a cycle (modelled as operators) and through two OBI buses whose grants and answers
come when the memory pleases (modelled as nondeterministic inputs).

**What makes each part correct, and what is hard about it**

- *Fetch.*  The decoder must see the instructions in program order, each made of
  the right halfwords, whatever a redirect finds in flight.  Hard: an answer to a
  request from before a redirect arrives after it; the bookkeeping is two bit
  vectors shifted by answers and extended by grants in the same cycle; the FIFO
  cannot refuse a word, so room has to be reserved when the request goes out; a
  32-bit instruction straddles two words that fail separately.
- *Load/store unit.*  A misaligned access is two bus transactions that answer
  once, with one error and one address.  Hard: the second half may be granted
  before the first is answered; either half may be denied by the PMP (and then is
  never granted) or fail on the bus; the address of the second half is made by an
  adder outside the unit.
- *Vector unit.*  An instruction writes the whole of its destination and nothing
  else, with the values its operands had.  Hard: a tail that is not a word, a slide
  that starts and ends inside words, a misaligned store that takes each register
  word in two pieces, the port shared between register accesses and memory
  accesses, a grant that comes late while the pipeline behind it moves on.
- *Controller and CSRs.*  One trap at a time, with the state of the instruction it
  belongs to, and no request forgotten.  Hard: interrupt, debug request, NMI and
  exception in one cycle or while the pipeline is flushed for another of them;
  requests that go away again; sleep behind a gated clock; single step; an NMI inside
  a trap handler.

- *Importing code.*  The tree in the repository has to be what the lock file and the
  patches say it is, and the lock file must never claim more than has been done.  Hard:
  a run that fails or is killed has removed the tree already, or the patches, or has
  cut off the lock file; the upstream's branch has moved on; entries of the mapping
  land on each other's files, or inside each other; a description that is overridden
  on the command line; changes that are not committed.
- *Building.*  What is built is the configuration that was named, with tools not older
  than those demanded, from files that were converted once.  Hard: parameters that one
  configuration has and another has not; make goes on when its `$(shell)` fails; a
  version is a string that every tool writes in its own way; a header may only be
  emptied after the last file that includes it is converted.

The full list of places where this goes wrong without a test noticing, each with
its line and the property that watches it, is `hazards` in `PROJECT.json`.

## 2. Modules

    FetchFifo  <-  PrefetchBuffer  <-  IfStage  <-  MCIfStage
                        |   \<- MCPrefetchBuffer   \<- InstructionStream_proof
                        |   \--- INSTANCE InstructionStream (abstract)
                        \<- PrefetchBuffer_proof  <-  InstructionStream_proof
    LoadStoreUnit  <-  DataAccess  <-  DataAccess_proof
          \ INSTANCE
    VrfInterface, Agu, DmemSwitch, LsuInterface  <-  VectorUnit  <-  MCVectorUnit
                                                        \   \<- VectorUnit_proof  <-  VectorLanes_proof  <-  VectorSlides_proof
                                                         \--- INSTANCE VectorInstructions (abstract)
    Privileged  <-  TrapCsrs  <-  Controller  <-  Execution  <-  MCExecution
          \<- Hart (abstract)  --- INSTANCE ---/   \<- Execution_proof

    FileTree  <-  VendorDesc  <-  Vendor  <-  Scripts  <-  MCScripts
    Cve2Config, ToolRequirements, Sv2vInPlace  <-  Build  <-/   \<- Scripts_proof

- **FetchFifo** - `cve2_fetch_fifo`: a FIFO of words that hands out halfwords.  A
  word is its address, whether it was requested after the last redirect (ghost
  field `fresh`), whether each half reads as a compressed instruction, and the error
  bit.  Addresses count halfwords.  `FifoCycle` is push, pop and clear together.
- **PrefetchBuffer** - `cve2_prefetch_buffer` around it, the instruction bus
  (`bus`, the granted requests in order) and the part of the IF/ID register that
  makes the output (`out`).  `Cycle(i)` is a clock edge under the inputs `i`: a
  redirect and its target, the decoder's readiness, grant, answer, and what is on
  the data lines (valid or not).  `req_i`, the fetch enable, changes freely.
- **InstructionStream** - what fetch promises, with no buffer and no clock:
  instructions arrive in program order from the last redirect on, made of fresh
  halfwords from their own address, with an error exactly when a needed word failed.
- **IfStage** - the PMP verdicts and bus errors on their way into the fetch-error
  flops.
- **LoadStoreUnit** - `cve2_load_store_unit`: the five FSM states as actions, byte
  enables, rotation, re-assembly, error and response outputs.
- **DataAccess** - the LSU with the ID stage that asks (one access, held until
  answered), the adder that makes the second address, the PMP that denies words and
  the bus.  The byte at address a holds the value a, so that a load shows which
  bytes it got; a store records which byte lane it wrote where.
- **VrfInterface, Agu, DmemSwitch, LsuInterface** - one module per RTL module.
- **VectorUnit** - their composition with the LSU, the decode of a vector
  instruction, one lane of the ALU, and a memory that also holds the vector
  registers (from address 0).  A byte is a term that says how it was computed
  (`<<a>>` is what address a held at reset, `<<"op", x, y, z>>` a result), so two
  bytes are equal only if they were computed alike.
- **VectorInstructions** - the abstract machine: a vector instruction takes effect
  at once.

- **Privileged** - the vocabulary of the trap model: an address is a region (program,
  one handler each for exceptions, interrupts and NMIs, the debugger's code, its
  exception entry, and address zero, which `mepc` holds after reset) and a place in it; the classes of instructions the pipeline treats
  differently; causes.
- **TrapCsrs** - the part of `cve2_cs_registers` that traps and the debugger use, with
  one action per way its write logic can go.
- **Controller** - `cve2_controller`: the wires as operators of the cycle's inputs `i`,
  one action per state of `ctrl_fsm_cs`, FLUSH split by what is flushed.
- **Execution** - the ID stage's FSM and stalls, the IF/ID register, the controller, the
  CSRs and the clock gate of `cve2_top`.  Fetch is what `InstructionStream` promises: the
  next instruction comes after some time.  The multiplier, the load/store unit and the
  vector unit answer when they please.  `monitor` is the tracking logic the RTL has
  behind its assertions.
- **Hart** - the abstract machine: one instruction at a time, each takes effect or traps.
  The NMI and the debugger keep what they interrupt in places of their own; the RTL
  keeps the first in mepc, mcause and mstatus, with a copy of what was there before.

- **FileTree** - directory trees as functions from paths to contents, with what
  `shutil.copy`, `shutil.copytree`, `Path.mkdir`, `os.path.normpath` and `git apply` do to
  them and when they fail.  The contents of a file are the blob it was copied from and
  the patches applied since; a patch fits certain contents.
- **VendorDesc** - `vendor.py` up to the point where it touches anything: `-D` overrides, the
  description file and its validation, the lock file.  A value of the wrong type is
  `IllTyped`, a lock file that was cut off is `Torn`.
- **Vendor** - `main` of `vendor.py`, one action per effect.  `run` holds its local variables
  and where it is (`pc`); `Abort` ends it at any point, which stands for a failing command,
  an exception that nobody catches, a full disk and Ctrl-C; where the code must
  raise, `Abort` is the only step left.  Around it: the upstream's branch, which moves
  (`UpstreamMoves`), and the developer, who adds a patch, resets, removes the lock file, or
  commits by hand.  `Vendored` is the reference: the tree as a function of the lock file, the
  description and the patches, defined by deliveries of files and not by copying.
- **Cve2Config**, **ToolRequirements**, **Sv2vInPlace** - one module per script.  sv2v's result is
  a term that names the file, the macros, and the contents of everything that was read, so
  that two results are equal only if they were made from the same things.  The temporary
  directory (`written`) has its files under the places of the originals in the list, as the
  script names them.
- **Build** - a build of the core: make, the CI or a user calls `cve2_config.py` and then fusesoc,
  which calls the two other scripts as hooks before the tool runs, where the `.core` files used
  ask for them.  `sv2v_in_place.py` is a hook of the formal flow.  The check of the tools comes with
  the fileset of `check_tool_requirements.core`: `vendor/lowrisc_ip/lint/common.core` uses it,
  `cve2_top.core` and `cve2_core.core` name it in no target, so that a build of the core with
  make or in the CI has no hook in `MCBuilds`.
- **Scripts** - a session is an import or a build.  The two share no state; they are one
  specification because both are the scripts of this repository, and a step is a
  step of one of them.

The operators named `M_...` are single faults of the kind a bug in that line
would be.  Put in the place of the definition they precede, they must break the
property that `PROJECT.json` names with them; nothing else uses them.

## 3. What the runs check

| run | question | result |
|---|---|---|
| `prefetch_buffer` | prefetch buffer, 2 outstanding requests, any timing; safety and refinement | 24 416 states, holds |
| `if_stage` | with the PMP and under fairness: faults and liveness | 6 608 states, holds |
| `access` | every scalar load and store, any timing, bus errors, PMP denials; safety and termination | 22 472 states, holds |
| `vector` | the supported vector instructions and pairs; safety, refinement and termination | 21 453 states, holds |
| `execution` | eleven programs with interrupts, NMI, debugger, faults; safety, refinement and liveness | 32 431 states, holds |
| `scripts` | imports with interruptions and a moving upstream; builds of every kind; safety | 147 482 states, holds |
| `fetch_denied` | a denied second half never executes | violated (finding) |
| `vector_splat` | `vmv.v.x` takes effect as specified | violated (finding) |
| `vector_load_grant` | a register write is held until granted | violated (finding) |
| `vcs_releases` | releases of VCS are compared in their order | violated (finding) |
| `step_interrupt` | no interrupt is taken while single stepping | violated (finding) |
| `misgrouped` | an instruction starts in its first cycle, after an illegal vector instruction | violated (finding) |

**Fetch.**  `CVE2FetchFifoPushFull` is the RTL's own assertion: no word arrives at a
full FIFO.  `DiscardsWhatIsStale` ties the outstanding and discard flags to the bus:
exactly the requests from before the last redirect are discarded.  `RequestHeld`:
a request that is not granted is on the bus again, at the same address, under every
input of the next cycle.  `ImplementsStream` is the refinement to
`InstructionStream`.  `FetchFaultsAreReal`: a fetch fault is put on a half that came
back with a bus error or that the PMP denies, and on the second half only if the first
may be executed.
`KeepsDelivering` and `Drains` are the liveness properties: no stuck buffer, and
`busy_o` falls after fetching stops (else the core never sleeps).

**Access.**  `LoadsReadTheirBytes`, `StoresWriteTheirBytes`: each byte to or from its
own address and nothing besides.  `FaultsAreReported`: an error exactly when a half
failed, of the right kind, and no register write then.  `FirstFailingAddress`: what
becomes mtval.  `OneAnswerPerAccess`: the unit answers once, after the last answer
of the bus.  `EveryAccessEnds`.

**Vector.**  `InstructionsTakeEffect` is the refinement to `VectorInstructions` with
`before` (memory at the last completion) as its memory.  `AnswersReachTheirUnit`:
`prev_op_q` routes each answer to the unit that asked.  `LeavesNothingBehind`: when
an instruction ends both units are idle and no answer is outstanding, so the next
one cannot take it.  `RequestHeld`, `EveryInstructionEnds` as above.

**Execution.**  `ImplementsHart` is the refinement to `Hart`: every trap is precise,
nothing is executed twice or skipped, every return resumes where its trap said, a
step is one instruction.  In the mapping the instruction in ID is the next one while
it has not taken effect, else the one fetch is about to deliver.
`NoDoubleSpecialReqPCSet` and `NoPCSetOnSpecialReqIfNotExpected` are the RTL's
assertions of these names.  `StartsInFirstCycle`: the FSM of the ID stage carries
nothing over from one instruction to the next.  `InstructionsEnd`,
`InterruptsServed`, `HaltsOnRequest`, `SleepEnds`: nothing waits for ever, a sleeping
core included.

**Scripts.**  *Importing.*  `LockTellsTheTree`: after a run that ends well the tree is the one
that `Vendored` computes, whatever was there before.  `LockFollowsTheTree`: a lock file is
only written over by one that is true, or cut off on the way to that; a run that is killed
never leaves a lock file ahead of the tree.  `RefusalsTouchNothing`: a run that ends with a
message has left the target directory and the lock file alone; in particular the check that
the revision is the locked one comes before the removal.  It says nothing about the patches:
a refresh removes them before that check.  `CommitsReproduce`: the tree of a commit can be made
again from the lock file and the patches of that commit, its message names the locked
revision, and its patches are as before or all of those of the patch repository.  It has the
premise that git tracks every patch (see section 4).
*Building.*  `BuildsWhatItNames`: the core that is built has the value of every parameter of
the named configuration, given at most once; where the configuration cannot be had, only make
builds, with no option at all and the values the core declares, never with a part of it.
`ReleasesInOrder` is what the comment in `check_tool_requirements.py` claims: the check passes if and
only if each tool it has to look at is there and not older than demanded, in the order in which
the vendors number releases.  The run `vcs_releases` refutes it (section 4).  `ChecksTheReleases`
says that nothing else goes wrong: a check that passes has passed nothing that is absent, unreadable
or too old, and one that fails has a reason, whatever order the tools come in; the exceptions
are one tool and one direction each, an older release of VCS with more digits in service pack
and patch (`Favoured`) and a newer one of the same year with fewer (`Slighted`).  `ConvertedFromOriginals`: every converted file was made from the originals of what
it includes, no header is emptied before all files are converted, and a failing sv2v has
changed nothing.

**Bounds, and why they are enough.**
- `NUM_REQS = 2`, the value the code uses: a FIFO of three entries.  `NumHalves = 8`,
  four words, one more than the FIFO holds, so that no number of words it could lose
  or double goes unnoticed; 4 for faults and liveness, which do not depend on the order:
  one of the two words is denied, so that either half of a straddling instruction may be.
  `Kinds` are the cases the
  alignment logic tells apart; a 32-bit word entered in the middle by a redirect gives
  the unaligned 32-bit instruction.  The address space wraps, as the 32-bit one does.
- `NumBytes = 8`, `Addresses = 0 .. 3`: an access touches at most two words, so two
  words and all four offsets are all there is.
- `RegWords = 2` and up to four words per instruction give register groups, every
  tail length and every combination of first, middle and last iteration.
  `MaxIterations = 16` stands for 2^30: the supported programs never come near
  either.  `NumBytes = 320` is the register file (256 bytes) and room behind it.
- A grant may be withheld for `wait` cycles: 2 for arithmetic and slides, 1 for
  loads and stores (2 breaks them, see below), 0 for pairs.  Answers come in the
  cycle after the grant, but for aligned stores, which also bear late ones.  `MCVectorUnit`
  asserts that these programs satisfy the hypotheses of the theorems of section 5
  (`MCSupportedAssumption`).

- `execution`: programs of two places, each with a set of instructions of which any may
  come, and handlers of two; a resume address that is off by one, or that of another
  trap, is another place.  Each of the eleven scenarios combines what has to meet:
  `Faults` (bus and fetch errors), `UserMode` (illegal instructions, tw, interrupts in
  U mode), `Slow` (multi-cycle instructions), `Interrupts`, `Priorities`, `Withdrawn`
  (lines that fall again), `Nmis` (within handlers), `Stepping`, `Breakpoints`,
  `Ebreaks`, `DebugAndNmi`.  The core is reset as the RTL is, to M mode with MPP = M and the
  interrupts off: U mode is reached by an `mret` after a trap's `mret` has set MPP to U, and an `mret`
  straight after reset goes to address zero.  Requests may come in every cycle.  All of them satisfy the
  hypotheses of the theorems of section 5, which `MCExecution` asserts
  (`MCScenariosAssumption`); the two runs with findings use scenarios that need not.

- `scripts`: `MaxRuns = 3` - a run, one that is interrupted anywhere, and the one that has to
  cope with what is left.  `MaxEdits = 2` - the branch moves and the developer does one
  thing more, in either order.  `MCRepos` is an upstream with two revisions and a fork of it;
  the patches are a first one, one that needs it, and one that fits the first revision only.
  `MCProjects` has one description per branch of the code: with and without a mapping, patches,
  patch repository and subdirectory; entries that overlap, nest, replace files or are not
  there; a lock file whose revision is a branch; and every reason to refuse a description.
  The first four come with a choice of command lines and all of the interference; the others
  with one or two command lines.  `MCBuilds` has every output and every kind of parameter, every
  kind of error in the configuration file, versions on both sides of each demand in
  every notation, and a file list with packages, headers and files that are no SystemVerilog.

**Fairness, and why the code justifies it.**  The clock ticks (weak fairness of
`Next`); the memory grants and answers in the end, which the OBI protocol promises
and `doc/03_reference/load_store_unit.rst` says of the bus.  Instruction fetch needs
strong fairness of grants and answers, because a redirect may withdraw what is
enabled for a cycle, and of `Take`: the decoder is ready again and again.
`KeepsDelivering` assumes that redirects stop and fetching stays enabled.  In the
vector runs the number of withheld grants is bounded, so no fairness of grants is
needed there.

In `execution` the clock ticks while its gate is open, the core is started, fetch
delivers (shown by `KeepsDelivering`), and the multiplier, the load/store unit
(`EveryAccessEnds`) and the vector unit (`EveryInstructionEnds`) answer; interrupts
and the debugger owe nothing.

No fairness is assumed of the scripts and no liveness is claimed: a user may stop any of
them, and a clone may hang.

`CHECK_DEADLOCK` is on in every run of the circuits: every state has a next clock edge.  It is off
in `scripts`: a build ends, and so does a session of imports when its bounds are used up.

## 4. Where the code departs from what it says

The findings in `PROJECT.json` are runs that TLC finds violated:

1. `fetch_denied` - `cve2_if_stage.sv:208` looks at bit 2 of the fetch address to
   find out whether an instruction is unaligned; bit 1 says that.  An unaligned
   32-bit instruction at an address with bit 2 clear executes although its second
   half is in a denied region.
2. `vector_splat` - `vmv.v.x` writes one word too many, all four bytes of each.
3. `vector_load_grant` - `VRF_LOAD_WAITGNT` does not keep the delay buffer selected,
   so the data of a waiting register write changes.
4. `vcs_releases` - the comment on VCS versions (`util/check_tool_requirements.py:241`) says that
   multiplying the service pack by 100 "should work".  The result is put behind the month
   without a dot and without leading zeros (line 260): 2020.03-SP2, which `tool_requirements.py`
   demands, becomes 2020.03200, and 2020.12 becomes 2020.120, so that the newer release is refused.
   The other way round an older one passes: 2020.03-SP2 where 2020.12 is demanded.
5. `step_interrupt` - `handle_irq` (`cve2_controller.sv:299`) has no term for single
   step, though its comment says interrupts are ignored then.  After `dret`, before the
   instruction to be stepped arrives, an interrupt is taken.
6. `misgrouped` - a vector instruction on a misaligned register group is illegal, and yet
   the ID stage starts it (`cve2_id_stage.sv:994`): its FSM is left in MULTI_CYCLE, and
   the handler's first instruction begins there.  A jump is then not taken; a load is
   never requested, and the core hangs (`InstructionsEnd` in place of
   `StartsInFirstCycle`, with `FairSpec`).  A bus error in the middle of a vector load
   leaves the FSM the same way.

Smaller disagreements, without a run:
- Two more assertions of the controller are not invariants.
  `CVE2DontSkipExceptionReq` fails when a request is already up in RESET or BOOT_SET,
  where nothing can enter ID anyway; `CVE2SetExceptionPCOnSpecialReqIfExpected` fails
  when an interrupt becomes visible in the cycle a CSR write goes to FLUSH, and is then
  taken in the next round.  Neither does harm.
- The NMI's vector is entry 32, `mtvec` + 0x80 (`cve2_pkg.sv:373`);
  `doc/03_reference/exception_interrupts.rst` says 31 and 0x7C, and 15 fast interrupts
  where the code has 16.
- An exception inside an NMI handler overwrites `mstack`, and its `mret` ends NMI mode.
  The scenarios let nothing fail there.

- A run of `vendor.py --refresh-patches` that is interrupted leaves only some of the patches.
  A later run without `--commit` imports with those, and ends well: `LockTellsTheTree` holds,
  with the patches that are there.  With `--commit` it is refused because of the uncommitted
  changes.
- A new patch that git does not track yet passes the check for a clean work directory, which
  looks at tracked files only (`--untracked-files=no`).  It is applied, and what comes of it is
  committed, but the patch is not.  Hence the premise in `CommitsReproduce`.
- A run that is killed between opening and writing the lock file leaves one that cannot be
  parsed, and every later run is refused, with `--update` too, until the file is removed by hand
  (`RemoveLock`) or restored (`Reset`).
- `-D key=value` is split with `split('=', 2)`, so that a value with a "=" in it is refused.
- make takes the empty output of a failing `cve2_config.py` and builds the default
  configuration.  The CI does stop; its comment says why.
- `dsim_compile_opts` writes integers and booleans as macros and leaves string parameters out; it is
  the one output that `MCBuilds` does not use.
- A Verilator that answers with less than two words ends the check with an IndexError.

`MCVectorUnit` also defines the scenarios below.  They are not runs of the project,
and not part of `MCSupported`; put in the place of `MCSplat` in `vector_splat.cfg`
(`RequestHeld` for the first), each gives a counterexample.

- `MCStridedStore`: the adder of the execution stage is never set up for `vsse`
  (`cve2_decoder.sv:1743` looks for `mop` = 00), so that its elements do not go to the addresses that
  the README's "Strided store of 32-bit elements" (`src/README.md:245`) promises.
- `MCStoreGrant`: a store refused for two cycles changes its data (`read_delayed`
  is asserted in `VRF_STORE_READ` only, line 618).
- `MCLateAnswers`: the sequencer takes the grant of one request for the answer to the
  one before (line 353), which a memory slower than one cycle breaks.
- `MCShortStore`: a misaligned store of at most one word picks the operand register
  that was not loaded (line 658).
- `MCMisalignedStore`: `VRF_STORE_WAITGNT` does not switch the operand registers
  (line 685).
- `MCNarrowStride`: a strided load of halfwords makes one access per word (line 285).
- `MCMisalignedStride`: the next element's address starts from the second half of a
  split access (`cve2_lsu_interface.sv:87`).
- `MCSlidePastEnd`: an offset not below the vector length wraps the iteration counter
  (line 285).

## 5. What is proved

`PrefetchBuffer_proof` proves, for every `NUM_REQS >= 1`, every even number of
halfwords and every non-empty set of word contents:

- `Invariance`: `Spec => []IInv`
- `TypeCorrect`, `NeverPushedWhenFull`, `DiscardsExactlyStale`, `RequestsAreHeld`:
  `Spec => []` of `TypeOK`, `CVE2FetchFifoPushFull`, `DiscardsWhatIsStale`,
  `RequestHeld`.

Neither `CVE2FetchFifoPushFull` nor `DiscardsWhatIsStale` is inductive.  `IInv` adds
- `Contiguous`: the valid entries are a prefix of the FIFO;
- `RoomForAll`: entries taken, requests outstanding and the request waiting for its
  grant fit together, which is what `fifo_ready` has to ensure several cycles before
  a word arrives;
- `OfferedIsHeld`: the pending request is the one on the bus, and its discard flag is
  set exactly when it is stale, in which case all older requests are too;
- `DiscardsAreOutstanding`.

The argument goes by the bus: `BusStep` says what one cycle does to the queue
(front leaves, back enters, a redirect ages all), the flag lemmas say that the bit
vectors do the same, and the FIFO lemmas that a push fills the lowest free entry.
The proofs use the assumptions declared in the modules (`NumReqsAssumption`,
`NumHalvesAssumption`, `KindsAssumption`) and nothing else.

`InstructionStream_proof` goes on from there to the refinement, under the same assumptions:

- `AlwaysInOrder`: `Spec => []SInv`
- `Implements`: `Spec => ImplementsStream`.

`SInv` is `IInv` and `InOrder`: there are numbers v and s such that the first v entries of the
FIFO are valid, the first s requests on the bus are stale, and the entries, the rest of the bus,
the request that waits for its grant and the address that is asked for next are one run
of consecutive words, starting with the one that holds `instr_addr_q`.  A cycle moves the
run (`Advance`), takes the oldest answer from the bus into the FIFO (`Oldest`, `StepEntries`),
lengthens it at the end (`NextFetch`, `Asked`), or starts it anew at the target (`StepRedirect`).
That the output is the next instruction of the stream follows from the first two words of
the run (`OutputWords`, `OutputInstruction`).  `Wrapping` and `ModUnique` are the arithmetic
of an address space that wraps.

Its last part adds the fetch stage (`IfStage`), for every set of denied words (`DeniedAssumption`):

- `KeepsTheBuffer`: `IfSpec => Spec`, so that all of the above holds of it too;
- `FaultsAreReal`: `IfSpec => []FetchFaultsAreReal`.

`DataAccess_proof` proves, for every address space of at least two words (`NumBytesAssumption`,
`TwoWordsAssumption`: in a single word an access would meet itself) and every set of addresses:

- `Invariance`: `Spec => []IInv`
- `TypesHold`, `LoadsAreRight`, `StoresAreRight`, `FaultsAreRight`, `FailingAddressIsRight`,
  `OneAnswer`: `Spec => []` of `TypeOK`, `LoadsReadTheirBytes`, `StoresWriteTheirBytes`,
  `FaultsAreReported`, `FirstFailingAddress`, `OneAnswerPerAccess`
- `RequestIsHeld`: `Spec => RequestHeld`.

The properties speak of the cycle of the answer; the invariant has to bring there what the
cycles before it have done.  `Phase` says how far the access is (`Unasked`, `Asked`, `Single`,
`FirstGranted`, `BothGranted`, `SecondAsked`, `SecondGranted`), and for each phase what is in
the FSM and its flops, which requests are on the bus with which bytes, what the first half
has written or loaded, and which words have failed.  There is a lemma for every phase and
every way out of it; `Words` and `Wrap` say where the halves of an access lie.

`Execution_proof` proves of the controller with its pipeline, for every set of scenarios - every
program, every timing of the units, the interrupt lines and the debugger:

- `Invariance`: `Spec => []IInv`
- `TypesHold`, `OneRedirect`, `NoUnexpectedRedirect`: `Spec => []` of `TypeOK`,
  `NoDoubleSpecialReqPCSet`, `NoPCSetOnSpecialReqIfNotExpected`
- `InstructionsStartAfresh`: `Spec => StartsInFirstCycle`, if `NoMisgrouped`
- `Implements`: `Spec => ImplementsHart`, if `NoMisgrouped` and `NmiHandlersDoNotTrap`.

Both hypotheses are about the scenarios, and both are needed because of what the code does:
the run `misgrouped` shows what a vector instruction on misaligned registers leaves behind, and
there is one copy of the trap registers, which an exception within an NMI handler overwrites
(section 4).  `IInv` has these parts, one for each thing that is known in one cycle and
used in another:

- `Fetched`: what is in ID is an instruction of the program, and the breakpoint has let it in;
- `Begun`: an access or a branch that was begun belongs to that instruction;
- `Flushed`: the flops that DECODE leaves for FLUSH still describe it;
- `Leaving`: the reason for which each state was entered still holds in it;
- `Monitored`: the tracking logic of the assertions follows the state machine.

For the other two theorems come `Straight` (the FSM of the ID stage is in its second state only
for the instruction in ID, and fetch stands behind that instruction, or at the target of its
jump) and `InHandler` (a core in NMI mode is in the NMI handler, or in the debugger with
that handler to go back to).  The refinement has a lemma for each state of `ctrl_fsm_cs`, and in
DECODE and FLUSH for each thing that may happen there: `HartStarts`, `HartWaits`, `HartInterrupted`,
`HartHalts`, `HartBreaks`, `HartTraps`, `HartReturns`, `HartResumes`, `HartRests`, `HartReady`,
`HartStays`, `HartWrites`, `HartRetires`; `HartSteps` puts them together.  The expressions of the
mapping have names in `Execution` (`arch_pc` to `arch_stepped`).

`VectorUnit_proof` proves of the vector unit, for every program, register and memory size and
alignment (`UnitAssumption`, `RegWordsAssumption`, `MaxIterationsAssumption`):

- `TypeInvariance`, `TypesHold`: `Spec => []InvType`, `Spec => []TypeOK`
- `PortInvariance`: `Spec => []PortInv`, if `OnlyStoresAreLate`
- `AnswersAreRouted`, `NothingIsLeft`: `Spec => []` of `AnswersReachTheirUnit`,
  `LeavesNothingBehind`, if `OnlyStoresAreLate`
- `HeldInvariance`, `RequestIsHeld`: `Spec => []HeldInv`, `Spec => RequestHeld`, if
  `OnlyStoresAreLate` and `MemoryWaitsOnce`.

The hypotheses are about the memory, and the code needs both (section 4): `MCLateAnswers` breaks
what stores alone bear, and the run `vector_load_grant` refuses a load twice.  For the rest, the
programs may be anything, those included whose results are wrong: a request stays put and its
answer comes home also for `vmv.v.x`, `vsse`, odd alignments and slides past the end.

`InvType` adds to the types those of the sequencer's flags, and that the program is one of those given.
`PortInv` is about who is on the port: `Routing` says what is on the bus for each state of the
load/store unit while the sequencer waits for it (`Serving`), and that otherwise there is one
access of the sequencer at most; `Sequencing` says in which states none is open.  A cycle belongs
to one of three parties, with a lemma each: a new access of the load/store unit (`LsuTurn`), one
that goes on (`LsuWorks`), or the sequencer (`VrfTurn`, `VrfMoves`).  `HeldInv` adds that a request
that waits (`Withheld`) is what the registers say, without the inputs of the cycle (`Waiting`:
`VrfRequest`, `LsuRequest`), and in which states the delay FSM, the second half of an access and
`waited` can be then (`Delayed`).  `AskedAgain` draws from it that the next cycle asks the same;
`Refused`, `RefusedByVrf`, `RefusedAtFirst` and `RefusedAtSecond` show that a refusal leaves the
registers so, where data must move from a wire into `rd_q` or `buffer_q` in that cycle.

`VectorLanes_proof` goes on from there to what instructions do, `vadd`, `vmacc` and `vmv.v.v` in all
their forms, for every program, register and memory size, alignment and timing of the memory:

- `LaneInvariance`: `Spec => []LaneInv`
- `LanesTakeEffect`: every step of `Spec` that begins, carries on or ends one of these instructions is a
  step of `VectorInstructions` or a stutter, if `Lane` of that instruction; other instructions may
  stand before and behind it, with whatever results

both if `OnlyStoresAreLate` and `MemoryWaitsOnce`.  `Lane` says that each register group
lies within the eight registers that the address counter goes round in (`BankWords`), that a
source is the destination or does not overlap it, as the vector extension demands, and that
the word counter can hold the length.  `MCVectorUnit` asserts it of the arithmetic that the
run `vector` gives to TLC.

`LaneInv` is `HeldInv` and `Progress`: `Place` (which word w the sequencer is at, by its state, its flags
and the count of words left), `Counts` (each counter has gone on by the words it has asked for),
`LaneData` (which operands of word w are in their registers, which is on the bus, and that a
delayed write has the result in `rd_q`), and that memory is `Partial`: its contents before the
instruction with the first w words of the destination replaced.  That a later word still reads
old contents (`FetchesWord`), that a store adds just its word (`StoresWord`), and that the last one ends
at the last byte (`UptoIs`, `PartialAll`) are lemmas about `Partial`; there is one lemma for each
state of the sequencer (`LaneStarts` to `LaneEnds`), and `LaneStep` puts them together.

`VectorSlides_proof` does the same for slides, and puts both together:

- `SlideInvariance`: `Spec => []SlideInv`
- `SlidesTakeEffect`: every step of `Spec` that begins, carries on or ends a slide is a step of
  `VectorInstructions` or a stutter, if `Sliding` of it
- `ProgramsTakeEffect`: `Spec => InstructionsTakeEffect`, if each instruction is `Lane` or `Sliding`

all if `OnlyStoresAreLate` and, for the first two, `MemoryWaitsOnce`; of such programs no instruction
is a load or a store, so that the third needs the first only.  `Sliding` says that the offset is
below the vector length (`MCSlidePastEnd` in section 4 shows why), that both groups lie in their bank,
and that they do not overlap, except that a slide down may be over its own source; `MCVectorUnit` asserts it of the slides of the run `vector`.

`SlideInv` is `LaneInv` and `SlideProgress`, because what a slide reads and what it writes
do not go in step.  A slide moves `Skip` words and `Shift` bytes: word w of the result needs
word `Lead(w)` of the source and the bytes of the word before it, which `KeptOf` finds in the slide
buffer.  `SlidePlace` gives w for each state, with the two flags that tell a first and a last word
and what is left to count, `SlideCounts` how many words of the source have been asked for
(`SlideAsked`: `Lead(w)`, or up to two more, by the state), `SlideData` what is in the buffer, in
the registers and on the bus, with a refused write in `rd_q` while the next word is already in `rs2_q`.
The last word asked for can lie past the source; `Brings` says nothing of it, and `SlideLanes` shows
that no byte of it is written.  `SlideFinal` and `SlideEnables` do the numbers: that the counter
ends at the right word, and which bytes of the first and the last word are enabled, for the four
remainders of length and offset.  Over its own source a slide down reads each word before
it is replaced: that is `SlideAsks`, from `w <= j` for the word j asked for while w words are written.
`SlideStarts` to `SlideEnds` are the steps by state, `SlideStep` puts them together, and
`SlideSetsOut` is the step that loads the counters in the middle of a group.

`Scripts_proof` proves of `vendor.py`, for every description, command line, upstream, series of
patches and number of runs and edits:

- `Invariance`: `Spec => []IInv`
- `RefusedRunsTouchNothing`: `Spec => RefusalsTouchNothing`
- `CommitsNameTheLock`: `Spec => CommitsAgree`, the two parts of `CommitsReproduce` that do not depend
  on what the trees hold: a commit names the revision of the lock file in it, and leaves the
  patches alone unless they were refreshed.

None of them is inductive: each is about the end of a run and has to be carried there from
its beginning.  `IInv` says what holds at each point of `main`: nothing is replaced up to the
check of the clone (`Untouched`); the lock file is the one that was read until it is written
(`OldLock`); after the check the revision is the locked one or the run updates (`SameRevision`);
before `git add` the lock file names the revision that was cloned, after it the index does
(`Locked`); a run with `--commit` started with nothing staged (`Staged`).  The actions fall into
three phases, with a lemma each (`EarlyInv`, `CopyInv`, `LockInv`).  No assumption on the constants is
used.

`Scripts_proof` also proves of a build:

- `OriginalsAreConverted`: `Spec => []ConvertedFromOriginals`, if `FilesAreDistinct`
- `ReleasesAreChecked`: `Spec => []ChecksTheReleases`, if `RequirementsAreVersions`
- `NamedIsBuilt`: `Spec => []BuildsWhatItNames`, if `OutputsAreComplete`.

The hypotheses are about `Builds`, and `MCScripts` asserts them of the builds that TLC runs
(`MCBuildsAssumption`).  `FilesAreDistinct`: one name in the list is one file; it may be there
twice, in any order, with any includes.  `RequirementsAreVersions`: the requirements are a
dictionary, and the service pack and the patch of a VCS release are below 100 (the comment
at `check_tool_requirements.py:241` demands that of the patch); everything else may be ill-typed, missing or
unreadable.  `OutputsAreComplete`: a build asks for `fusesoc_opts`, or for outputs of simulators that
pass both parameters and macros, each as what it is meant for (`AsMeant`: `dsim_compile_opts` does
not), and for fusesoc a Boolean parameter is off where the `.core`
file declares it; a configuration may be of any size and kinds, or not be had.

`ConvertInv` says which files have changed at each point of `sv2v_in_place.py`: none while one
waits, so that `transform_one` reads originals (`ReadsOriginals`), and a header only when all
converted files are back.  `CheckInv` says that the loop has been `Through` the first n
requirements, that the tools named are those named less the ones of these, and that a tool is
missing exactly if one of these fails; as a dictionary names a tool once, a requirement is
wanted in its turn if and only if it was at the start (`NextReq`).  What the answer for one tool has
to do with the order of releases (`ChecksOne`) is arithmetic: `Concatenated` keeps the order of month,
service pack and patch if the last two have as many digits together (`VcsVersions`), and of two
that differ there the one with more digits can only win (`MoreDigits`).  `ConfigInv`
carries the options from `cve2_config.py` to the tool; what each parameter then gets is a case
distinction on its kind (`FusesocGives`, `SimulatorsGive`).

Model-checked only:
- `InstructionsTakeEffect` of the vector unit for loads and stores: which bytes these have
  written after each of their words (section 6);
- `TypeOK` of the scripts, and what is about the contents of trees
  (`LockTellsTheTree`, `LockFollowsTheTree`, the tree in `CommitsReproduce`): it rests on recursive definitions
  over sequences, and TLAPS has no induction for them;
- all liveness, because TLAPS cannot reason about `ENABLED`.

## 6. What is not modelled, and the plan

Not modelled: the pieces listed as `not_modelled` under `components`.  The ALU's and the
decoder's tables are data here; the tracer, the examples, the verification
environment and the vendored code are not part of the core; the branch predictor is
not instantiated.  In the trap model the lines are taken behind `mie`, `mtvec` is one
vector per kind of trap, `ebreaku`, `mprv`, `mtval` and the counters are left out, the
debugger keeps its request up until the core has halted, and the programs write neither `mepc`
nor `dpc`.  Inside the modelled parts, performance strobes, the instruction
bits themselves and `err` of the switch (routed beside `rvalid`) are left out.

Of the scripts: two runs of `vendor.py` at the same time (it takes no lock), and edits while it
runs; a `copytree` that is interrupted in the middle, which is one step here and leaves no more
than an `Abort` before it does to the next run, as that removes the tree first; the wording of
commit messages and their references to GitHub.  fusesoc exports the sources anew for every
build, so that `sv2v_in_place.py` is not run twice on one directory, and no build has both
hooks.  `ci/vars_to_logging_cmd.py` and `doc/conf.py` have no state worth a model: the first prints
what is in a file (when the file lacks its key, it prints an error and then looks the key
up all the same), the second is a list of settings.

PMP is out of scope of the core by its own word (`cve2_pmp.sv:6`); its verdicts are inputs
of the fetch model (`Denied`) and of the access model (any subset of the words, per access).

Order of the work, most important first:

1. *(done)* fetch, scalar access, vector unit, controller with the trap registers;
   `PrefetchBuffer_proof`.  The scripts; `Scripts_proof`.
2. **VectorConfig**: vsetvl and vtype; the sequential divider and the fractured adder
   against integer arithmetic, as functions over narrow words.  One run for all of them.
3. Bus errors inside vector instructions, across VectorUnit and Execution.
4. Proofs: `InstructionsTakeEffect` for loads and stores, after the pattern of
   `VectorLanes_proof` and `VectorSlides_proof`.
