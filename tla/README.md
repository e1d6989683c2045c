# Verification of silica-val

TLA+ models of the C programs under `src/solutions/`, model-checked with TLC and proved
with TLAPS except for liveness. Every definition is translated from the source lines
that `PROJECT.json` names for it.

    tlc -config MCSpscRing.cfg MCSpscRing     # and so on for the other MC*.cfg
    tlapm SpscRingProofs.tla                  # and SqRingProofs, AsyncFifoProofs,
                                              # CrossingProofs, MemoryProofs,
                                              # PlatformProofs, BringupProofs,
                                              # RingArithmetic

`MCLruCacheWrap.cfg` (module `MCLruCache`) and `MCAlgorithmsOracle.cfg` (module
`MCAlgorithms`) are expected to end in a violation.

## The system

silica-val is a set of independent, assertion-checked C programs. Each file of
`solutions/` holds the functions of one model and a `main` that drives them;
`exercises/` holds the same files with the functions left as TODO. Components
share no state. `d00_bench` links against `d00_csr_model`, several d00 files
include `macros.h`, and `d00_csr_init` is an earlier draft of the same that the
build excludes.

| Component | State | Operations | What is hard | What makes it correct |
|---|---|---|---|---|
| s09 SPSC ring | slots, two atomic indices | push, pop; two threads that retry | C11 visibility, index wrap, full/empty | no data race, FIFO, exact tests, progress |
| s04 dual-clock FIFO | memory, two pointers, four Gray registers | write, read, two clock edges | stale flags, Gray wrap, depth check | FIFO, flags lag exactly, one bit changes |
| s04 request/ack crossing | two toggles, four stages, data word, tick counter | one loop turn = source edge, perhaps destination edge | data held while in flight, termination, counter wrap | FIFO of one, at rest on return |
| s04 toggle synchroniser | toggle, last sample | one source cycle | events that cancel | parity of events gets through |
| s12 submission queue | descriptors, head, tail, doorbell | submit, consume | store order, index wrap | FIFO, doorbell never ahead |
| s08 cache | lines with age stamps, shared clock | access | recency across sets, clock wrap | LRU |
| s11 enumeration | fixed inventory, tree with 8 nodes | recursive walk, BAR size, window | recursion, full tree, odd topologies | finds exactly what is reachable |
| s13 TLB, IOMMU | four entries, FIFO pointer; two-level table that a driver edits | translate, flush; iommu_translate | replacement, stale entries, fault order | holds the last misses; same answer as a flat table; no output on a fault |
| s10 LTSSM | state, recovery counter | go | long walks | no use of a link that has not been configured |
| s05, s07, d00 registers | a register, a poll budget, a handshake state | poll, read-modify-write, pm_step | device between two reads, late answers, partial bring-up | other fields kept; verdict exact; rest after any event |
| s06 bring-up | ready flags, current stage, retries | advance, inject_fail | order of calls | no stage before its predecessor |
| s03 clocks, resets | selected clock; divider count; reset bits | three step functions | order of edges and steps | no runt, N/2 edges per toggle, reset order |
| s02 detectors | the place in the stream; a state | seq_detect, win_match, safe FSM | overlap, window arithmetic, upsets | the two agree; the step after a fault leads to 0, then as if started anew |
| s16 DVFS, residency | point in force; two snapshots | select, apply; delta, percentage | moment between two writes, counter wrap | voltage always sufficient; true share |
| s17 arbiter | votes of cores, links, units | arbitrate | priority of votes | the minimum of the votes, the right one blamed |
| s01, macros.h | none (pure) | bit operations | width edges | equal to their definitions |
| s04 backlog | level, peak | one tick of a schedule | bursts across idle time | the worst interval of the schedule |
| d00 lists, copies | a heap of nodes; two buffers | build, reverse, free, cycle check, copies | aliasing, overlap, failing allocation | reversed, nothing lost; memmove semantics |

## Modules

    BoundedFifo            what every queue promises (abstract)
      ^ refined by SpscRing, AsyncFifo, CdcHandshake, SqRing
    SpscRing               s09, two threads
    AsyncFifo              s04, dual-clock FIFO
    CdcHandshake           s04, handshake_xfer
    SqRing                 s12
    LruCache               s08
    EnumWalker             s11, enumerate
      MC<module>           instance of each for TLC

    ClockReset  BringupLadder  RegisterPoll  PmStep  Ltssm
      MCBringup            s03, s06, (s05 s07 d00), d00, s10
    Dvfs  Residency  Arbiter
      MCPower              s16, s16, s17
    TlbIommu  ReverseList  CycleDetect  MemCopy
      MCMemory             s13, d00, d00, d00
    SeqDetect  ToggleSync  Words <- BitLoops
      MCAlgorithms         s02, s04, (s01 macros.h d00 s07 s10 s11), s01

    RingArithmetic         lemmas: wrapping indices, appended histories, least
                           naturals, binary digits
    SpscRingProofs, SqRingProofs, AsyncFifoProofs
    CrossingProofs         CdcHandshake, ToggleSync
    MemoryProofs           LruCache, TlbIommu, MemCopy, ReverseList, CycleDetect
    PlatformProofs         Residency, Dvfs, Arbiter, EnumWalker
    BringupProofs          ClockReset, BringupLadder, RegisterPoll, Ltssm, SeqDetect,
                           Words, BitLoops

`BoundedFifo` keeps everything accepted (`sent`) and everything handed out
(`received`). `Put` needs room, `Get` hands out the next item. The detailed
modules carry the same two sequences as history variables and are mapped to it by
name, with `capacity` the ring size, the FIFO's depth, 1, and the queue size.

**SpscRing.** `spsc_push` is three actions: `PushLoad` (both index loads and the
full test), `PushWrite` (payload), `PushPublish` (release store). `spsc_pop` is
`PopLoad`, `PopRead`, `PopRelease`. `produce` and `consume` supply the retry
and the loop counters. Each atomic index is the sequence of its stores; a load
returns any store not older than the last one that thread loaded (C11
coherence). A release store carries the number of payload accesses its thread
has made; an acquire load adopts it. Loading one's own index always gives the
newest store. Because only one thread stores to each index, this is the whole of
C11's rules for these programs: no read-modify-writes, no third thread. `raced`
records a payload access that conflicts with one outside the thread's view.
`Init` is the state in which `main` starts the threads: the slots hold the
warm-up's squares and both indices are five below the wrap.

**AsyncFifo.** An action is one call. The Gray code is a function of bits, and
the code's exclusive-or with `wrap_mask` flips two of them. `depth` is chosen
among valid and invalid ones. `writesSeen`/`readsSeen` are history variables:
the counts at the last two edges. The program is sequential, so a clock edge
samples a settled pointer; metastability is outside the code and the model, and
`OneBitSteps` is the property that a real synchroniser would rest on.

**CdcHandshake.** `Tick` is one turn of the loop: the source half, the counter
and, on every third tick, the destination half, which reads the request the source
half has just written, as the statements do. Words are numbered.

**SqRing.** `sq_submit` is split at its three stores, since their order is what
the doorbell is about; the device consumes between calls, as in `main`. Fences
are program order here, there being one thread; the README of the repository says
that they do not order real MMIO either.

**LruCache.** `access` is one action, a hit or a miss. Addresses are line
numbers. `last` is a history variable, independent of the stamps, that says
when each line was last accessed.

**EnumWalker.** `Turn` is one turn of the loop with its recursive call pushed on
a stack, `Return` is a return. The inventory is a parameter.

*Programs that run alone.* The programs of the second group share no state and
never run together (`make check-sol` runs one after another). Each has
variables, an initial predicate and a next-state relation of its own; the MC
module of the group has a variable `running` that names the program a behaviour
runs, and the others stay at one initial state. A behaviour of `MCBringup` is
therefore a behaviour of one program, and all the programs are explored in one run.

**ClockReset.** One action per call of `clk_mux_step`, `div_n` and `reset_seq`.
The inputs are any levels of the two clocks and any selection; any level,
repeated or not; any array as the order. Calls that return -1 are stutters.
`edges` is a history variable: rising edges so far, modulo N.

**BringupLadder.** `advance` to any stage and `inject_fail` of any stage.
`allowed_retries` is a history variable.

**RegisterPoll.** The five copies of the bring-up sequence differ only in what they
write, what they wait for and how often, so a function is a record of its masked
writes, mask and budget, and one set of actions runs it: `FieldWrite` (one
read-modify-write), `Turn` (one turn of the poll loop, which in some copies plays the
device), `GiveUp`, and `DeviceRaises`, the device, between any two of them. A
read-modify-write is one step: nothing but the program writes `ctrl`.

**PmStep.** `pm_step` under every order of events, from every state the harness
passes, 99 included.

**Ltssm.** `go` with the table of `allowed`; `configured` is a history variable.

**Dvfs.** `select_opp` entry by entry, `apply_opp` with its return. The code records
the order of the writes, in `last_sequence`; `PlatformWrites` performs them one by
one (external), so that the moment between them is a state.

**Residency.** Time passes tick by tick in any set of states, and wraps the
counters (external). `wrap_delta` is subtraction modulo the counter's range; a
percentage is kept as the two numbers divided. `resident` and `elapsed` are what
really happened.

**Arbiter.** The tests of `arbitrate` in their order, each with its first offender;
votes change one at a time.

**TlbIommu.** `translate_hit`, `translate_miss`, `Flush` as `main` does it (the
entries keep their contents). `iommu_translate` is one action, its checks in
order; a driver (external) attaches and detaches directories and maps pages
between requests, and `mapped` is that driver's flat view. `missed` is a history
variable: the pages walked for since the last flush, in order.

**ReverseList, CycleDetect, MemCopy.** An action is one turn of a loop: a node
built, turned or freed; both pointers moved; a byte copied. `built` is the order in
which the nodes were linked, which the links are compared with. Allocation fails
whenever it likes. `has_cycle` runs on every heap; `turns` is a history variable,
the turns of its loop.

**SeqDetect.** The detectors look only back, so the bits arrive one by one and
`seq_detect` (overlapping and not) and `win_match` run side by side. An upset may
strike the safe state machine at any time, and the caller may inject one. `struck` and
`since` are history variables that record a fault as it strikes, not as the code's
test of the state finds it: whether the register was upset since the last step, and
the inputs taken since the last fault was cleared. The step that follows a fault must
leave the machine in 0.

**ToggleSync.** One source clock of `toggle_sync`; one tick of `peak_backlog`, with
`net`, the writes less the reads before each tick, as its history: the excess of an
interval is the difference of two of its entries.

**Words.** The functions without a loop, a word being the set of its one bits, at the
full 32 and 64 bits. Each is the expression of the code over shifts, masks, additions
and subtractions. Nothing recurses: a bit receives a carry if one arises at some lower
bit and none between stops it (`Carried`). The state is the arguments of a call, which
change from one call to the next. The masked writes are those of `d00` (`put_field`) and of `s07`
(`reg_field_write`, which leaves the register alone for a bad mask). A bridge window
that is refused keeps what it was before the call: the property starts from an old
window other than 0 as well, so that a refusal differs from a sum that wraps to 0.

**BitLoops.** The functions that loop, one action for a turn of each loop. `ffs32`, `ctz32` and
`clz32` answer the argument 0 before their loop, with 0, 32 and 32: that answer is the
count they start with. The state is the word
shifted and the count, the mask of `clz32`, the word turned round so far, the exclusive
or so far. `fed` is a history variable: the words that have gone into the exclusive or.
Loop counters up to `n` are those of a size below `INT_MAX`, since a loop to `i <= n`
would overflow its counter at `INT_MAX` itself.

Definitions marked `mutated` in a comment are plausible bugs (a dropped guard, an
off-by-one, a missing wrap). They are not part of the models: substituting one
for the operator it names must make the property listed beside it in
`PROJECT.json` fail.

## What is checked

| Run | Instance | Shows |
|---|---|---|
| `spsc` | R = 4, W = 8, 13 transfers | `NoDataRace`, `InOrder`, `TestsAreExact`, `AllDelivered`, `ImplementsFifo` |
| `async_fifo` | depths 0, 1, 2, 3, 4, 8; 17 writes | `FlagsLagExactly`, `OneBitSteps`, `AllDelivered`, `ImplementsFifo` |
| `cdc_handshake` | up to 12 words, counter of 16 | `HeldUntilAcknowledged`, `QuietOnReturn`, `Returns`, `ImplementsFifo` |
| `sq_ring` | 4 slots, W = 8, 21 submissions | `DoorbellNamesWritten`, `RefusalsExact`, `ImplementsFifo` |
| `lru_cache` | 2 sets, 3 ways, 7 lines, 7 accesses | `HoldsMostRecentlyUsed` |
| `lru_cache_wrap` | the same, clock of 4 values | a violation: see below |
| `enum_walker` | all inventories of up to 4 functions on 3 buses, room for 4 | `FindsExactlyReachable`, `BridgesFirst` |
| `bringup` | divisors 2 to 8, 3 domains, 4 stages, budgets 0 to 2, polls of up to 10 reads, all link walks | `NoRunt`, `DividesByN`, `ReleasedInOrder`, `LadderSound`, `PollVerdictExact`, `ControlAsWritten`, `RestsWithoutRequests`, `ConfiguredBeforeUse` |
| `power` | 10 frequencies at the table's edges, 4 temperatures; counters of 5 values; 2 cores, 2 links | `VoltageSuffices`, `ChosenExact`, `SharesTrue`, `DeepestAllowed` |
| `memory` | 3 TLB entries, 5 pages; tables of 2 x 2; lists of 4; 6 bytes | `HoldsLastMisses`, `AnswersAsFlatTable`, `ListsReversed`, `CycleVerdict`, `MoveIsCopy` |
| `algorithms` | patterns of 3 bits in 8; 7 clocks; words with up to 2 bits different from 0 or from all ones; loops over 6 words and arrays of up to 3 | `DetectorsSound`, `ParityDelivered`, `PeakIsWorstInterval`, `ToolkitExact` |
| `oracle_extra_bits` | the same, patterns with a bit beyond their length | a violation: see below |

`SpscRing`, `AsyncFifo`, `CdcHandshake` and `SqRing` state a `TypeOK`; all four are
proved, not checked.

*Bounds.* `Transfers`, `Writes`, `MaxWords`, `Submissions` and `Accesses` bound
the length of a run; nothing else is cut. A ring of four with W = 8 is the
smallest in which the index range is more than one lap and a ring can be partly
full on both sides of the wrap, and 13 (21) transfers cross it twice. Seventeen
writes take the pointers of a depth-8 FIFO once round their sixteen values. The
counter of 16 has the remainder modulo 3 that 2^32 has. Seven accesses are enough to
fill three ways, hit, and evict twice; four functions are enough for a full tree,
a bridge behind a bridge, and two bridges to one bus.

In the second group most state spaces are finite as they are, and the bounds only
limit the inputs. Three domains make orders with a repeated and with an illegal
entry; four stages have a first, a last and two between, and three failures
exceed every budget. The poll budgets lie on both sides of the turns in which the
loops of s05 and d00 play the device. The link's counter of recoveries wraps at
`RecoveryValues`; no guard reads it. Five ticks of a counter of 5 values reach the
first elapsed time at which nothing is promised, from every pair of starting values.
Six misses in three entries go twice round the FIFO pointer. Tables of 2 x 2 have a
page in range for every combination of levels and one out of range. Lists of
four nodes have tails and cycles of every length up to four. Every overlap of
regions in six bytes occurs in both directions. Streams of eight bits hold three
overlapping occurrences of a pattern of three. Words within two bits of 0 or of all
ones include every single bit, every boundary case the code guards and every
carry out of the top. The positions and widths (`Places`) are 0, 1, the middle, the last
bit, the word's width and one past it. The loops run on no bit, one at either end, all
and some between; an array of three has a missing number at either end, in the middle, and
elements that are no such number.

*Liveness with a bound.* Two of the liveness properties also say how long it may take,
as a safety part that needs no fairness and is proved. In `Returns` it is
`NoTurnWasted`: every turn of the loop lowers `TurnsLeft`, which is never above eight a
word and one. In `CycleVerdict` the loop turns once a node at most and is `SearchSound`:
it follows no NULL, and an answer given is right. What is left is that the loop keeps
turning.

*Fairness.* `spsc`: weak fairness of each thread, which `yield_thread` and any
scheduler that does not starve a runnable thread give, and that a polling thread
eventually loads the newest store (C11 7.17.3). `async_fifo`: both clocks run and both
sides keep asking, as `main` does; this is an assumption on the environment.
`cdc_handshake`: the loop is sequential, so `Tick` is taken when enabled.
`sq_ring`: a call runs to its end, and the device keeps consuming; submissions
are not assumed. `bringup`: the timer of a pending request expires and finished
work is reported (`PmFairness`); acknowledges are not assumed, since the timeout is
there because they may not come. `memory`: the loop of `has_cycle` is sequential
(`CycleFairness`). `lru_cache`, `enum_walker`, `power` and `algorithms` check no liveness.

*Deadlock* is checked in every run of the first group; the `Done` and `Return`
stutters stand for a program that has finished. In `MCBringup`, `MCPower`, `MCMemory` and
`MCAlgorithms` it is not: most of these programs come to an end (all stages up, all
nodes freed, all bits read).

### Findings

`access` stamps lines with an unsigned clock and evicts the lowest stamp
(`s08_cache_sim.c:29`). When the clock wraps, the line brought in last gets the
lowest stamp and is evicted next, although `EXERCISES.md:106` asks to "evict the
least-recently-used line on a miss". It takes 2^32 accesses to one cache;
`lru_cache_wrap` shows it with a clock of four values. Without a wrap the
property holds (`lru_cache`).

`seq_detect` compares only the low `plen` bits of a pattern (`s02_fsm_detect.c:12`),
but the oracle `win_match` compares its masked window with the pattern as given
(line 33). For a pattern with a bit beyond `plen`, which both accept, the first
reports occurrences and the second none, although `EXERCISES.md:64` calls it the
"sliding-window comparison oracle" and `main` asserts at line 59 that the two agree
(for one pattern without such a bit). `oracle_extra_bits` shows it; without such bits
they agree on every stream (`algorithms`).

## What is proved

For every value of the constants that the modules' ASSUMEs allow:

| Assumption | Says | In the code |
|---|---|---|
| `RingAssumption`, `SqAssumption` | a positive number of slots that divides the number of index values and is smaller | 8 or 16, and 2^32 |
| `AsyncFifoAssumption` | depths are integers, valid or not | valid: 2 to 256, powers of two |
| `WordsAssumption`, `LoopsAssumption` | arguments are words of 32 bits, places are numbers, a size is below 2^31 - 1 | `uint32_t`, `unsigned`, `int` |
| `CycleAssumption` | the nodes are finitely many, the null pointer is none | |
| `CdcAssumption` | the tick counter has more than two values | 2^32 |
| `ToggleAssumption` | a period is at least one clock | `toggle_sync` refuses others |
| `CacheAssumption` | at least one set and one way; the lines of memory are finitely many | 8 and 4; 32-bit addresses |
| `TlbAssumption` | at least one entry, one frame, one page table entry per level | 4; 16 and 256 |
| `MemAssumption`, `ListAssumption` | a buffer has a size, the null pointer is no node | |
| `EnumAssumption` | buses are bytes | `uint8_t` |
| `SeqAssumption` | patterns have 1 to 32 bits | both functions refuse others |
| `DvfsAssumption`, `ArbiterAssumption` | demands, temperatures, counts, states and latencies are integers; the votes that can change include those counted | |
| `LadderAssumption`, `ClockAssumption` | at least one stage; divisors even and at least 2 | |
| `PollAssumption`, `ResidencyAssumption` | budgets are numbers, a counter has values | |

Constants that bound the length of a run (`Transfers`, `Writes`, `Accesses`, ...) may
have any value, so nothing is bounded in the theorems. Two theorems assume more, and
each needs it: `MostRecentlyUsed` that there are fewer accesses than the clock has
values, and `DetectorsAreSound` that patterns have no bit beyond their length; without
either the property is false, as the two findings show.

- `SpscRingProofs`: `TypeCorrect`, `RaceFree`, `Ordered`, `TestsExact` and `RefinesFifo`
  (`Spec => Fifo!Spec`).
- `SqRingProofs`: `TypeCorrect`, `Refusals`, `DoorbellSound` and `RefinesFifo`.
- `AsyncFifoProofs`: `GrayInjective`, `TypeCorrect`, `FlagsLag`, `OneBit` and
  `RefinesFifo`.
- `CrossingProofs`: `TypeCorrect`, `Quiet`, `Held`, `NoWaiting` (the safety part of
  `Returns`) and `RefinesFifo` of the handshake; `ParityGetsThrough` (`ToggleSpec`);
  `WorstInterval` (`BacklogSpec`).
- `MemoryProofs`: `MostRecentlyUsed` (`LruCache`'s `Spec`), `LastMisses` (`TlbSpec`),
  `FlatTable` (`IommuSpec`), `MoveCopies` (`MemSpec`), `Reversed` (`ListSpec`) and
  `CycleFound` (`CycleSpec`, the safety part of `CycleVerdict`).
- `PlatformProofs`: `SharesAreTrue` (`ResidencySpec`), `EnoughVoltage` and `RightChoice`
  (`DvfsSpec`), `Deepest` (`ArbiterSpec`), `ParentsFirst` and `FindsReachable`
  (`EnumWalker`'s `Spec`).
- `BringupProofs`: `LadderIsSound`, `LinkConfigured`, `MuxHasNoRunt`, `DividerExact`,
  `ResetsReleasedInOrder`, `VerdictExact`, `ControlKept` and `DetectorsAreSound`, each
  about the specification of one program (`LadderSpec`, `LtssmSpec`, `MuxSpec`,
  `DividerSpec`, `ResetSpec`, `PollSpec`, `SeqSpec` with `SafeFsmSpec`); and of the bit
  toolkit `AddsBitByBit`, `WordsExact` (`WordsSpec`), `LoopsEndExact` (`LoopSpec`) and,
  of both, `ToolkitIsExact`.
- `RingArithmetic`: wrapped subtraction, wrapped successor, slots of wrapped indices;
  digits and powers of two. No fact about `%` is assumed; all rest on Euclidean
  division. `LeastNatural`, from the well-foundedness of the naturals, stands in for
  induction where a proof needs a first or a last.

### The arguments

*The ring.* None of the properties is inductive. `IInv` adds that
the k-th store to an index is the k-th value and carries k accesses
(`StoresInv`); that each thread's stale copy of the other's progress errs on the
safe side (`WindowInv`): received <= cSeen - 1 and sent <= pSeen - 1 + R; that
slots between the two counts hold what was pushed (`PayloadInv`); and that the
last access to a slot was one of those made, to that slot (`AccessInv`). A write
to the slot of push n can then race only with a read numbered j whose slot is the
same, so j + R <= n (`SlotsDistinct`), and n <= pSeen - 1 + R makes j part of the
view. A read is the mirror image. `IInv` was checked by TLC before it was proved.
The proof for the submission queue has the same shape, with `Rung`, the number
of submissions announced, in place of the views.

*The dual-clock FIFO.* Digit by digit, a Gray code determines its pointer, and the
code's exclusive-or with the top two bits turns the code of a pointer into that of the
pointer half a range away. Each synchroniser stage is the code of a count that was true
one or two edges ago, so the writer's copy of the reads and the reader's copy of the
writes lag, and by less than a lap. Equal codes then mean equal counts
(`SlotsDistinct`), which is `FlagsLag`, and the lag keeps the FIFO within its depth.
That a step changes one bit is because the digits below the one that is carried into are
all ones before and all zeros after.

*The handshake.* The six signals form a ring in which at most one change of level is
under way (`RingInv`); how far it has come decides whether the word held is out yet
(`WordsInv`). How far the level still has to go and how far the next destination edge is
away make up `TurnsLeft`; a slip only brings that edge nearer (`EdgeNearer`). *The
toggle*: the level is the parity of all events, the last sample that of the events up to
it, and the parities of the intervals add up. *The backlog* is the worst excess of an
interval that ends now, since one that begins now has none.

*The cache.* While the clock has not wrapped, a line's stamp is the number of its last
access, and what has been evicted is older than all that a full set holds. A set with an
invalid way has evicted nothing. A line is then among the `WAYS` last accessed exactly
if it is held, by counting.

*The translation cache.* Miss k since the flush is in slot (k - 1) mod n for the last n
misses, and only for those. *The tables*: an entry of either level is the flat table's.
*memmove*: the next byte written is never one still to be read. *The list* is in two
parts, each linked as built or against it. *The cycle search*: the nodes visited are a
path from the head, of which slow has walked k steps and fast 2k (`CycleInv`). A path of
more nodes than there are visits one twice, by the pigeonhole fact, so it has a period
from there on, and at the least multiple of that period not below the place of the
repetition the pointers meet: that is no more turns than nodes. If they meet, the nodes
between lead only to each other; if fast reaches NULL, the path has an end, which an
endless list has not.

*Power.* While `select_opp` looks, `best` is the right choice among the entries looked at;
between the two writes the voltage is that of the higher of two points. The arbiter's
tests go from the shallowest level to the deepest, so the first that fails names a
minimum. Residency: each counter is its start plus what really happened, wrapped, and
`WrappedDistance` undoes that.

*Enumeration.* Every call under way was made by a bridge of the tree, from its bus to a
higher one (`StackInv`, `NodesInv`), which is `ParentsFirst`. For `FindsReachable` a
meeting (a chain of bridges and a function at its end) is passed when at some call the
steps before are those under way and the step itself is behind the call's index
(`Past`). A turn that finds room passes the meeting it is at, if it takes it, and
nothing else (`TurnPasses`); a return passes nothing (`ReturnPasses`). So the tree has
one entry for each meeting of a set of those passed, of all of them while there is room
(`CountInv`), and in the end all are passed. The chains are finitely many, since calls
strictly rise.

*Bring-up.* The ladder: the retries granted to a
stage are its failures, as long as these are within the budget, and then the budget.
The multiplexer: its output is the clock in force; a switch happens while both are
low and so is invisible. The divider: the edges counted are N/2 times the output
plus the count, whose quotient by N/2 is then the output. Resets: n different
numbers below n are all of them (`GoodOrderIsOnto`, from the pigeonhole fact on
finite sets), so a release after all its predecessors are released either
repeats one of the first k or is the k-th. The link: its property is inductive.
The poll: while it goes on every read was too early, so neither turn in which a loop
plays the device itself has gone by unnoticed; for `ctrl`, the writes made so far stay a
prefix of the function's list when the verdict lengthens it. The detectors: the digits of
the window are the last bits fed, and two words with the same digits are the same; a
skipped occurrence lies before the end at which the search resumes.

*The bit toolkit.* Sets of bits make masks, shifts and fields set algebra. Addition has
one fact at its base: `Carried` is a full adder at every bit (`AddsBitByBit`), and what
follows about adding and subtracting one, ones and a power of two is about the lowest or
the highest bit of a run. The smear of `floor_pow2` doubles its reach at each step
(`SmearDoubles`). `popcount_swar` is followed lane by lane: after each step a lane holds
the count of its bits, no carry leaves a lane because the counts are too small
(`NoCarryInto`), and the product collects the four bytes in the highest (`TotalCounts`).
The loops: what is still to do and what is done make up the argument (`LoopInv`); a turn
of `popcount_kern` takes the lowest bit. Of an exclusive or, a bit is set exactly if an
odd number of the words taken have it, and for the missing number the places of the
array are as many as the numbers it holds, so by the pigeonhole fact each is there once.

### Left to TLC

Only that programs go on: `AllDelivered` of `spsc` and `async_fifo`,
`RestsWithoutRequests`, the liveness halves of `Returns` and `CycleVerdict`, and the
`WF` part of `ImplementsFifo`. They rest on fairness, which this prover does not reach.
Every invariant and every action property that a run checks is also proved.

## Not modelled

- `exercises/`: the same harnesses over functions left as TODO.
- `Makefile`; `d00_struct_sizes`, which prints the layout of structures; `ipc` of
  `s16_dvfs`, a division of floating point numbers.
- The examples in `main` and in `d00_test_macros`: they are instances of the
  properties above.
- `BIT`, `ARRAY_SIZE` and other macros that only name an expression or a field.
- NULL-argument checks, text written with `printf`, thread creation failures.
- Odd or too small divisors, which `div_n` refuses without effect.

## Plan

Every program of `solutions/` with state or arithmetic of its own is modelled, and every
safety and action property that a run checks is proved. What remains is liveness. For
the two loops that run alone the measure that fairness would need is already proved
(`NoWaiting`, `CycleFound`); for `AllDelivered` and `RestsWithoutRequests` it depends on
what the other side does, and a prover with rules for `WF` would be needed to make use
of one.
