# MemGaze: a TLA+ development

MemGaze measures how a program uses memory. It instruments the load
instructions of a binary, records a sampled load trace with `perf`, turns the
recording into a text trace, and analyses the trace after the fact. This
directory models the parts of it whose logic is easy to get wrong and hard to
test. Paths below are relative to `src/`.

## The system

| part | code | state | operations | talks to |
|------|------|-------|------------|----------|
| instrumenter: loops | `bin-anlys/src/tarjans/`, `common/PrivateCFG.C` | control flow graph, depth-first numbers, tree of intervals | connect the entry, search, find loops, mark edges | the classification reads strides off the loops |
| instrumenter: load classes | `bin-anlys/src/Scheduler/DGBuilder.C` | counts of blocks, lines, snippets | count frame loads, classify, insert `ptwrite`, serve left-over blocks | writes the binary and `*.binanlys` |
| address mapping | `mem-trace/memgaze-inst-cat` | original to instrumented address map | read the Dyninst padding and the classes | writes the `*.binanlys` the next parts read |
| trace collector | `mem-trace/memgaze-run` | process ids, output directory | start `perf` in the background, look up the application's memory map, wait, write `memgaze.config` | `perf`, the application, `/proc` |
| trace extractor | `mem-trace/memgaze-xtrace*`, `perf-script-*.py` | the previous record, sample counter | print events, merge two-word records, add offsets | a pipeline of files |
| footprint analysis | `mem-anlys/main.cpp`, `Window.cpp`, `Function.cpp` | trace, window trees, forest, functions | read, window, build trees, multiply, print | reads the trace and the hpcstruct file |
| locality analysis | `mem-anlys/loc-anlys/src/` | trace, LRU stack, block table, zoom list | read, count, reuse distance, affinity, zoom | reads the trace and `memgaze.config` |
| drivers | `mem-trace/memgaze-inst`, `memgaze-analyze*` | command line, files of the step before | find files, start programs | all of the above |

The tools run one after the other and communicate through files. `memgaze-run`
has concurrent processes; the scripts can be interrupted and run again; the
rest is sequential, and what is hard about it is long protocols over a stream
of records: state carried from one record to the next, counters reset at sample
boundaries, data freed while a tree is built, divisions that do not come out
even, iterators that are not set again. Accordingly, most modules take their
input, item by item, from a small set in every order, and their properties
compare what the code's running state says with what the whole input, kept as a
history, defines.

What makes the parts correct:

- the **loops** of the instrumenter are those of the control flow graph,
  whatever the order of the search;
- the **load classes** leave no load out: each one is instrumented, or some line
  of its block stands for it;
- the **extractor** gives each load its address, once, in the sample it is in;
- the **scripts** leave what they promise if no step failed, whatever an
  interrupted run left behind;
- the **collector** records the memory map of the application it runs, writes its
  config when perf is gone, however it ended, and leaves complete data beside it
  unless perf failed or a later run was stopped before its config;
- the **reader** loses no load, counts none twice, and keeps samples apart;
- the **function map** gives each access to the function it is in;
- the **window loop** cuts the trace into its samples and each sample into
  windows of one size; the **trees** keep every access and every metric;
- the **spatial analysis** computes reuse distances, lifetimes and affinity of
  the accesses of one sample only, in one pass;
- the **zoom** ends, finds again in a page what it counted in its blocks, and
  hands the finest regions on;
- the **region steps** give each access the index of the region it is in, and
  the **hot lines** are the lines with the most accesses of all regions.

`PROJECT.json` lists every part with its status, and the hazards at the lines
where they bite.

## The modules

### UnionFind, LoopNesting: `bin-anlys/src/tarjans/`, `common/PrivateCFG.C`

`UnionFind` is `UnionFindUniverse`, its four arrays as a record. `LoopNesting`
follows a routine through `computeTopNodes`, the depth-first search (`DFSRoot`,
`DFSSon`, `DFSReturn`, the stack of calls explicit), `FillPredLists`,
`GetTarjans` (`StartVertex`, `ScanPreds` for each turn of the worklist,
`EndVertex`), `Build`, `Sort`, `ComputeIntervalIndex`, then
`mark_loop_back_edges`, one node of the tree at a time, and
`build_loops_scope_tree`. As in the code everything is indexed by depth-first
numbers. The search takes sons and the worklist its members in any order, so the
result is checked for every order the sorted edges may have. `DFNUM_NIL` is a
number greater than all others; reading the tree there is the outcome
"outside", a failed assertion the outcome "aborted". The reference definitions
use the community module `Graphs`.

### LoadClasses: `DGBuilder.C`, 1195-1850, `addPTWSnippet`, `memgaze-inst-cat`

The three passes over the accesses of a routine, one action per access visited:
pass 1 counts frame and constant loads for each block, pass 2 instruments the
others and writes lines, pass 3 looks for a frame load in the blocks whose count
no line took; then `memgaze-inst-cat` rewrites the file. `counted` and `charged`
are histories. The dependence graph is an input: a set of routines.

### TraceExtraction: `perf-script-intel-pt.py`, `memgaze-xtrace-normalize`

Extends `LoadClasses`: the routine it has instrumented runs, `ptwrite` words go
into the processor's stream, samples hold what was recorded before their event
and what lies between them is lost, the script prints lines, normalize merges
and adds offsets with the rewritten classification. So what the instrumenter
leaves out and what the extractor makes of the rest meet in one state. Where the
instructions of the instrumented program lie is Dyninst's choice, a constant
(`Reloc`); `Placed` says that it leaves room for the `ptwrite`s, and a block writes
its words in the order of their places. That the nodes of one instruction are
next to each other in the routine is an assumption the graph builder justifies
(`DGBuilder.C:3271-3312`).

### Collector, ToolChain: `memgaze-run`, `memgaze-inst`, `memgaze-xtrace`

`Collector` has the script, perf and the application as processes side by side:
perf starts, opens its output and forks, records, fails before or while it
records; the application replaces its image, gets a heap, ends; the script looks
once for a child, reads the map twice, waits, writes its config or fails to. The
one-second sleep orders nothing. The script can be stopped anywhere and started
again into the directory, over the config and the data of earlier runs, while
perf of a stopped run still records (`oldPerf`): perf renames a file that has
the name of its output, so it stops being that perf's file once the new one has
opened its own. `ToolChain` extends it with the two other scripts: the files each
step reads and moves, steps that fail and are not noticed, interrupts, and runs
over the files of earlier ones.

### TraceReader: `mem-anlys/main.cpp`, 597-793

One action per kind of line: `ReadDsoHeader`, `ReadDsoEntry`,
`ReadTraceHeader`, and for a load record `SkipRecord` (outside of the region),
`FoldConstant`, `ConstantOfNewSample` (a constant, or frame, load in the sample
of the last stored access, or not) and `StoreLoad`, which includes the focus
mode; `EndOfFile` is the code after the loop. `trace`, `missing`
(`missing_frame_loads`), `ipToAdd` (`ip_to_add`), `prevSampleID`, `sampleID`,
`funcTrace` and `funcLastIndex` are the variables of the code; `input`,
`pending`, `lost` and `filtered` are histories that only the properties read.
Which instructions are constant, their frame loads and the answer of the
function lookup are constants. `extra_frame_lds` keeps its 16 bits as
`ExtraModulus`.

### FunctionMap: `mem-anlys/main.cpp`, 520-575, 751, 862

`AddFunction` is a `<P>` line of the hpcstruct file, in any order, because
hpcstruct groups functions by source file; `EndOfStructure` sets the last bound;
`LookUp` is `upper_bound`, compare with `end()`, `--`. Decrementing `begin()` is
the outcome "crashed".

### Samples, Windows, SampleWindows: `mem-anlys/main.cpp`, 841-1221, `Window.cpp`

`Windows` has the operations on the heap of windows (`AddAccess`,
`CalcConstantLds`, `AddRight`, `WithLeft`, `BuildTree`, ...) as functions from
heap to heap, with the pointers of the code. `SampleWindows` has the loop: one
action for an access that starts the first window, extends the window, starts
the next one, or ends a sample (then the tree of the sample is built), and
`EndOfTrace`, `BuildForest`, and `PrintNode` for each call of `printTree`, whose
call stack is explicit. `Samples` is the abstract specification: the trace is
cut where the sample id changes, nothing else. `SampleWindows` implements it
under a refinement mapping that reads the samples off the leaves of the trees
(`SamplesSpec`).

### SpatialAnalysis: `mem-anlys/loc-anlys/src/memoryanalysis.cpp`, 253-280, 403-771

One action per access: `FirstAccess`, `AccessInSample`, `AccessOfNewSample`
(which first closes the sample that ended), and `EndOfTrace`. `smpl` has the
arrays the code resets at a new sample, `totals` those it does not, `pairs` is
`spatialRUD`. A running average is the sequence of what was averaged, so that a
property can compare it without division. The bucket an access falls in,
`PageID`, is translated for the options with a caller: 0 (regions), 1 (blocks of
an area) and 4 (cache lines of a page, hot lines, regions, non-hot, stack).

### ZoomAnalysis: `mem-anlys/loc-anlys/src/main.cpp`, 7-223, 753-980, 1036-1060, 1192-1207

The zoom loop with `--zoomRUD`. A turn is `SkipArea`, or `CountAccesses`
(`getAccessCount`) followed by `ZoomIn` (`findHotPage`) or `FailOnEmptyArea`;
each turn ends with `NextPage`. `SelectRegions` makes the final list. `queue` is
`zoomPageList`, `zoomin` the counter the code keeps next to it, `regions` is
`spatialRegionList`, and `report` has what the zoom file gets, which the
properties read. The block sizes, thresholds, digits of a number and the letter
of the root are constants, so that small traces reach every branch.

### HotRegions: `loc-anlys/src/main.cpp`, 995-1228, 253-400, `memoryanalysis.cpp`, 150-280

What happens to the regions of the zoom before the affinity analysis: `CountInsn`
and `NewSample` are `getTopInst`, which counts the instructions of hot accesses
and purges rare ones at each sample; `Coalesce` joins the ranges of the hot
instructions, `SkipRange` and `AddRange` take those no region covers apart
(`findHotPage` with `zoomOption` 4); `SelectRegions` makes the final list and
`updateTraceRegion` numbers the accesses. Its `ZoomRegions` are lists
`ZoomAnalysis` can leave; the interval set is `boost::icl`, modelled from its
use.

### HotLines: `loc-anlys/src/main.cpp`, 1290-1408, `memoryanalysis.cpp`, 323-386

Extends `HotRegions`, on whose regions and trace it goes on: `FindPages` takes
the pages of a region with the most accesses (`findHotPage` with `zoomOption`
3), `CountLines` is `getTopAccessCountLines` for one region, `SelectTopLines`
makes the list that `SpatialAnalysis` is called with. A region without a hot page
is the outcome "aborted", `vector::at` in the code.

### How they are composed

`TraceExtraction` runs on the state `LoadClasses` leaves, `ToolChain` on that of
`Collector`, and `HotLines` on that of `HotRegions`. The other interfaces are sets of inputs: the reader answers
function lookups from a constant that `FunctionMap` justifies, `SampleWindows`
starts from any trace the reader can leave, `SpatialAnalysis` from the calls
that `HotRegions` and `ZoomAnalysis` prepare.

## What is checked

| run | instance | states | shows |
|-----|----------|--------|-------|
| `reader` | every file of up to four load records of four instructions in three samples (0 among them), a region filter, with and without `-f`, 2-bit extra loads | 1 339 380 | every record is stored, folded into one access next to it, pending, lost or filtered; sums of extra loads; renumbering keeps samples apart; with `-f` the trace is the span of the function; only the last access is ever amended |
| `functions` | every order of up to four functions, two lookups at, between, below and above them | 1 823 | bounds partition the addresses if functions come in order; a lookup finds the nearest function in any order |
| `windows` | every trace of up to five accesses to two addresses, with and without constant loads, and of up to eleven plain ones; three samples, windows of two | 250 952 | windows have their size, ids are unique, trees are balanced, accesses stay at the roots of samples, metrics and counters add up, the report has each window once, and the loop implements `Samples` |
| `spatial` | every trace of up to five accesses to four addresses in three samples, for three kinds of calls | 78 794 | the arrays are what the trace defines, sample by sample |
| `zoom` | every trace with two to four of nine places, one or two accesses each | 52 376 | what the zoom finds, loses and counts twice, and that it ends |
| `regions` | traces with hot and rare instructions in three samples, in and out of the regions of the zoom, ranges of up to 50 pages, some at the end of the heap | 1 247 986 | what purges cost a count; indices, names and addresses of regions agree; children have accesses; hot pages leave out no page with more accesses, hot lines are those of all regions |
| `tracing` | routines of two instructions, and of three with two frame or constant loads, in two blocks; two executions, one sample boundary; all options | 3 238 914 | what lines stand for; what pass 3 serves; records and skips are the loads executed; what is merged |
| `toolchain` | each of the three scripts up to twice, interrupted anywhere, every step and perf failing or not | 496 462 | what the config of one run says of data of that or a later one, and that it is written; a run without failures leaves what it promises |
| `loops` | every control flow graph of four blocks, two of which can be loops of one block, searched in every order | 552 095 | the tree is the nesting of the loops; siblings are in topological order; marks, exits and scopes are what the loops say |

Three runs show where the code does something else than its documents and
comments say:

| run | what the code does |
|-----|--------------------|
| `functions_last` | an access of the function with the highest address is given to no function (`main.cpp:863`), although its bounds contain it (`:574`) |
| `tracing_leftovers` | pass 3 sets its iterator once, before the loop over the blocks (`DGBuilder.C:1203`, `:1764`): of the blocks of frame loads only, one gets an instrumented load, the others are in no line |
| `tracing_offset` | the record of a two-source load has the offset twice (`memgaze-xtrace-normalize:115-129`; `README-notes.md:102-104` has it once) |

More that the models follow the code in, without a run of its own:

- `memgaze-run:288`, `296`: the status of perf is not looked at, and the config of
  an earlier run is not removed. A perf that dies while it records has a config
  written over partial data; a second run into the directory that is stopped
  leaves the first run's config, with the addresses of the first run's
  application, beside its own data. `ConfigAfterData` says what is left: it is
  only about a perf that did not fail, and allows for data of a later run.
- `mem-anlys/main.cpp:687`: the loads of a second frame load at the head of a
  sample overwrite those of the first, while the comment at 676 has them move to
  the next entry. `LostAtSampleHeadCorrect` proves that nothing else is lost
  while the file is read.
- `mem-anlys/main.cpp:164`: windows whose accesses have moved to their parents
  are reported with the size of their constant loads, although
  `README-notes-history.md:121` has the final metrics preserved.
  `MetricsOfWindow` is therefore about the metrics kept, not the size printed.
- `loc-anlys/src/main.cpp:191`, `1200`: blocks reach over the end of their area,
  so the zoom can find a region twice. The final list then has four entries
  where the sorted addresses have two, and the indices in the trace are no longer
  those of the list. `RegionIndexAgrees` is about lists of regions with different
  starts (`StartsApart`).
- `loc-anlys/src/main.cpp:1110`: a hot range that touches a region adds no
  interval to the set and is skipped, although it is in no region (comment at
  1108).
- `loc-anlys/src/main.cpp:353` reads two groups where there may be one;
  `ChildrenAccessed` shows that it is not reached then, with the numbers of the
  code: 16 groups and a share of a tenth (`MaxGroups <= 2 * ZoomShare`). With
  `zoomOption` 4
  `thresholdTotAccess` is computed and not used.
- `memoryanalysis.cpp:364`: a region that starts less than a page below the end
  of the heap has no hot page, and reading its lines throws. `HotPagesFound`
  shows that no other region ends the analysis.
- `loc-anlys/src/main.cpp:291`: the pages of a hot range reach over its end, where
  they can meet a region of the zoom. A line can then be listed twice;
  `HottestLines` is about regions that lie apart.
- `memoryanalysis.cpp:622` has hot lines 64 bytes wide, whatever `--blockWidth`
  says (`loc-anlys/src/main.cpp:677`). The models have the default.
- `memgaze-xtrace-normalize:111`: a record merged across a sample boundary keeps
  the time and cpu of its first word and the sample of its second.
- `PrivateCFG.C:581`: the entry is led to the first block only if no block is
  without incoming edges. `FinalizeGraph` (`:362`) and `TarjanIntervals.C:21`
  have it connected to the whole graph, but a routine that starts with a loop
  and contains a block that only a call leads to is not: its loop is in no
  scope, and `mark_loop_back_edges` reads the tree at `UINT_MAX` if an edge leads
  from it to a block that is reached. `EdgesMarked` shows that this happens only
  with cycles that nothing leads to.

Operators whose comment starts with "Slip" are plausible mistakes in the
definition that follows them. None is used; put in its place, each makes one
property fail (`mutants` in `PROJECT.json`), which shows that the property
depends on that part of the code.

### Bounds, and why they are enough

- *Four records.* Two accesses around a run of two constant loads, with a sample
  change between any two of them, is what the reader's state can tell apart.
  Three samples are needed for a pending count to pass over one.
- *Two bits for extra loads.* Weights of one or two wrap around four within four
  records, as 16 bits do for large sums.
- *Four functions, six addresses.* A function before, between and after two
  others, and an instruction in each gap.
- *Eleven accesses.* With two accesses to a window, six windows in a sample give
  a tree of three levels with an odd window on two of them, and three samples of
  different sizes a forest with an odd tree. What an access is to and its extra
  loads only matter to metrics and sums, for which five accesses, three windows
  in two levels, are enough: `MaxVaried`.
- *Five accesses to four pages.* A reuse distance of two, a pair met, flushed
  and met again in a sample, and a sample on either side.
- *Nine places.* They lie at the end of a block, one behind it, next to a
  border of the root that blocks reach over, in sparse and dense parts, and
  above the heap end. Areas up to 96 take the branch that combines small blocks
  at the root, the others keep the blocks apart. `MaxZooms` is never met, which
  the invariant of the run shows.
- *Hot ranges.* Two besides two regions of the zoom: apart from both, touching
  one, between the two, inside of one, and besides a region found twice; 33 pages make two groups of blocks and one
  page that is in none, and a range up to the end of the heap has pages on both
  sides of it. Three lines with accesses are one more than are kept.
- *Two blocks, three accesses.* A count that a line of the same block takes, one
  that none takes, and a second such block; an access before and after another
  of its block. Two executions and one boundary cut an access between its words
  and put the same instruction on both sides.
- *Two starts* of each script: a complete run over the files of an interrupted
  one, or of another complete one, and the reverse; perf of the first
  `memgaze-run` recording, ended or failed beside each step of the second. The
  theorems are about any number.
- *Four blocks* are enough for a loop with two entries inside of one with two
  entries, where entries have to be handed on, and for siblings with an order.

`CHECK_DEADLOCK FALSE` is in every configuration since a tool that is done
stops, as it does when it has crashed or given up. In `loops` the blocks that are
neither the first nor a loop of one block are interchangeable: symmetry is used
for them, with invariants only.

### Fairness

- `ZoomEnds`, under weak fairness of `Next` of `ZoomAnalysis`. The code is one
  thread in a loop without waiting, so it takes its next step whenever there is
  one.
- `ConfigWritten`, under weak fairness of the steps of the script, of perf, and
  of the application replacing perf's image: each is a process the scheduler
  runs. The application is not assumed to end, nor perf to fail once it records,
  nor the script to be left alone; the property says what follows, if the
  application ends or perf fails, for a run that is not stopped.

The other modules are safety only; their input may end anywhere.

## What is proved

TLAPS checks these for every value of the constants that satisfies the
assumptions stated with them: files and traces of any length, any number of
functions, samples, instructions, blocks and starts of scripts.

| module | theorem | argument |
|--------|---------|----------|
| `TraceReaderProofs` | `TypeCorrect` | `TypeInv` adds that the pointers into the trace are in range while the file is read; the code's pointers stand on this |
| | `FoldedNearbyCorrect`, `SamplesRenumberedCorrect`, `LostAtSampleHeadCorrect` | `ReaderInv`: stored accesses are in the order of their lines, pending ones come after the last stored access, and `prev_sampleID` is the greatest sample stored; a step then only compares with the last access |
| | `LoadsAccountedCorrect` | `AccountInv`, on top of `ReaderInv`: each action moves a record from one place to another, with lemmas for amending and storing |
| | `OnlyLastAmendedCorrect` | an action property, from `ReaderInv`: `ip_to_add` is the last stored access whenever it is used |
| | `ExtraIsFoldCorrect` | `FoldInv`, on top of `AccountInv`: a record moves with its weight, and remainders of sums are those of the sums of remainders |
| | `FocusSpanCorrect` | `FocusInv`: the focus trace holds, in order, the stored accesses since the first one in focus, and `func_last_index` the last one in focus |
| `FunctionMapProofs` | `TypeCorrect`, `NearestFunctionCorrect` | the greatest key before `upper_bound` exists, by induction on bounded sets of numbers |
| | `BoundsAgreeCorrect` | `BoundsInv`: in ascending order each function ends where the next one starts, and after the file the last one ends at the sentinel |
| `SamplesProofs` | `TypeCorrect`, `PartitionCorrect` | the samples are intervals of positions, one behind the other, and the current one ends at the last access |
| | `CountsTelescopeCorrect` | `CountsInv`: the sums over a sequence that got one more element |
| | `TraceAtSampleRootsCorrect`, `MetricsOfWindowCorrect` | `TreeInv`, see below |
| | `ReportCompleteCorrect` | `ReportInv`, on top of `TreeInv`, see below |
| | `SamplesSpecCorrect` | the refinement: from `TreeInv`, every step of the loop is one of `Samples` or changes nothing it sees |
| `SpatialAnalysisProofs` | `TypeCorrect` | every address falls in one of the pages the arrays have (`PageIDType`, with lemmas on rounding up), and times only grow within a sample |
| | `StackIsRecencyCorrect` | `SpatialInv`: page by page, what the arrays of a sample say of its accesses (`RecencyOf`); the places of the stack before the top are those of the other pages, in their order (`TouchedStack`) |
| | `PagesApartCorrect` | assumes `FewRegions`, at most 254 regions: with more, the byte a region id is kept in meets the ids of non-hot addresses and of the stack |
| | `NextAccessesCorrect` | `PairInv`, on top of `SpatialInv`: what a pair has counted are sets of accesses of the trace so far; each access adds itself to some of them and changes no other |
| | `LifetimesWithinSamplesCorrect`, `ReuseDistancesCorrect`, `MiddleCountsCorrect` | `AccountInv`: the arrays of a sample are the sums over its accesses (`SampleInv`), totals and averages those over the samples that have ended (`TotalsInv`, `MiddlesInv`); the distance found on the stack is a number of pages by `RecencyOf` |
| `LoadClassesProofs` | `CountsChargedCorrect`, `OneLeftoverServedCorrect`, `SkipsChargedCorrect`, `RecordsRebuiltCorrect` | see below |
| `ToolChainProofs` | `TypeCorrect`, `ConfigAfterDataCorrect` | `DataInv` and `ConfigInv`: only of the last run can perf still open, write or complete the file of its name, unless perf of an earlier one does to data older than that run; a config of the last run is written after the wait, so a perf that opens its output makes the data later than any config; the addresses are read in order, and an image is replaced once |
| | `RepeatableCorrect` | an invariant for each step of the scripts: what the files hold before it, given that no step of this run has failed, with whatever files of earlier runs beside them |
| `HotRegionsProofs` | `LossyCountCorrect` | a purge drops counts of at most its share, and the histories `real` and `purged` grow with each access and purge |
| | `RegionIndexAgreesCorrect`, `ChildrenAccessedCorrect` | `RInv`, see below |

The theorems of `LoadClassesProofs` are about `TraceExtraction`, which changes the
state of the classification as `LoadClasses` does (`ImplementsLoadClasses`). The
first invariant has five parts. `CountsCharged`, what pass 1 counted in a block is
in its count or charged to lines, is inductive with the types.
`OneLeftoverServed` is not: that at most one block is served needs to know that
the iterator of pass 3 never goes back (`ServedOnce`), that the first block looked
at still has all of its nodes ahead of it (`FirstScan`), and that a count stands
for a load which that scan will meet (`CountsHaveLoads`). It is this argument that
shows that exactly one block is served for every routine, and not only for those
of the run. `SkipsInv` adds the sum over the lines of a block.

`RecordsRebuilt` goes through the whole pipeline, in three invariants.
`PtwsInv` is about the binary: `ptwrite`s in front of an instruction are for its own
nodes, such an instruction has a line, and the last line of its address, the one
`memgaze-inst-cat` keeps, has the offset of one of them, although offsets are held
in a variable across nodes (`OffsetHeld`). `StreamInv` is about what is recorded:
two words next to each other in the trace are next to each other in the program,
or the second starts an access, since a lost word is always the last one before
a buffer starts (`Recorded`, `StillAhead`). `RecordInv` is about normalize: the
record in hand is the words since one that was not merged (`OpenRecord`).

The theorems about the trees of `SampleWindows` stand on `TreeInv`. Its first part
(`Heap`) is about windows one by one, wherever they are: the accesses under a
window are those of the trace from its first one on; the metrics it keeps, or the
maps and the trace they would be computed from, are those of these accesses; it
keeps its own accesses unless a window above has them. What is under a window is
a recursive function over the heap (`UnderIn`); children come before their
parents, so it is found by induction over the index, and a step that changes one
window leaves it the same for the others (`WindowReplaced`, `WindowAdded`,
`WindowExtended`, `JoinedWindow`). The second part is about rows of windows that
have no parent yet: the windows of the sample that is read, and the roots of
those before it, cover the trace without a gap (`Tiles`, `Filling`). `buildTree`
turns a row into one of half its length that covers the same accesses
(`BuildRowTiles`), and its calls end with one window (`BuiltTree`): induction over
the number of calls, on the function that the recursion is written with. That
rows have no gap also shows that the test by which the loop recognises a window
added before never drops one (`CompletedAll`). Before it was proved,
TLC checked `TreeInv` on the instance of the run `windows` with nine accesses, three
of them varied. Both parts are needed together: a tree is built from a row, and
what a tree says of its windows is needed when its root becomes a window of the
next row.

That the report is complete needs to know what `TreeInv` leaves open: that a
window is a child of one window at most, and of none if it is in a row or the root
(`RootsInv`; it is here that `buildTree` must not pair a window twice). When
`printTree` walks the tree, `ReportInv` says that there is a set of windows that
were printed: no window in it is below one that is not, the calls still to be
made are for the windows next to it, once each (`Walk`), and the rows of the
report add up to its members and their footprints (`Reported`). A call moves one
window into that set and its children into the calls (`WalkGoesOn`, `OneMoreReported`).
When no call is left every window is in it, since the one of greatest index that
is not would be waiting for a call (`WalkEnds`).

For `SamplesSpecCorrect` a row that covers positions `p` to before `q` stands for the
sequence of these positions (`TilesPositions`). A sample starts where the last
root ends (`StartAfter`), and no step changes a root any more than its links and
its mark (`SameRoots`); so reading an access appends its position to the current
sample, and closing a sample moves that sample to the complete ones.

`RegionIndexAgrees` compares two lists when both are complete, so `RInv` says how
they grow. A hot range goes from the address of one access to that of another
(`HotRanges`: joining ranges keeps their ends among the addresses, `CoalescedFacts`).
While ranges are added (`Lists`), the addresses are those of the regions
(`SameAddrs`), and each region starts in the interval set. A range is only added
if the set gets another interval, and then it has nothing in common with the set
(`FreshRange`), so no region starts where another does; its children start in
different blocks of it and have names with its number. At the end the addresses
are sorted; as each of them has one region, the second loop of the code finds the
regions in that order (`SelectFacts`). Sorting is by rank, so that it could be
reasoned about: an element of a finite order is where the number of those before
it says (`RankFacts`, `AscendingFacts`, `SortedFacts`).

`ChildrenAccessed` needs counting. The first and the last block of a range have
accesses (`CountOfRange`). Between two runs there is a block without, so 16 blocks
have at most 8 runs (`FewRuns`), fewer than ten, and if each had less than a tenth
of the accesses they would not add up (`SumOfIntervals`, `SomeRunHot`). With more
blocks there are several groups, and more than one of them has accesses unless
the remainder of the division is in none (`SecondGroup`, `TwoBest`).

`SetsOfNumbers` holds what several of these use: least and greatest elements,
sums over finite sets (`SumFunction` of the community modules), ascending
enumerations of a set, and remainders of sums. Induction over sets is done
without the library's induction theorems: the sets of natural numbers for which
the statement holds are a set, and a smallest number outside of it leads to a
contradiction (`NatSetInduction`, `AddElementInduction`). So a sum is proved about
where it is over a set or a function, and a recursive function is used through
the equation it satisfies, after showing that some function does
(`UnderEquations`, `CallsEquations`, `FlattenSpans`); folds of the community modules
whose definition takes an operator are left to TLC.

Only checked by TLC, on the instances above:

- `WellBuilt` of `SampleWindows`, which compares levels with numbers of leaves;
- `LoopNesting`: its tree, union-find and reference definitions are recursive
  functions that change while the blocks are visited;
- `ZoomEnds` and `ConfigWritten`: liveness under fairness is out of the prover's
  reach;
- `ExecutionAccounted`, an equation of sums over executions, records and lines,
  which needs more than `RecordInv` says of words that are not merged;
- `HotPagesFound`, `HottestLines`, and the invariants of `ZoomAnalysis`: they stand
  on `SortSeq`, `SelectSeq`, `MapThenSumSet` and other operators of the libraries
  that take an operator.

## What is left out

- *Times, cpus and multipliers.* The multipliers are floating-point formulas
  over counters; the counters are modelled, the quotients are not.
- *Thresholds of the zoom* are exact shares in the model; in the code a share is
  compared with a product of doubles, which for some totals is one unit in the
  last place above a tenth.
- *Affinity options 2 and 3* have no caller, *zoom options 0 and 1* are not
  reached with `--zoomRUD`, *3* belongs to the bottom-up trial.
- *The calls of the affinity analysis* after the hot lines, one for each hot
  page: `SpatialAnalysis` has its calls as constants.
- *Two of `memgaze-run` at once.* The user starts it again when it has ended or
  was stopped, and when perf of a stopped run has begun to write its output: a
  file without contents is not renamed.
- *Page sizes that lines do not divide.* `HotLines` assumes that they do, as the
  defaults do.
- *`Instruction.type` and `in_sample`* are read uninitialised in places; the
  metrics of the model do not depend on them.
- *Readers of text* (trace file of the locality analysis, call paths,
  classification) turn lines into records; the records are inputs.
- *Footprint per function and per cpu* are sums over an already cut trace.
- *In the instrumenter*, everything around loops and load classes: decoding of
  machine code, slicing, symbolic formulas, the dependence graph, the modulo
  scheduler and the machine model, with its parser generated by bison and flex.
  They are derived from MIAMI, about nine tenths of the lines of the repository,
  bound to Dyninst and the instruction set, and MemGaze uses the scheduler's
  code only to build graphs. What they compute is a function of a binary: the
  state is the instruction set's, and a small instance of it would not be their
  code any more. The share of the repository's lines that is modelled is small
  for that reason; of the tools that are MemGaze's own, the parts with state of
  their own are modelled.
- *Build files, plotting scripts, benchmarks* have no logic of their own.

## Plan

Done: `TraceReader`, `FunctionMap`, `Samples`, `Windows`, `SampleWindows`,
`SpatialAnalysis`, `ZoomAnalysis`, `HotRegions`, `HotLines`, `LoadClasses`,
`TraceExtraction`, `Collector`, `ToolChain`, `UnionFind`, `LoopNesting`, with the
proofs above. What is left, in this order:

1. The affinity calls for each hot page, so that the calls of `SpatialAnalysis`
   come from `HotLines`.
2. Proofs: apartness of the areas and the length of the list in `ZoomAnalysis`;
   leaf sizes and levels of the trees of `SampleWindows`; pages and lines of `HotLines`;
   `ExecutionAccounted` from the invariants of `RecordsRebuilt`.
3. Dominators (`common/Dominator.C`, `BaseDominator.C`) and node ranks
   (`PrivateCFG::ComputeNodeRanks`) on top of `LoopNesting`.
4. The zoom with a memory range of the user and the bottom-up trial.
5. The readers of text, as filters of records with errors in them.
