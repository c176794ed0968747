# TLA+ models of the physis runtime

physis compiles stencil programs written against one logical N-dimensional
grid into code for a single CPU (the reference runtime), a GPU (the CUDA
runtime) or a set of MPI processes, each possibly driving a GPU. This
directory holds TLA+ models of that code, the TLC configurations that check
them, and `PROJECT.json`. `PROJECT.json` lists the components, runs, mutants
and hazards, and maps every model definition to the source lines it
translates.

## 1. Inventory

### Components, their state and operations

| Component | Source | State | Operations |
|---|---|---|---|
| Address resolution | `include/physis/physis_mpi_cuda.h` | none of its own; it reads the device descriptor `__PSGridDev3DFloat`: `p0`, `pitch`, `local_size`, `local_offset`, `halo[3][2]`, `halo_width[3][2]`, `diag` | `__PSGridGetAddrFloat3D` (general), `_0_fw` ... `_2_bw` (directional), `GetAddrNoHalo`, `EmitAddr`, `__PSGridCalcOffset3D` |
| Reference runtime | `runtime/reference_runtime.cc`, `runtime/grid_util.h` | heap blocks; per grid `p0`, `p1`, `dim`, `num_elms`, `elm_size`, `num_dims` | `__PSGridNew`, `PSGridFree`, `PSGridCopyin/out`, `__PSGridSwap`, `__PSGridMirror`, `__PSGridSet`, `__PSReduceGrid*` |
| CUDA runtime | `runtime/cuda_runtime.cc` | the same, plus device memory and a device descriptor `dev` holding copies of `p0`/`p1` | the same operations on device memory |
| Distributed grid (`GridMPI`) and grid space (`GridSpaceMPI`) | `runtime/grid_mpi.h` (declarations only) | per grid: local box, halo widths and their high-water marks, four halo buffers per dimension, remote grid and its active flag; per space: process grid, partition tables, neighbours | `PartitionGrid`, `CreateGrid`, `ExchangeBoundaries(Async)`, `LoadNeighbor`, `LoadSubgrid`, fetch request/reply handling, `ReduceGrid`, `FindOwnerProcess` |
| MPI run-loop generator | `translator/mpi_translator.cc`, `translator/mpi_runtime_builder.cc` | none at run time; it fixes the code each process runs | the generated `for (i = 0; i < iter; ++i)` loop. Per stencil it emits `__PSLoadNeighbor` or `__PSLoadSubgrid` with reuse `i > 0` for read-only grids, then the kernel call, the swap and `__PSActivateRemoteGrid(g, 0)` |
| Translator infrastructure and optimizer | `translator/*`, `translator/optimizer/*` | the AST and configuration flags | AST traversal and rewriting; the optimizer's flag implications and pass order |
| Example and test programs | `examples/test8.c`, `tests/.../test_11.c`, `testing/tests/test_3.c` | host arrays | copy-in, stencil run, copy-out, reduce with a serial reference |

### How the components interact

- **Generated code to runtime.** The translator rewrites each `PSStencilRun`
  into a run function. Every iteration of that function calls the runtime's
  load functions, then the kernel, `__PSGridSwap` and the remote-grid
  deactivation.
- **Kernels to grid buffers.** Kernels read grid elements through the
  address resolvers of `physis_mpi_cuda.h`. The resolvers read the halo
  buffers that the exchange fills and the remote grid that a fetch fills.
  Kernels write only their own point (`EmitAddr`), into `p1`.
- **Processes to processes.** Processes share no memory. Halo exchange,
  remote fetch and reduction are all explicit MPI messages. All processes run
  the same program (SPMD).
- **Partitioning to every other component.** Partitioning is computed
  identically on every process and fixes each local box. The resolvers, the
  exchange and the fetch all depend on it.

### What is hard in this code

- **Layout arithmetic.** The cascade of the halo address resolvers has three
  dimensions, two sides, diagonal widening and pitch, and there are seven
  hand-written copies of it.
- **Cached data in the generated loop.** The `reuse` flag that the generated
  code passes to a load is decided per kernel. The runtime's halo and
  remote-grid caches are valid only while no one writes the grid, and a run
  holds several stencils.
- **Cross-process ordering.** Diagonal corners exist only if the dimensions
  are exchanged in the right order. Asynchronous exchange must be waited on
  before any read. Fetch requests and replies must match.
- **Partial failure.** When allocation fails in the middle of grid creation,
  the function returns `INVALID_GRID` with part of the memory still held.
- **Edges.** Zero-element grids, processes that own nothing, and halo
  widths of zero.

### Properties that make each component correct

- **Address resolution.** Every accessible index resolves into the buffer
  the layout assigns it, at its row-major position, inside the allocated
  size. No two indices alias. The directional variants agree with the
  general resolver.
- **Run loop.** Each kernel reads halos and remote grids holding the current
  contents of their grid. A remote grid is active only for the kernel that
  loaded it.
- **Reference and CUDA runtimes.** A failed creation holds no memory. No
  buffer is freed twice. Double-buffered grids keep `p0 != p1`. Reduce
  equals the serial fold, with the identity on an empty grid. Host and
  device pointers swap together. Seen from the client, a grid behaves as
  its values: copy-out returns what the calls since creation put in the
  current buffer, and no call on one grid changes another.
- **Distributed grid.**
  - Partitions tile the global extent.
  - After an exchange, every halo element equals the owner's element,
    corners included.
  - No process reads a halo before its exchange completes.
  - The exchange never deadlocks.
  - Every fetch completes with the owners' data.
  - The reduction equals the serial result.

## 2. Plan

Modules are listed in the order they are built. The most important
behaviour comes first.

1. **GridAddress** (built): the resolvers as operators, checked against a
   reference layout written from the buffer shapes.
2. **StencilRun** (built): the generated run loop over the runtime's halo and
   remote-grid caches, with grids as versions and programs as small
   sequences of stencils. It states HaloFresh, RemoteFresh and
   KernelSeesOwnBuffers.
3. **ReferenceGrid** (built): the reference runtime's lifecycle with allocation
   failure as a nondeterministic choice. It states NoDoubleFree,
   DoubleBufferDistinct and ReduceMatchesSerial (with the serial reference
   of `test_11.c`), and NoLeak as a violation run. It refines GridSpec, the
   value-level grid of spec sections 3 and 6.
4. **HaloExchange** (built): spec-modelled. Processes in a 2-D process grid
   make consecutive `__PSLoadNeighbor` calls: SetHaloSize, then an exchange
   per dimension with posted sends, receives and a wait. It is composed
   with GridAddress's layout to check that corners hold the neighbour's
   data, and it contrasts the spec's dimension order and buffer-growth
   policy with what the layout requires.
5. **Partition** (built, inside HaloExchange as `LocalOffset` and
   `LocalSize`, with no property of its own) and **Reduce** (not built):
   see section 5.
6. **RemoteFetch** (built): spec-modelled request/reply with owners serving
   until DONE, shown to refine the abstract specification RemoteFetchSpec
   with `INSTANCE ... WITH`.
7. **CudaGrid** (built): the CUDA lifecycle, the host/device pointer pair,
   element values on the device, and a refinement of GridSpec.
8. **OptimizerFlags** (built): the constructor's implications, their closure
   and the pass order of `DoStage2`.

The runtime bodies of items 4 to 6 are not in the repository, so they are
modelled from the spec (spec_modelled).

## 3. Modules and runs

### GridAddress (`GridAddress.tla`, `MCGridAddress.tla`, `MCGridAddress.cfg`)

State: a descriptor `g` (the `__PSGridDev3DFloat` fields the resolvers
read), the last index `idx` and the address `addr` it resolved to. An address
is `[buf, off]`. `buf` is `CoreBuf` for `p0` or `<<d, s>>` for
`halo[d][s]`, where s = 0 is backward and 1 is forward. `Resolve` is one
kernel access, as `translateGetKernel` emits it. An access at the kernel's
own point (`StencilIndexSelf`) becomes `GetAddrNoHalo`, and any other access
becomes `__PSGridGetAddrFloat3D` (`KernelGetAddr`). `Emit` is the write of a
core point through `EmitAddr`, as `translateEmit` emits it. Each C function is one operator with the same
branch structure. The branches shared by the x and y variants
(`Dispatch2`, `Dispatch12`) are named once. `BufShape` is the buffer shape
that `GridMPI::CalcHaloSize` allocates. Its body is not in the repository,
so it is modelled from spec section 3: the other dimensions' local sizes,
the width in its own dimension, and with diag the later dimensions widened
by both widths.

Run `grid_address`: every descriptor with local sizes in {1, 2}, widths in
{0, 1} (so widths are asymmetric and may be zero), row padding in {0, 1}
and diag on or off, with local offset (2, 0, 1). Each index is resolved
from the core origin. The run checks three invariants:

- `TypeOK`: offsets are `size_t`, never negative.
- `AddrRoundTrip`: the address equals the row-major rank inside the owning
  buffer's box, computed by the recursive `RowMajor`, and it is less than
  the buffer's volume.
- `VariantsAgree`: each directional variant agrees with the general
  resolver on the accesses its cascade is written for (`Contract`), and
  the emit address agrees with it on core points. No translator in the
  repository emits the directional variants, so `Contract` is the model's
  assumption about their callers, not something shown of the code.

No two accessible indices share an element: that follows from
`AddrRoundTrip`, since the row-major rank inside a buffer's box is
one-to-one, so it is not checked separately.

All three hold over 26,368 states. Widths of 1 already exercise every
branch: zero and non-zero widths, face, edge and corner accesses,
backward and forward.

### StencilRun (`StencilRun.tla`, `MCStencilRun.tla`, two cfgs)

This module models the run function that `MPITranslator::BuildRunBody` and
`ProcessStencilMap` generate for one `PSStencilRun`. The function runs on
one process, against that process's halo buffers and remote grids. All
processes run it in lock step, so one process's view is enough. A grid's
contents are abstracted to a version number. A cache (halo or remote grid)
records the version it was filled from.

- **State.**
  - The program `prog` is a sequence of stencil maps. Each map gives, per
    grid, how its kernel reads it (not read, own point, neighbours, or a
    subregion) and which grids it writes.
  - Control variables: the loop counter `i`, the current map `st`, the
    current grid parameter `k` and `pc`.
  - Per-grid state: `version`, `halo`, `remote` and the
    `remote_grid_active_` flag `active`.
- **Actions.** They follow the generated statements in order:
  - `SkipParam`: the `continue` cases of `GenerateLoadRemoteGridRegion`.
  - `LoadNeighbor`.
  - `LoadSubgrid`.
  - `RunKernel`: the kernel call together with `appendGridSwap`.
  - `DeactivateRemoteGrids`: deactivation, followed by the next map or the
    loop increment and the test `i < iter`.
- **Decisions of the generated code.** Each is its own operator, mapped to
  its line: `IsRead`, `ReadOnly`, `Reuse` (`read_only ? i > 0 : 0`),
  `IsNeighborLoad`, `IsSubgridLoad`, `RemoteGridsOf`, `LoopContinues`, and
  `IterCount`: `translateRun` passes 1 when the call gives no count.
- **Calls.** `LoadNeighborCall` and `LoadSubgridCall` are the arguments the
  runtime builder emits that the runtime's behaviour depends on: the grid,
  the reuse flag, the overlap flag (set when the map makes no subgrid load)
  and the subregion. Offsets, widths and the periodic flag are left out.
  GridAddress covers the halo layout.
- **Runtime side.** `__PSLoadNeighbor` and `__PSLoadSubgrid` are not in the
  repository. `ExchangeHalo` and `FetchSubgrid` (spec_modelled) model them
  from spec section 4.4 and the comment on `remote_grid_active_`:
  - a reused halo is left untouched;
  - a reused remote grid of the same subgrid is activated without a fetch;
  - otherwise the data is fetched and the remote grid is activated.

  Requiring the same subgrid is the more lenient reading of the two
  sources. The spec alone says "reused as-is".

The MC module has two grids, two subregions, runs of one or two stencil
maps (10,100 programs), and calls with no count or a count of 2
(`Counts = {NoCount, 2}`). With 2 iterations, the second is the first one
with reuse set. Deadlock is not checked, because the run function
returns once `i = iter`.

- Run `stencil_run` (pass, 128,800 states). It admits only programs in which
  no grid loaded read-only by one kernel is written by another kernel of
  the run (`ReuseSafe`). It checks:
  - `TypeOK`;
  - `HaloFresh`: every neighbour-read grid's halo holds its current version
    when the kernel runs;
  - `RemoteFresh`: every subgrid-read grid has its remote grid active, with
    the requested region at the current version;
  - `KernelSeesOwnBuffers`: no grid that the kernel reads through its own
    buffers has an active remote grid left by an earlier map.
- Run `stencil_run_reuse_halo` (violation). It admits every program and
  checks `HaloFresh`.
  - TLC finds a two-map run in which map 1 reads B across neighbours
    without writing it, and map 2 writes B.
  - In iteration 1 the generated code passes `reuse = 1`, so map 1's kernel
    reads B's halo as it was before map 2's write. The same flag reaches
    `__PSLoadSubgrid`, so `RemoteFresh` fails the same way for a grid read
    through a subregion; one run shows the defect.
  - Spec section 4.4 makes the caller responsible for disabling reuse after
    any write. The generated code asks only whether the current kernel
    writes the grid (`mpi_translator.cc:253-262`).

### ReferenceGrid (`GridSpec.tla`, `ReferenceGrid.tla`, `MCReferenceGrid.tla`, three cfgs)

This module models the grid calls of `reference_runtime.cc`, made by a
client in any order the API allows:

- every call except `PSGridFree` goes only to grids the client holds;
- `PSGridFree` goes to any grid it was ever given, because the code nulls
  the pointers so that a second free is harmless.

**State.**
- The C heap is a set of blocks; `live` is the set allocated.
- A handle is the descriptor block that `malloc` returned. `grid` holds
  each descriptor's fields `p0`, `p1`, `dim` and `num_elms`.
- `mem` holds the contents of each data block.
- History variables:
  - `dbuf`: the `double_buffering` argument;
  - `lastFree`: the blocks passed to `free()` by the last step;
  - `out`: the last reduction, with the data it reduced.
- `host` is the client's host array: the `src` of `PSGridCopyin` and the
  `dst` of `PSGridCopyout`.
- A freed block's contents are dropped. They cannot be observed, and
  `calloc` zeroes the block again.

**Actions.** Each action is one C function: `GridNew`, `PSGridFree`,
`PSGridCopyin`, `PSGridCopyout`, `GridSwap`, `GridMirror`, `GridSet` and
`ReduceGrid`. `ClientFill` is the client filling its host array with a
grid's worth of values, as `test_11.c` does before `PSGridCopyin`. The
pieces that a plausible bug would change are their own operators:
`FreedBlocks`, `ResetPtrs`, `SwapPtrs`, `MirrorBufs`, `ReduceSeq` and
`SetOffset`. `__PSGridNew` may fail at each `calloc` (`CallocFails`):

- always when no block is left;
- otherwise at most `MaxFail` times.

The descriptor's `malloc` is taken to succeed. The code does not check it,
and a NULL would crash the program at line 81.

**Constants.** The MC module has:
- a heap of 4 blocks, under symmetry, since blocks differ only by identity;
- 3-D grids of 1 and 2 elements;
- values in {0, 1}.

Four blocks hold one double-buffered grid with its descriptor, or two
single-buffered grids. Two elements are enough to tell the reduction's
start index apart and to give `__PSGridSet` two offsets along x. Its y and
z strides are not exercised: with a 2 x 2 grid the run does not finish
within half an hour. Deadlock is not checked, because a client may stop
after any call.

**Abstract specification.** `GridSpec` states what the calls promise over
element values only. A grid is its dim vector and its buffers: one, or two
with double buffering. Copy-in, copy-out and set use the first buffer, a
swap exchanges the two, a mirror copies the first into the second, and
free ends the grid. Elements are ordered as `GridCalcOffset3D` of
`grid_util.h` orders them, generalised to any number of dimensions
(`GridCalcOffset`). ReferenceGrid and CudaGrid both map each held handle to its
`dim` and the contents of `p0` (and `p1` when double-buffered).

**Runs.**
- `reference_grid` (pass, 105,028 states, about 90 s, `MaxFail = 1`) checks:
  - `TypeOK`, including that every pointer of a handed-out descriptor is
    NULL or live;
  - `DoubleBufferDistinct`: held grids keep two distinct live buffers
    exactly when double-buffered;
  - `ReduceMatchesSerial`: the reduction equals the serial fold of
    `test_11.c`, seeded with the operator's identity from spec section 4.5;
  - the action property `NoDoubleFree`: `free()` gets distinct, live
    blocks;
  - `AbsSpec`: the runtime implements GridSpec. Every step on a grid
    changes only what the abstract call changes, and leaves every other
    grid's values alone, whatever aliasing of `p0` and `p1`, swaps, mirrors
    and re-use of freed blocks came before. A mirror that copies the wrong
    way is caught, for example, because the client's host array tells the
    two buffers apart.
- `reference_grid_leak` (`MCReferenceGridLeak.cfg`, violation of
  `NoLeak`). TLC's shortest trace: the first `calloc` fails and
  `__PSGridNew` returns `INVALID_GRID` with the descriptor still allocated
  (line 92); line 102 also leaks `p0`. The same invariant fails after any
  GridNew and PSGridFree, because `PSGridFree` never frees the descriptor
  (line 119); that is the second finding of this run.
- `reference_grid_empty_reduce` (violation of `ReduceMatchesSerial`, with
  a `0 x 1 x 1` grid). The reduction reads `d[0]` of a block with no
  element. With glibc that value is 0, which is wrong for MAX, MIN and
  PROD. The model lets the read yield any value.

### CudaGrid (`CudaGrid.tla`, `MCCudaGrid.tla`, `MCCudaGrid.cfg`)

This module models the grid calls of `cuda_runtime.cc`, with the same client
as ReferenceGrid.

**State.**
- Device memory is a set of blocks `DevBlocks`; `live` is the set allocated.
- A handle is a host descriptor. Its fields are `p0`, `p1`, `num_elms` and
  `dev`. `dev` is the host copy of the `__PSGridDevND` descriptor that
  kernels are launched with, with its own `p0` and `p1`.
- `exited` records that the program has ended.
- The descriptor also carries the grid's `dim`. `mem` maps each device
  block to its element values, and `host` is the client's host array.
  `cudaMalloc` does not clear a block, so a block reused after a free
  still holds the freed grid's values until `__PSGridNew`'s `cudaMemset`
  (line 52) writes zeros over it (`ZeroFill`).

**Exits.** Every `cudaMalloc` and `cudaFree` is wrapped in `CUDA_SAFE_CALL`,
which ends the program on error. A failed device allocation therefore ends
the behaviour, and `INVALID_GRID` is never returned for it. `CudaMalloc`
lists the outcomes: any unused block, the exit (at most `MaxFail` times
unless memory is exhausted), and NULL for a zero-byte request. That NULL is
the one path to `INVALID_GRID`, at line 51.

**Builds.** The variable `adb` is the build flag. `Init` chooses it from
the constant `Builds` (both values in the MC module) and no action changes
it, so one run covers both builds.
- Without it, `PSAssert(!double_buffering)` ends the program. `p1` is left
  uninitialised (`Garbage`), `PSGridFree` nulls only `p0`, and
  `__PSGridSwap` does nothing. `GridSwap`'s guard holds only with the flag.
- With it, `p1` is a second buffer or `p0` itself.

**Actions.** `ClientFill` (the client writing its host array, as in
`test_3.c`), `GridNew`, `PSGridFree`, `PSGridCopyin`, `PSGridCopyout`,
`GridSet` and `GridSwap`. `GridSet` is `__PSGridSet`'s one-element
`cudaMemcpy` into `p0` at the offset the code computes from the index and
`dim` (`SetOffset`, lines 161-171). The host
`malloc` calls are taken to succeed, as in ReferenceGrid. A handle in the
domain of `grid` is a malloc'd descriptor (with its `dev`); no call of this
runtime ever removes one.

**Constants.** The MC module has:
- two handles and three device blocks, under symmetry;
- dims `<<2>>`, `<<1, 1>>` and `<<1, 0, 1>>`, which give 1-, 2- and 3-D
  grids, the last one with zero elements;
- `MaxFail = 1`;
- one element value, `MCValues = {1}`. It is told apart from the zeros
  `cudaMemset` writes, which is all the refinement needs to see a stale
  or misplaced value; a second value multiplies the states without
  adding a case.

**Run.** `cuda_grid` (pass, 26,916 states, both builds) checks:
- `TypeOK`;
- `HostDevAgree`: after any sequence of swaps, the descriptor a kernel
  gets names the same `p0` as the host descriptor that copy-in and
  copy-out use, and with the flag the same `p1`;
- `DoubleBufferDistinct`: a grid has two distinct live buffers exactly
  when it was created double-buffered in a build with the flag;
- `NoDoubleFree`: no step passes `cudaFree` a block twice or a block that
  is not allocated, including a second `PSGridFree` of the same handle;
- `AbsSpec`: the CUDA runtime implements `GridSpec`, the same value-level
  grid as the reference runtime. The mapping sends each held grid to its
  `dim` and the values of `p0` (and `p1` when double-buffered). Without
  the `cudaMemset` (mutant `ZeroFillSkipped`) a new grid starts with
  whatever its block holds instead of zeros. A never-written block holds
  no defined elements in the model, so TLC already finds this at the
  first allocation, the step `GridSpec`'s `Create` does not allow; a
  block reused after a free, holding a freed grid's values, is the
  other route to the same failure.

Deadlock is not checked: a client may stop calling, and the program stops
once `CUDA_SAFE_CALL` has ended it.

**Run.** `cuda_grid_leak` (`MCCudaGridLeak.cfg`, violation of `NoLeak`):
every descriptor and every live device block belongs to a grid the client
holds. TLC's trace has one step: GridNew of the `1 x 0 x 1` grid, whose
zero-byte `cudaMalloc` returns NULL, so `__PSGridNew` returns
`INVALID_GRID` (line 51) with its descriptor still allocated. Line 59 leaks
`p0` in the same way, and `PSGridFree` (lines 104-117) frees neither the
descriptor nor `dev`.

Not checked: for 2-D and 3-D grids the code writes `p1` through a
`__PSGridDev1D` cast. That is right only if every `__PSGridDevND` places
`p0` and `p1` at the same offsets, and those structs (`physis_cuda.h`) are
not in the repository.

### OptimizerFlags (`OptimizerFlags.tla`, `OptimizerFlags.cfg`)

This module models how the optimizer configures itself:
- The `Optimizer` constructor completes the user's `OPT_*` flags with four
  `if` statements, applied once in order (`RuleOffsetComp`,
  `RuleInlining`, `RuleRegisterBlocking`, `RuleLoopOpt`, composed by
  `ApplyRules`).
- `CUDAOptimizer::DoStage2` runs one pass per set flag, in a fixed order
  (`Stage2Passes`, guarded by `PassFlag`).

`Init` is any of the 256 flag sets. `Construct` and `DoStage2` are the two
steps. The passes rewrite the AST and are abstracted to their names.

Run `optimizer_flags` (pass, 768 states) checks:
- `ImplicationsClosed`: the single ordered pass yields exactly the least
  closed set of the implications. `Closure` is computed as a recursive
  fixpoint. This matters because a rule whose premise a later rule sets
  would be missed.
- `PassesAfterPrerequisites`: kernel inlining runs before every pass whose
  flag implies it, loop peeling before register blocking, and the
  primitive optimization right after loop optimization.

Deadlock is not checked, because translation ends after stage 2.

### RemoteFetch (`RemoteFetchSpec.tla`, `RemoteFetch.tla`, `MCRemoteFetch.tla`, two cfgs)

These modules model the remote fetch protocol behind consecutive
`GridSpaceMPI::LoadSubgrid` calls. Its body is not in the repository, so
the protocol comes from spec section 4.4 and the declarations of
`runtime/grid_mpi.h` (`GridRequest`, `GRID_REQUEST_KIND`,
`RecvGridRequest(comm)` from any source, `HandleFetchRequest(req, g)`).
Only `Msg` and `Piece` are mapped to header lines; the rest is
spec_modelled. How the serving loop ends (DONE from every other process)
is a reconstruction from the spec's "owners serve until DONE".

**Abstract specification.** `RemoteFetchSpec` has, per process, the load
it is in (`acall`), whether its fetch for that load is complete, and the
data each load gave it (`agot`). `Fetch(p)` completes a load with exactly
`Expected(p, c)`: the piece of grid `c` of every other owner. `Leave(p)`
moves to the next load once no process still waits in it.

**Detailed module.** `RemoteFetch` has per-process flags (`sent`,
`doneSent`), the `fetch_map` of owners still owed a reply (`pending`), the
DONEs counted (`dones`), the pieces installed (`remote`) and a FIFO channel
per ordered pair (MPI's non-overtaking order). The actions are
`SendFetchRequests`, `Receive` (which dispatches to `HandleFetchRequest`,
`HandleFetchReply` and `HandleDone`), `SendDone` and `Exit`. The constant
`RequestCarriesId` says whether a message names its fetch, as the spec
says, or only `my_rank` and `kind`, as the header's `GridRequest` does.

**Constants.** Three processes and two loads. In load 1 every process
needs every partition; in load 2 `r3`'s region is its own, so it sends no
request and can race ahead into serving. With two processes the FIFO
channel between them already orders a DONE before the next requests, so
the race needs a third.

**Runs.**
- `remote_fetch` (pass, 3,373 states, `RequestCarriesId = TRUE`) checks:
  - `TypeOK`;
  - `FetchedFromRequestedGrid`: every piece a process installs during
    load c is of grid c, although others may already be in load c + 1;
  - `AbsSpec`: the refinement, with `complete` mapped to "requests sent
    and nothing pending" and `agot` to the current remote grid once
    complete;
  - `AllFinish`: every process gets through every load and no message is
    left in a channel.
- `remote_fetch_no_id` (violation) checks `FetchedFromRequestedGrid` with
  requests that carry no identifier. A process still serving load 1
  receives a load-2 request from a process that has moved on and answers
  it with load-1 data. The DONE that carries no identifier breaks
  `AllFinish` as well: the `DoneCallCurrent` mutant shows a process
  waiting forever for a DONE it already counted in load 1.

Deadlock is not checked, because the processes stop after the last load;
`AllFinish` says they all get there.

### HaloExchange (`HaloExchange.tla`, `MCHaloExchange.tla`, `MCHaloExchange.cfg`)

This module models consecutive `__PSLoadNeighbor` calls on one grid over a
Cartesian process grid. Each call runs `GridMPI::SetHaloSize` for every
halo buffer and then `GridSpaceMPI::ExchangeBoundaries`. Only the
declarations of `runtime/grid_mpi.h` are in the repository, so the bodies
come from spec sections 4.1 to 4.3 (spec_modelled). The layout is not
reconstructed: the module instantiates GridAddress and takes every halo
point's buffer and address from `__PSGridGetAddrFloat3D` itself
(`LayoutTbl`, a constant table per diagonal flag and process).

**Data.** The element of global point x is x itself, and a halo cell that
nothing wrote holds `Stale`. So "the cell holds the right data" is
"the cell holds the point the resolver maps to it" (`Wrap(x)` across a
periodic wrap).

**State and actions.** Per process: `call` (which call it is in), `stage`
(the position in `ExchangeOrder`, 0 before SetHaloSize), `posted`,
`recvd` (the sides received for the current dimension), `halo` (the cells
of its receive buffers), and `bufsize` (`halo_*_buf_size_`). Shared:
`msgs` (slabs in flight, each tagged with its sender's call), `diags`
(the diagonal flag of each call; `BuildLoadNeighbor` passes each kernel's
own) and `periodic`.
- `LoadNeighbor(c)` is SetHaloSize. A buffer that `CalcHaloSize` says is
  too small is reallocated and its cells become `Stale`; a sufficient one is
  reused.
- `PostSends(c)` is `ExchangeBoundariesAsync` for the current dimension.
  `CopyoutHalo` packs each neighbour's slab from c's core and from halo
  cells c already received (`View`), in the receiver's buffer layout.
- `Receive(c)` installs one slab into `halo[d][side]`. It takes one
  receive per side, and the oldest slab from that sender (MPI
  non-overtaking). A cell that lies past the end of the buffer
  (`PastEnd`) is written out of bounds, which is undefined behaviour:
  the write either survives until it is read or the memory is reused
  and the cell reads `Stale`. With the sizing the model uses no cell is
  ever past the end, so this adds no state to the run.
- `WaitAll(c)` needs the sides that have a neighbour. After the last
  dimension, the call returns.

**Order of dimensions.** The resolver puts a corner in the buffer of its
first out-of-range dimension, widened by the later dimensions' halos. So
the later dimensions must arrive first, and `ExchangeOrder` is highest
first.

**Constants.** A 3 x 2 x 1 grid on 2 x 2 x 1 processes: along x the blocks
have 2 and 1 elements. The halo width is 1 in x and y and 0 in z. With
two processes along a dimension, a periodic exchange has the same process
as its forward and backward neighbour. There are two calls, with diagonal
flags `<<FALSE, TRUE>>` or `<<TRUE, FALSE>>`, and `periodic` is either
value.

**Run `halo_exchange`** (pass, 35,740 distinct states, about 70 s). It
checks:
- `HaloFresh`: after each call, every halo point a kernel may read that
  is in the grid, or anywhere when periodic, holds its data. This
  includes corners, cells left from the other call's layout, and cells
  written past the end of a buffer too small for the call's halo.
- `AllExchanged`: every process finishes both calls and no slab is left.

**What the run shows.**
- *Dimension order.* The `ExchangeOrderAscending` mutant is the order of
  spec section 4.3 (lower dimensions first). It leaves corners stale and
  breaks `HaloFresh`. Without diagonal halos both orders pass.
- *Buffer growth.* The `HaloBufSizeByWidth` mutant is the width
  high-water mark of spec sections 4.2 and 9. When the second call turns
  diagonal halos on with unchanged widths, the receive writes past the
  buffer; where that memory is reused, a corner reads `Stale` and
  `HaloFresh` fails (checked by hand; the run's registered mutant for
  `HaloFresh` is `ExchangeOrderAscending`).
- Both are recorded as findings.

Deadlock is not checked, because the processes stop after their calls;
`AllExchanged` says they all get there.

## 4. Fairness

RemoteFetch and HaloExchange state liveness. HaloExchange assumes weak
fairness of each process's steps (`WF_vars(Step(c))`). Each MPI process
runs on its own. Only c removes the slabs addressed to c, so a receive
stays enabled until c takes it. RemoteFetch assumes weak fairness, per process,
of sending the fetch requests, receiving a message, sending DONE and
leaving the load. MPI delivery is reliable (spec section 7), a process
blocked in a receive with a message waiting for it takes it (MPI
progress), and each process runs its program to the end. The abstract
RemoteFetchSpec assumes weak fairness of each process's fetch and leave,
which the detailed fairness has to deliver for the refinement to hold.
The other modules are sequential programs or client-driven libraries, and
a client may stop calling at any point, so they state no liveness.

## 5. Not modelled

- **Translator AST rewriting and the bodies of optimizer passes.** They
  hold no runtime state. Their effect on the runtime is the call sequence
  that StencilRun models. OptimizerFlags models which passes run and in
  what order.
- **PSInit, PSFinalize and the PSDomain constructors.** They initialise the
  device or return values, and change no grid state.
- **The `__PSGridDevND` layout**, which is not in the repository (see the
  CudaGrid note on the `__PSGridDev1D` cast).
- **Element values as floating point.** Reductions are modelled over small
  integers. The order-dependence of floating-point sums is an accepted
  property in spec section 4.5, not a defect.
- **Logging and diagnostics.**
- **`GridMPI::Reduce` and `GridSpaceMPI::ReduceGrid`.** The MPI bodies are
  not in the repository. A model would restate spec section 4.5 with nothing
  of the code to check it against. The serial reduction is checked in
  ReferenceGrid.
- **Properties of the partition itself.** `PartitionGrid`'s body is not in
  the repository, so `LocalOffset` and `LocalSize` are the formula of spec
  section 4.1. A property of that formula would check the spec against
  itself, so the partition only supplies the boxes of the halo exchange.
  Boxes that are empty, because there are more processes than elements
  along a dimension, are not exercised.
- **Parts of the halo exchange.** These are not modelled:
  - exchanges with a process whose box is empty (`empty_`);
  - the `reuse` flag of `__PSLoadNeighbor` (StencilRun models its effect);
  - the overlapped `Stage1`/`Stage2` split;
  - blocking sends;
  - the send buffers' own sizes, which have the receive buffers' shapes.
