# A verification project for liboi

liboi is the OpenCL Interferometry Library: a C++ library that takes an image
(in host memory, an OpenCL buffer or an OpenGL object) and interferometric data
(OIFITS files), and computes on an OpenCL device the simulated visibilities of
the image, their deviations (chi) from the data, chi squared and the
log-likelihood. This directory holds TLA+ modules that model it, TLC
configurations that check them on small instances, and theorems checked by
TLAPS for all instances. Line numbers refer to `src/src/`.

## 1. Inventory

| Component | State | Operations | Correct when |
|---|---|---|---|
| `CLibOI` (`liboi.cpp`) | list of data sets; image description and source; device buffers (image, GL image, flux, Fourier, simulated data); ten routine pointers; `mDataRoutinesInitialized`, `mMaxData` | configuration, `LoadData`, `RemoveData`, `ReplaceData`, `Init`, `CopyImageToBuffer`, `ImageTo...`, `TotalFlux`, `Normalize`, `ExportImage`, queries, destructor | buffers and routines fit whatever is loaded, however calls are ordered and whatever `Init` threw; answers belong to the image and data asked for; everything allocated is released |
| Computation (`CRoutine_Chi`, `_LogLike`, `_FTtoV2`, `_FTtoT3`, `_Square`, `_Zero`, `_Normalize`) | shared device buffers: Fourier transform, simulated data, chi, chi squared, log-likelihood | one kernel per stage | no element of another data set, another image or never written memory reaches an answer |
| `COILibData` | seven device buffers of one data set, counts, cached averages | load, `Replace`, `GetData`, `ExportData`, offset arithmetic | segments (vis, V2, T3) disjoint, sizes right; a data set that was brought to the device is there whole and stays so |
| `COILibDataList` | vector of data sets behind a mutex | `LoadData`, `RemoveData`, `ReplaceData`, `at`, `size`, maxima | indices stay meaningful; maxima bound every element |
| `CRoutine_Sum_NVidia` | planned passes, two buffers | `Init(n)`, `Sum` | every pixel counted once |
| `CRoutine_Sum_AMD` | group size, two buffers | `Init(n)`, `Sum` | every element counted once; index space accepted |
| `CRoutine_DFT` | kernel compiled for an image scale | `FT` | every UV point gets the transform over all pixels |
| `CRoutine` base | kernels, programs | read and build kernels | may throw (part of every routine's `Init`); releases what it built |
| `CRoutine_ImageToBuffer` | who may use the OpenGL object | acquire GL object, copy, release | the copy is one whole frame; OpenGL gets its object back |
| `COpenCL` | device, context, queue, shared by the objects that use it | find, create, be given, release | a device of the type asked for, the first one; handles live as long as their users, and no longer |
| `PathFind`, `CRoutine_FTtoVis`, `CRoutine_FFT_clFFT`, `models/`, tests, benchmark, `cl.hpp` | - | - | see section 7 |

Interaction: a client calls `CLibOI`, which owns one of everything else but the
`COpenCL`, which several may share. Calls enqueue kernels and transfers on one
in-order queue, and wait for it where the code says so. State is shared through device buffers
that are created by `Init` and never resized, and through the routines, which
are created by the first `Init` that gets to them and never rebuilt, while data
sets come and go. Failures are C++ exceptions thrown between any two steps.

What is hard: **(a)** sequences of calls - the buffers are sized by one `Init`
and used after later loads, removals, and `Init`s; **(b)** exceptions in the
middle of `Init` or of a computation, after which the object is used again;
**(c)** one set of buffers reused for data sets of other sizes and layouts;
**(d)** work-items inside a kernel that interleave between barriers;
**(e)** sizes: zero, powers of two, the group size, unsigned wrap-around;
**(f)** transfers that are carried out after the call that enqueued them, from
and to memory that may be gone, and a renderer that works at the same time;
**(g)** reference-counted handles shared by objects that die in any order.
`PROJECT.json` lists each hazard at its line.

## 2. Modules

| Module | Models |
|---|---|
| `DataLayout` | offsets, sizes and padding of a data set's counts (`COILibData`) |
| `Geometry` | `isPow2`, `nextPow2` at a given word width, `next_multiple`, accepted index spaces |
| `LibOI` | the life cycle of a `CLibOI` object, every public call an action |
| `LibOIClient` | `LibOI` composed with a client that keeps to the documented order of calls |
| `LibOI_proofs` | the theorems about `LibOI` and its client |
| `DataList` | the data set list under several threads; shared pointers and device buffers |
| `DataList_proofs` | the theorems about `DataList` |
| `CommandQueue` | the in-order queue, and a host that enqueues, checks, waits and returns |
| `Contents` | abstract: the contents of one data set on the device, and what is exported of them |
| `DataTransfer` | `COILibData`: upload, replacement, export and reading back, as scripts of transfers |
| `ImageCopy` | the copy of the image from OpenGL or from host memory |
| `Transfers` | `DataTransfer` and `ImageCopy` composed on one queue, with the device and OpenGL; refines `Contents` |
| `Transfers_proofs` | the theorems about `Transfers`, with the refinement of `Contents` |
| `Device` | `COpenCL`: the search for a device; who owns contexts, queues and programs |
| `Device_proofs` | the theorems about `Device` |
| `Evaluation` | abstract: an answer is about the image and the data set of the moment |
| `Pipeline` | the kernels behind the `ImageTo...` calls, on shared buffers; refines `Evaluation` |
| `Pipeline_proofs` | the theorems about `Pipeline`, with the refinement of `Evaluation` |
| `WorkGroup` | external: how an OpenCL device runs one work-group (bundles of items in lockstep, barriers) |
| `SumNVidia`, `SumAMD`, `DftKernel` | the kernels that use local memory, instruction by instruction, and their hosts |
| `SumNVidia_proofs`, `SumAMD_proofs`, `DftKernel_proofs` | the theorems about these kernels |
| `MC*` | instances for TLC |

### LibOI

Variables carry the members' names. A device buffer is a handle
`[kind, gen, size]`: `gen` tells buffers created by different calls apart,
`size` is what `clCreateBuffer` was told. `live` is the set of buffers
allocated and not yet released; `routine[r]` is `"null"`, `"made"` (constructed
and stored, its `Init` threw) or `"ready"`; `sized[r]` is what `Init` was told.
`last` records the outcome of the last call: `ok`, `refused` (an early return),
`throw`, `abort` (a failed `assert`, or a null routine is called) or
`undefined` (an access beyond a buffer, an erase beyond the end of the list).
The latter two end the process (`phase = "dead"`).

Each public call is one action. `InitCall` is `InitMemory` followed by
`InitRoutines`; either may throw at any of its steps, which is a choice of the
failing step. Both are public by themselves too (`liboi.hpp:212-214`):
`InitMemoryCall` and `InitRoutinesCall`. A data set that is loaded after
`InitMemory` and before `InitRoutines` is not refused, as no data routine exists,
and not counted either, as `mMaxData` is what `InitMemory` found: the buffers may
be too small for it. `memory` is auxiliary and marks exactly these histories
(`"missed"`), which `DataBuffersFit` and `ChiBuffersFit` except; without the
exception TLC violates both in five calls. `ImageTo(i)` composes the outcomes of its parts in the order of
the code (`Then`), so that the first failing one is the outcome. `DataSet(i)`
and `DataNumRefused` compute `size() - 1` in unsigned arithmetic
(`MaxUInt`).

`LibOIClient` restricts the order of calls to what the benchmark, the tests and
the comments intend, and shows what such a client may rely on.

### DataList

`LibOI` is one thread's view of the list. `DataList` gives it to several. Each
method of `COILibDataList` is one critical section under `mDataMutex`; a call of
`CLibOI` is two of them (`wait1`, `in1`, `wait2`, `in2`), and whatever other
threads do in between is allowed. `LoadData` constructs the data set inside the
section, in two steps so that the constructor can throw after its buffers
exist. `uses` counts shared pointers: one for the list, one for each thread that
computes with the data set, without the mutex (`use`). `disturbed[t]` is
auxiliary: it records that another thread changed the list between the two
sections of `t`'s call. All of this is before the first complete `Init`, after
which `LoadData` is refused; `Construct` is then never taken and the list can
only shrink.

### Transfers

A call of liboi is a script (`todo`): groups of commands to enqueue, checks of
their status, `clFinish`, and the steps of the host in between. A `clFinish` may
report an error after it waited, or fail at once (`FinishFails`): `CopyImage`
checks its status, `COILibData` does not (lines 149, 363, 557, 571, 585), and a
call of it then goes on with commands pending (`ignored`). The properties do not
promise anything of such a call, but of those after it. `EnqueueGroup`
lets OpenCL refuse any command of a group (up to `MaxRefused`) and enqueue the
others, as the code does that ORs the statuses of a group and looks at them
once; `CheckThrows` then ends the call. Commands that are in the queue stay
there: those with `"local"` host memory become `"freed"` (`Orphaned`). The device
carries the queue out in order and at any time (`Execute`). A write from freed
memory spoils the elements it writes, and a read into it corrupts the process,
after which the model says nothing more.

`stale` is the set of device elements that do not hold the data given last. The
elements of a data set follow the offsets of `DataLayout`, so that a segment at a
wrong place or of a wrong length would leave stale elements. `Save` compares
what was read (`arrays`) with the whole of the data set. `upload` is what is
known of it: `"ok"` after `LoadData` or `ReplaceData` returned, having waited. A file
that was written without waiting is `"unknown"`. `Contents` knows only
that, and that what is whole stays whole; the refinement maps `upload = "ok"`
with stale elements to a state that `Contents` does not have.

The image is rendered tile by tile by OpenGL, which runs at the same time as
host and device; `glFinish` waits for it. `owner` is who may use the OpenGL
object, and `copied` whether the last copy returned normally. That copy leaves its
release in the queue without `clFlush` or `clFinish`, and OpenCL need not even begin
it; so nothing is assumed of the device, and `ObjectReturned` is a safety property: after a
copy nothing but the release is missing, and the next call that waited has seen it
carried out. The application draws between calls only, from the thread that
makes them, as the benchmark and the viewers built on the library do.

A copy or a read is not tied to a kernel here: `Pipeline` models the kernels,
with transfers that take effect at once. They share the in-order queue, and
`NothingPending` is what makes the simplification sound after normal returns.

### Device

`refs` is OpenCL's reference count of each context and queue; owner 0 is the
client, whose handles liboi may be given. `shares[o]` is who has a
`COpenCLPtr` to the `COpenCL` object `o`: `~COpenCL`, which releases both handles,
runs with the last. The constructor can find no device, throw in the search
(a platform without devices is an error), or lose its context when the queue is
refused, or both when reading the version of the device throws (`substr` beyond the
end of a text without a blank, `COpenCL.cpp:137-139`), which the constructor from
handles may do as well. `NewFromHandles` retains nothing in the code while the destructor
releases: the client must retain both handles for each object, which the model
has it do. `programs` keep their context alive; a program that does not
compile is kept by nobody and never released.

### Pipeline and Evaluation

`call` and `todo` hold the current call and its remaining stages. Each stage is
an action that rewrites the elements its kernel writes, and leaves the others.
Elements are provenance: `[k, of]` is element `k` computed for a data set,
a version of its contents and an image. Whatever has another or mixed origin
is `JUNK`. `Throw` ends a call after any stage. `Evaluation` has no buffers:
`Answer(op, d)` is tagged with the versions of the moment. The refinement maps
an answer all of whose elements are right to the abstract answer, and any other
to `[op |-> "wrong"]`, which `Evaluation` never gives.

### Kernels

`WorkGroup` gives each bundle of work-items a program counter `at`, the local
memory `sdata`, and a register per item. Bundles interleave freely; the items
of one bundle step together. `barrier` is passed by all bundles at once, when all
have reached it. `x += y` on local memory is a load and a store. Values are sets
of pixels; adding two overlapping sets gives `TWICE`, unwritten memory
`UNKNOWN`. A narrower lockstep width admits more interleavings, so the AMD
kernel is checked with single items, and the NVidia kernel, whose barrier-free
levels rely on warps, with bundles of one (scaled) warp.

## 3. Runs

| Run | Shows |
|---|---|
| `any` | any sequence of public calls: data sets fit the Fourier, simulated-data, chi and log-likelihood buffers, unless `InitRoutines` was called by itself with data loaded since the last `InitMemory`; no data routine exists without the flag that locks `LoadData` out |
| `client` | a well-behaved client gets every computation done, on the whole image and at its scale; the destructor returns what the object holds, however far the last `Init` got |
| `answers` | every answer is about the data set and image asked for (refinement of `Evaluation`), with exceptions between kernels; `ExportData` after an answer finds the right simulated data |
| `nvidia` | every pixel summed once, no access out of bounds, for sizes around each boundary |
| `amd` | every element summed once and no data race, items fully independent |
| `threads` | with two threads: device buffers of a data set live exactly as long as the list or a thread has it, and only those of a constructor that threw stay behind; a call that is not disturbed between its two critical sections names the data set it checked, and `LoadData` returns the index of what it loaded; the mutex is always released |
| `transfers` | with any command refused and any delay of the device: a data set that `LoadData` or `ReplaceData` brought to the device is whole and stays so, and exports are of it, whatever earlier failed calls left in the queue (refinement of `Contents`); a call that returned leaves nothing behind that uses host memory - both unless a `clFinish` of that call failed unnoticed; a copied image is one frame; after a copy only its release keeps OpenGL from its object, and a later call that waited has made up for it |
| `device` | two `CLibOI` objects that share a `COpenCL`, own one, or are given handles: whoever lives has a living context and queue; when the last user is gone nothing is held but what is named; the device found is the first of the type asked for, where only one platform has any |
| `dft` | every transform gets every pixel, with its own coordinates, once; the groups launched write that of every UV point, once |

Runs that find a disagreement between the code and what it says of itself:

| Run | Disagreement |
|---|---|
| `loglike` | `CRoutine_LogLike.cpp:62-66`: elements beyond the data set are not zeroed, and are summed |
| `vis` | `liboi.cpp:271-285`: complex visibilities are compared but never simulated |
| `dft_tiles` | `ft_dft2d.cl:140-156`: no barrier at the end of the tile loop |

More were met while modelling. They are in the models, without a run of
their own: with fewer elements than two groups' items the AMD reduction's global
size is smaller than the group, OpenCL refuses the kernel and `Sum` throws
(`Enqueue` in `SumAMD`), where `CRoutine_Sum_AMD.cpp:174-176` says that rounding
up "ensures that the global work size is evenly divisible by the local work
size" - chi squared of at most 256 floats, on devices with groups of 256; on an empty list the check of `data_num` passes (`size() - 1` wraps)
and `at` throws where `liboi.cpp:380` promises false; `ExportImage` exports
width * width pixels (`liboi.cpp:199`); a routine
whose `Init` threw keeps its pointer and is skipped by the next `Init`, which
returns normally (`liboi.cpp:550-556`, where the comment says "only init if not
inited already"); after a change of image size and a second `Init`, `TotalFlux`
sums the old number of pixels (`liboi.cpp:566-571`), and after a change of scale
the transform keeps the old one (`liboi.cpp:590-596`); exporting
complex visibilities stores into a vector of size 0 (`COILibData.cpp:388`,
`Repackage`); `COILibDataList` swallows the exceptions of `ExportData` and `GetData`
(`COILibDataList.cpp:64-117`), which then look as if they had succeeded; after
an exception in the middle of an upload or an export, commands stay in the queue
whose host memory is gone (`Orphaned`); `CopyImage` returns before the OpenGL
object is released (`CRoutine_ImageToBuffer.cpp:101-103`), so a frame drawn right
after it may be rendered while OpenCL has the object; an exception in between
leaves it acquired; `ReplaceData` does not update the averages
(`COILibData.cpp:597-652`); `FindDevice` goes on after a platform with a match and returns that of the last
platform that has one, where `COpenCL.cpp:93-94` says "the first instance"
(`FirstInstance` excepts types that several platforms have), a
platform without devices ends the search with an exception, and a type is
compared as a whole bit set (`COpenCL.cpp:104-120`); the version of OpenCL is always
found to be 0, because the text that is parsed begins with the blank
(`COpenCL.cpp:145`); `BuildKernel` returns the number of programs where its
comment says the index (`CRoutine.cpp:75`, `126`). Without lockstep the barrier-free levels
of the NVidia reduction race (the symptom is in the repository's
`README.md:222-224`), which `SumNVidia` shows with `Width = 1`.

None of the runs checks for deadlock (in `threads` and `transfers`, undefined
behaviour ends the model): a destroyed or aborted object, a kernel
that has returned, and a client that has reached a bound stop for good.

### Bounds

- Lists: up to `MaxSets` = 2 data sets, out of two that differ in every
  count (and in padded UV points: 16 and 32), so that the maximum can be the
  first, the last, or disappear by removal; `any` adds an empty data set, which
  fails the assertion in `AllocateMemory` (assertions are taken to be compiled
  in). `MaxEpoch` = 2 calls that create buffers in `any`, 3 in `client`: an
  OpenGL source and two `Init`s, or three. A second `Init` meets everything the
  first left. The theorems have no bounds.
- Images: 2x2, 2x3 and 3x1 in `client`; a single pixel in `any`, whose
  properties are about data.
- `GroupSize` = 2 in the `client` run while data sets have 4 and 7 floats:
  the client has enough data for the AMD reduction. On devices with groups of
  256 that means more than 256 floats; fewer are refused, as said above. It is
  an assumption of `LibOIClient` (`SumsAssumption`).
- `Pipeline`: two data sets are enough for one to leave something behind for
  the other; `MaxChanges` = 1 allows one new image, or one replacement, at any
  point of any sequence of calls, so each buffer can hold elements of three
  origins when a call begins.
- `threads`: two threads and two data sets. Two are enough for one to load,
  remove or replace between the two sections of the other's call, and two data
  sets for a removal to shift an index. `MaxLoads` bounds constructions,
  thrown ones included.
- `transfers`: two data sets, one with complex visibilities and one with squared
  visibilities and triple products, so that every segment and every offset
  occurs. `MaxPending` = 1: a call begins only if at most one command is left over from
  earlier calls, an orphaned transfer or a release; while it runs its own join
  it. The theorems have any number. The two tiles are symmetric. `MaxRefused` = 1 command of a
  group is refused: the others are the orphans. `Lengths` = {2} reads less than a data
  set has, or all of it. Two tiles make a frame that can be half done.
- `device`: two objects, three `COpenCL`s and two programs: both objects can
  share one and be re-made on another; machines with one match, several
  matches on one platform, matches on two platforms, and a platform
  without devices.
- Kernels: warps of 2 for 32, `MaxThreads` 8 for 128 (64 on Apple),
  `MinBuffer` 8 for 128, `MaxBlocks` 4 for 64, AMD groups of 4 for 256. What
  matters is kept: a block has several warps, a pass has the
  maximal number of blocks and each item then reads several times, the second
  pass has fewer items than a block of the first. Sizes include 1, powers of
  two, one more and one less, and one beyond all blocks. `WordBits` is chosen so
  that `nextPow2` does not wrap on them; `LibOI` keeps `MaxUInt` symbolic.

### Fairness

`DataList` has weak fairness of each thread's steps that wait for nobody: the
operating system runs a thread that is inside a critical section, or computing.
Nothing is assumed of who gets a contested mutex, as `std::mutex` promises
nothing; so the liveness property is that the mutex is released
(`MutexReleased`), and not that every call returns.

`Transfers` has none: a device may wait for `clFlush` before it begins, and liboi
does not flush. A call that waits in `clFinish` can only go on when the queue is
empty, which is all its safety properties need.

The other specifications assume no fairness and state no liveness. The host is
sequential there and each call is finite; what could wait forever is a barrier not
all items of a group reach, and in these kernels no barrier is under a
condition that differs between the items of a group.

## 4. Proofs

The first part of `LibOI_proofs` proves, for all data sets, images, sources,
work-group sizes and bounds that satisfy the `ASSUME`s of `LibOI`:

- `TypeCorrect`: `Spec => []TypeOK`.
- `BuffersInvariant`: `Spec => []BuffersInv`, and its consequences
  `DataAlwaysFits`, `ChiAlwaysFits` and `RoutinesAlwaysFlagged`.

`BuffersInv` is `TypeOK /\ DataBuffersFit /\ ChiBuffersFit /\
DataRoutinesFlagged`. None of the first two is inductive: `LoadData` could add
a data set too large for the buffers. It cannot because it is refused once
`mDataRoutinesInitialized` is set, and that flag is set, in every path through
`InitRoutines`, before the first data routine exists (`DataRoutinesFlagged`). Before,
what an `InitMemory` found is what is in the list, as long as `memory` is
`"current"`, which a `LoadData` ends.
From then on the list only shrinks or keeps its shape (`RemoveShrinks`), and
`QuietStep` covers all calls that leave buffers and routines alone. An `Init`
creates memory for the maxima of the present list (`MaximaProperty`,
`MemoryFits`), and routines either for the present maximum or not at all
(`RoutinesFit`). The lemma `LargestProperty` states that `Largest` of a finite
set of naturals bounds it.

`DataList_proofs` proves, for any number of threads, data sets and loads:

- `ListInvariant`: `Spec => []ListInv`, and its consequences `ListTypeCorrect` and
  `MemoryAlwaysMatchesUse`.

`MemoryMatchesUse` says that a data set's buffers are on the device exactly as
long as its list entry or a call refers to it. It is not inductive: removing an entry
drops one reference, and whether it was the last depends on the count.
`ListInv` therefore ties the count to who refers (`Counted`: one for the list
entry, one for each thread that uses the data set), says that a data set is at
most once in the list (`NoRepeats`), that numbers of data sets still to be
constructed are unused (`Fresh`), that one under construction is known to no one else
(`Apart`), that bounds leave room for the constructions in progress
(`RoomLeft`), and that the mutex is held by the thread whose call is inside a
section (`Exclusive`), which is what keeps two constructions from using one
number.

- `CallsAreSequential`: `Spec => SequentialUnlessDisturbed`, an action property.
  What a call checked in its first section (`StillChecked`: its index names a
  data set, or its new data set is at the end) is still true in the second, as
  long as no other thread's change marked the call as disturbed
  (`Undisturbed`). A thread that is about to change the list marks every call
  that is between its sections (`OthersDisturbed`); all other steps leave the list
  as it is (`SameList`).

`Device_proofs` proves, for any machines, objects and bounds:

- `DeviceInvariant`: `Spec => []DeviceInv`, and its consequences
  `HandlesAlwaysLive` and `NothingIsHeld`.

Again the counts are the point: a queue or a context created by a `COpenCL` has one
reference while that object has a share, and none afterwards (`OwnRefs`); the
client's handles have one for each living `COpenCL` made from them, and one
while the client uses them (`ClientRefs`), which needs the cardinality of the
set of such objects to change by one with each construction and each last
share (`FiniteSetTheorems`). `Sharing` says that a `CLibOI` and the share of
its `COpenCL` exist together, `Kept` that a program is in the context of its
holder's `COpenCL`, and `Unborn` that objects not yet created are not shared.

- `TypedInvariant`, and its consequences `TypeCorrect` (`TypeOK`) and
  `FirstOfThePlatform`: `FirstInstance`, the part of the comment on the search that
  the code keeps. A `COpenCL` that searched has the first device of the type
  asked for on the last platform that has any, which is the first of all if no
  other platform has some (`OnePlatform`). `FindDevice` is a recursive
  function over the platforms. `SearchExists` and `SearchFinds` show that it
  satisfies its own recursion, `SearchIsBest` what it therefore finds.

The second part of `LibOI_proofs` proves, for all constants that satisfy the same
assumptions, about the client of `LibOIClient`:

- `ClientIsLibOI`: `ClientSpec => Spec`. The client is one of `LibOI`, so the
  theorems above hold for it. The bound of the list (`ListBound`) makes the
  indices it may use those that `Next` allows.
- `ImageInvariant`, and its consequences `ScaleAlwaysCurrent` and
  `FluxAlwaysCovers`: the routines that depend on the image are built for the
  present one (`BuiltForImage`), because the first routine to be built is the
  first of all (`BuiltInOrder`), after which the client describes no other
  image.
- `HeldInvariant`, and its consequence `NothingEverLeaks`: what is alive is held,
  or an image or data buffer of an earlier `Init` (`Accounted`). This needs
  that handles hold buffers of their own kind (`HandleKinds`), none newer than the
  last `Init` (`HandleAges`), and that a client that may still hand over its own
  buffer overwrites none that an `Init` created (`NothingOverwritten`) - which
  is so because an `Init` that failed before the first routine was built is
  followed by the destructor only.

Its third part proves, for clients whose data sets are large enough for the
AMD reduction (`SumsAssumption`):

- `ServedInvariant`, and its consequence `ClientAlwaysServed`: every computation
  such a client asks for is carried out. It rests on the two invariants above,
  `ImageInv` and `BuffersInv`, and ties what the client goes by, the routine
  that is built last, to all that was built before: an `Init` that returned has built
  the routines that need no data, and the image is where they read it
  (`BaseServed`); one that found data has built the others, and has buffers
  for them (`DataServed`), which a later `Init` renews or leaves alone. Without a
  failed call no routine is half built (`NoneMade`). The sums of chi squared and of the
  log-likelihood are accepted because what they were sized for, once, was the
  size of a data set (`SumsGiven`), although that data set may be gone.

`Pipeline_proofs` proves, for any number and shape of data sets, any capacity of
the shared buffers and any number of changes:

- `Invariance`: `Spec => []IInv`, and its consequences `TypeCorrect` (`TypeOK`)
  and `SimulatedDataCurrent`: what `ExportData` finds after an answered call is
  the model of that call's data set.
- `AnswersMeaningful`: an answer about a data set without complex visibilities
  is meaningful, even if other data sets have some and were evaluated before.
- `PromiseKept`: when no data set has complex visibilities, `Pipeline` implements
  `Evaluation`. The hypothesis is needed: run `vis` shows an answer that is
  not meaningful otherwise.

The stages of a call work on buffers that earlier calls left in any state, so the
invariant says stage by stage what is established whatever was there before.
`at` is the number of the next stage in the list of the call's stages
(`Scheduled`): past the transform, `ft` is the model of the data set;
past `V2` and `T3`, so is its part of `sim` (`Simulated`); past `ZeroChi`, the
chi buffer is zero outside the data set (`Compared`), which is what makes the sums
over the whole buffer right (`Summed`). Versions count changes (`Counted`),
so that an answer is never about an image or data the client has not given yet
(`Answered`).

`Transfers_proofs` proves, for data sets of any shape, any lengths asked for, any
number of tiles, and any number of commands refused or left over:

- `Invariance`: `Spec => []IInv`, and its consequences `TypeCorrect` (`TypeOK`),
  `NothingLeft` (`NothingPending`) and `FrameCopied` (`WholeFrame`).
- `ObjectComesBack` (`ObjectReturned`), from a further invariant, `Returning`: once a
  copy has returned, and until the next one begins, no acquire is in the queue, and
  OpenGL has the object or a release is in the queue (`Released`).
- `PromiseKept`: `Transfers` implements `Contents`.

The first half of the module is about scripts. What the steps of a call promise
must hold of what is left of its script as well, so the properties are stated
for every script and every end of one: what is enqueued is waited for before
the call saves or returns (`Waits`), a group is checked at once
(`ChecksGroups`), commands stay within the buffers of the data set and use
the memory of the right party (`Uses`), and what is read before a save is what
that file is to hold (`ReadsRight`). That the segments at their offsets make up
all of `AllocateMemory` is `CellsTogether`; `UploadScript`,
`ExportScriptIsRight`, `GetCall` and `CopyCall` carry it to the scripts of the calls.

The second half is the invariant. Neither `NothingPending` nor the refinement is
inductive: what is whole at the end is, in the middle of a call, partly in the
script, partly in the queue and partly done. For every stale element of an upload,
a command is in the queue, is coming, or the next check throws (`Uploading`);
for every element of a file about to be saved likewise (`Exporting`). Orphans of
failed calls are ahead of the commands of the present one in the in-order queue
(`Queued`): they may spoil elements, but before these are written again, and once
a new upload has written its first element none is left. A copy of the image is followed
step by step (`Copying`).

`SumAMD_proofs` proves, for all sizes of the input and of the groups, and for all
interleavings of the items:

- `SumInvariant`: `Spec => []SumInv`, and its consequences `SumIsComplete`
  (`SumComplete`) and `ItemsDoNotRace` (`RaceFree`).

The kernel is a list of instructions whose length depends on the group size, so
the first part is about lists: what `Rounds` puts where (`RoundsShape`,
`KernelHasShape`). Halving the group size must never leave a remainder; that
all divisors of a power of two but 1 are even (`Halves`) says so without a
logarithm, and holds of the group size because it divides the buffer
(`DivisorHalves`). The invariant says that no item is past a barrier that
another has not reached (`InStep`), and what each item has by where it is: before
a round of stride h, item t < 2h has the sum of the elements that are t modulo
2h, and after it item t < h has those that are t modulo h (`Holds`,
`InRound`). `PartsAdd` is the addition, `GroupsCover` that the groups' sums make up
the input.

`SumNVidia_proofs` proves, for all sizes of the input, of the kernels and of the
last warp that satisfy `SizesAssumption`:

- `PlanInvariant`: `Spec => []PlanInv`, and its consequence `StaysInBounds`
  (`InBounds`), for every width of the lockstep.
- `SumInvariant`: `Spec => [](Lockstep => GroupInv)`, and its consequence
  `SumIsComplete`: `LastWarp <= Width => (Spec => []SumComplete)`. The condition is what
  the kernels rely on in their last levels, which have no barrier; with `Width = 1`
  TLC finds a wrong sum.

The assumption states what the source fixes: 128 (64 on Apple), 64 and 128 are powers of
two, 64 blocks are at most twice the items of the largest group, and both the groups and the
floor of the buffer (`MinBuffer`, issue 32) leave room for what a last warp of 32 reads;
`nextPow2` of the input size does not wrap.

`BuildKernels` plans in a loop until one block is left. `Planned` says that this is at
most two passes: the groups of the first share the buffer out evenly, and as many sums as
they leave fit into one group of the second, which has half as many items, no more than
a group of the first, whose local memory it gets. So the second pass, in place, reads all
its input before it writes. The kernel is followed level by level like the one of
`SumAMD` (`KernelShape`: `LevelAt`, `HasLevels`, `Behind`), and beyond the last level
with a barrier there is none (`Calm`). `InBounds` needs no more than these shapes: the
lanes that take part in a level for nothing read up to twice a last warp, which the
first pass has even for a single pixel.

`Holds` says which part of the input an item has before and after a level
(`InLevel`). At the levels above a warp it is the barrier that keeps the others back
(`InStep`); below, all items that matter are in the first bundle and step together, and
what the lanes beyond them add is read by nobody (`Holds` speaks of the items below the
stride). At `h <= LastWarp` an item of the first bundle also reads what items of others
hold; these are past their last store that mattered, and `InLevel` says that they still
hold what they had. `Written` has the sums of the groups that are done, and that the first pass's
sums are there until the second is through.

`DftKernel_proofs` proves, for all launches:

- `GroupInvariant`: `Spec => []GroupInv`, and its consequence
  `EveryUVPointWritten` (`EveryUVPointOnce`). That the groups share out the UV points
  is arithmetic (`GroupsLaunched`, `UVPointsShared`); what each of them writes is the
  invariant.
- `TransformIsWhole`: `Spec => [](OneBundle \/ OneTile => DftOfImage)`. With several
  bundles and several tiles `DftOfImage` is false (run `dft_tiles`): no barrier ends the
  tile loop. So this is exactly the part of the comment that the code keeps: the
  group runs in lockstep, or the image fits into the first tile.

Again the first part is about where the instructions are (`KernelHasShape`, `OpIs`,
`OpAt`). `InStep` is the barrier; `Loaded` says which pixel an element of the tile is
from when its bundle has loaded it until this bundle loads the next tile, and holds
without the condition. The condition makes the bundle that reads and the one
that loaded be in the same round (`PixelAdded`), so that an item at pixel q of round
k has added exactly the pixels below `k * local_size + q` (`Added`).

TLC checked the inductive invariants on instances of the size of the runs before they
were proved, the one of `DftKernel` with images of up to two tiles for groups of
several bundles too.

Induction over data is not a rule the installed provers can apply. Where a recursive
function had to be followed (`FindDevice`, `PowerOfTwo`, `Rounds`, `Levels`, `LaterPasses`), the proof takes a least
counterexample instead, which well-foundedness of the natural numbers
provides (`Least`).

Only model-checked: liveness (`MutexReleased`), which is out of the
prover's reach, as `ENABLED` is. Every invariant and every action property of the
passing runs, and both refinements, are theorems, some under the conditions stated with
them above.

## 5. Not modelled

- Floating-point values, and the trigonometry of the transform; the averages of a data
  set, which are values of the OIFITS library.
- The convex chi variant and the CPU versions of the kernels: `CLibOI` never
  selects the first, and the second are used by tests only.
- What `CRoutine` reads from files, `DumpFloatBuffer`, and the comparison helpers
  of the tests.
- `COpenCL`'s printing, the number made of its version string, and the properties that tie a
  context to OpenGL: they change no state of the program.
- Several threads on one command queue: a `CLibOI` object is not meant to be used by
  two threads, beyond its list of data sets.
- A list of data sets and its transfers together: `DataList` has the life of
  several data sets, `Transfers` the contents of one. Uploads of different data
  sets use different buffers of the device and share only the queue, whose
  leftovers of earlier calls `Transfers` has.

## 6. Plan

Done, in this order: `LibOI` with its client and its theorems; `Evaluation` and
`Pipeline`; the kernels; `DataList`; `CommandQueue`, `DataTransfer`, `ImageCopy`,
`Transfers` with `Contents`; `Device`; the theorems about `DataList`, `Device`, the
client, `Pipeline`, `Transfers`, `SumAMD`, `DftKernel` and `SumNVidia`. Every safety
property of the runs is proved.

Left: the parts named in sections 5 and 7.

## 7. Left aside

`cl.hpp` (twice) and googletest are third-party, and make up nine tenths of the
repository's lines; `models/` and the tests are analytic images and drivers;
`PathFind` asks the operating system for a path; `CRoutine_FTtoVis` and
`CRoutine_FFT_clFFT` are never created by `CLibOI`; formatting and logging.
