# TLA+ models of vminer

This directory holds TLC-checkable models of the parts of vminer whose correctness rests on **control, concurrency and data layout** rather than on I/O:

- the x86-64 page walk, and a client reading guest memory through the C backend;
- the address arithmetic of icebox-core;
- the symbol database, the C API that loads modules into its indexer, and loading a module's symbols on demand through the Windows PDB loader;
- the uniform OS API over a running guest, and the C string getters;
- the Windows x64 stack unwinder, with the `UNWIND_INFO` decoder it depends on.

Every operator carries the name of the Rust function it translates. `PROJECT.json` maps each operator to the lines it models. It also lists the components, runs, mutants, findings and hazards.

## The system and how its parts interact

```
 C caller: X86_64Backend callbacks        guest (runs concurrently: writes RAM,
   (read_physical, read_virtual,            loads CR3, forks/exits/renames tasks)
    special_registers, drop)                          |
        |  backend_make -> Arc<RuntimeBackend<_>>     v
        v                                  page tables, task list, stacks
 pgd(vcpu) -> virtual_to_physical / read_virtual_memory
        |
        v
 OS personality (Linux: Profile::new, for_each_process) -- Os trait defaults
        |                                                   (collect/find_*)
        |-- SymbolsIndexer::load_module --> SymbolLoader (PDB dir shared by processes)
        |   (C: symbols_load_from_bytes/_file/_dir --> read_bytes by magic)
        |                                     --> ModuleSymbols (sorted indexes)
        v
 Windows::iter_callstack -- VMAs, lazily parsed .pdata/.xdata (UNWIND_INFO)
        |
        v
 C API / Python bindings (string getters through cstring::Formatter)
```

The guest keeps running while vminer inspects it. Page tables, the task list, stacks and unwind data are therefore values that another actor can change between any two reads. The models represent the guest as environment actions that can fire at any time.

## Modules

| Module | Code | State | Actions |
|---|---|---|---|
| `PageWalk` | `icebox-core/src/addr.rs` (accessors, `MmPte`), `src/core/backend.rs` `virtual_to_physical`, `vminer-core/src/backend.rs` `default_read_virtual_memory` | `mem`: page-table entry slots | `GuestWriteEntry` |
| `NativeBackend` (extends `PageWalk`) | `native/src/backend.rs` (`X86_64Backend`, `backend_make`, `backend_free`), the `RuntimeBackend` and `Arc` forwards, C `read_virtual_memory`, Python `Backend.virtual_to_physical` / `read_virtual_memory` | `cr3` per vCPU, `backend` (callback set, error code), `cdata` (the C caller's data) | `backend_make`, `backend_free`, `LoadCr3`, `GuestWriteEntry` |
| `AddrArith` | `icebox-core/src/addr.rs` `Add`/`Sub` impls | `debug_assertions` (the build, fixed) | none (pure operators) |
| `Symbols` | `vminer-core/src/symbols/mod.rs` | `syms`, `types` (the builder), `module` (after `build`) | `Push`, `insert_struct`, `build` |
| `SymbolsIndexer` (extends `Symbols`) | `native/src/symbols.rs`, `SymbolsIndexer::load_from_bytes`, `load_from_file`, `load_dir`, `get_addr`, `ModuleSymbols::from_bytes` / `from_file`, `ModuleSymbolsBuilder::read_bytes` | `indexer` (the C handle), `modules` (name to module, or absent), `dirCall` (the last `symbols_load_dir` and its return) | `symbols_new`, `symbols_load_from_bytes`, `symbols_load_from_file`, `symbols_load_dir`, `symbols_free` |
| `SymbolLoading` | `SymbolsIndexer::load_module` (the `OnceMap`), `icebox/src/os/windows/loader.rs` `SymbolLoader::load`, `download_pdb` | `disk` (each PDB absent/partial/complete), `slot` per process and module, `pc`, `want`, `result` per thread, `calls`, `restarts` | `Call`, `CacheHit`, `StartLoad`, `CheckExists`, `ReadFile`, `Download`, `CreateFile`, `WriteFile`, `ParseDownload`, `Restart` |
| `OnceMap` | what `SymbolsIndexer`'s module map promises (spec 4.5, 5, 9): the abstract specification `SymbolLoading` implements | `map` per key, `loader` per key, `req` and `ret` per caller | `Request`, `Hit`, `Claim`, `Fill`, `Fail`, `Drop` |
| `OsApi` | `native/src/os.rs` (`os_new*`, `os_free`, string getters), `native/src/cstring.rs`, `icebox/src/os/linux/profile.rs` `Profile::new`, `icebox-core/src/os.rs` defaults, `vminer/src/os/pointer.rs` `read_pointer_field` | `os`, the guest's task list (`live`, `used`, `freed`, `next`, `pid`, `comm`), the walk (`op`, `query`, `cur`, `count`, `acc`, `found`, `ret`, `stable`, `recycled`) | `os_new`, `os_new_linux`, `os_free`, `Start`, `for_each_process`, the four getters, `Fork`, `Exit`, `Free`, `Rename` |
| `CallStack` | `icebox/src/os/windows/callstack.rs` `iter_process_callstack`, `iter_callstack`, `find_vma_by_address`, `find_by_offset` | `stack`, `pc`, `frame`, `last`, `cache`, `result`, `nframes` | one action per exit of the loop body, `UnwindFrame`, `GuestWriteStack` |
| `UnwindInfo` | `callstack.rs` `parse_unwind_codes`, `parse_directory_range`, `init_unwind_data`, `read_u8/u16/u32` | `version`, `ops`, `parent`, `image`, `corrupted` | `EmitOp`, `Chain`, `GuestCorrupt` |

Each `MC_*` module fixes the model constants for TLC. `MC_Symbols` also composes `Symbols` with `AddrArith`: the build mode is chosen in the initial state and never changes. It also composes the builder with `SymbolsIndexer`'s C client. The two share no state and no property relates them, so they take turns: the builder runs while no indexer is live, and the indexer while the builder is untouched. A file's bytes are a content record: the magic, whether the format's parser accepts it, the pairs and layouts it holds, and for a PDB whether `load_types` succeeds. The DWARF, PDB and text parsers are not under `src/`. A content's pairs have distinct addresses and names, so `build` has a single result there.

`MC_CallStack` composes `CallStack` with `UnwindInfo`. It lays out the `UNWIND_INFO` bytes of each PE image with `UnwindInfo`'s `Encode`, for the frames the compiler declared: a one-register push, a child chained to it, and an 8-byte `ALLOC_LARGE` (two slots) chained to a parent missing from `.pdata`. The walk's tables are what `parse_directory_range` decodes from those bytes. TLC would re-decode them in every state, so they are held as values, and an `ASSUME` checks once at startup that the decode yields exactly the declared frames. `CallerFrameFromTable` compares each step with the declared frames (the `Frames` constant), so it covers decoding, both binary searches and the walk together. The exception directory is given as its `RUNTIME_FUNCTION`s; the `bytemuck` cast is not modelled.

`OsApi`'s `Fork` may put a new task in a freed `task_struct`, as the slab allocator does. `Free` forgets the old fields of a node, because nothing may read them any more. The model keeps the outcome of the most recent API call only, and resets a call's locals when it returns: they are dead, and a getter's buffer is not looked at after the next call. `OsApi`'s `for_each_process` belongs to the Linux personality, which is not in this repository. It is modelled from spec 4.7 and 9 and marked `spec_modelled` in the map.

**Integer widths.**

- `PageWalk` keeps the walk's bit-field structure (four index fields above an offset field, frame masks, the valid bit and the large bit), but with small widths.
- `AddrArith` scales u64 to `AddrBits = 4` bits. It keeps the wrap modulo 2^w and the two's-complement reading of an i64.
- `UnwindInfo` decodes real byte strings in little-endian order, with the code's slot layout and operand widths.

**Binary search.** `binary_search_by_key` is modelled as the loop that Rust's standard library has used since 1.82 (`BsBase`). That loop returns the **last** of several equal keys.

## Runs

| Run | Result | What it shows |
|---|---|---|
| `page_walk` | pass | `WalkMatchesTables`: the walk equals a reference translation built from the leaves of the table tree. This holds for every address and every table the guest can write. `ClientReadsMatchTables`: a client's translation or read in a vCPU's address space follows the tables rooted at that vCPU's current CR3. Otherwise it fails with the error its vCPU id, callback set and C error code call for. |
| `page_walk_read` | violation | `ReadIsStitched`: a read across a page boundary takes its second page from the physical page after the first (spec 4.4 says each page is translated). |
| `symbols` | pass | `SymbolRoundTrip`, `InexactLookupCovers`: after `build`, exact and inexact lookups find every pushed symbol, for every order the unstable sorts may give. `DirLoadsEveryFile`: `symbols_load_dir` on a readable directory returns 0, and every good file in it is loaded, even when an Err entry, a non-UTF-8 name or a malformed file comes before it. `AddressArithmeticExact`: in either build, every `Add`/`Sub` gives the exact result. On overflow a debug build panics and a release build wraps, and never otherwise. |
| `symbols_ties` | violation | `FirstPushedWins`: with two symbols at one address, `get_symbol` may return the last one pushed (the spec says the first). |
| `symbol_loading` | pass | `IndexerIsOnceMap` (refinement): the load path implements `OnceMap`. At most one thread loads a key, the others wait, an `Ok` fills the key for good, an `Err` leaves it vacant, and a caller whose request can advance eventually advances (the `OnceMap`'s weak fairness), across concurrent callers, crashes and restarts. |
| `symbol_loading_torn` | violation | `CachedSymbolsComplete`: a PDB still being written by another process passes `path.exists()` and is parsed and cached. So does one that a failed write or a crash left truncated. |
| `os_api` | pass | `FindNoneMeansAbsent`: `find_process_by_pid` never misses a process that stayed alive during the walk, while the guest forks (also into freed `task_struct`s), exits, frees and renames tasks. It holds for calls during which no `task_struct` was reused. `CStringInBounds`: the C string getters never write past `max_len`, and NUL-terminate whenever they succeed. |
| `callstack` | pass | `VmaLookupExact`: the binary search of `find_vma_by_address` agrees with a look at every VMA. A frame carries the one VMA that holds its ip, and a walk stops on "unmapped page" only when no VMA holds it. The stack words include an ip at a VMA's end (in the gap) and one at a VMA's exact start. `CallerFrameFromTable` (an action property): each unwind step moves sp by the table's frame size. `WalkTerminates`: every walk ends. |
| `callstack_frame_count` | violation | `FrameCountBounded`: a walk that ends `Ok` on a null ip has emitted at most `MaxFrames` frames (spec property 9 says 1024). TLC's trace: three frames in leaf code (no `.pdata` entry, so `caller_sp = sp`), then a null word. Nothing in the loop counts frames. |
| `unwind_info` | pass | `FrameSizeMatches`: every prologue of up to two operations, in v1 and v2, decodes to the sum of its allocations. |
| `unwind_info_chained` | violation | `ChainedParentRead`: with an odd code count, the parent `RUNTIME_FUNCTION` is read from the padding slot. |
| `unwind_info_panic` | violation | `UnwindErrorsSurface`: one guest byte makes `parse_directory_range` reach `.expect("bad unwind")`. |

Each violation is recorded in `PROJECT.json` as a finding. Every property of a passing run has a mutant of the mapped code that TLC must make it fail. The mutants are:

- a 1G offset mask for 2M pages;
- `special_registers` without its vCPU id check;
- `Add<i64>` that takes the carry alone as overflow;
- a name looked up in the address index;
- no step back on an inexact miss;
- a `OnceMap` insert that runs the loader while another thread already runs it;
- a loader `Err` cached as "not found", which poisons the slot;
- a `Formatter` that does not reserve the NUL byte;
- a find sink that forgets an earlier match;
- VMA and function lookups without their `contains` check;
- an unwind step that does not advance sp;
- the `_FAR` operand width read as the near width;
- a task-list walk that does not count its steps, so `MaxIter` never stops it;
- an indexer `insert` in place of `try_insert`, where a later load replaces the module;
- a `load_dir` loop that returns the first entry's error instead of logging it and going on.

## Bounds and why they suffice

- **`PageWalk` / `NativeBackend`:**
  - The page walk has 2-bit offsets, 1-bit indices (two entries per level) and 12 bytes of RAM. The entry words are `{0,5,11,13}`: not present, a table or 4K page, a large page, and a frame just outside RAM. Every early return of the walk is reached at every level.
  - One vCPU, with ids 0 and 1 asked for, so `InvalidId` is reached. Two CR3 values.
  - Four callback sets: all reads; no `read_physical`; the C translation; no special registers.
  - Error codes 5 (EIO-like, gives `Io`) and -1 (gives `OutOfBounds`).
- **`AddrArith`:** every pair of 4-bit operands, in both builds. This reaches every carry and borrow, and every sign of the i64 offset.
- **`Symbols`:** up to 3 pushes over 2 addresses and 2 names. This gives duplicate keys of both kinds, and queries below, between and above the symbols.
- **`SymbolsIndexer`:**
  - Two module names, and three contents: a text symbol file, a PDB whose `load_types` fails (any subset of its two layouts is kept), and a malformed ELF.
  - The same file name in two directories, with different addresses for one symbol, so a replacing load would change `get_addr`.
  - An unreadable file, and a path with no file name.
  - One directory whose `read_dir` gives a malformed file, an Err entry and a non-UTF-8 name before a good file; one with the other copy of the shared name; one that cannot be read.
- **`SymbolLoading`:**
  - Two processes of two threads each, up to two calls per thread, and one restart.
  - That is enough for a waiter on another thread's load, a second process racing the first one's write, and a crash with a partial file.
  - One module suffices, because different `OnceMap` keys never interact.
- **`OsApi`:**
  - Three task nodes (including `init_task`), two pids and two names, one a prefix of the other.
  - With three nodes, a list of two live tasks can be walked to its end. Two pids let a reused node carry a pid different from the task it replaced.
  - `max_len` is 0 or 3 in a 4-byte buffer.
  - The iteration bound is 3. Reuse can make the list look longer than the node count, so the bound's error branch is reached. That branch is also what ends a walk chasing a tail the guest keeps extending.
  - Three kernel profiles: a complete one, one without `init_task`, and one without the `tasks` offset.
- **`CallStack`:**
  - Three VMAs: a PE image with a leaf range, a frame function and a chained child; one whose child's mother is missing; and a non-PE VMA.
  - The two PE images' unwind data: 24 and 20 bytes of `UNWIND_INFO`: one unchained entry with one slot and its padding, and two chained entries with even slot counts (the odd count with a chain is `unwind_info_chained`'s finding).
  - A gap between VMAs, and 4 stack words. The words the guest may store include 6 (A's end, in the gap) and 8 (B's exact start), the two boundaries of the VMA search.
  - `MaxFrames = 2`.
- **`UnwindInfo`:** up to two operations out of nine kinds, one parent, and one corrupting overwrite.

## Fairness

- **`CallStack`:** assumes `WF_vars(Unwind)`. The walk loop has no awaits or locks, so nothing but its own exits stops it. The user callback's rejection and the guest get no fairness.
- **`SymbolLoading`:** assumes `WF_vars(Load(t))` for each thread. Threads are OS threads, and a waiter on the `OnceMap` is woken when the loader finishes. Calls, restarts and the guest are not forced. The abstract `OnceMap` assumes only `WF(Serve(c))` per caller: a caller whose request can advance eventually advances it. The concrete `WF(Load(t))` must imply it, and the `IndexerIsOnceMap` property checks that it does.
- **`OsApi`:** assumes `WF_vars(for_each_process)`. The walk is a loop of the calling thread and blocks on nothing. The guest, the C caller and the getters get no fairness, so the guest may fork and free behind the walk forever. No property of the `os_api` run is a liveness property: whether a call returns is decided by the iteration bound of the spec-modelled Linux walk, not by code under `src/`.
- **The other runs:** check safety only.

## Refinement

`SymbolLoading` defines `Indexer == INSTANCE OnceMap WITH ...`. The mapping is:

- `map[k]` is the process's `slot` when it holds a cached value, and `"vacant"` when it is absent or being loaded.
- `loader[k]` is the thread whose `pc` is in the loader body (exists, read, download, create, write, parse) for that key.
- `req[t]` is the key of a thread that is not idle.
- `ret` is `result`.

A process restart (`Restart`) maps to `Drop`. The loader's inner steps (`CheckExists`, `Download`, `CreateFile`, `WriteFile`, and the moves to reading or parsing) map to stuttering. A waiter takes no step while the entry is loading. TLC checks `Indexer!OnceSpec` as a property, so every concrete step must be an abstract step or a stutter, and the abstract fairness must follow from the concrete one.

## Not modelled, and why

- **Torn page walk:** the walk is evaluated in one step. A walk that read each level while the guest writes in between would add the address, the level and the entry to every state. The `page_walk` run already takes more than two minutes, and there is no separate run for the torn walk.
- **Slab reuse during `find_process_by_pid`:** this is not checked as a violation. Suppose the walk stands on a task that exits, is freed and is reused at the tail. The walk then goes from it back to `init_task`, skips live tasks, and returns `None` for a live pid. TLC finds this 10-step trace when `FindNoneMeansAbsent` is stated without its `~recycled` premise. The list walk is the Linux personality's, which is not under `src/`, and spec 5 accepts reads that race the guest. It is listed as a hazard.
- **`registers`, `other_registers` and `register_by_name`** of the C backend: no modelled client calls them. `register_by_name` does not check the vCPU id, which is listed as a hazard.
- **`parse_kallsyms`:** it calls `SymbolsIndexer::insert_addr`, which does not exist, so it cannot be built.
- **A PDB with failing `load_types`:** modelled, since any subset of its layouts may be kept, but no property is stated. The code means it to be best effort, and nothing under `src/` reads struct layouts from the indexer's modules.
- **The Python bindings beyond their entry points:** `Os::new` calls `profile::parse_symbol_file` and `SymbolsIndexer::read_object_file`. Neither exists, so the crate cannot be built against this source.
- **Hazards without a property:** the project is held to twelve runs. The hazards without a property in PROJECT.json are either outside what the modules reach, or violations that would each need a run of their own. The first kind: the torn page walk, the vCPU switching between the process match and the register read, a `Process` handle used after its walk, the `u32` wraps, the prologue offsets, and `split_at(19)` in `parse_kallsyms`, which cannot be built. The return of the OS API calls is decided by the spec-modelled Linux walk's bound alone. The second kind: an unsorted `.pdata`, an unsorted VMA list (the Windows VAD walk that fills it is not under `src/`), and the unchecked vCPU id of `register_by_name`. Two more have no property because one would only restate a single guard: a later load of a module name never replaces the first (`try_insert`), and a failing `load_types` keeps a partial module, which the code means as best effort.
- **The `Os` trait's other defaults, `Pointer`'s other accessors and the Python glue:** compositions or marshalling with no state of their own.
- **`u32` wraparound** of `start + size` and of `stack_frame_size` in the unwinder: TLC integers are 32-bit signed.
- **The KVM fd-passing patch and the CLI:** pure I/O.
- **The personalities not under `src/`:** only the Linux task-list walk is modelled, from the spec.
