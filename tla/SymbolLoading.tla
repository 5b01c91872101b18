---------------------------- MODULE SymbolLoading ----------------------------
(***************************************************************************)
(* On-demand loading of a module's symbols through the SymbolsIndexer      *)
(* (vminer-core/src/symbols/mod.rs) with the Windows PDB SymbolLoader      *)
(* (icebox/src/os/windows/loader.rs) as the loader.                        *)
(*                                                                         *)
(* load_module(name, f) is OnceMap::try_insert: a cached entry is returned *)
(* as is; otherwise one caller runs f while concurrent callers for the     *)
(* same key wait for it (spec 4.5 and 5), and an Err leaves the key        *)
(* vacant.  f is SymbolLoader::load: if <root>/<name>/<id>/<name> exists   *)
(* it is parsed (ModuleSymbols::from_file), otherwise the PDB is           *)
(* downloaded, written to that path with fs::write, and parsed from the    *)
(* downloaded bytes.                                                       *)
(*                                                                         *)
(* Several vminer processes may share one symbol directory, each with its  *)
(* own indexer; a process may exit or crash at any point and a new one     *)
(* start with an empty indexer and the same directory.                     *)
(*                                                                         *)
(* A PDB file is "absent", "partial" (created and truncated by fs::write,  *)
(* its bytes not yet, or never, all written) or "complete".  An indexer    *)
(* entry is "vacant", "loading", or the cached Arc<Option<ModuleSymbols>>: *)
(* "missing" (None), "complete" (the PDB's symbols) or "incomplete"        *)
(* (symbols parsed from a truncated file).                                 *)
(***************************************************************************)
EXTENDS Naturals, FiniteSets

CONSTANTS
  Procs,        \* vminer processes sharing one symbol directory
  Workers,      \* threads of one process calling load_module
  Modules,      \* PDBs, identified by (name, id): one path each
  DownloadPdb,  \* the download_pdb cargo feature
  MaxCalls,     \* bound on the load_module calls of one thread
  MaxRestarts   \* bound on process exits or crashes

ASSUME DownloadPdb \in BOOLEAN /\ MaxCalls \in Nat /\ MaxRestarts \in Nat

Threads == Procs \X Workers
ProcOf(t) == t[1]

Cached == {"missing", "complete", "incomplete"}
Ok(v) == [ok |-> TRUE, val |-> v]
Err   == [ok |-> FALSE]
NoResult == [ok |-> FALSE, none |-> TRUE]

VARIABLES
  disk,      \* disk[m]: the PDB file of m under the symbol root
  slot,      \* slot[p][m]: the OnceMap entry for m in p's SymbolsIndexer
  pc,        \* pc[t]: where thread t is in load_module
  want,      \* want[t]: the module t is loading
  result,    \* result[t]: what t's last load_module returned
  calls,     \* calls[t]: load_module calls t has made
  restarts   \* process exits/crashes so far

vars == <<disk, slot, pc, want, result, calls, restarts>>

-----------------------------------------------------------------------------
(* A caller asks the indexer for module m (Windows personality, on the     *)
(* first use of a module's symbols).                                       *)
Call(t, m) ==
  /\ pc[t] = "idle"
  /\ calls[t] < MaxCalls
  /\ pc' = [pc EXCEPT ![t] = "insert"]
  /\ want' = [want EXCEPT ![t] = m]
  /\ calls' = [calls EXCEPT ![t] = @ + 1]
  /\ UNCHANGED <<disk, slot, result, restarts>>

(* try_insert finds the key filled: the cached value is returned.          *)
CacheHit(t) ==
  LET v == slot[ProcOf(t)][want[t]]
  IN /\ pc[t] = "insert"
     /\ v \in Cached
     /\ result' = [result EXCEPT ![t] = Ok(v)]
     /\ pc' = [pc EXCEPT ![t] = "idle"]
     /\ UNCHANGED <<disk, slot, want, calls, restarts>>

(* try_insert finds the key vacant: this caller runs the loader, later     *)
(* callers for the key wait (CacheHit and StartLoad are not enabled while  *)
(* the entry is "loading").                                                *)
StartLoad(t) ==
  /\ pc[t] = "insert"
  /\ slot[ProcOf(t)][want[t]] = "vacant"
  /\ slot' = [slot EXCEPT ![ProcOf(t)][want[t]] = "loading"]
  /\ pc' = [pc EXCEPT ![t] = "exists"]
  /\ UNCHANGED <<disk, want, result, calls, restarts>>

\* mutant of Finish: an Err is cached as "not found", as if the loader had
\* returned Ok(None)
Finish_caches_err(t, r) ==
  /\ slot' = [slot EXCEPT ![ProcOf(t)][want[t]] = IF r.ok THEN r.val ELSE "missing"]
  /\ result' = [result EXCEPT ![t] = r]
  /\ pc' = [pc EXCEPT ![t] = "idle"]

(* The loader returned r: try_insert caches an Ok and wakes the waiters;   *)
(* an Err is returned to this caller and leaves the key vacant.            *)
Finish(t, r) ==
  /\ slot' = [slot EXCEPT ![ProcOf(t)][want[t]] = IF r.ok THEN r.val ELSE "vacant"]
  /\ result' = [result EXCEPT ![t] = r]
  /\ pc' = [pc EXCEPT ![t] = "idle"]

(* SymbolLoader::load: path.exists().                                      *)
CheckExists(t) ==
  /\ pc[t] = "exists"
  /\ \/ /\ disk[want[t]] # "absent"
        /\ pc' = [pc EXCEPT ![t] = "read_file"]
        /\ UNCHANGED <<slot, result>>
     \/ /\ disk[want[t]] = "absent"
        /\ DownloadPdb
        /\ pc' = [pc EXCEPT ![t] = "download"]
        /\ UNCHANGED <<slot, result>>
     \/ /\ disk[want[t]] = "absent"
        /\ ~DownloadPdb
        /\ Finish(t, Ok("missing"))
  /\ UNCHANGED <<disk, want, calls, restarts>>

(* ModuleSymbols::from_file: read the file and parse it as a PDB           *)
(* (read_bytes).  A complete file gives the module's symbols.  A truncated *)
(* one fails to open, or opens with symbol streams intact and its type     *)
(* stream cut, which read_bytes only logs ("Failed to load types").        *)
ReadFile(t) ==
  /\ pc[t] = "read_file"
  /\ \/ disk[want[t]] = "complete" /\ Finish(t, Ok("complete"))
     \/ disk[want[t]] = "partial" /\ Finish(t, Err)
     \/ disk[want[t]] = "partial" /\ Finish(t, Ok("incomplete"))
  /\ UNCHANGED <<disk, want, calls, restarts>>

(* download_pdb: ureq::get(url).call() and read_to_end; a network error    *)
(* is returned with `?`.                                                   *)
Download(t) ==
  /\ pc[t] = "download"
  /\ \/ pc' = [pc EXCEPT ![t] = "create"] /\ UNCHANGED <<slot, result>>
     \/ Finish(t, Err)
  /\ UNCHANGED <<disk, want, calls, restarts>>

(* create_dir_all, then fs::write opens the path with O_CREAT|O_TRUNC; a   *)
(* failure is logged and the load goes on.                                 *)
CreateFile(t) ==
  /\ pc[t] = "create"
  /\ \/ disk' = [disk EXCEPT ![want[t]] = "partial"] /\ pc' = [pc EXCEPT ![t] = "write"]
     \/ UNCHANGED disk /\ pc' = [pc EXCEPT ![t] = "parse"]
  /\ UNCHANGED <<slot, want, result, calls, restarts>>

(* fs::write's write_all of the downloaded bytes; an error (disk full,     *)
(* I/O error) is logged and leaves the truncated file in place.            *)
WriteFile(t) ==
  /\ pc[t] = "write"
  /\ \/ disk' = [disk EXCEPT ![want[t]] = "complete"]
     \/ UNCHANGED disk
  /\ pc' = [pc EXCEPT ![t] = "parse"]
  /\ UNCHANGED <<slot, want, result, calls, restarts>>

(* ModuleSymbols::from_bytes(&pdb): the downloaded bytes, not the file.    *)
ParseDownload(t) ==
  /\ pc[t] = "parse"
  /\ Finish(t, Ok("complete"))
  /\ UNCHANGED <<disk, want, calls, restarts>>

(* Process p exits or crashes, whatever its threads were doing; the next   *)
(* run starts with an empty indexer.  Files it wrote stay as they are.     *)
Restart(p) ==
  /\ restarts < MaxRestarts
  /\ restarts' = restarts + 1
  /\ slot' = [slot EXCEPT ![p] = [m \in Modules |-> "vacant"]]
  /\ pc' = [t \in Threads |-> IF ProcOf(t) = p THEN "idle" ELSE pc[t]]
  /\ result' = [t \in Threads |-> IF ProcOf(t) = p THEN NoResult ELSE result[t]]
  /\ UNCHANGED <<disk, want, calls>>

-----------------------------------------------------------------------------
Init ==
  /\ disk = [m \in Modules |-> "absent"]
  /\ slot = [p \in Procs |-> [m \in Modules |-> "vacant"]]
  /\ pc = [t \in Threads |-> "idle"]
  /\ want = [t \in Threads |-> CHOOSE m \in Modules : TRUE]
  /\ result = [t \in Threads |-> NoResult]
  /\ calls = [t \in Threads |-> 0]
  /\ restarts = 0

(* The steps of thread t inside one load_module call.                      *)
Load(t) ==
  \/ CacheHit(t) \/ StartLoad(t) \/ CheckExists(t) \/ ReadFile(t)
  \/ Download(t) \/ CreateFile(t) \/ WriteFile(t) \/ ParseDownload(t)

Next ==
  \/ \E t \in Threads, m \in Modules : Call(t, m)
  \/ \E t \in Threads : Load(t)
  \/ \E p \in Procs : Restart(p)

(* Threads are OS threads: one that can step eventually does; a waiter is  *)
(* woken when the loader finishes.  Calls and restarts are not forced.     *)
Spec == Init /\ [][Next]_vars /\ \A t \in Threads : WF_vars(Load(t))

-----------------------------------------------------------------------------
TypeOK ==
  /\ disk \in [Modules -> {"absent", "partial", "complete"}]
  /\ slot \in [Procs -> [Modules -> Cached \cup {"vacant", "loading"}]]
  /\ pc \in [Threads -> {"idle", "insert", "exists", "read_file", "download",
                         "create", "write", "parse"}]
  /\ calls \in [Threads -> 0 .. MaxCalls]

(***************************************************************************)
(* CachedSymbolsComplete (spec 4.8: the loader returns the module's parsed *)
(* ModuleSymbols or None, and the result is cached): no indexer caches     *)
(* symbols parsed from a PDB file that was not completely written.         *)
(***************************************************************************)
CachedSymbolsComplete ==
  \A p \in Procs, m \in Modules : slot[p][m] # "incomplete"

-----------------------------------------------------------------------------
(***************************************************************************)
(* The refinement mapping to OnceMap: a key is filled when its entry holds *)
(* a cached value ("loading" is vacant there), its loader is the thread    *)
(* inside SymbolLoader::load for it, and a thread has a request while it   *)
(* is inside load_module.  The file system and the call counts are hidden. *)
(***************************************************************************)
LoaderPcs == {"exists", "read_file", "download", "create", "write", "parse"}

LoaderOf(k) ==
  LET ts == {t \in Threads : ProcOf(t) = k[1] /\ want[t] = k[2] /\ pc[t] \in LoaderPcs}
  IN IF ts = {} THEN <<>> ELSE CHOOSE t \in ts : TRUE

Indexer == INSTANCE OnceMap WITH
  Indexers <- Procs, Names <- Modules, Callers <- Threads, Values <- Cached,
  IndexerOf <- ProcOf,
  map    <- [k \in Procs \X Modules |->
               IF slot[k[1]][k[2]] \in Cached THEN slot[k[1]][k[2]] ELSE "vacant"],
  loader <- [k \in Procs \X Modules |-> LoaderOf(k)],
  req    <- [t \in Threads |-> IF pc[t] = "idle" THEN <<>> ELSE <<ProcOf(t), want[t]>>],
  ret    <- result

(***************************************************************************)
(* IndexerIsOnceMap (spec 4.5 and 9): load_module over SymbolLoader, with  *)
(* concurrent callers, several processes and crashes, implements the       *)
(* insert-once map: a thread runs the loader only for a vacant key nobody  *)
(* else loads, an Ok fills the key for good, an Err leaves it vacant for a *)
(* retry, a filled key is answered from the cache, and every request is    *)
(* answered.                                                               *)
(***************************************************************************)
IndexerIsOnceMap == Indexer!OnceSpec
=============================================================================
