--------------------------- MODULE SymbolsIndexer ---------------------------
(***************************************************************************)
(* The symbol indexer as a C client drives it (native/src/symbols.rs over  *)
(* vminer-core/src/symbols/mod.rs): symbols_new, symbols_load_from_bytes,  *)
(* symbols_load_from_file, symbols_load_dir and symbols_free, down through *)
(* SymbolsIndexer::load_*, ModuleSymbols::from_bytes / from_file and the   *)
(* magic dispatch of ModuleSymbolsBuilder::read_bytes, and get_addr, which *)
(* answers from the first module loaded under a name (OnceMap::try_insert: *)
(* an Err from the loader inserts nothing).                                *)
(*                                                                         *)
(* A file's bytes are a content record: its magic, whether the format's    *)
(* parser accepts it (object/dwarf, PDB::open + load_syms, symbols_file),  *)
(* the (address, name) pairs and struct layouts it holds, and for a PDB    *)
(* whether load_types succeeds.  The C API takes &mut Symbols, so calls    *)
(* are sequential: one action per call.                                    *)
(***************************************************************************)
EXTENDS Symbols

CONSTANTS
  Libs,          \* module names (UTF-8 file names)
  Contents,      \* file contents: [magic, parses, syms, types, types_ok]
  Files,         \* [name, readable, content]; name may be NoFileName, NonUtf8Name
  Dirs,          \* [readable, entries]: entries in read_dir order, BadEntry for an Err
  NoFileName, NonUtf8Name, NonUtf8Path, BadEntry

ASSUME \A c \in Contents :
         \A i, j \in 1 .. Len(c.syms) :
           i # j => c.syms[i].addr # c.syms[j].addr /\ c.syms[i].name # c.syms[j].name

Absent == [built |-> FALSE, absent |-> TRUE]
NoDir == [readable |-> FALSE, entries |-> <<>>]

VARIABLES
  indexer,    \* the Box<Symbols> handle: "live" between symbols_new and symbols_free
  modules,    \* SymbolsIndexer.modules: name -> module, or Absent
  dirCall     \* the last symbols_load_dir: [dir, ret]

ivars == <<indexer, modules, dirCall>>

-----------------------------------------------------------------------------
(* ModuleSymbolsBuilder::read_bytes on a fresh builder, then build(): ELF  *)
(* and text fail as a whole; a PDB fails if its symbols do, and keeps      *)
(* whatever layouts load_types inserted before an error (only warned).     *)
(* With distinct addresses and names, build() has a single result.         *)
Built(s, t) ==
  LET names == CHOOSE o \in UnstableSorts(s, ByAddr) : TRUE
  IN [built |-> TRUE, symbols |-> names,
      addresses |-> CHOOSE o \in UnstableSorts(names, ByName) : TRUE, types |-> t]

from_bytes(c) ==
  IF ~c.parses THEN {}
  ELSE IF c.magic = "pdb" /\ ~c.types_ok
  THEN {Built(c.syms, [n \in D |-> c.types[n]]) : D \in SUBSET DOMAIN c.types}
  ELSE {Built(c.syms, c.types)}

(* ModuleSymbols::from_file: std::fs::read, then as from_bytes.            *)
from_file(f) == IF f.readable THEN from_bytes(f.content) ELSE {}

(* SymbolsIndexer::load_module: the loader runs only for an absent name;   *)
(* its Err leaves the name absent.  The set of maps it may leave.          *)
load_module(mods, name, Loads) ==
  IF mods[name] # Absent \/ Loads = {} THEN {mods}
  ELSE {[mods EXCEPT ![name] = m] : m \in Loads}

(* load_from_file_inner: path.file_name() and to_str() must succeed.       *)
load_from_file_inner(mods, f) ==
  IF f.name \in {NoFileName, NonUtf8Name} THEN {mods}
  ELSE load_module(mods, f.name, from_file(f))

\* mutant of load_dir_inner: the first failing entry ends the loop with its
\* error (a `?` where the code logs and goes on)
RECURSIVE load_dir_abort(_, _)
load_dir_abort(mods, es) ==
  IF es = <<>> THEN {[mods |-> mods, ok |-> TRUE]}
  ELSE IF Head(es) = BadEntry \/ Head(es).name \in {NoFileName, NonUtf8Name}
          \/ (mods[Head(es).name] = Absent /\ from_file(Head(es)) = {})
  THEN {[mods |-> mods, ok |-> FALSE]}
  ELSE UNION {load_dir_abort(m, Tail(es)) : m \in load_from_file_inner(mods, Head(es))}

(* SymbolsIndexer::load_dir_inner: every entry in read_dir order; an Err   *)
(* entry and a failing file are logged and skipped.  [mods, ok] results.   *)
RECURSIVE load_dir_inner(_, _)
load_dir_inner(mods, es) ==
  IF es = <<>> THEN {[mods |-> mods, ok |-> TRUE]}
  ELSE IF Head(es) = BadEntry THEN load_dir_inner(mods, Tail(es))
  ELSE UNION {load_dir_inner(m, Tail(es)) : m \in load_from_file_inner(mods, Head(es))}

(* SymbolsIndexer::get_addr = require_module(lib)?.require_address(name).  *)
get_addr(lib, name) ==
  IF modules[lib] = Absent THEN None ELSE get_address(modules[lib], name)

-----------------------------------------------------------------------------
symbols_new ==
  /\ indexer = "none"
  /\ indexer' = "live"
  /\ modules' = [l \in Libs |-> Absent]
  /\ UNCHANGED dirCall

(* symbols_load_from_bytes: CStr::to_str of the name, then load_from_bytes *)
symbols_load_from_bytes(name, c) ==
  /\ indexer = "live"
  /\ modules' \in IF name = NonUtf8Name THEN {modules}
                  ELSE load_module(modules, name, from_bytes(c))
  /\ UNCHANGED <<indexer, dirCall>>

(* symbols_load_from_file: to_str of the path, then load_from_file_inner;  *)
(* a path that is UTF-8 has a UTF-8 file name.                             *)
symbols_load_from_file(p) ==
  /\ indexer = "live"
  /\ modules' \in IF p = NonUtf8Path THEN {modules}
                  ELSE load_from_file_inner(modules, p)
  /\ UNCHANGED <<indexer, dirCall>>

(* symbols_load_dir: to_str of the path, fs::read_dir(path)?, the loop.    *)
symbols_load_dir(d) ==
  /\ indexer = "live"
  /\ \E r \in IF d = NonUtf8Path \/ ~d.readable
              THEN {[mods |-> modules, ok |-> FALSE]}
              ELSE load_dir_inner(modules, d.entries) :
       /\ modules' = r.mods
       /\ dirCall' = [dir |-> d, ok |-> r.ok]
  /\ UNCHANGED indexer

(* symbols_free drops the indexer and every module it holds.               *)
symbols_free ==
  /\ indexer = "live"
  /\ indexer' = "none"
  /\ modules' = [l \in Libs |-> Absent]
  /\ dirCall' = [dir |-> NoDir, ok |-> TRUE]

IndexerInit ==
  /\ indexer = "none"
  /\ modules = [l \in Libs |-> Absent]
  /\ dirCall = [dir |-> NoDir, ok |-> TRUE]

IndexerNext ==
  \/ symbols_new
  \/ \E n \in Libs \cup {NonUtf8Name}, c \in Contents : symbols_load_from_bytes(n, c)
  \/ \E p \in {f \in Files : f.name # NonUtf8Name} \cup {NonUtf8Path} :
       symbols_load_from_file(p)
  \/ \E d \in Dirs \cup {NonUtf8Path} : symbols_load_dir(d)
  \/ symbols_free

-----------------------------------------------------------------------------
(* symbols_load_dir on a readable directory returns 0, and afterwards      *)
(* every entry of it with a UTF-8 file name and bytes its parser accepts   *)
(* has a module under that name, in spite of unreadable entries and        *)
(* malformed files before it (load_dir_inner only warns about them).       *)
DirLoadsEveryFile ==
  dirCall.dir \notin {NoDir, NonUtf8Path} /\ dirCall.dir.readable =>
    /\ dirCall.ok
    /\ \A i \in 1 .. Len(dirCall.dir.entries) :
         LET f == dirCall.dir.entries[i] IN
         f # BadEntry /\ f.name \in Libs /\ from_file(f) # {} =>
           modules[f.name] # Absent
=============================================================================
