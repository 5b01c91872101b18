----------------------------- MODULE MC_Symbols -----------------------------
(***************************************************************************)
(* Symbols with up to three pushed symbols over two addresses and two      *)
(* names, so that duplicate addresses and duplicate names both occur, and  *)
(* inexact queries below, between, on and above the symbols.  The struct   *)
(* layouts are the shapes DWARF gives for C structs: a plain one           *)
(* (list_head), one whose first two members are bitfields sharing a byte   *)
(* offset, and one ending in a flexible array member placed at the struct  *)
(* size.  Address arithmetic at 4-bit words, in either build: every sum,   *)
(* difference and carry.                                                   *)
(*                                                                         *)
(* Beside the builder, a C client drives the indexer: two module names;    *)
(* the same file name in two directories with different symbols (a text   *)
(* symbol file and a PDB whose types fail half-way), a malformed ELF, an   *)
(* unreadable file, a path with no file name; a directory whose read_dir   *)
(* yields a malformed file, an Err entry and a non-UTF-8 name before a     *)
(* good file, and an unreadable directory.                                 *)
(***************************************************************************)
EXTENDS SymbolsIndexer, AddrArith

ListHead == [name |-> "list_head", size |-> 16,
             fields |-> <<[name |-> "next", offset |-> 0],
                          [name |-> "prev", offset |-> 8]>>]
WithBitfields == [name |-> "flags_struct", size |-> 8,
                  fields |-> <<[name |-> "lo", offset |-> 0],
                               [name |-> "hi", offset |-> 0],
                               [name |-> "count", offset |-> 4]>>]
WithFlexArray == [name |-> "qstr_like", size |-> 8,
                  fields |-> <<[name |-> "len", offset |-> 0],
                               [name |-> "name", offset |-> 8]>>]

MCLayouts == {ListHead, WithBitfields, WithFlexArray}
MCQueryAddrs == 0 .. 4

NoTypes == [n \in {} |-> ListHead]
TextSyms == [magic |-> "text", parses |-> TRUE, types_ok |-> TRUE, types |-> NoTypes,
             syms |-> <<[addr |-> 1, name |-> 1]>>]
PdbSyms == [magic |-> "pdb", parses |-> TRUE, types_ok |-> FALSE,
            types |-> ("list_head" :> ListHead) @@ ("qstr_like" :> WithFlexArray),
            syms |-> <<[addr |-> 3, name |-> 1], [addr |-> 1, name |-> 2]>>]
BadElf == [magic |-> "elf", parses |-> FALSE, types_ok |-> TRUE, types |-> NoTypes,
           syms |-> <<>>]
MCContents == {TextSyms, PdbSyms, BadElf}

FileA == [name |-> "ntoskrnl", readable |-> TRUE, content |-> TextSyms]
FileB == [name |-> "ntoskrnl", readable |-> TRUE, content |-> PdbSyms]
FileBad == [name |-> "hal", readable |-> TRUE, content |-> BadElf]
FileGone == [name |-> "hal", readable |-> FALSE, content |-> TextSyms]
FileRoot == [name |-> NoFileName, readable |-> TRUE, content |-> TextSyms]
FileRaw == [name |-> NonUtf8Name, readable |-> TRUE, content |-> TextSyms]
FileHal == [name |-> "hal", readable |-> TRUE, content |-> TextSyms]
MCFiles == {FileA, FileB, FileBad, FileGone, FileRoot, FileRaw, FileHal}
MCDirs == {[readable |-> TRUE, entries |-> <<FileBad, BadEntry, FileRaw, FileHal>>],
           [readable |-> TRUE, entries |-> <<FileB>>],
           [readable |-> FALSE, entries |-> <<>>]}

(* Symbols in a debug or a release build of icebox-core.                  *)
MCInit == Init /\ BuildInit /\ IndexerInit

(* The builder and the indexer share no state and no property relates     *)
(* them, so their interleavings only repeat states: the builder runs while *)
(* no indexer is live, the indexer while the builder is untouched.         *)
BuilderIdle == syms = <<>> /\ types = [n \in {} |-> n] /\ module = NoModule

MCNext ==
  \/ /\ indexer = "none"
     /\ \/ \E a \in Addrs, n \in Names : Push(a, n)
        \/ \E s \in Layouts : insert_struct(s)
        \/ build
     /\ BuildFixed /\ UNCHANGED ivars
  \/ BuilderIdle /\ IndexerNext /\ BuildFixed /\ UNCHANGED vars

MCSpec == MCInit /\ [][MCNext]_<<vars, debug_assertions, ivars>>
=============================================================================
