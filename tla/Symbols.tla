------------------------------ MODULE Symbols -------------------------------
(***************************************************************************)
(* The per-module symbol and type database of vminer                       *)
(* (vminer-core/src/symbols/mod.rs): ModuleSymbolsBuilder collects         *)
(* (address, name) pairs and struct layouts, build() sorts the pairs into  *)
(* two indexes, one by address and one by name, and ModuleSymbols answers  *)
(* get_symbol, get_symbol_inexact and get_address by binary search over    *)
(* them; StructRef::find_offset_and_size derives a field's size from the   *)
(* next field's offset.                                                    *)
(*                                                                         *)
(* Names are abstracted to members of an ordered set: their order stands   *)
(* for the byte-wise order of the strings the name index is sorted by.     *)
(***************************************************************************)
EXTENDS Integers, Sequences, SequencesExt, FiniteSets, TLC

CONSTANTS
  Addrs,        \* symbol addresses (a small set of naturals)
  Names,        \* symbol names (naturals: their order is the string order)
  QueryAddrs,   \* addresses passed to get_symbol_inexact
  Layouts,      \* struct layouts the DWARF/PDB loaders may insert
  MaxSymbols    \* bound on the number of push() calls

ASSUME Addrs \subseteq Nat /\ Names \subseteq Nat /\ QueryAddrs \subseteq Nat
ASSUME MaxSymbols \in Nat

NoModule == [built |-> FALSE]

VARIABLES
  syms,    \* ModuleSymbolsBuilder.symbols: pushed (addr, name) in order
  types,   \* ModuleSymbolsBuilder.types: struct name -> Struct
  module   \* the ModuleSymbols build() returned, or NoModule

vars == <<syms, types, module>>

-----------------------------------------------------------------------------
(***************************************************************************)
(* slice::binary_search_by_key over the keys of a slice (0-based indices   *)
(* as in Rust).  This is the loop of core::slice since Rust 1.82: it does  *)
(* not stop at the first Equal, it moves `base` right while the key at     *)
(* mid is not greater than the target, so among equal keys it lands on the *)
(* last one.  Result: [found, idx] for Ok(idx) / Err(idx).                 *)
(***************************************************************************)
RECURSIVE BsBase(_, _, _, _)
BsBase(keys, target, base, size) ==
  IF size > 1
  THEN LET half == size \div 2
           mid  == base + half
       IN BsBase(keys, target, IF keys[mid + 1] > target THEN base ELSE mid, size - half)
  ELSE base

binary_search(keys, target) ==
  IF Len(keys) = 0 THEN [found |-> FALSE, idx |-> 0]
  ELSE LET b == BsBase(keys, target, 0, Len(keys))
       IN IF keys[b + 1] = target THEN [found |-> TRUE, idx |-> b]
          ELSE [found |-> FALSE, idx |-> IF keys[b + 1] < target THEN b + 1 ELSE b]

AddrKeys(s) == [i \in 1 .. Len(s) |-> s[i].addr]
NameKeys(s) == [i \in 1 .. Len(s) |-> s[i].name]

None == [some |-> FALSE]
Some(v) == [some |-> TRUE, val |-> v]

(* ModuleSymbols::get_symbol *)
get_symbol(m, addr) ==
  LET r == binary_search(AddrKeys(m.symbols), addr)
  IN IF r.found THEN Some(m.symbols[r.idx + 1].name) ELSE None

\* mutant of get_symbol_inexact: on a miss, the entry at the insertion point
\* is taken instead of the one before it
get_symbol_inexact_no_step_back(m, addr) ==
  LET r == binary_search(AddrKeys(m.symbols), addr)
  IN IF r.found THEN Some(<<m.symbols[r.idx + 1].name, 0>>)
     ELSE IF r.idx >= Len(m.symbols) THEN None
     ELSE Some(<<m.symbols[r.idx + 1].name, addr - m.symbols[r.idx + 1].addr>>)

(* ModuleSymbols::get_symbol_inexact: exact hit with offset 0, otherwise   *)
(* the entry before the insertion point, or None when there is none        *)
(* (i.checked_sub(1)?).                                                    *)
get_symbol_inexact(m, addr) ==
  LET r == binary_search(AddrKeys(m.symbols), addr)
  IN IF r.found THEN Some(<<m.symbols[r.idx + 1].name, 0>>)
     ELSE IF r.idx = 0 THEN None
     ELSE Some(<<m.symbols[r.idx].name, addr - m.symbols[r.idx].addr>>)

\* mutant of get_address: the name is looked up in the address-sorted index
get_address_wrong_index(m, name) ==
  LET r == binary_search(NameKeys(m.symbols), name)
  IN IF r.found THEN Some(m.symbols[r.idx + 1].addr) ELSE None

(* ModuleSymbols::get_address: binary search of the name-sorted index.     *)
get_address(m, name) ==
  LET r == binary_search(NameKeys(m.addresses), name)
  IN IF r.found THEN Some(m.addresses[r.idx + 1].addr) ELSE None

(***************************************************************************)
(* StructRef::find_offset_and_size: the first field of that name; its size *)
(* is the next field's offset (or the struct size for the last field)      *)
(* minus its own offset.  Fields are in declaration order.                 *)
(***************************************************************************)
find_offset_and_size(s, fname) ==
  LET idx == {i \in 1 .. Len(s.fields) : s.fields[i].name = fname}
      i   == CHOOSE i \in idx : \A j \in idx : i <= j
      next == IF i < Len(s.fields) THEN s.fields[i + 1].offset ELSE s.size
  IN IF idx = {} THEN [ok |-> FALSE]
     ELSE [ok |-> TRUE, offset |-> s.fields[i].offset, size |-> next - s.fields[i].offset]

-----------------------------------------------------------------------------
(* The orders sort_unstable_by_key may leave s in: every permutation of s  *)
(* sorted by the key; equal keys may come out in any order.                *)
UnstableSorts(s, Key(_)) ==
  { [i \in 1 .. Len(s) |-> s[p[i]]] :
      p \in {p \in Bijection(1 .. Len(s), 1 .. Len(s)) :
               \A i \in 1 .. Len(s) - 1 : Key(s[p[i]]) <= Key(s[p[i + 1]])} }

ByAddr(e) == e.addr
ByName(e) == e.name

(* ModuleSymbolsBuilder::push (and Extend, which pushes each pair).        *)
Push(addr, name) ==
  /\ module = NoModule
  /\ Len(syms) < MaxSymbols
  /\ syms' = Append(syms, [addr |-> addr, name |-> name])
  /\ UNCHANGED <<types, module>>

(* ModuleSymbolsBuilder::insert_struct: HashMap::insert replaces a struct  *)
(* of the same name.                                                       *)
insert_struct(s) ==
  /\ module = NoModule
  /\ types' = (s.name :> s) @@ types
  /\ UNCHANGED <<syms, module>>

(* ModuleSymbolsBuilder::build: `names` is the pairs sorted by address,    *)
(* `addresses` a clone of it sorted by name.                               *)
build ==
  /\ module = NoModule
  /\ \E names \in UnstableSorts(syms, ByAddr) :
       \E addresses \in UnstableSorts(names, ByName) :
         module' = [built |-> TRUE, symbols |-> names,
                    addresses |-> addresses, types |-> types]
  /\ UNCHANGED <<syms, types>>

Init ==
  /\ syms = <<>>
  /\ types = [n \in {} |-> n]
  /\ module = NoModule

Next ==
  \/ \E a \in Addrs, n \in Names : Push(a, n)
  \/ \E s \in Layouts : insert_struct(s)
  \/ build

(* After build() the ModuleSymbols is immutable: nothing changes state.    *)
Spec == Init /\ [][Next]_vars

-----------------------------------------------------------------------------
Entry == [addr : Addrs, name : Names]

TypeOK ==
  /\ syms \in Seq(Entry) /\ Len(syms) <= MaxSymbols
  /\ DOMAIN types \subseteq {s.name : s \in Layouts}
  /\ module = NoModule \/
       /\ module.built
       /\ module.symbols \in Seq(Entry) /\ module.addresses \in Seq(Entry)

Pushed == {syms[i] : i \in 1 .. Len(syms)}
UniqueName(e) == \A f \in Pushed : f.name = e.name => f = e
UniqueAddr(e) == \A f \in Pushed : f.addr = e.addr => f = e

(***************************************************************************)
(* SymbolRoundTrip (spec testable property 5): after build(), a symbol     *)
(* pushed with a name no other symbol has is found by get_address at its   *)
(* address, and one pushed at an address no other symbol has is found by   *)
(* get_symbol under its name: both indexes hold every pair and each is     *)
(* sorted by the key its binary search compares.                           *)
(***************************************************************************)
SymbolRoundTrip ==
  module.built =>
    \A e \in Pushed :
      /\ UniqueName(e) => get_address(module, e.name) = Some(e.addr)
      /\ UniqueAddr(e) => get_symbol(module, e.addr) = Some(e.name)

(***************************************************************************)
(* InexactLookupCovers (spec testable property 6): for any address q,      *)
(* get_symbol_inexact(q) names a symbol at the greatest symbol address     *)
(* a <= q with offset q - a, and is None when every symbol lies above q.   *)
(***************************************************************************)
InexactLookupCovers ==
  module.built =>
    \A q \in QueryAddrs :
      LET below == {e \in Pushed : e.addr <= q}
          r     == get_symbol_inexact(module, q)
      IN IF below = {} THEN r = None
         ELSE LET a == CHOOSE a \in {e.addr : e \in below} :
                         \A e \in below : e.addr <= a
              IN /\ r.some
                 /\ r.val[1] \in {e.name : e \in {f \in below : f.addr = a}}
                 /\ r.val[2] = q - a

(***************************************************************************)
(* FirstPushedWins (spec section 3: "ties break by insertion order, first  *)
(* wins"): when several symbols share an address, get_symbol returns the   *)
(* name of the one pushed first.                                           *)
(***************************************************************************)
FirstPushedWins ==
  module.built =>
    \A a \in Addrs :
      LET firsts == {i \in 1 .. Len(syms) : syms[i].addr = a}
      IN firsts # {} =>
           get_symbol(module, a) =
             Some(syms[CHOOSE i \in firsts : \A j \in firsts : i <= j].name)
=============================================================================
