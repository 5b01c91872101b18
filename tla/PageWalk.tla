------------------------------ MODULE PageWalk ------------------------------
(***************************************************************************)
(* The x86-64 four-level page-table walk of vminer.                        *)
(*                                                                         *)
(*  - GuestVirtAddr index/offset accessors and the MmPte frame accessors   *)
(*    (icebox-core/src/addr.rs);                                           *)
(*  - the walker virtual_to_physical (src/core/backend.rs);                *)
(*  - default_read_virtual_memory: translate, then one read_physical of    *)
(*    the whole buffer (vminer-core/src/backend.rs).                       *)
(*                                                                         *)
(* Bit widths are constants so that a model can shrink them: a virtual     *)
(* address has four IndexBits-wide table indices above an OffsetBits-wide  *)
(* page offset, an entry is 2^(OffsetBits-IndexBits) bytes (8 = 4096/512   *)
(* on x86-64) and entry words are integers whose bits the accessors mask   *)
(* exactly as the code does.  The guest is the environment: it rewrites    *)
(* page-table entries at any time.                                         *)
(***************************************************************************)
EXTENDS Integers, Sequences, FiniteSets

CONSTANTS
  OffsetBits,      \* width of page_offset              (12 on x86-64)
  IndexBits,       \* width of pml4e/pdpe/pde/pte        (9)
  PageFrameBits,   \* width of the mask in page_frame    (36)
  LargeFrameBits,  \* width of the mask in large_page_frame (31)
  HugeFrameBits,   \* width of the mask in huge_page_frame  (22)
  Cr3FrameBits,    \* width of the mask applied to CR3   (40)
  LargeBit,        \* the bit is_large tests             (7)
  MemSize,         \* bytes of guest RAM; read_physical beyond it fails
  Cr3,             \* the CR3 value the walk starts from
  EntryWords,      \* the entry words the guest may store in a table
  ReadLens         \* buffer lengths passed to read_virtual_memory

ASSUME IndexBits >= 1 /\ OffsetBits > IndexBits /\ LargeBit \in 1 .. OffsetBits - 1
ASSUME MemSize % 2^OffsetBits = 0

VARIABLE mem   \* entry slot (physical address) -> 64-bit word stored there

-----------------------------------------------------------------------------
(* Bit helpers: x & (mask(n) << lo), and bit b of x.                       *)
MaskedField(x, lo, n) == ((x \div 2^lo) % 2^n) * 2^lo
BitOf(x, b) == (x \div 2^b) % 2

PageSize  == 2^OffsetBits
EntrySize == 2^(OffsetBits - IndexBits)
VaBits    == 4 * IndexBits + OffsetBits
VirtAddrs == 0 .. 2^VaBits - 1
Slots     == {a \in 0 .. MemSize - 1 : a % EntrySize = 0}

(* GuestVirtAddr accessors.                                                *)
pml4e(va) == (va \div 2^(OffsetBits + 3 * IndexBits)) % 2^IndexBits
pdpe(va)  == (va \div 2^(OffsetBits + 2 * IndexBits)) % 2^IndexBits
pde(va)   == (va \div 2^(OffsetBits + IndexBits)) % 2^IndexBits
pte(va)   == (va \div 2^OffsetBits) % 2^IndexBits
page_offset(va)       == va % 2^OffsetBits
\* mutant of large_page_offset: the 1G offset mask applied to a 2M page
large_page_offset_1g(va) == va % 2^(OffsetBits + 2 * IndexBits)
large_page_offset(va) == va % 2^(OffsetBits + IndexBits)
huge_page_offset(va)  == va % 2^(OffsetBits + 2 * IndexBits)

(* MmPte accessors.                                                        *)
page_frame(e)       == MaskedField(e, OffsetBits, PageFrameBits)
large_page_frame(e) == MaskedField(e, OffsetBits + IndexBits, LargeFrameBits)
huge_page_frame(e)  == MaskedField(e, OffsetBits + 2 * IndexBits, HugeFrameBits)
is_valid(e) == BitOf(e, 0) = 1
is_large(e) == BitOf(e, LargeBit) = 1

(* read_physical of n bytes: OutOfBounds unless the range is in RAM.       *)
InRam(addr, n) == addr + n <= MemSize

Ram == {a \in 0 .. MemSize : InRam(a, 1)}

(* A read of n bytes at addr succeeds when every byte is readable.         *)
Read(ram, addr, n) == addr .. addr + n - 1 \subseteq ram

(* Outcomes of a translation: Ok(Some(pa)), Ok(None), Err(memory).         *)
Mapped(pa) == [kind |-> "mapped", pa |-> pa]
NotMapped  == [kind |-> "not_mapped"]
MemError   == [kind |-> "mem_error"]

(***************************************************************************)
(* virtual_to_physical: the level-by-level walk with its early returns,    *)
(* from the root in cr3 (get_sregs().cr3).  ram is the set of physical    *)
(* addresses the backend's read_memory can read; a failed read of an entry *)
(* is the `?` on read_memory.                                              *)
(***************************************************************************)
virtual_to_physical(ram, m, cr3, va) ==
  LET pml4e_addr == MaskedField(cr3, OffsetBits, Cr3FrameBits) + EntrySize * pml4e(va)
      e4 == m[pml4e_addr]
      pdpe_addr == page_frame(e4) + EntrySize * pdpe(va)
      e3 == m[pdpe_addr]
      pde_addr == page_frame(e3) + EntrySize * pde(va)
      e2 == m[pde_addr]
      pte_addr == page_frame(e2) + EntrySize * pte(va)
      e1 == m[pte_addr]
  IN IF ~Read(ram, pml4e_addr, EntrySize) THEN MemError
     ELSE IF ~is_valid(e4) THEN NotMapped
     ELSE IF ~Read(ram, pdpe_addr, EntrySize) THEN MemError
     ELSE IF ~is_valid(e3) THEN NotMapped
     ELSE IF is_large(e3) THEN Mapped(huge_page_frame(e3) + huge_page_offset(va))
     ELSE IF ~Read(ram, pde_addr, EntrySize) THEN MemError
     ELSE IF ~is_valid(e2) THEN NotMapped
     ELSE IF is_large(e2) THEN Mapped(large_page_frame(e2) + large_page_offset(va))
     ELSE IF ~Read(ram, pte_addr, EntrySize) THEN MemError
     ELSE IF ~is_valid(e1) THEN NotMapped
     ELSE Mapped(page_frame(e1) + page_offset(va))

(***************************************************************************)
(* default_read_virtual_memory(mmu, va, buf): translate va once, then      *)
(* read_physical(pa, buf).  The outcome records the physical addresses     *)
(* whose bytes land in buf.                                                *)
(***************************************************************************)
default_read_virtual_memory(ram, m, mmu, va, len) ==
  LET t == virtual_to_physical(ram, m, mmu, va)
  IN IF t.kind # "mapped" THEN [kind |-> t.kind]
     ELSE IF ~Read(ram, t.pa, len) THEN [kind |-> "mem_error"]
     ELSE [kind |-> "ok", addrs |-> [k \in 1 .. len |-> t.pa + k - 1]]

-----------------------------------------------------------------------------
(* The guest, not vminer, writes page tables: any entry, any time.         *)
GuestWriteEntry(slot, w) ==
  mem' = [mem EXCEPT ![slot] = w]

Init == mem = [s \in Slots |-> 0]

Next == \E s \in Slots, w \in EntryWords : GuestWriteEntry(s, w)

Spec == Init /\ [][Next]_mem

-----------------------------------------------------------------------------
TypeOK == mem \in [Slots -> EntryWords \cup {0}]

(***************************************************************************)
(* Reference translation, from the spec (section 3 and 4.4) rather than    *)
(* from the walker: the page tables define a set of leaf mappings, found   *)
(* by enumerating every table reachable from CR3.  A leaf covers the       *)
(* virtual range [base, base + 2^width); `target` is the outcome for it.   *)
(* Frames per the spec: 4 KiB -> bits [12,48), 2 MiB -> [21,52),           *)
(* 1 GiB -> [30,52), present = bit 0, large = bit 7 at PDPT/PD level.      *)
(***************************************************************************)
RefFrame(e, width, top) == (e % 2^top) - (e % 2^width)

RECURSIVE RefLeaves(_, _, _, _)
RefLeaves(m, level, table, base) ==
  LET width == OffsetBits + level * IndexBits
      LeavesOf(i) ==
        LET slot == table + EntrySize * i
            lo   == base + i * 2^width
            e    == m[slot]
            Leaf(t) == {[base |-> lo, width |-> width, target |-> t]}
        IN IF ~InRam(slot, EntrySize) THEN Leaf(MemError)
           ELSE IF BitOf(e, 0) = 0 THEN Leaf(NotMapped)
           ELSE IF level = 0
             THEN Leaf(Mapped(RefFrame(e, OffsetBits, OffsetBits + PageFrameBits)))
           ELSE IF level \in {1, 2} /\ BitOf(e, LargeBit) = 1
             THEN Leaf(Mapped(RefFrame(e, width, OffsetBits + IndexBits + LargeFrameBits)))
           ELSE RefLeaves(m, level - 1, RefFrame(e, OffsetBits, OffsetBits + PageFrameBits), lo)
  IN UNION {LeavesOf(i) : i \in 0 .. 2^IndexBits - 1}

RefTranslate(leaves, va) ==
  LET l == CHOOSE l \in leaves : l.base <= va /\ va < l.base + 2^l.width
  IN IF l.target.kind = "mapped" THEN Mapped(l.target.pa + (va - l.base)) ELSE l.target

RootTable(cr3) == RefFrame(cr3, OffsetBits, OffsetBits + Cr3FrameBits)

(***************************************************************************)
(* WalkMatchesTables: for every virtual address and every page table the   *)
(* guest can build, virtual_to_physical returns the outcome the tables     *)
(* define: the same physical address for a mapped page (4K, 2M or 1G, with *)
(* the offset width of its level), NotMapped exactly when an entry on the  *)
(* path is not present, and a memory error when a table lies outside RAM.  *)
(***************************************************************************)
WalkMatchesTables ==
  LET leaves == RefLeaves(mem, 3, RootTable(Cr3), 0)
  IN \A va \in VirtAddrs : virtual_to_physical(Ram, mem, Cr3, va) = RefTranslate(leaves, va)

(***************************************************************************)
(* ReadIsStitched (spec 4.4 and testable property 4): read_virtual_memory  *)
(* of a buffer that crosses a page boundary returns the bytes that         *)
(* separate reads of each page would return, i.e. byte k of the buffer is  *)
(* read from the translation of va + k; and it fails when some byte is     *)
(* not mapped.                                                             *)
(***************************************************************************)
ReadIsStitched ==
  \A va \in VirtAddrs, len \in ReadLens :
    va + len <= 2^VaBits =>
      LET r == default_read_virtual_memory(Ram, mem, Cr3, va, len)
      IN r.kind = "ok" =>
           \A k \in 1 .. len :
             virtual_to_physical(Ram, mem, Cr3, va + k - 1) = Mapped(r.addrs[k])
=============================================================================
