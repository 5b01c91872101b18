---------------------------- MODULE NativeBackend ----------------------------
(***************************************************************************)
(* The backend a C program builds for vminer, and the way a client reads  *)
(* guest memory through it.                                                *)
(*                                                                         *)
(*  - X86_64Backend (native/src/backend.rs): a table of optional C         *)
(*    callbacks; read_physical and read_virtual_memory turn a callback's   *)
(*    int into a Rust error, the vCPU accessors check the vCPU id before   *)
(*    calling theirs, Drop calls the C drop callback.                      *)
(*  - backend_make wraps it in Arc<RuntimeBackend<_>>; RuntimeBackend and  *)
(*    the Arc impl (vminer-core/src/backend.rs) forward every call.        *)
(*  - A client (the Linux personality, or a Python user through            *)
(*    Backend.read_virtual_memory) reads virtual memory of a vCPU's        *)
(*    address space: pgd(vcpu) from the special registers, then            *)
(*    read_virtual_memory(pgd, va, buf).                                   *)
(*                                                                         *)
(* The C callbacks are the environment: read_physical succeeds on RAM and  *)
(* returns the backend's error code elsewhere; the guest loads CR3 (a      *)
(* context switch) and rewrites page tables at any time.                   *)
(***************************************************************************)
EXTENDS PageWalk

CONSTANTS
  VcpuIds,       \* vCPU ids a client may pass, some >= VcpusCount
  VcpusCount,    \* X86_64Backend.vcpus_count
  Cr3Values,     \* CR3 values the guest may load
  CallbackSets,  \* which optional callbacks a C caller fills in
  ErrCodes,      \* what the C read callbacks return on failure (non-zero)
  Std            \* the std cargo feature

ASSUME VcpusCount \in Nat /\ Std \in BOOLEAN /\ 0 \notin ErrCodes

NoBackend == [made |-> FALSE]

VARIABLES
  cr3,       \* cr3[i]: the CR3 vCPU i has loaded
  backend,   \* the X86_64Backend behind the Arc: [made, cb, code], or NoBackend
  cdata      \* the C caller's data: "none", "live", "released" or "leaked"

nvars == <<mem, cr3, backend, cdata>>

OkR(v)  == [ok |-> TRUE, val |-> v]
ErrR(e) == [ok |-> FALSE, err |-> e]

-----------------------------------------------------------------------------
(* X86_64Backend::read_physical: no callback is Unsupported; 0 is Ok, a    *)
(* positive code an OS error (std only), anything else OutOfBounds.        *)
read_physical(addr, n) ==
  IF "read_physical" \notin backend.cb THEN ErrR("Unsupported")
  ELSE IF InRam(addr, n) THEN OkR(0)
  ELSE IF Std /\ backend.code > 0 THEN ErrR("Io")
  ELSE ErrR("OutOfBounds")

(* The physical addresses this backend's read_physical can read.          *)
PhysRam == {a \in 0 .. MemSize : read_physical(a, 1).ok}

(* The error of this backend's failing reads (they all fail alike).        *)
PhysErr == read_physical(MemSize, 1).err

\* mutant of special_registers: the vCPU id is not checked, so the C
\* callback indexes past its array (any CR3 the guest may hold)
special_registers_unchecked(i) ==
  IF "special_registers" \notin backend.cb THEN {ErrR("Unsupported")}
  ELSE IF i < VcpusCount THEN {OkR(cr3[i])}
  ELSE {OkR(v) : v \in Cr3Values}

(* X86_64Backend::special_registers: InvalidId for an id >= vcpus_count,   *)
(* Unsupported without a callback, else the callback's snapshot (its CR3). *)
(* The set of results a call may return.                                   *)
special_registers(i) ==
  IF i >= VcpusCount THEN {ErrR("InvalidId")}
  ELSE IF "special_registers" \notin backend.cb THEN {ErrR("Unsupported")}
  ELSE {OkR(cr3[i])}

(* RuntimeBackend::special_registers and RuntimeBackend::pgd forward to    *)
(* the backend; pgd is CR3 & mask(40) << 12 (spec 4.3).                    *)
pgd(i) ==
  { IF r.ok THEN OkR(MaskedField(r.val, OffsetBits, Cr3FrameBits)) ELSE r :
      r \in special_registers(i) }

(* X86_64Backend::read_virtual_memory: the C callback when there is one    *)
(* (it translates and reads itself, and only returns an int), otherwise    *)
(* default_read_virtual_memory, whose read_physical is the C callback.     *)
x86_read_virtual_memory(mmu, va, len) ==
  LET d == default_read_virtual_memory(PhysRam, mem, mmu, va, len)
  IN IF "read_virtual" \in backend.cb
     THEN IF default_read_virtual_memory(Ram, mem, mmu, va, len).kind = "ok"
          THEN [kind |-> "ok"]
          ELSE [kind |-> "mem_error",
                err |-> IF Std /\ backend.code > 0 THEN "Io" ELSE "OutOfBounds"]
     ELSE IF d.kind = "mem_error" THEN [kind |-> "mem_error", err |-> PhysErr]
     ELSE d

(* The Arc<RuntimeBackend<X86_64Backend>> a client holds: both layers      *)
(* forward read_virtual_memory unchanged.                                  *)
runtime_read_virtual_memory(mmu, va, len) == x86_read_virtual_memory(mmu, va, len)

arc_read_virtual_memory(mmu, va, len) == runtime_read_virtual_memory(mmu, va, len)

(* C read_virtual_memory(os, mmu, addr, buf): the personality reads        *)
(* through its backend; wrap_unit_result makes an Err a non-null Error.    *)
c_read_virtual_memory(mmu, va, len) == arc_read_virtual_memory(mmu, va, len)

(* Backend::virtual_to_physical (the trait's default): the architecture's  *)
(* walk over this backend, whose entry reads are read_physical.            *)
backend_virtual_to_physical(mmu, va) ==
  LET t == virtual_to_physical(PhysRam, mem, mmu, va)
  IN IF t.kind = "mem_error" THEN [kind |-> "mem_error", err |-> PhysErr] ELSE t

(* RuntimeBackend and the Arc impl forward virtual_to_physical.            *)
runtime_virtual_to_physical(mmu, va) == backend_virtual_to_physical(mmu, va)

arc_virtual_to_physical(mmu, va) == runtime_virtual_to_physical(mmu, va)

(* Python Backend.virtual_to_physical: `.valid()?` turns Ok(None) (not     *)
(* mapped) into an error, so only a mapped address is returned.            *)
py_virtual_to_physical(mmu, va) == arc_virtual_to_physical(mmu, va)

(* A client reads len bytes at va in vCPU i's address space: pgd(i), then  *)
(* read_virtual_memory (Python Backend.read_virtual_memory, or the C       *)
(* read_virtual_memory through an Os).                                    *)
ReadVcpu(i, va, len) ==
  { IF p.ok THEN c_read_virtual_memory(p.val, va, len)
    ELSE [kind |-> "vcpu_error", err |-> p.err] : p \in pgd(i) }

(* A Python client translates va in vCPU i's address space.                *)
TranslateVcpu(i, va) ==
  { IF p.ok THEN py_virtual_to_physical(p.val, va)
    ELSE [kind |-> "vcpu_error", err |-> p.err] : p \in pgd(i) }

-----------------------------------------------------------------------------
(* Backend::new: the C struct moved into Arc<RuntimeBackend<_>>.           *)
Backend_new(cb, code) == [made |-> TRUE, cb |-> cb, code |-> code]

(* X86_64Backend::drop: the C drop callback, if there is one, gets data.   *)
DropData(cb) == IF "drop" \in cb THEN "released" ELSE "leaked"

(* backend_make(backend): Backend::new.                                    *)
backend_make(cb, code) ==
  /\ ~backend.made
  /\ backend' = Backend_new(cb, code)
  /\ cdata' = "live"
  /\ UNCHANGED <<mem, cr3>>

(* backend_free (or the last Arc dropped): X86_64Backend::drop calls the   *)
(* C drop callback if there is one.                                        *)
backend_free ==
  /\ backend.made
  /\ backend' = NoBackend
  /\ cdata' = DropData(backend.cb)
  /\ UNCHANGED <<mem, cr3>>

(* The guest: a context switch on vCPU i loads a new CR3.                  *)
LoadCr3(i, v) ==
  /\ cr3' = [cr3 EXCEPT ![i] = v]
  /\ UNCHANGED <<mem, backend, cdata>>

NativeInit ==
  /\ Init
  /\ cr3 \in [0 .. VcpusCount - 1 -> Cr3Values]
  /\ backend = NoBackend
  /\ cdata = "none"

NativeNext ==
  \/ \E cb \in CallbackSets, code \in ErrCodes : backend_make(cb, code)
  \/ backend_free
  \/ \E s \in Slots, w \in EntryWords :
       GuestWriteEntry(s, w) /\ UNCHANGED <<cr3, backend, cdata>>
  \/ \E i \in 0 .. VcpusCount - 1, v \in Cr3Values : LoadCr3(i, v)

NativeSpec == NativeInit /\ [][NativeNext]_nvars

-----------------------------------------------------------------------------
(***************************************************************************)
(* ClientReadsMatchTables (spec 4.2-4.4 and 7): a client's translation or  *)
(* read in vCPU i's address space through the C backend fails with         *)
(* InvalidId for an id the backend does not have and Unsupported when the  *)
(* backend cannot give registers; otherwise it follows the page tables     *)
(* rooted at the CR3 that vCPU has loaded now: NotMapped where they map    *)
(* nothing (unless the C backend translates itself, which can only report  *)
(* a memory error), the mapped physical address when it is readable, and   *)
(* the backend's own memory error otherwise.                               *)
(***************************************************************************)
ClientReadsMatchTables ==
  backend.made =>
    \A i \in VcpuIds :
     LET leaves == RefLeaves(mem, 3, RootTable(cr3[i]), 0)
         VcpuErr == IF i >= VcpusCount THEN "InvalidId" ELSE "Unsupported"
         vcpuOk  == i < VcpusCount /\ "special_registers" \in backend.cb
         PhysCode == IF Std /\ backend.code > 0 THEN "Io" ELSE "OutOfBounds"
         walks    == "read_physical" \in backend.cb
     IN /\ \A va \in VirtAddrs :
             \A r \in TranslateVcpu(i, va) :
               LET t == RefTranslate(leaves, va)
               IN IF ~vcpuOk THEN r = [kind |-> "vcpu_error", err |-> VcpuErr]
                  ELSE IF ~walks THEN r = [kind |-> "mem_error", err |-> "Unsupported"]
                  ELSE IF t.kind = "mem_error" THEN r = [kind |-> "mem_error", err |-> PhysCode]
                  ELSE r = t
        /\ \A va \in VirtAddrs, len \in ReadLens :
             va + len <= 2^VaBits =>
               \A r \in ReadVcpu(i, va, len) :
                 LET t   == RefTranslate(leaves, va)
                     own == "read_virtual" \in backend.cb
                     err == IF ~own /\ ~walks THEN "Unsupported" ELSE PhysCode
                 IN IF ~vcpuOk THEN r = [kind |-> "vcpu_error", err |-> VcpuErr]
                    ELSE IF (own \/ walks) /\ t.kind = "mapped" /\ InRam(t.pa, len)
                      THEN r.kind = "ok" /\ (~own => r.addrs[1] = t.pa)
                    ELSE IF walks /\ t.kind = "not_mapped" /\ ~own
                      THEN r.kind = "not_mapped"
                    ELSE r = [kind |-> "mem_error", err |-> err]
=============================================================================
