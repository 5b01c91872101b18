----------------------------- MODULE CallStack ------------------------------
(***************************************************************************)
(* The Windows x64 stack walk of vminer (icebox/src/os/windows/callstack.rs)*)
(*                                                                         *)
(* Windows::iter_process_callstack finds the vCPU running the process and  *)
(* takes its rip/rsp; iter_callstack builds a Context (the process's VMAs, *)
(* each with an empty lazy cell for its unwind data) and loops: stop on a  *)
(* kernel ip, find the VMA of ip (binary search), hand the frame to the    *)
(* callback, load the VMA's unwind data once, find the function entry of   *)
(* ip (binary search by start), move sp past the function's frame (plus    *)
(* the chained parent's frame), read the return address there, step past *)
(* it, and stop on a null ip.                                              *)
(*                                                                         *)
(* Addresses are in 8-byte words: a frame size of n words is n*8 bytes and *)
(* `caller_sp + 8u64` is caller_sp + 1.  Each VMA's unwind data is given   *)
(* as the FunctionEntry list init_unwind_data builds from its image       *)
(* (MC_CallStack decodes it with UnwindInfo's parse_directory_range), and *)
(* beside it the frames the compiler declared, which the walk is checked  *)
(* against.  pe is FALSE when the image does not parse.  The guest keeps running: it may rewrite stack words at any  *)
(* time, since the backend does not pause it between reads.               *)
(***************************************************************************)
EXTENDS Integers, Sequences, FiniteSets

CONSTANTS
  Vmas,          \* Context.vmas: <<[start, end, pe, unwind]>>: pe is FALSE
                 \*   when the image does not parse, unwind the sequence of
                 \*   FunctionEntry [start, end, size, mother] otherwise
  Frames,        \* per VMA, the entries [start, end, size, mother] the
                 \*   compiler declared: what its unwind data must decode to
  KernelStart,   \* first kernel address: is_kernel() holds from here on
  StackWords,    \* addresses of the readable stack words
  StackValues,   \* the words the guest may store on its stack
  StartFrames,   \* [ip, sp] pairs the vCPU of the process may hold
  MaxFrames      \* the frame bound of spec property 9 (1024), scaled

ASSUME \A i \in 1 .. Len(Vmas) : Vmas[i].start < Vmas[i].end

VARIABLES
  stack,   \* guest memory: stack word -> value
  pc,      \* "idle", "walking" or "done"
  frame,   \* the StackFrame being built: [ip, sp]
  last,    \* the last frame handed to the callback: [ip, sp, vma]
  cache,   \* VMA index -> "empty" | "loaded": the OnceCell unwind_data
  result,  \* outcome of the last process_callstack call
  nframes  \* frames handed to the callback by the current call

vars == <<stack, pc, frame, last, cache, result, nframes>>

NoFrame == [ip |-> 0, sp |-> 0, vma |-> 0]

NoMother == -1   \* FunctionEntry.mother = None (offsets are u32)

-----------------------------------------------------------------------------
is_kernel(a) == a >= KernelStart

Contains(r, a) == r.start <= a /\ a < r.end

(***************************************************************************)
(* The binary search of core::slice (Rust >= 1.82) over the keys of a      *)
(* sequence, 0-based as in Rust: [found, idx] for Ok(idx) / Err(idx).      *)
(***************************************************************************)
RECURSIVE BsBase(_, _, _, _)
BsBase(keys, target, base, size) ==
  IF size > 1
  THEN LET half == size \div 2
           mid  == base + half
       IN BsBase(keys, target, IF keys[mid + 1] > target THEN base ELSE mid, size - half)
  ELSE base

binary_search(keys, target) ==
  IF Len(keys) = 0 THEN [found |-> FALSE, idx |-> 0]
  ELSE LET b == BsBase(keys, target, 0, Len(keys))
       IN IF keys[b + 1] = target THEN [found |-> TRUE, idx |-> b]
          ELSE [found |-> FALSE, idx |-> IF keys[b + 1] < target THEN b + 1 ELSE b]

Starts(s) == [i \in 1 .. Len(s) |-> s[i].start]

\* mutant of find_vma_by_address: the VMA before the insertion point is
\* taken without checking that it contains the address
find_vma_by_address_unchecked(addr) ==
  LET r == binary_search(Starts(Vmas), addr)
  IN IF r.found THEN r.idx + 1 ELSE r.idx

(* Context::find_vma_by_address: index (1-based) of the VMA, 0 for None.   *)
find_vma_by_address(addr) ==
  LET r == binary_search(Starts(Vmas), addr)
  IN IF r.found THEN r.idx + 1
     ELSE IF r.idx = 0 THEN 0
     ELSE IF Contains(Vmas[r.idx], addr) THEN r.idx
     ELSE 0

\* mutant of find_by_offset: the entry before the insertion point is taken
\* without checking that it contains the offset
find_by_offset_unchecked(fns, offset) ==
  LET r == binary_search(Starts(fns), offset)
  IN IF r.found THEN r.idx + 1 ELSE r.idx

(* UnwindData::find_by_offset: index (1-based) of the entry, 0 for None.   *)
find_by_offset(fns, offset) ==
  LET r == binary_search(Starts(fns), offset)
  IN IF r.found THEN r.idx + 1
     ELSE IF r.idx = 0 THEN 0
     ELSE IF Contains(fns[r.idx], offset) THEN r.idx
     ELSE 0

-----------------------------------------------------------------------------
(***************************************************************************)
(* The Context is a snapshot: its lookups depend on nothing the guest      *)
(* changes during the walk, so they are tabulated once per address (VMA)  *)
(* and per VMA offset (function entry).                                    *)
(***************************************************************************)
UserAddrs == 0 .. KernelStart - 1
VmaAt == [a \in UserAddrs |-> find_vma_by_address(a)]
FnAt  == [v \in 1 .. Len(Vmas) |->
            [off \in UserAddrs |-> find_by_offset(Vmas[v].unwind, off)]]

(* The loop body's view of the current frame.                              *)
CurVma    == VmaAt[frame.ip]
CurUnwind == Vmas[CurVma].unwind
CurFn     == FnAt[CurVma][frame.ip - Vmas[CurVma].start]
HasMother == CurFn # 0 /\ CurUnwind[CurFn].mother # NoMother
MotherFn  == FnAt[CurVma][CurUnwind[CurFn].mother]

(* caller_sp: past the function's frame and its chained parent's, or sp   *)
(* itself for a leaf function (no entry).                                  *)
CallerSp ==
  IF CurFn = 0 THEN frame.sp
  ELSE frame.sp + CurUnwind[CurFn].size
         + (IF HasMother THEN CurUnwind[MotherFn].size ELSE 0)

Finish(r) == /\ pc' = "done"
             /\ result' = r

(* Windows::iter_process_callstack and Context::new: the vCPU whose        *)
(* current process is the target gives rip/rsp; none -> "Not a running    *)
(* process".  A new Context starts with every unwind cell empty.           *)
iter_process_callstack ==
  /\ pc # "walking"
  /\ \/ \E f \in StartFrames :
          /\ frame' = f
          /\ pc' = "walking"
          /\ result' = "running"
          /\ cache' = [i \in 1 .. Len(Vmas) |-> "empty"]
          /\ last' = NoFrame
          /\ nframes' = 0
     \/ /\ Finish("not_running")
        /\ UNCHANGED <<frame, cache, last, nframes>>
  /\ UNCHANGED stack

(* if frame.instruction_pointer.is_kernel() -> Err("encountered kernel IP")*)
KernelIp ==
  /\ pc = "walking"
  /\ is_kernel(frame.ip)
  /\ Finish("kernel_ip")
  /\ UNCHANGED <<stack, frame, last, cache, nframes>>

(* find_vma_by_address(ip) is None -> Err("encountered unmapped page")     *)
UnmappedIp ==
  /\ pc = "walking"
  /\ ~is_kernel(frame.ip)
  /\ CurVma = 0
  /\ Finish("unmapped")
  /\ UNCHANGED <<stack, frame, last, cache, nframes>>

(* The frame counter saturates one past MaxFrames: enough to see the bound *)
(* exceeded while keeping the state space finite.                          *)
CountFrame(n) == IF n > MaxFrames THEN n ELSE n + 1

(* f(&frame)? returns the callback's error: the walk stops there.          *)
CallbackRejects ==
  /\ pc = "walking"
  /\ ~is_kernel(frame.ip)
  /\ CurVma # 0
  /\ last' = [ip |-> frame.ip, sp |-> frame.sp, vma |-> CurVma]
  /\ nframes' = CountFrame(nframes)
  /\ Finish("callback")
  /\ UNCHANGED <<stack, frame, cache>>

(* The frame was accepted by the callback; the unwind data is read next.   *)
Emitted ==
  /\ pc = "walking"
  /\ ~is_kernel(frame.ip)
  /\ CurVma # 0
  /\ last' = [ip |-> frame.ip, sp |-> frame.sp, vma |-> CurVma]
  /\ nframes' = CountFrame(nframes)

(* get_unwind_data fails: get_or_try_init leaves the cell empty and the    *)
(* call fails with "cannot get unwind data".                               *)
NoUnwindData ==
  /\ Emitted
  /\ ~Vmas[CurVma].pe
  /\ Finish("no_unwind_data")
  /\ UNCHANGED <<stack, frame, cache>>

(* The chained parent is not in the unwind data: "cannot find mother".     *)
NoMotherFunction ==
  /\ Emitted
  /\ Vmas[CurVma].pe
  /\ HasMother /\ MotherFn = 0
  /\ cache' = [cache EXCEPT ![CurVma] = "loaded"]
  /\ Finish("no_mother")
  /\ UNCHANGED <<stack, frame>>

(* ctx.read_value(caller_sp)? fails: the word is not mapped.               *)
ReturnAddressUnreadable ==
  /\ Emitted
  /\ Vmas[CurVma].pe
  /\ ~(HasMother /\ MotherFn = 0)
  /\ CallerSp \notin StackWords
  /\ cache' = [cache EXCEPT ![CurVma] = "loaded"]
  /\ Finish("read_error")
  /\ UNCHANGED <<stack, frame>>

\* mutant of UnwindFrame: sp is left at caller_sp instead of caller_sp + 8
UnwindFrame_no_advance ==
  /\ Emitted
  /\ Vmas[CurVma].pe
  /\ ~(HasMother /\ MotherFn = 0)
  /\ CallerSp \in StackWords
  /\ cache' = [cache EXCEPT ![CurVma] = "loaded"]
  /\ frame' = [ip |-> stack[CallerSp], sp |-> CallerSp]
  /\ IF stack[CallerSp] = 0 THEN Finish("ok") ELSE UNCHANGED <<pc, result>>
  /\ UNCHANGED stack

(* The return address is read at caller_sp and sp moves past it; a null   *)
(* ip ends the walk with Ok(()).                                           *)
UnwindFrame ==
  /\ Emitted
  /\ Vmas[CurVma].pe
  /\ ~(HasMother /\ MotherFn = 0)
  /\ CallerSp \in StackWords
  /\ cache' = [cache EXCEPT ![CurVma] = "loaded"]
  /\ frame' = [ip |-> stack[CallerSp], sp |-> CallerSp + 1]
  /\ IF stack[CallerSp] = 0 THEN Finish("ok") ELSE UNCHANGED <<pc, result>>
  /\ UNCHANGED stack

(* The guest runs on: any stack word may change between two reads.        *)
GuestWriteStack(a, v) ==
  /\ stack' = [stack EXCEPT ![a] = v]
  /\ UNCHANGED <<pc, frame, last, cache, result, nframes>>

(* One iteration of the loop in iter_callstack once the callback said Ok. *)
Unwind ==
  \/ KernelIp \/ UnmappedIp
  \/ NoUnwindData \/ NoMotherFunction \/ ReturnAddressUnreadable \/ UnwindFrame

WalkStep == Unwind \/ CallbackRejects

Init ==
  /\ stack \in [StackWords -> StackValues]
  /\ pc = "idle"
  /\ frame = [ip |-> 0, sp |-> 0]
  /\ last = NoFrame
  /\ cache = [i \in 1 .. Len(Vmas) |-> "empty"]
  /\ result = "none"
  /\ nframes = 0

Next ==
  \/ iter_process_callstack
  \/ WalkStep
  \/ \E a \in StackWords, v \in StackValues : GuestWriteStack(a, v)

(* The walk is a loop of a single thread that blocks on nothing: once     *)
(* started it keeps taking steps.  Whether the callback rejects a frame is *)
(* the caller's choice, so fairness is not assumed for CallbackRejects.    *)
Spec == Init /\ [][Next]_vars /\ WF_vars(Unwind)

-----------------------------------------------------------------------------
Results == {"none", "running", "not_running", "kernel_ip", "unmapped", "callback",
            "no_unwind_data", "no_mother", "read_error", "ok"}

TypeOK ==
  /\ stack \in [StackWords -> StackValues]
  /\ pc \in {"idle", "walking", "done"}
  /\ frame \in [ip : Nat, sp : Nat]
  /\ last \in [ip : Nat, sp : Nat, vma : 0 .. Len(Vmas)]
  /\ cache \in [1 .. Len(Vmas) -> {"empty", "loaded"}]
  /\ result \in Results
  /\ nframes \in 0 .. MaxFrames + 1

(* The VMA that holds address a, found by looking at every VMA rather     *)
(* than by binary search; 0 when none does.                                *)
RefVma(a) ==
  IF \E i \in 1 .. Len(Vmas) : Contains(Vmas[i], a)
  THEN CHOOSE i \in 1 .. Len(Vmas) : Contains(Vmas[i], a)
  ELSE 0

(***************************************************************************)
(* VmaLookupExact: the binary search of find_vma_by_address agrees with a *)
(* look at every VMA, both ways: a frame handed to the callback carries    *)
(* the one VMA that holds its ip (never the VMA below a gap, nor one whose *)
(* end is the ip), and a walk ends with "encountered unmapped page" only   *)
(* when no VMA holds the ip (never for an ip at a VMA's exact start).      *)
(***************************************************************************)
VmaLookupExact ==
  /\ last.vma # 0 => last.vma = RefVma(last.ip)
  /\ result = "unmapped" => RefVma(frame.ip) = 0

(***************************************************************************)
(* Reference for one unwind step, from the spec (4.9, walk step 4): the   *)
(* function the compiler declared whose [start, end) holds ip - vma.start *)
(* (found by looking at every entry, not by binary search); the caller's  *)
(* sp is sp plus its frame size plus the frame size of the entry the       *)
(* chained parent starts at, or sp for a leaf.                             *)
(***************************************************************************)
RefCallerSp(ip, sp) ==
  LET v   == CHOOSE i \in 1 .. Len(Vmas) : Contains(Vmas[i], ip)
      fns == Frames[v]
      off == ip - Vmas[v].start
      hit == {i \in 1 .. Len(fns) : Contains(fns[i], off)}
  IN IF hit = {} THEN sp
     ELSE LET f == fns[CHOOSE i \in hit : TRUE]
              parent == {i \in 1 .. Len(fns) : fns[i].start = f.mother}
          IN sp + f.size
               + (IF f.mother = NoMother THEN 0 ELSE fns[CHOOSE i \in parent : TRUE].size)

(***************************************************************************)
(* CallerFrameFromTable (action property): every unwind step moves sp to   *)
(* one word past the caller_sp the compiler's frames define for the        *)
(* current ip: the UNWIND_INFO bytes decode to the declared frame sizes    *)
(* and parents, and the binary searches over the VMAs and over the         *)
(* function entries find the entry that really covers ip, leaf or chained.*)
(***************************************************************************)
CallerFrameFromTable ==
  [][UnwindFrame => frame'.sp = RefCallerSp(frame.ip, frame.sp) + 1]_vars

(***************************************************************************)
(* FrameCountBounded (spec testable property 9: process_callstack either  *)
(* emits at most 1024 frames and then ends on a null ip, or errors): a     *)
(* call that returns Ok(()) has handed at most MaxFrames frames to its     *)
(* callback.  The loop in iter_callstack counts nothing.                   *)
(***************************************************************************)
FrameCountBounded == result = "ok" => nframes <= MaxFrames

(***************************************************************************)
(* WalkTerminates: every process_callstack call ends (with Ok or an error) *)
(* although the guest keeps rewriting its stack and the loop has no frame  *)
(* bound: each iteration moves sp up by at least one word, so the walk     *)
(* runs off the readable stack at the latest.                              *)
(***************************************************************************)
WalkTerminates == [](pc = "walking" => <>(pc = "done"))
=============================================================================
