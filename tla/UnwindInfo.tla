----------------------------- MODULE UnwindInfo -----------------------------
(***************************************************************************)
(* Decoding of the x64 exception directory by vminer's Windows unwinder   *)
(* (icebox/src/os/windows/callstack.rs): parse_directory_range reads, for  *)
(* each RuntimeFunction, the UNWIND_INFO its `ptr` points at, and          *)
(* parse_unwind_codes folds the unwind codes into a stack frame size.     *)
(*                                                                         *)
(* The image is a sequence of bytes (integers 0..255) held in guest        *)
(* memory.  The environment is the toolchain that wrote the image: it      *)
(* emits one UNWIND_INFO in the layout of the PE/COFF format (header,      *)
(* code slots padded to an even count, then the parent RUNTIME_FUNCTION    *)
(* for chained info) from abstract unwind operations, and the guest, which *)
(* may overwrite any byte of it afterwards.                                *)
(***************************************************************************)
EXTENDS Integers, Sequences, SequencesExt

CONSTANTS
  Ops,            \* unwind operations a compiler emits: [code, info, arg, alloc]
  Parents,        \* RUNTIME_FUNCTIONs a chained info may point at
  CorruptBytes,   \* byte values the guest may write over the image
  MaxOps          \* bound on the operations of one prologue

ASSUME \A op \in Ops : op.code \in 0 .. 15 /\ op.info \in 0 .. 15

VARIABLES
  version,    \* UNWIND_INFO version the toolchain writes (1 or 2)
  ops,        \* the prologue's operations, in slot order
  parent,     \* the chained parent, or NoParent
  image,      \* the bytes of the UNWIND_INFO in guest memory
  corrupted   \* whether the guest has overwritten a byte since

vars == <<version, ops, parent, image, corrupted>>

NoParent == [start |-> 0, end |-> 0, ptr |-> 0, none |-> TRUE]

-----------------------------------------------------------------------------
(* u16/u32 little-endian reads and writes.                                 *)
RECURSIVE FromLE(_)
FromLE(s) == IF s = <<>> THEN 0 ELSE Head(s) + 256 * FromLE(Tail(s))
ToLE(v, n) == [k \in 1 .. n |-> (v \div 256^(k - 1)) % 256]

None    == [kind |-> "none"]
Panic   == [kind |-> "panic"]
Some(v) == [kind |-> "some", val |-> v]

(* Windows unwind operations.                                              *)
UWOP_PUSH_NONVOL == 0
UWOP_ALLOC_LARGE == 1
UWOP_ALLOC_SMALL == 2
UWOP_SET_FPREG == 3
UWOP_SAVE_NONVOL == 4
UWOP_SAVE_NONVOL_FAR == 5
UWOP_EPILOG == 6
UWOP_SAVE_XMM128 == 8
UWOP_SAVE_XMM128_FAR == 9
UWOP_PUSH_MACHFRAME == 10

(* The match arms of parse_unwind_codes: which (op_code, op_info) a        *)
(* version accepts, how many operand bytes each reads and what it adds to *)
(* stack_frame_size.                                                       *)
Accepted(code, info, v) ==
  \/ code \in {UWOP_PUSH_NONVOL, UWOP_ALLOC_SMALL, UWOP_SET_FPREG, UWOP_SAVE_NONVOL,
               UWOP_SAVE_NONVOL_FAR, UWOP_SAVE_XMM128, UWOP_SAVE_XMM128_FAR}
  \/ code \in {UWOP_ALLOC_LARGE, UWOP_PUSH_MACHFRAME} /\ info \in {0, 1}
  \/ code = UWOP_EPILOG /\ v = 2

\* mutant of OperandLen: the _FAR saves skip a u16 like the near ones
OperandLen_far_as_near(code, info) ==
  CASE code = UWOP_ALLOC_LARGE -> IF info = 0 THEN 2 ELSE 4
    [] code \in {UWOP_SAVE_NONVOL, UWOP_EPILOG, UWOP_SAVE_XMM128,
                 UWOP_SAVE_NONVOL_FAR, UWOP_SAVE_XMM128_FAR} -> 2
    [] OTHER -> 0

OperandLen(code, info) ==
  CASE code = UWOP_ALLOC_LARGE -> IF info = 0 THEN 2 ELSE 4
    [] code \in {UWOP_SAVE_NONVOL, UWOP_EPILOG, UWOP_SAVE_XMM128} -> 2
    [] code \in {UWOP_SAVE_NONVOL_FAR, UWOP_SAVE_XMM128_FAR} -> 4
    [] OTHER -> 0

FrameDelta(code, info, operand) ==
  CASE code = UWOP_PUSH_NONVOL    -> 8
    [] code = UWOP_ALLOC_LARGE    -> IF info = 0 THEN operand * 8 ELSE operand
    [] code = UWOP_ALLOC_SMALL    -> info * 8 + 8
    [] code = UWOP_PUSH_MACHFRAME -> IF info = 0 THEN 40 ELSE 48
    [] OTHER -> 0

(***************************************************************************)
(* parse_unwind_codes: each slot is an offset byte, which is skipped, and  *)
(* an op byte (op_code in the low nibble, op_info in the high one),        *)
(* followed by its operand.  A lone trailing byte, a truncated operand or *)
(* an op the version does not accept is None.                              *)
(***************************************************************************)
RECURSIVE ParseCodes(_, _, _)
ParseCodes(codes, v, size) ==
  IF codes = <<>> THEN Some(size)
  ELSE IF Len(codes) = 1 THEN None
  ELSE LET code == codes[2] % 16
           info == codes[2] \div 16
           rest == SubSeq(codes, 3, Len(codes))
           n    == OperandLen(code, info)
       IN IF ~Accepted(code, info, v) \/ Len(rest) < n THEN None
          ELSE ParseCodes(SubSeq(rest, n + 1, Len(rest)), v,
                          size + FrameDelta(code, info, FromLE(SubSeq(rest, 1, n))))

parse_unwind_codes(codes, v) == ParseCodes(codes, v, 0)

(***************************************************************************)
(* One iteration of parse_directory_range's loop: the UNWIND_INFO at ptr.  *)
(* Each `?` is a None; a None from parse_unwind_codes hits                *)
(* `.expect("bad unwind")`, a panic.  A chained info's parent is read      *)
(* right after the 2*count code bytes.                                     *)
(***************************************************************************)
ParseFunction(pe, rf) ==
  LET u      == SubSeq(pe, rf.ptr + 1, Len(pe))
      vf     == u[1]
      v      == vf % 8
      count  == u[3]
      codes  == SubSeq(u, 5, 4 + 2 * count)
      sfs    == parse_unwind_codes(codes, v)
      after  == SubSeq(u, 5 + 2 * count, Len(u))
      mother == [start |-> FromLE(SubSeq(after, 1, 4)), end |-> FromLE(SubSeq(after, 5, 8)),
                 ptr |-> FromLE(SubSeq(after, 9, 12)), none |-> FALSE]
      chained == (vf \div 32) % 2 = 1
  IN IF rf.ptr > Len(pe) \/ Len(u) < 1 THEN None
     ELSE IF v < 1 \/ v > 2 THEN None
     ELSE IF Len(u) < 4 \/ Len(u) < 4 + 2 * count THEN None
     ELSE IF sfs.kind = "none" THEN Panic
     ELSE IF chained /\ Len(after) < 12 THEN None
     ELSE Some([start |-> rf.start, end |-> rf.end, stack_frame_size |-> sfs.val,
                mother |-> IF chained THEN mother ELSE NoParent])

(* parse_directory_range: every RuntimeFunction in turn; the first None    *)
(* or panic ends it.                                                       *)
RECURSIVE parse_directory_range(_, _)
parse_directory_range(pe, rfs) ==
  IF rfs = <<>> THEN Some(<<>>)
  ELSE LET e    == ParseFunction(pe, Head(rfs))
           rest == parse_directory_range(pe, Tail(rfs))
       IN IF e.kind # "some" THEN e
          ELSE IF rest.kind # "some" THEN rest
          ELSE Some(<<e.val>> \o rest.val)

-----------------------------------------------------------------------------
(***************************************************************************)
(* The UNWIND_INFO layout of the PE/COFF format: version | flags << 3      *)
(* (UNW_FLAG_CHAININFO = 4), prolog size, count of code slots, frame       *)
(* register; the slots, padded to an even count; the parent                *)
(* RUNTIME_FUNCTION when chained.  Each operation is a slot (prolog       *)
(* offset, code | info << 4) followed by its operand slots.               *)
(***************************************************************************)
Operand(op) ==
  CASE op.code = UWOP_ALLOC_LARGE -> IF op.info = 0 THEN ToLE(op.arg \div 8, 2) ELSE ToLE(op.arg, 4)
    [] op.code \in {UWOP_SAVE_NONVOL, UWOP_EPILOG, UWOP_SAVE_XMM128} -> ToLE(op.arg, 2)
    [] op.code \in {UWOP_SAVE_NONVOL_FAR, UWOP_SAVE_XMM128_FAR} -> ToLE(op.arg, 4)
    [] OTHER -> <<>>

Slots(os) == FlattenSeq([i \in 1 .. Len(os) |-> <<0, os[i].code + 16 * os[i].info>> \o Operand(os[i])])

Encode(v, os, p) ==
  LET s     == Slots(os)
      count == Len(s) \div 2
      pad   == IF count % 2 = 1 THEN <<0, 0>> ELSE <<>>
      flags == IF p = NoParent THEN 0 ELSE 4
      tail  == IF p = NoParent THEN <<>>
               ELSE ToLE(p.start, 4) \o ToLE(p.end, 4) \o ToLE(p.ptr, 4)
  IN <<v + 8 * flags, 0, count, 0>> \o s \o pad \o tail

(* The RuntimeFunction of the function this UNWIND_INFO describes.         *)
Self == [start |-> 16, end |-> 32, ptr |-> 0]

(* The toolchain starts a function with an empty prologue.                 *)
Init ==
  /\ version \in {1, 2}
  /\ ops = <<>>
  /\ parent = NoParent
  /\ image = Encode(version, ops, parent)
  /\ corrupted = FALSE

(* It records one more prologue operation (epilog codes exist from v2).    *)
EmitOp(op) ==
  /\ ~corrupted
  /\ Len(ops) < MaxOps
  /\ op.code = UWOP_EPILOG => version = 2
  /\ ops' = Append(ops, op)
  /\ image' = Encode(version, ops', parent)
  /\ UNCHANGED <<version, parent, corrupted>>

(* It chains the function to a parent's unwind info.                       *)
Chain(p) ==
  /\ ~corrupted
  /\ parent = NoParent
  /\ parent' = p
  /\ image' = Encode(version, ops, parent')
  /\ UNCHANGED <<version, ops, corrupted>>

(* The guest overwrites a byte of the image.  One overwrite is the bound: *)
(* a single byte already reaches every early return of the decoder.        *)
GuestCorrupt(i, b) ==
  /\ ~corrupted
  /\ image' = [image EXCEPT ![i] = b]
  /\ corrupted' = TRUE
  /\ UNCHANGED <<version, ops, parent>>

Next ==
  \/ \E op \in Ops : EmitOp(op)
  \/ \E p \in Parents : Chain(p)
  \/ \E i \in 1 .. Len(image), b \in CorruptBytes : GuestCorrupt(i, b)

Spec == Init /\ [][Next]_vars

-----------------------------------------------------------------------------
Parsed == parse_directory_range(image, <<Self>>)

(* The frame size the operations allocate, per the unwind-code table of   *)
(* the format: the sum of each operation's allocation.                     *)
RefFrameSize(os) == FoldLeft(LAMBDA acc, op : acc + op.alloc, 0, os)

TypeOK ==
  /\ version \in {1, 2}
  /\ ops \in Seq(Ops) /\ Len(ops) <= MaxOps
  /\ parent \in Parents \cup {NoParent}
  /\ image \in Seq(0 .. 255)
  /\ corrupted \in BOOLEAN

(***************************************************************************)
(* FrameSizeMatches: an UNWIND_INFO laid out as the format prescribes      *)
(* parses, and its stack_frame_size is the sum of what its operations      *)
(* allocate, whatever mix of 2-, 4- and 6-byte codes precedes each one.    *)
(***************************************************************************)
FrameSizeMatches ==
  ~corrupted =>
    /\ Parsed.kind = "some"
    /\ Parsed.val[1].stack_frame_size = RefFrameSize(ops)

(***************************************************************************)
(* ChainedParentRead: the parent recorded for a chained UNWIND_INFO is the *)
(* RUNTIME_FUNCTION the toolchain wrote after the (padded) code array.    *)
(***************************************************************************)
ChainedParentRead ==
  ~corrupted /\ parent # NoParent =>
    Parsed.kind = "some" /\ Parsed.val[1].mother = parent

(***************************************************************************)
(* UnwindErrorsSurface (spec section 7: guest data errors surface as       *)
(* VmError and a VMA whose unwind data cannot be parsed fails the call    *)
(* with "cannot get unwind data"): parsing any bytes the guest holds ends *)
(* in entries or None, never in a panic of the host.                       *)
(***************************************************************************)
UnwindErrorsSurface == Parsed.kind # "panic"
=============================================================================
