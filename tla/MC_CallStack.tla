---------------------------- MODULE MC_CallStack ----------------------------
(***************************************************************************)
(* A small user address space, in 8-byte words, for the stack walk:        *)
(*   [0, 2)   unmapped                                                     *)
(*   [2, 6)   module A, .pdata sorted by start:                            *)
(*            offsets [0,2) fa: frame of 1 word (e.g. one push)            *)
(*            offset  2     fb: no frame of its own, chained to fa         *)
(*            offset  3     no entry: a leaf function                      *)
(*   [6, 8)   unmapped gap                                                 *)
(*   [8, 10)  module B, whose only entry fc is chained to a parent that is *)
(*            not in its .pdata                                            *)
(*   [10, 14) the thread's stack (a VMA too, with no valid PE header)      *)
(*   [16, ..) kernel space                                                 *)
(* Stack words may hold a null, return addresses into each function of A, *)
(* an address in the gap (A's end), B's start and one in the stack itself. *)
(*                                                                         *)
(* The unwind data of each PE VMA is decoded, as init_unwind_data does,    *)
(* from UNWIND_INFO bytes laid out as the format prescribes (UnwindInfo's *)
(* Encode) for the frames the compiler declared: fa pushes one register,   *)
(* fb chains to fa, fc allocates 8 bytes with a 2-slot ALLOC_LARGE and     *)
(* chains to an entry at offset 5.  The exception directory is given as    *)
(* its RUNTIME_FUNCTIONs (the bytemuck cast is not modelled).              *)
(***************************************************************************)
EXTENDS CallStack

UI == INSTANCE UnwindInfo
        WITH Ops <- {}, Parents <- {}, CorruptBytes <- {}, MaxOps <- 0,
             version <- 1, ops <- <<>>, image <- <<>>, corrupted <- FALSE,
             parent <- [start |-> 0, end |-> 0, ptr |-> 0, none |-> TRUE]

fa == [start |-> 0, end |-> 2, size |-> 1, mother |-> NoMother]
fb == [start |-> 2, end |-> 3, size |-> 0, mother |-> 0]
fc == [start |-> 0, end |-> 2, size |-> 1, mother |-> 5]

push_rbx == [code |-> 0, info |-> 3, arg |-> 0, alloc |-> 8]
alloc_8  == [code |-> 1, info |-> 0, arg |-> 8, alloc |-> 8]

RF(s, e, p) == [start |-> s, end |-> e, ptr |-> p]
Chained(rf) == [start |-> rf.start, end |-> rf.end, ptr |-> rf.ptr, none |-> FALSE]

(* Module A: fa's UNWIND_INFO at 0 (8 bytes: header, one slot, padding),   *)
(* fb's at 8; module B: fc's at 0.                                         *)
ImageA == UI!Encode(1, <<push_rbx>>, UI!NoParent) \o UI!Encode(1, <<>>, Chained(RF(0, 2, 0)))
RfsA   == <<RF(0, 2, 0), RF(2, 3, 8)>>
ImageB == UI!Encode(2, <<alloc_8>>, Chained(RF(5, 6, 0)))
RfsB   == <<RF(0, 2, 0)>>

(* A decoded FunctionEntry in the walk's units: frame sizes in words, the *)
(* chained parent by its start offset.                                     *)
ToEntry(e) == [start |-> e.start, end |-> e.end, size |-> e.stack_frame_size \div 8,
               mother |-> IF e.mother.none THEN NoMother ELSE e.mother.start]

Decoded(img, rfs) ==
  LET r == UI!parse_directory_range(img, rfs)
  IN [i \in 1 .. Len(r.val) |-> ToEntry(r.val[i])]

(* The tables init_unwind_data builds for A and B, held as values so that *)
(* TLC decodes once: the ASSUMEs check that parse_directory_range turns    *)
(* the bytes into exactly the frames the compiler declared.                *)
UnwindA == <<fa, fb>>
UnwindB == <<fc>>
ASSUME UI!parse_directory_range(ImageA, RfsA).kind = "some" /\ Decoded(ImageA, RfsA) = UnwindA
ASSUME UI!parse_directory_range(ImageB, RfsB).kind = "some" /\ Decoded(ImageB, RfsB) = UnwindB

MCVmas ==
  << [start |-> 2,  end |-> 6,  pe |-> TRUE, unwind |-> UnwindA],
     [start |-> 8,  end |-> 10, pe |-> TRUE, unwind |-> UnwindB],
     [start |-> 10, end |-> 14, pe |-> FALSE, unwind |-> <<>>] >>

MCFrames == << <<fa, fb>>, <<fc>>, <<>> >>

MCStackWords  == 10 .. 13
MCStackValues == {0, 3, 5, 6, 8, 12}
MCStartFrames == {[ip |-> 4, sp |-> 10], [ip |-> 5, sp |-> 11], [ip |-> 16, sp |-> 10]}
=============================================================================
