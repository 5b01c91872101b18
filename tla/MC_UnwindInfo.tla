---------------------------- MODULE MC_UnwindInfo ---------------------------
(***************************************************************************)
(* Unwind operations as a compiler emits them, each with the allocation    *)
(* the format documents for it (alloc, in bytes), and operands wide enough *)
(* to use every byte of their u16/u32 slots.                               *)
(***************************************************************************)
EXTENDS UnwindInfo

push_rbx     == [code |-> 0,  info |-> 3, arg |-> 0,     alloc |-> 8]
alloc_48     == [code |-> 2,  info |-> 5, arg |-> 0,     alloc |-> 48]
alloc_32k    == [code |-> 1,  info |-> 0, arg |-> 32768, alloc |-> 32768]
alloc_65544  == [code |-> 1,  info |-> 1, arg |-> 65544, alloc |-> 65544]
save_rsi     == [code |-> 4,  info |-> 6, arg |-> 3,     alloc |-> 0]
save_rsi_far == [code |-> 5,  info |-> 6, arg |-> 70000, alloc |-> 0]
set_fpreg    == [code |-> 3,  info |-> 0, arg |-> 0,     alloc |-> 0]
machframe_ec == [code |-> 10, info |-> 1, arg |-> 0,     alloc |-> 48]
epilog       == [code |-> 6,  info |-> 1, arg |-> 4,     alloc |-> 0]

MCOps == {push_rbx, alloc_48, alloc_32k, alloc_65544, save_rsi, save_rsi_far,
          set_fpreg, machframe_ec, epilog}

MCParents == {[start |-> 0, end |-> 16, ptr |-> 40, none |-> FALSE]}

\* an op byte no version accepts (code 7), PUSH_MACHFRAME with op_info 2,
\* and a version byte of 3
MCCorruptBytes == {7, 42, 3}
=============================================================================
