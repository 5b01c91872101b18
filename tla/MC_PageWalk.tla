---------------------------- MODULE MC_PageWalk ----------------------------
(***************************************************************************)
(* PageWalk at a scaled width: 4-byte pages, 2-entry tables of 2-byte      *)
(* entries, a 6-bit virtual address and 12 bytes of RAM (three frames).    *)
(* Entry words (frame | large << 1 | present):                             *)
(*   0  not present                                                        *)
(*   5  present, frame 4: a table or a 4K page inside RAM                  *)
(*  11  present, large, frame 8: a large page whose huge frame is 0, so    *)
(*      the 2M and 1G masks give different frames                          *)
(*  13  present, frame 12: just outside RAM (a read of it fails)           *)
(* Page frames may reach bit 5 while large and huge frames reach bit 6,    *)
(* as 4K frames stop at bit 48 and 2M/1G frames at bit 52 on x86-64.       *)
(*                                                                         *)
(* The C backend: one vCPU (ids 0 and 1 are asked for), CR3 loaded with    *)
(* the frame at 0 or the one at 4; callback tables with every read         *)
(* callback, without read_physical, with the C translation, without the    *)
(* special registers; EIO-like (5) and negative (-1) error codes.          *)
(***************************************************************************)
EXTENDS NativeBackend

MCEntryWords == {0, 5, 11, 13}
MCReadLens   == {2, 3}
MCErrCodes   == {-1, 5}
MCCallbackSets ==
  { {"read_physical", "special_registers", "drop"},
    {"special_registers"},
    {"read_physical", "read_virtual", "special_registers", "drop"},
    {"read_physical"} }
=============================================================================
