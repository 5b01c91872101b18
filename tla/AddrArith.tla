------------------------------ MODULE AddrArith ------------------------------
(***************************************************************************)
(* Address arithmetic of icebox-core (icebox-core/src/addr.rs): the Add    *)
(* and Sub impls of GuestPhysAddr and GuestVirtAddr over u64.              *)
(*                                                                         *)
(* u64 is scaled to AddrBits bits: values are 0 .. 2^AddrBits - 1, an i64  *)
(* is the two's-complement reading of the same bits.  `debug` is           *)
(* cfg!(debug_assertions): a debug build panics on u64 overflow, a release *)
(* build wraps.  A result is [panic |-> TRUE] or the value.                *)
(***************************************************************************)
EXTENDS Integers

CONSTANT AddrBits

VARIABLE debug_assertions   \* cfg!(debug_assertions): fixed for a run

U64 == 0 .. 2^AddrBits - 1
I64 == -(2^(AddrBits - 1)) .. 2^(AddrBits - 1) - 1

Wrap(x)  == x % 2^AddrBits
AsU64(r) == Wrap(r)
AsI64(x) == IF x >= 2^(AddrBits - 1) THEN x - 2^AddrBits ELSE x

Panic  == [panic |-> TRUE]
Val(v) == [panic |-> FALSE, val |-> v]

(* `self.0 + rhs` / `self.0 - rhs` on u64: the build's overflow check.     *)
CheckedOp(debug, x) == IF debug /\ x \notin U64 THEN Panic ELSE Val(Wrap(x))

(* GuestPhysAddr: Add<u64> and Sub<u64>.                                   *)
GuestPhysAddr_add_u64(debug, a, rhs) == CheckedOp(debug, a + rhs)

GuestPhysAddr_sub_u64(debug, a, rhs) == CheckedOp(debug, a - rhs)

\* mutant of GuestPhysAddr_add_i64: the carry alone taken as overflow, as
\* for an unsigned right-hand side
GuestPhysAddr_add_i64_carry(debug, a, rhs) ==
  LET o == a + AsU64(rhs) > 2^AddrBits - 1
  IN IF debug /\ o THEN Panic ELSE Val(Wrap(a + AsU64(rhs)))

(* GuestPhysAddr: Add<i64>: overflowing_add of `rhs as u64`; the carry     *)
(* means overflow for rhs >= 0 and its absence underflow for rhs < 0.      *)
GuestPhysAddr_add_i64(debug, a, rhs) ==
  LET o == a + AsU64(rhs) > 2^AddrBits - 1
  IN IF debug /\ (o # (rhs < 0)) THEN Panic ELSE Val(Wrap(a + AsU64(rhs)))

(* GuestVirtAddr: Add<u64>, Add<i64> (the same code as GuestPhysAddr's),   *)
(* Sub<u64> and SubAssign<u64>.                                            *)
GuestVirtAddr_add_u64(debug, a, rhs) == CheckedOp(debug, a + rhs)

GuestVirtAddr_add_i64(debug, a, rhs) == GuestPhysAddr_add_i64(debug, a, rhs)

GuestVirtAddr_sub_u64(debug, a, rhs) == CheckedOp(debug, a - rhs)

GuestVirtAddr_sub_assign(debug, a, rhs) == GuestVirtAddr_sub_u64(debug, a, rhs)

(* GuestVirtAddr: Sub<GuestVirtAddr> = overflowing_sub(..).0 as i64, never *)
(* a panic.                                                                *)
GuestVirtAddr_sub(a, b) == AsI64(Wrap(a - b))

(* The build is chosen once: a debug or a release build.                   *)
BuildInit  == debug_assertions \in BOOLEAN
BuildFixed == UNCHANGED debug_assertions

-----------------------------------------------------------------------------
(***************************************************************************)
(* AddressArithmeticExact: in either build, adding a u64 or an i64 offset  *)
(* to an address, or subtracting a u64 from it, gives the exact sum when   *)
(* it is an address; otherwise a debug build panics and a release build    *)
(* wraps modulo 2^64.  The difference of two addresses is exact whenever  *)
(* it fits in an i64.  (The i64 case rests on `o ^ (rhs < 0)` in           *)
(* Add<i64>.)  Checked for the build of the current state.                 *)
(***************************************************************************)
Exact(debug, s, r) ==
  IF s \in U64 THEN r = Val(s) ELSE IF debug THEN r = Panic ELSE r = Val(Wrap(s))

AddressArithmeticExact ==
  \A a \in U64 :
    /\ \A u \in U64 :
         /\ Exact(debug_assertions, a + u, GuestPhysAddr_add_u64(debug_assertions, a, u))
         /\ Exact(debug_assertions, a + u, GuestVirtAddr_add_u64(debug_assertions, a, u))
         /\ Exact(debug_assertions, a - u, GuestPhysAddr_sub_u64(debug_assertions, a, u))
         /\ Exact(debug_assertions, a - u, GuestVirtAddr_sub_u64(debug_assertions, a, u))
         /\ Exact(debug_assertions, a - u, GuestVirtAddr_sub_assign(debug_assertions, a, u))
         /\ (a - u \in I64 => GuestVirtAddr_sub(a, u) = a - u)
    /\ \A r \in I64 :
         /\ Exact(debug_assertions, a + r, GuestPhysAddr_add_i64(debug_assertions, a, r))
         /\ Exact(debug_assertions, a + r, GuestVirtAddr_add_i64(debug_assertions, a, r))
=============================================================================
