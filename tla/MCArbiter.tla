----------------------------- MODULE MCArbiter -----------------------------
(***************************************************************************)
(* Three slots, pages of three words and bursts of two: a write that       *)
(* crosses into the next page and a read that takes two bursts, the one    *)
(* begun again and again by one slot, the other by another, and either by  *)
(* the third.                                                              *)
(***************************************************************************)
EXTENDS Arbiter

Write == [mode |-> "write", addr |-> 2, size |-> 2]
Read == [mode |-> "read", addr |-> 0, size |-> 3]
MCRequests == [s \in 0 .. 2 |-> CASE s = 0 -> {Read} [] s = 1 -> {Write} [] s = 2 -> {Read, Write}]
=============================================================================
