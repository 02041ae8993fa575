----------------------------- MODULE AsyncList -----------------------------
(***************************************************************************)
(* src/src/async_list.c: an array that grows, each call under the list's   *)
(* own lock.  The calls are operators here, one step each, for a caller    *)
(* that keeps the list; tree.c is the only one.                            *)
(*                                                                         *)
(* size is what was asked of realloc.  The items themselves are left out:  *)
(* they go to data[count], and no call that returns reads one.             *)
(***************************************************************************)
LOCAL INSTANCE Naturals

\* async_list_new: data is NULL.
NewList == [count |-> 0, size |-> 0]

Lists == [count : Nat, size : Nat]

Full(l) == l.size <= l.count

\* As if the array grew only when it is overrun.
GrownLate(l) ==
  IF l.size < l.count THEN IF l.size = 0 THEN 2 ELSE 2 * l.size ELSE l.size

Grown(l) ==
  IF Full(l) THEN IF l.size = 0 THEN 2 ELSE 2 * l.size ELSE l.size

\* async_list_add, where realloc finds the memory.
Added(l) == [count |-> l.count + 1, size |-> Grown(l)]

\* async_list_get asserts l->data and l->count <= i: it ends the program for
\* every index at which there is an item.
GetAborts(l, i) == l.size = 0 \/ i < l.count

\* The array is as long as what is stored in it, and no more than twice that:
\* no entry is written behind its end (async_list.c:54-59).
Sound(l) == l.count <= l.size /\ l.size <= 2 * l.count + 2
=============================================================================
