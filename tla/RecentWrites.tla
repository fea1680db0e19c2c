----------------------------- MODULE RecentWrites -----------------------------
(***************************************************************************)
(* What a bounded record of write operations promises: the last Capacity   *)
(* items, oldest first.  A new item always gets in; when Capacity are kept *)
(* already the oldest one is given up for it.                              *)
(***************************************************************************)
EXTENDS Naturals, Sequences

CONSTANTS Capacity,    \* how many items are kept
          Item         \* the items

VARIABLE recent   \* the items kept, oldest first

Pushed(s, x) == IF Len(s) < Capacity THEN Append(s, x) ELSE Append(Tail(s), x)

Init == recent = << >>

Push(x) == recent' = Pushed(recent, x)

Next == \E x \in Item : Push(x)

Spec == Init /\ [][Next]_recent
===============================================================================
