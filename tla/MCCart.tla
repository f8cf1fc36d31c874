------------------------------- MODULE MCCart -------------------------------
(* Small instances of Cart: two requests add an item each and a third removes *)
(* the first, or an add meets another add of its item, an update, a coupon, a  *)
(* clear or the removal of an item that is not there.                          *)
EXTENDS Cart

CONSTANTS o1, o2, o3, a, b, none

Do(kind, item) == [kind |-> kind, item |-> item]

Scenario(x, y, z) ==
    [o \in Op |-> CASE o = o1 -> x [] o = o2 -> y [] o = o3 -> z]

Scenarios ==
    {Scenario(Do("add", a), Do("add", b), Do("remove", a))} \cup
    {Scenario(Do("add", a), y, Do("none", a)) :
        y \in {Do("add", a), Do("update", a), Do("coupon", a), Do("clear", a), Do("remove", b)}}
=============================================================================
