---------------------------- MODULE MCBrokerSync ----------------------------
(* A small instance of BrokerSync: one order of this program, which may    *)
(* work, fill, be cancelled and be submitted again, and one of another     *)
(* client, with the same order id or another.                              *)
EXTENDS BrokerSync

MCOrders     == {"ours", "theirs"}
MCForeign    == {"theirs"}
MCNumberings == {[o \in MCOrders |-> 1], [o \in MCOrders |-> IF o = "ours" THEN 1 ELSE 2]}
=============================================================================
