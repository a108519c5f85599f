----------------------------- MODULE MCDmAccess -----------------------------
(* DmAccess for TLC: every object of OBJECT_INFO below two ONUs with two     *)
(* ANIs each; a few of the objects come and go, and the agents have objects  *)
(* of their own: one the module has no name for, and one at a place where    *)
(* OBJECT_INFO has none.                                                     *)
EXTENDS DmAccess

Where(id, onu, ani, inst) == [id |-> id, onu |-> onu, ani |-> ani, inst |-> inst]

MCComing == {Where("ethernet_uni", "1", NoIndex, "2"),
             Where("transceiver", "1", "1", "2"),
             Where("gem_port", "2", "1", "1")}

MCFixed == {p \in Place : IsObject(p)} \ MCComing

MCForeign == {<<"xpon_onu", "1", "vendor_led", "1">>,
              <<"xpon_onu", "1", "transceiver", "1">>}
=============================================================================
