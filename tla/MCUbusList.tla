----------------------------- MODULE MCUbusList -----------------------------
(* UbusList for TLC: the transceivers of an ANI, two of which come and go,   *)
(* and the ANIs of the same ONU, whose objects the command prints as well.   *)
EXTENDS UbusList

Ani == <<"xpon_onu", "1", "ani">>

MCFixed == {Append(Ani, "1"), Ani \o <<"1", "tc", "alarms">>}

MCComing == {Ani \o <<"1", "transceiver", i>> : i \in Number}

\* Two templates, and an object that OBJECT_INFO does not have.
MCAsked == {<<"XPON.ONU", "1", "ANI">>, <<"XPON.ONU", "1", "ANI", "1", "Transceiver">>,
            <<"XPON.ONU", "1", "VendorLed">>}

\* The template whose instances come and go.
MCAskedOne == {<<"XPON.ONU", "1", "ANI", "1", "Transceiver">>}
=============================================================================
