------------------------------- MODULE DmInfo -------------------------------
(***************************************************************************)
(* dm_info.c: the two data models, the BBF one of the plugin (XPON.ONU)    *)
(* and the prpl one of the ONU HAL agents (xpon_onu), and the conversions  *)
(* between them.  The code has two tables that are maintained apart: what  *)
(* each object is called in both models (OBJECT_INFO), which identifies an *)
(* object, and what each element of a path is called in both               *)
(* (BBF_vs_PRPL_ENTRIES), which translates a path.                         *)
(*                                                                         *)
(* A path is the sequence of the elements between its dots, except that    *)
(* the dot of "XPON.ONU" does not count: <<"XPON.ONU", "1", "ANI">>.       *)
(***************************************************************************)
EXTENDS Naturals, Sequences

CONSTANT Number   \* path elements that are numeric: instance indexes

Roots == {"XPON.ONU", "xpon_onu"}

\* BBF_vs_PRPL_ENTRIES
Entries ==
    [SoftwareImage         |-> "software_image",
     EthernetUNI           |-> "ethernet_uni",
     ANI                   |-> "ani",
     TC                    |-> "tc",
     GEM                   |-> "gem",
     Port                  |-> "port",
     Transceiver           |-> "transceiver",
     ONUActivation         |-> "onu_activation",
     PerformanceThresholds |-> "performance_thresholds",
     Alarms                |-> "alarms"]

BbfName == DOMAIN Entries
PrplName == {Entries[b] : b \in BbfName}

ASSUME NumberAssumption == Number \cap ({"x"} \cup Roots \cup BbfName \cup PrplName) = {}

\* OBJECT_INFO, with the parameters of each object: BBF name |-> prpl name.
\* An object without key is a singleton, the others are templates.
NoKey == [bbf |-> "", prpl |-> ""]

ObjectInfo ==
    [onu |->
        [bbf  |-> <<"XPON.ONU">>,
         prpl |-> <<"xpon_onu">>,
         key  |-> [bbf |-> "Name", prpl |-> "name"],
         params |-> [Enable |-> "enable", Version |-> "version",
                     EquipmentID |-> "equipment_id"]],
     software_image |->
        [bbf  |-> <<"XPON.ONU", "x", "SoftwareImage">>,
         prpl |-> <<"xpon_onu", "x", "software_image">>,
         key  |-> [bbf |-> "ID", prpl |-> "id"],
         params |-> [Version |-> "version", IsCommitted |-> "is_committed",
                     IsActive |-> "is_active", IsValid |-> "is_valid"]],
     ethernet_uni |->
        [bbf  |-> <<"XPON.ONU", "x", "EthernetUNI">>,
         prpl |-> <<"xpon_onu", "x", "ethernet_uni">>,
         key  |-> [bbf |-> "Name", prpl |-> "name"],
         params |-> [Enable |-> "enable", Status |-> "status", LastChange |-> "last_change",
                     ANIs |-> "ani_list", InterdomainID |-> "interdomain_id",
                     InterdomainName |-> "interdomain_name"]],
     ani |->
        [bbf  |-> <<"XPON.ONU", "x", "ANI">>,
         prpl |-> <<"xpon_onu", "x", "ani">>,
         key  |-> [bbf |-> "Name", prpl |-> "name"],
         params |-> [Enable |-> "enable", Status |-> "status", LastChange |-> "last_change",
                     PONMode |-> "pon_mode"]],
     gem_port |->
        [bbf  |-> <<"XPON.ONU", "x", "ANI", "x", "TC", "GEM", "Port">>,
         prpl |-> <<"xpon_onu", "x", "ani", "x", "tc", "gem", "port">>,
         key  |-> [bbf |-> "PortID", prpl |-> "port_id"],
         params |-> [Direction |-> "direction", PortType |-> "port_type"]],
     transceiver |->
        [bbf  |-> <<"XPON.ONU", "x", "ANI", "x", "Transceiver">>,
         prpl |-> <<"xpon_onu", "x", "ani", "x", "transceiver">>,
         key  |-> [bbf |-> "ID", prpl |-> "id"],
         params |-> [Identifier |-> "identifier", VendorName |-> "vendor_name",
                     VendorPartNumber |-> "vendor_part_number",
                     VendorRevision |-> "vendor_revision", PONMode |-> "pon_mode",
                     Connector |-> "connector",
                     NominalBitRateDownstream |-> "nominal_bit_rate_downstream",
                     NominalBitRateUpstream |-> "nominal_bit_rate_upstream",
                     RxPower |-> "rx_power", TxPower |-> "tx_power", Voltage |-> "voltage",
                     Bias |-> "bias", Temperature |-> "temperature"]],
     onu_activation |->
        [bbf  |-> <<"XPON.ONU", "x", "ANI", "x", "TC", "ONUActivation">>,
         prpl |-> <<"xpon_onu", "x", "ani", "x", "tc", "onu_activation">>,
         key  |-> NoKey,
         params |-> [ONUState |-> "onu_state", VendorID |-> "vendor_id",
                     SerialNumber |-> "serial_number", ONUID |-> "onu_id"]],
     performance_thresholds |->
        [bbf  |-> <<"XPON.ONU", "x", "ANI", "x", "TC", "PerformanceThresholds">>,
         prpl |-> <<"xpon_onu", "x", "ani", "x", "tc", "performance_thresholds">>,
         key  |-> NoKey,
         params |-> [SignalFail |-> "signal_fail", SignalDegrade |-> "signal_degrade"]],
     alarms |->
        [bbf  |-> <<"XPON.ONU", "x", "ANI", "x", "TC", "Alarms">>,
         prpl |-> <<"xpon_onu", "x", "ani", "x", "tc", "alarms">>,
         key  |-> NoKey,
         params |-> [LOS |-> "los", LOF |-> "lof", SF |-> "sf", SD |-> "sd", LCDG |-> "lcdg",
                     TF |-> "tf", SUF |-> "suf", MEM |-> "mem", DACT |-> "dact", DIS |-> "dis",
                     MIS |-> "mis", PEE |-> "pee", RDI |-> "rdi", LODS |-> "lods",
                     ROGUE |-> "rogue"]]]

ObjectId == DOMAIN ObjectInfo

\* The types in OBJECT_INFO; a name has the same type in all objects.
ParamType(b) ==
    CASE b \in {"Enable", "IsCommitted", "IsActive", "IsValid"}
             \cup DOMAIN ObjectInfo.alarms.params               -> "bool"
      [] b \in {"LastChange", "Identifier", "NominalBitRateDownstream",
                "NominalBitRateUpstream", "Voltage", "Bias", "ONUID",
                "SignalFail", "SignalDegrade"}                  -> "uint32"
      [] b \in {"RxPower", "TxPower", "Temperature"}            -> "int32"
      [] b = "ANIs"                                             -> "csv_string"
      [] OTHER                                                  -> "cstring"

IsTemplate(id) == ObjectInfo[id].key # NoKey

(***************************************************************************)
(* Which object a path is about.                                           *)
(***************************************************************************)
\* Mutant: the index at the end of the path stays, as an 'x'.
KeepLastNumber(path) == path

\* The last element of the path is dropped if it is an instance index.
DropLastNumber(path) ==
    IF path[Len(path)] \in Number THEN SubSeq(path, 1, Len(path) - 1) ELSE path

\* dm_convert_to_generic_path()
GenericPath(path) ==
    LET rest == DropLastNumber(path)
    IN  [k \in DOMAIN rest |-> IF rest[k] \in Number THEN "x" ELSE rest[k]]

\* dm_get_object_id(); no path of ObjectInfo occurs twice.
GetObjectId(path) ==
    LET generic == GenericPath(path)
        Named(id) == generic = IF path[1] = "XPON.ONU"
                               THEN ObjectInfo[id].bbf ELSE ObjectInfo[id].prpl
    IN  IF \E id \in ObjectId : Named(id) THEN CHOOSE id \in ObjectId : Named(id)
        ELSE "unknown"

(***************************************************************************)
(* Translation of paths.                                                   *)
(***************************************************************************)
\* Mutant: the entry of EthernetUNI is missing in BBF_vs_PRPL_ENTRIES.
ToPrplNameShort(elem) ==
    IF elem \in BbfName \ {"EthernetUNI"} THEN Entries[elem] ELSE elem

\* An element without a translation is logged, and stays as it is; so do
\* instance indexes and 'x'.
ToPrplName(elem) == IF elem \in BbfName THEN Entries[elem] ELSE elem

\* Mutant: the entry of Transceiver is not found in this direction.
ToBbfNameShort(elem) ==
    IF elem \in PrplName \ {"transceiver"} THEN CHOOSE b \in BbfName : Entries[b] = elem ELSE elem

ToBbfName(elem) ==
    IF elem \in PrplName THEN CHOOSE b \in BbfName : Entries[b] = elem ELSE elem

\* dm_convert_bbf_path_to_prpl_path(), for a path that passes CanConvertBbf
PrplPath(path) == [k \in DOMAIN path |-> IF k = 1 THEN "xpon_onu" ELSE ToPrplName(path[k])]

\* dm_convert_prpl_path_to_bbf_path(), for a path that passes CanConvertPrpl
BbfPath(path) == [k \in DOMAIN path |-> IF k = 1 THEN "XPON.ONU" ELSE ToBbfName(path[k])]

\* convert_path_between_bbf_and_prpl() refuses nothing but the wrong start.
CanConvertBbf(path) == path[1] = "XPON.ONU"
CanConvertPrpl(path) == path[1] = "xpon_onu"

=============================================================================
