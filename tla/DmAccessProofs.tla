--------------------------- MODULE DmAccessProofs ---------------------------
(***************************************************************************)
(* Proofs about DmAccess, for any set of instance indexes and any objects  *)
(* that exist.  What is particular to the data model is in the lemmas      *)
(* about its tables (dm_info.c); from them it follows for any indexes that *)
(* paths are identified and translated right, and so that the operations   *)
(* reach the right object and tell of the right one.                       *)
(***************************************************************************)
EXTENDS DmAccess, SequenceTheorems, TLAPS

-----------------------------------------------------------------------------
(* The tables. *)

LEMMA Names ==
    /\ BbfName = {"SoftwareImage", "EthernetUNI", "ANI", "TC", "GEM", "Port", "Transceiver",
                  "ONUActivation", "PerformanceThresholds", "Alarms"}
    /\ PrplName = {"software_image", "ethernet_uni", "ani", "tc", "gem", "port", "transceiver",
                   "onu_activation", "performance_thresholds", "alarms"}
<1>1. BbfName = {"SoftwareImage", "EthernetUNI", "ANI", "TC", "GEM", "Port", "Transceiver",
                 "ONUActivation", "PerformanceThresholds", "Alarms"}
  BY DEF BbfName, Entries
<1>2. QED
  BY <1>1 DEF PrplName, Entries

\* No entry of BBF_vs_PRPL_ENTRIES has the translation of another.
LEMMA EntriesInjective == \A b, c \in BbfName : Entries[b] = Entries[c] => b = c
BY Names DEF Entries

LEMMA Apart ==
    /\ Number \cap (BbfName \cup PrplName \cup Roots) = {}
    /\ "x" \notin Number \cup BbfName \cup PrplName \cup Roots
    /\ NoIndex \notin Number
BY Names, NumberAssumption, AccessAssumption DEF Roots

LEMMA Ids ==
    ObjectId = {"onu", "software_image", "ethernet_uni", "ani", "gem_port", "transceiver",
                "onu_activation", "performance_thresholds", "alarms"}
BY DEF ObjectId, ObjectInfo

\* A path with 'x' for the instance indexes.
Template(t) ==
    /\ Len(t) \in Nat \ {0}
    /\ t = [k \in 1..Len(t) |-> t[k]]
    /\ t[1] \in Roots
    /\ \A k \in 2..Len(t) : t[k] = "x" => k = 2 \/ (k = 4 /\ Len(t) > 3)
    /\ \A k \in 2..Len(t) : t[k] = "x" \/ t[k] \in BbfName \cup PrplName
    /\ t[Len(t)] # "x"

\* The two paths of an object in OBJECT_INFO agree with BBF_vs_PRPL_ENTRIES.
Translates(b, q) ==
    /\ Len(q) = Len(b)
    /\ b[1] = "XPON.ONU"
    /\ q[1] = "xpon_onu"
    /\ \A k \in 2..Len(b) : \/ b[k] = "x" /\ q[k] = "x"
                            \/ b[k] \in BbfName /\ q[k] = Entries[b[k]]

Row(b, q) == Template(b) /\ Template(q) /\ Translates(b, q)

LEMMA Rows ==
    \A id \in ObjectId : Row(ObjectInfo[id].bbf, ObjectInfo[id].prpl)
<1> USE Names DEF Row, Template, Translates, Entries, Roots
<1>1. Row(<<"XPON.ONU">>, <<"xpon_onu">>)
  OBVIOUS
<1>2. Row(<<"XPON.ONU", "x", "SoftwareImage">>, <<"xpon_onu", "x", "software_image">>)
  OBVIOUS
<1>3. Row(<<"XPON.ONU", "x", "EthernetUNI">>, <<"xpon_onu", "x", "ethernet_uni">>)
  OBVIOUS
<1>4. Row(<<"XPON.ONU", "x", "ANI">>, <<"xpon_onu", "x", "ani">>)
  OBVIOUS
<1>5. Row(<<"XPON.ONU", "x", "ANI", "x", "TC", "GEM", "Port">>,
          <<"xpon_onu", "x", "ani", "x", "tc", "gem", "port">>)
  OBVIOUS
<1>6. Row(<<"XPON.ONU", "x", "ANI", "x", "Transceiver">>,
          <<"xpon_onu", "x", "ani", "x", "transceiver">>)
  OBVIOUS
<1>7. Row(<<"XPON.ONU", "x", "ANI", "x", "TC", "ONUActivation">>,
          <<"xpon_onu", "x", "ani", "x", "tc", "onu_activation">>)
  OBVIOUS
<1>8. Row(<<"XPON.ONU", "x", "ANI", "x", "TC", "PerformanceThresholds">>,
          <<"xpon_onu", "x", "ani", "x", "tc", "performance_thresholds">>)
  OBVIOUS
<1>9. Row(<<"XPON.ONU", "x", "ANI", "x", "TC", "Alarms">>,
          <<"xpon_onu", "x", "ani", "x", "tc", "alarms">>)
  OBVIOUS
<1> HIDE Names DEF Row, Template, Translates, Entries, Roots
<1> USE DEF ObjectInfo
<1>10. Row(ObjectInfo["onu"].bbf, ObjectInfo["onu"].prpl)
  BY <1>1
<1>11. Row(ObjectInfo["software_image"].bbf, ObjectInfo["software_image"].prpl)
  BY <1>2
<1>12. Row(ObjectInfo["ethernet_uni"].bbf, ObjectInfo["ethernet_uni"].prpl)
  BY <1>3
<1>13. Row(ObjectInfo["ani"].bbf, ObjectInfo["ani"].prpl)
  BY <1>4
<1>14. Row(ObjectInfo["gem_port"].bbf, ObjectInfo["gem_port"].prpl)
  BY <1>5
<1>15. Row(ObjectInfo["transceiver"].bbf, ObjectInfo["transceiver"].prpl)
  BY <1>6
<1>16. Row(ObjectInfo["onu_activation"].bbf, ObjectInfo["onu_activation"].prpl)
  BY <1>7
<1>17. Row(ObjectInfo["performance_thresholds"].bbf, ObjectInfo["performance_thresholds"].prpl)
  BY <1>8
<1>18. Row(ObjectInfo["alarms"].bbf, ObjectInfo["alarms"].prpl)
  BY <1>9
<1> HIDE DEF ObjectInfo
<1>19. QED
  BY <1>10, <1>11, <1>12, <1>13, <1>14, <1>15, <1>16, <1>17, <1>18, Ids

\* The last element of the path of an object is that of no other.
LEMMA Distinct ==
    \A id, other \in ObjectId :
        /\ ObjectInfo[id].bbf = ObjectInfo[other].bbf => id = other
        /\ ObjectInfo[id].prpl = ObjectInfo[other].prpl => id = other
<1> DEFINE bbfLast(id) == ObjectInfo[id].bbf[Len(ObjectInfo[id].bbf)]
           prplLast(id) == ObjectInfo[id].prpl[Len(ObjectInfo[id].prpl)]
<1>1. /\ bbfLast("onu") = "XPON.ONU" /\ bbfLast("software_image") = "SoftwareImage"
      /\ bbfLast("ethernet_uni") = "EthernetUNI" /\ bbfLast("ani") = "ANI"
      /\ bbfLast("gem_port") = "Port" /\ bbfLast("transceiver") = "Transceiver"
      /\ bbfLast("onu_activation") = "ONUActivation"
      /\ bbfLast("performance_thresholds") = "PerformanceThresholds"
      /\ bbfLast("alarms") = "Alarms"
  BY DEF ObjectInfo
<1>2. /\ prplLast("onu") = "xpon_onu" /\ prplLast("software_image") = "software_image"
      /\ prplLast("ethernet_uni") = "ethernet_uni" /\ prplLast("ani") = "ani"
      /\ prplLast("gem_port") = "port" /\ prplLast("transceiver") = "transceiver"
      /\ prplLast("onu_activation") = "onu_activation"
      /\ prplLast("performance_thresholds") = "performance_thresholds"
      /\ prplLast("alarms") = "alarms"
  BY DEF ObjectInfo
<1> SUFFICES ASSUME NEW id \in ObjectId, NEW other \in ObjectId
             PROVE  /\ ObjectInfo[id].bbf = ObjectInfo[other].bbf => id = other
                    /\ ObjectInfo[id].prpl = ObjectInfo[other].prpl => id = other
  OBVIOUS
<1>3. /\ ObjectInfo[id].bbf = ObjectInfo[other].bbf => bbfLast(id) = bbfLast(other)
      /\ ObjectInfo[id].prpl = ObjectInfo[other].prpl => prplLast(id) = prplLast(other)
  OBVIOUS
<1> HIDE DEF bbfLast, prplLast
<1>4. bbfLast(id) = bbfLast(other) => id = other
  BY <1>1, Ids
<1>5. prplLast(id) = prplLast(other) => id = other
  BY <1>2, Ids
<1>6. QED
  BY <1>3, <1>4, <1>5

\* No parameter is called like the key of its object, or like what agents add.
LEMMA KeyApart ==
    \A id \in ObjectId : \A b \in DOMAIN ObjectInfo[id].params :
        ObjectInfo[id].params[b] \notin {ObjectInfo[id].key.prpl} \cup Extra
<1> USE DEF ObjectInfo, Extra
<1> SUFFICES ASSUME NEW id \in ObjectId
             PROVE  \A b \in DOMAIN ObjectInfo[id].params :
                        ObjectInfo[id].params[b] \notin {ObjectInfo[id].key.prpl} \cup Extra
  OBVIOUS
<1>1. CASE id = "onu"
  BY <1>1
<1>2. CASE id = "software_image"
  BY <1>2
<1>3. CASE id = "ethernet_uni"
  BY <1>3
<1>4. CASE id = "ani"
  BY <1>4
<1>5. CASE id = "gem_port"
  BY <1>5
<1>6. CASE id = "transceiver"
  BY <1>6
<1>7. CASE id = "onu_activation"
  <2> DEFINE names == {"onu_state", "vendor_id", "serial_number", "onu_id"}
  <2>1. ObjectInfo["onu_activation"].key.prpl = ""
    BY DEF NoKey
  <2>2. \A b \in DOMAIN ObjectInfo["onu_activation"].params : ObjectInfo["onu_activation"].params[b] \in names
    OBVIOUS
  <2>3. \A s \in names : s # "" /\ s # "vendor_info"
    BY Zenon
  <2> HIDE DEF ObjectInfo, names
  <2>4. QED
    BY <1>7, <2>1, <2>2, <2>3, Zenon
<1>8. CASE id = "performance_thresholds"
  <2> DEFINE names == {"signal_fail", "signal_degrade"}
  <2>1. ObjectInfo["performance_thresholds"].key.prpl = ""
    BY DEF NoKey
  <2>2. \A b \in DOMAIN ObjectInfo["performance_thresholds"].params : ObjectInfo["performance_thresholds"].params[b] \in names
    OBVIOUS
  <2>3. \A s \in names : s # "" /\ s # "vendor_info"
    BY Zenon
  <2> HIDE DEF ObjectInfo, names
  <2>4. QED
    BY <1>8, <2>1, <2>2, <2>3, Zenon
<1>9. CASE id = "alarms"
  <2> DEFINE names == {"los", "lof", "sf", "sd", "lcdg", "tf", "suf", "mem", "dact", "dis", "mis",
                       "pee", "rdi", "lods", "rogue"}
  <2>1. ObjectInfo["alarms"].key.prpl = ""
    BY DEF NoKey
  <2>2. \A b \in DOMAIN ObjectInfo["alarms"].params : ObjectInfo["alarms"].params[b] \in names
    OBVIOUS
  <2>3. \A s \in names : s # "" /\ s # "vendor_info"
    BY Zenon
  <2> HIDE DEF ObjectInfo, names
  <2>4. QED
    BY <1>9, <2>1, <2>2, <2>3, Zenon
<1> HIDE DEF ObjectInfo
<1>10. QED
  BY <1>1, <1>2, <1>3, <1>4, <1>5, <1>6, <1>7, <1>8, <1>9, Ids

-----------------------------------------------------------------------------
(* Paths with indexes. *)

\* Appending an element, and taking it off again.
LEMMA AppendElements ==
    ASSUME NEW n \in Nat, NEW s, s = [k \in 1..n |-> s[k]], NEW e
    PROVE  /\ Len(s) = n
           /\ Append(s, e) = [k \in 1..n + 1 |-> IF k = n + 1 THEN e ELSE s[k]]
           /\ Len(Append(s, e)) = n + 1
           /\ SubSeq(Append(s, e), 1, n) = s
<1> DEFINE S == {s[k] : k \in 1..n} \cup {e}
           t == Append(s, e)
<1>1. s \in [1..n -> S]
  <2>1. \A k \in 1..n : s[k] \in S
    OBVIOUS
  <2> HIDE DEF S
  <2>2. QED
    BY <2>1
<1>2. e \in S
  OBVIOUS
<1> HIDE DEF S
<1>3. s \in Seq(S) /\ Len(s) = n
  BY <1>1
<1>4. /\ t \in Seq(S)
      /\ Len(t) = n + 1
      /\ \A k \in 1..n : t[k] = s[k]
      /\ t[n + 1] = e
  BY <1>2, <1>3, AppendProperties
<1> HIDE DEF t
<1>5. t = [k \in 1..n + 1 |-> IF k = n + 1 THEN e ELSE s[k]]
  BY <1>4, LenProperties
<1>6. \A k \in 1..n : t[k] \in S
  BY <1>1, <1>4
<1>7. /\ SubSeq(t, 1, n) \in Seq(S)
      /\ Len(SubSeq(t, 1, n)) = n
      /\ \A k \in 1..n : SubSeq(t, 1, n)[k] = t[k]
  BY <1>6, SubSeqProperties
<1>8. SubSeq(t, 1, n) = s
  BY <1>3, <1>4, <1>7, SeqEqual
<1>9. QED
  BY <1>3, <1>4, <1>5, <1>8 DEF t

\* The indexes of a place fit into a template.
Fits(t, p) ==
    /\ Len(t) > 1 => p.onu \in Number
    /\ Len(t) > 3 => p.ani \in Number

LEMMA PlaceFacts ==
    ASSUME NEW p \in Place
    PROVE  /\ p.id \in ObjectId
           /\ p.inst \in Number \cup {NoIndex}
           /\ Fits(ObjectInfo[p.id].bbf, p)
           /\ Fits(ObjectInfo[p.id].prpl, p)
<1>1. /\ Template(ObjectInfo[p.id].bbf)
      /\ Len(ObjectInfo[p.id].prpl) = Len(ObjectInfo[p.id].bbf)
  BY Rows DEF Row, Translates, Place
<1>2. QED
  BY <1>1 DEF Template, Fits, Place, Index

\* The elements of a template with the indexes filled in.
LEMMA AtFacts ==
    ASSUME NEW t, Template(t), NEW p, Fits(t, p)
    PROVE  /\ At(t, p) = [k \in 1..Len(t) |-> At(t, p)[k]]
           /\ At(t, p)[1] = t[1]
           /\ \A k \in 1..Len(t) : IF t[k] = "x" THEN At(t, p)[k] \in Number
                                   ELSE At(t, p)[k] = t[k] /\ t[k] \notin Number
<1>1. At(t, p) = [k \in 1..Len(t) |-> IF t[k] # "x" THEN t[k]
                                     ELSE IF k = 2 THEN p.onu ELSE p.ani]
  BY DEF At, Template
<1>2. \A k \in 1..Len(t) : t[k] # "x" => t[k] \notin Number
  BY Apart DEF Template
<1>3. \A k \in 1..Len(t) : t[k] = "x" => (IF k = 2 THEN p.onu ELSE p.ani) \in Number
  BY Apart DEF Template, Fits
<1>4. t[1] # "x"
  BY Apart DEF Template
<1>5. 1 \in 1..Len(t)
  BY DEF Template
<1>6. QED
  BY <1>1, <1>2, <1>3, <1>4, <1>5

\* The generic path is the template again, for an object as for an instance.
LEMMA GenericAt ==
    ASSUME NEW t, Template(t), NEW p, Fits(t, p), NEW index \in Number \cup {NoIndex}
    PROVE  /\ GenericPath(WithIndex(At(t, p), index)) = t
           /\ WithIndex(At(t, p), index)[1] = t[1]
<1> DEFINE a == At(t, p)
           n == Len(t)
<1>1. /\ n \in Nat \ {0}
      /\ a = [k \in 1..n |-> a[k]]
      /\ a[1] = t[1]
      /\ \A k \in 1..n : IF t[k] = "x" THEN a[k] \in Number ELSE a[k] = t[k] /\ t[k] \notin Number
      /\ a[n] \notin Number
  BY AtFacts DEF Template
<1>2. t = [k \in 1..n |-> t[k]]
  BY DEF Template
<1> HIDE DEF a, n
<1>3. [k \in 1..n |-> IF a[k] \in Number THEN "x" ELSE a[k]] = t
  BY <1>1, <1>2
<1>4. CASE index = NoIndex
  <2>1. Len(a) = n
    BY <1>1, AppendElements
  <2>2. DropLastNumber(a) = a
    BY <1>1, <2>1 DEF DropLastNumber
  <2>3. GenericPath(a) = t
    BY <1>1, <1>3, <2>2 DEF GenericPath
  <2>4. QED
    BY <1>1, <1>4, <2>3 DEF WithIndex, a
<1>5. CASE index # NoIndex
  <2> DEFINE i == Append(a, index)
  <2>1. index \in Number
    BY <1>5
  <2>2. /\ i = [k \in 1..n + 1 |-> IF k = n + 1 THEN index ELSE a[k]]
        /\ Len(i) = n + 1
        /\ SubSeq(i, 1, n) = a
    BY <1>1, AppendElements
  <2> HIDE DEF i
  <2>3. i[Len(i)] = index /\ i[1] = t[1]
    BY <1>1, <2>2
  <2>4. DropLastNumber(i) = a
    BY <1>1, <2>1, <2>2, <2>3 DEF DropLastNumber
  <2>5. GenericPath(i) = t
    BY <1>1, <1>3, <2>4 DEF GenericPath
  <2>6. QED
    BY <1>5, <2>3, <2>5 DEF WithIndex, a, i
<1>6. QED
  BY <1>4, <1>5

\* The module identifies an object, or the template of an instance, by both names.
LEMMA Identify ==
    ASSUME NEW p \in Place, NEW index \in Number \cup {NoIndex}
    PROVE  /\ GetObjectId(WithIndex(BbfTemplate(p), index)) = p.id
           /\ GetObjectId(WithIndex(PrplTemplate(p), index)) = p.id
           /\ CanConvertBbf(WithIndex(BbfTemplate(p), index))
           /\ CanConvertPrpl(WithIndex(PrplTemplate(p), index))
<1> DEFINE bbf == WithIndex(BbfTemplate(p), index)
           prpl == WithIndex(PrplTemplate(p), index)
<1>1. /\ p.id \in ObjectId
      /\ Row(ObjectInfo[p.id].bbf, ObjectInfo[p.id].prpl)
      /\ Fits(ObjectInfo[p.id].bbf, p)
      /\ Fits(ObjectInfo[p.id].prpl, p)
  BY PlaceFacts, Rows
<1>2. GenericPath(bbf) = ObjectInfo[p.id].bbf /\ bbf[1] = "XPON.ONU"
  BY <1>1, GenericAt DEF BbfTemplate, Row, Translates
<1>3. GenericPath(prpl) = ObjectInfo[p.id].prpl /\ prpl[1] = "xpon_onu"
  BY <1>1, GenericAt DEF PrplTemplate, Row, Translates
<1> HIDE DEF bbf, prpl
<1>4. GetObjectId(bbf) = p.id
  BY <1>1, <1>2, Distinct DEF GetObjectId
<1>5. prpl[1] # "XPON.ONU"
  BY <1>3
<1>6. GetObjectId(prpl) = p.id
  BY <1>1, <1>3, <1>5, Distinct DEF GetObjectId
<1>7. QED
  BY <1>2, <1>3, <1>4, <1>6 DEF bbf, prpl, CanConvertBbf, CanConvertPrpl

\* Two paths of n elements that translate into each other.
Corresponding(n, b, q) ==
    /\ n \in Nat \ {0}
    /\ b = [k \in 1..n |-> b[k]]
    /\ q = [k \in 1..n |-> q[k]]
    /\ b[1] = "XPON.ONU"
    /\ q[1] = "xpon_onu"
    /\ \A k \in 2..n : ToPrplName(b[k]) = q[k] /\ ToBbfName(q[k]) = b[k]

\* An index behind such paths.
LEMMA TranslateWithIndex ==
    ASSUME NEW n, NEW b, NEW q, Corresponding(n, b, q), NEW index \in Number \cup {NoIndex}
    PROVE  /\ PrplPath(WithIndex(b, index)) = WithIndex(q, index)
           /\ BbfPath(WithIndex(q, index)) = WithIndex(b, index)
<1> USE DEF Corresponding
<1> DEFINE translated(k) == IF k = 1 THEN "xpon_onu" ELSE ToPrplName(b[k])
           back(k) == IF k = 1 THEN "XPON.ONU" ELSE ToBbfName(q[k])
<1>0. \A k \in 1..n : translated(k) = q[k] /\ back(k) = b[k]
  <2>1. \A k \in 1..n : k = 1 \/ k \in 2..n
    OBVIOUS
  <2>2. QED
    BY <2>1
<1>1. CASE index = NoIndex
  <2>1. PrplPath(b) = [k \in 1..n |-> translated(k)]
    <3>1. DOMAIN b = 1..n
      OBVIOUS
    <3>2. QED
      BY <3>1, Zenon DEF PrplPath
  <2>2. BbfPath(q) = [k \in 1..n |-> back(k)]
    <3>1. DOMAIN q = 1..n
      OBVIOUS
    <3>2. QED
      BY <3>1, Zenon DEF BbfPath
  <2> HIDE DEF translated, back
  <2>3. QED
    BY <1>0, <1>1, <2>1, <2>2 DEF WithIndex
<1>2. CASE index # NoIndex
  <2> DEFINE bi == Append(b, index)
             qi == Append(q, index)
  <2>1. bi = [k \in 1..n + 1 |-> IF k = n + 1 THEN index ELSE b[k]]
    BY AppendElements
  <2>2. qi = [k \in 1..n + 1 |-> IF k = n + 1 THEN index ELSE q[k]]
    BY AppendElements
  <2>3. ToPrplName(index) = index /\ ToBbfName(index) = index
    BY <1>2, Apart DEF ToPrplName, ToBbfName
  <2> HIDE DEF bi, qi
  <2>4. PrplPath(bi) = [k \in 1..n + 1 |-> IF k = n + 1 THEN index ELSE q[k]]
    <3>1. DOMAIN bi = 1..n + 1
      BY <2>1
    <3>2. PrplPath(bi) = [k \in 1..n + 1 |-> IF k = 1 THEN "xpon_onu" ELSE ToPrplName(bi[k])]
      BY <3>1, Zenon DEF PrplPath
    <3>3. \A k \in 1..n + 1 : (IF k = 1 THEN "xpon_onu" ELSE ToPrplName(bi[k]))
                               = (IF k = n + 1 THEN index ELSE q[k])
      BY <1>0, <2>1, <2>3
    <3>4. QED
      BY <3>2, <3>3
  <2>5. BbfPath(qi) = [k \in 1..n + 1 |-> IF k = n + 1 THEN index ELSE b[k]]
    <3>1. DOMAIN qi = 1..n + 1
      BY <2>2
    <3>2. BbfPath(qi) = [k \in 1..n + 1 |-> IF k = 1 THEN "XPON.ONU" ELSE ToBbfName(qi[k])]
      BY <3>1, Zenon DEF BbfPath
    <3>3. \A k \in 1..n + 1 : (IF k = 1 THEN "XPON.ONU" ELSE ToBbfName(qi[k]))
                               = (IF k = n + 1 THEN index ELSE b[k])
      BY <1>0, <2>2, <2>3
    <3>4. QED
      BY <3>2, <3>3
  <2>6. QED
    BY <1>2, <2>1, <2>2, <2>4, <2>5 DEF WithIndex, bi, qi
<1>3. QED
  BY <1>1, <1>2

\* The path of an object, or of a template with an index, is translated into that
\* of the same object in the other data model.
LEMMA Translate ==
    ASSUME NEW p \in Place, NEW index \in Number \cup {NoIndex}
    PROVE  /\ PrplPath(WithIndex(BbfTemplate(p), index)) = WithIndex(PrplTemplate(p), index)
           /\ BbfPath(WithIndex(PrplTemplate(p), index)) = WithIndex(BbfTemplate(p), index)
<1> DEFINE b == ObjectInfo[p.id].bbf
           q == ObjectInfo[p.id].prpl
           n == Len(b)
<1>1. Template(b) /\ Template(q) /\ Translates(b, q) /\ Fits(b, p) /\ Fits(q, p)
  BY PlaceFacts, Rows DEF Row
<1> HIDE DEF b, q
<1>2. /\ At(b, p) = [k \in 1..n |-> At(b, p)[k]]
      /\ At(q, p) = [k \in 1..n |-> At(q, p)[k]]
      /\ At(b, p)[1] = "XPON.ONU"
      /\ At(q, p)[1] = "xpon_onu"
      /\ n \in Nat \ {0}
  BY <1>1, AtFacts DEF Translates, Template
<1>3. ASSUME NEW k \in 2..n
      PROVE  ToPrplName(At(b, p)[k]) = At(q, p)[k] /\ ToBbfName(At(q, p)[k]) = At(b, p)[k]
  <2>1. CASE b[k] = "x"
    <3>1. q[k] = "x"
      BY <1>1, <2>1, Apart DEF Translates
    <3>2. At(b, p)[k] = At(q, p)[k]
      BY <1>1, <2>1, <3>1 DEF At, Translates, Template
    <3>3. At(b, p)[k] \in Number
      BY <1>1, <2>1, AtFacts DEF Template
    <3>4. QED
      BY <3>2, <3>3, Apart DEF ToPrplName, ToBbfName
  <2>2. CASE b[k] # "x"
    <3>1. b[k] \in BbfName /\ q[k] = Entries[b[k]]
      BY <1>1, <2>2 DEF Translates
    <3>2. q[k] \in PrplName
      BY <3>1 DEF PrplName
    <3>3. At(b, p)[k] = b[k] /\ At(q, p)[k] = q[k]
      <4>1. q[k] # "x"
        BY <3>2, Apart
      <4>2. QED
        BY <1>1, <2>2, <4>1, AtFacts DEF Template, Translates
    <3>4. ToPrplName(b[k]) = q[k]
      BY <3>1 DEF ToPrplName
    <3>5. ToBbfName(q[k]) = b[k]
      BY <3>1, <3>2, EntriesInjective DEF ToBbfName
    <3>6. QED
      BY <3>3, <3>4, <3>5
  <2>3. QED
    BY <2>1, <2>2
<1> DEFINE bbf == At(b, p)
           prpl == At(q, p)
<1>4. Corresponding(n, bbf, prpl)
  BY <1>2, <1>3 DEF Corresponding
<1> HIDE DEF n, bbf, prpl
<1>5. /\ PrplPath(WithIndex(bbf, index)) = WithIndex(prpl, index)
      /\ BbfPath(WithIndex(prpl, index)) = WithIndex(bbf, index)
  BY <1>4, TranslateWithIndex
<1>6. QED
  BY <1>5 DEF bbf, prpl, b, q, BbfTemplate, PrplTemplate

-----------------------------------------------------------------------------
(* Paths of any kind, of objects in OBJECT_INFO or not. *)

\* No name is one in both data models, so translating an element and translating
\* it back gives the element again.
LEMMA Elements ==
    /\ \A e : e \notin PrplName => ToPrplName(e) \notin BbfName /\ ToBbfName(ToPrplName(e)) = e
    /\ \A e : e \notin BbfName => ToBbfName(e) \notin PrplName /\ ToPrplName(ToBbfName(e)) = e
<1>1. BbfName \cap PrplName = {}
  BY Names
<1>2. \A b \in BbfName : Entries[b] \in PrplName
  BY DEF PrplName
<1>3. ASSUME NEW q \in PrplName
      PROVE  ToBbfName(q) \in BbfName /\ Entries[ToBbfName(q)] = q
  BY DEF PrplName, ToBbfName
<1>4. \A b \in BbfName : ToBbfName(Entries[b]) = b
  BY <1>2, <1>3, EntriesInjective
<1>5. ASSUME NEW e, e \notin PrplName
      PROVE  ToPrplName(e) \notin BbfName /\ ToBbfName(ToPrplName(e)) = e
  <2>1. CASE e \in BbfName
    <3>1. ToPrplName(e) = Entries[e]
      BY <2>1 DEF ToPrplName
    <3>2. QED
      BY <1>1, <1>2, <1>4, <2>1, <3>1
  <2>2. CASE e \notin BbfName
    BY <1>5, <2>2 DEF ToPrplName, ToBbfName
  <2>3. QED
    BY <2>1, <2>2
<1>6. ASSUME NEW e, e \notin BbfName
      PROVE  ToBbfName(e) \notin PrplName /\ ToPrplName(ToBbfName(e)) = e
  <2>1. CASE e \in PrplName
    <3>1. ToBbfName(e) \in BbfName /\ Entries[ToBbfName(e)] = e
      BY <1>3, <2>1
    <3>2. QED
      BY <1>1, <3>1 DEF ToPrplName
  <2>2. CASE e \notin PrplName
    BY <1>6, <2>2 DEF ToPrplName, ToBbfName
  <2>3. QED
    BY <2>1, <2>2
<1>7. QED
  BY <1>5, <1>6

\* A path of n elements.
IsPath(path, n) ==
    /\ n \in Nat \ {0}
    /\ path = [k \in 1..n |-> path[k]]

\* A path of one data model: it starts right, and has no name of the other.
InBbf(path, n) ==
    /\ IsPath(path, n)
    /\ CanConvertBbf(path)
    /\ \A k \in 2..n : path[k] \notin PrplName

InPrpl(path, n) ==
    /\ IsPath(path, n)
    /\ CanConvertPrpl(path)
    /\ \A k \in 2..n : path[k] \notin BbfName

\* The elements of a translated path.
LEMMA PathElements ==
    ASSUME NEW path, NEW n, IsPath(path, n)
    PROVE  /\ IsPath(PrplPath(path), n) /\ IsPath(BbfPath(path), n)
           /\ PrplPath(path)[1] = "xpon_onu" /\ BbfPath(path)[1] = "XPON.ONU"
           /\ \A k \in 2..n : /\ PrplPath(path)[k] = ToPrplName(path[k])
                              /\ BbfPath(path)[k] = ToBbfName(path[k])
<1>1. DOMAIN path = 1..n /\ n \in Nat \ {0}
  BY DEF IsPath
<1>2. PrplPath(path) = [k \in 1..n |-> IF k = 1 THEN "xpon_onu" ELSE ToPrplName(path[k])]
  BY <1>1, Zenon DEF PrplPath
<1>3. BbfPath(path) = [k \in 1..n |-> IF k = 1 THEN "XPON.ONU" ELSE ToBbfName(path[k])]
  BY <1>1, Zenon DEF BbfPath
<1>4. 1 \in 1..n /\ \A k \in 2..n : k \in 1..n /\ k # 1
  BY <1>1
<1>5. QED
  BY <1>1, <1>2, <1>3, <1>4 DEF IsPath

\* Translating a path of the plugin into the agents' data model and back gives the
\* path again, whatever its elements are
\* (dm_convert_bbf_path_to_prpl_path(), dm_convert_prpl_path_to_bbf_path()).
THEOREM ThereAndBack ==
    ASSUME NEW path, NEW n, InBbf(path, n)
    PROVE  InPrpl(PrplPath(path), n) /\ BbfPath(PrplPath(path)) = path
<1> DEFINE there == PrplPath(path)
           back == BbfPath(there)
<1>1. IsPath(path, n) /\ path[1] = "XPON.ONU" /\ \A k \in 2..n : path[k] \notin PrplName
  BY DEF InBbf, CanConvertBbf
<1>2. IsPath(there, n) /\ there[1] = "xpon_onu" /\ \A k \in 2..n : there[k] = ToPrplName(path[k])
  BY <1>1, PathElements
<1> HIDE DEF there
<1>3. IsPath(back, n) /\ back[1] = "XPON.ONU" /\ \A k \in 2..n : back[k] = ToBbfName(there[k])
  BY <1>2, PathElements
<1> HIDE DEF back
<1>4. \A k \in 2..n : there[k] \notin BbfName /\ back[k] = path[k]
  BY <1>1, <1>2, <1>3, Elements
<1>5. \A k \in 1..n : back[k] = path[k]
  <2>1. \A k \in 1..n : k = 1 \/ k \in 2..n
    BY <1>1 DEF IsPath
  <2>2. QED
    BY <1>1, <1>3, <1>4, <2>1
<1>6. back = path
  BY <1>1, <1>3, <1>5 DEF IsPath
<1>7. InPrpl(there, n)
  BY <1>2, <1>4 DEF InPrpl, CanConvertPrpl
<1>8. QED
  BY <1>6, <1>7 DEF there, back

\* So does translating a path of an agent (notif.c takes it there, pon_ctrl.c back).
THEOREM BackAndThere ==
    ASSUME NEW path, NEW n, InPrpl(path, n)
    PROVE  InBbf(BbfPath(path), n) /\ PrplPath(BbfPath(path)) = path
<1> DEFINE there == BbfPath(path)
           back == PrplPath(there)
<1>1. IsPath(path, n) /\ path[1] = "xpon_onu" /\ \A k \in 2..n : path[k] \notin BbfName
  BY DEF InPrpl, CanConvertPrpl
<1>2. IsPath(there, n) /\ there[1] = "XPON.ONU" /\ \A k \in 2..n : there[k] = ToBbfName(path[k])
  BY <1>1, PathElements
<1> HIDE DEF there
<1>3. IsPath(back, n) /\ back[1] = "xpon_onu" /\ \A k \in 2..n : back[k] = ToPrplName(there[k])
  BY <1>2, PathElements
<1> HIDE DEF back
<1>4. \A k \in 2..n : there[k] \notin PrplName /\ back[k] = path[k]
  BY <1>1, <1>2, <1>3, Elements
<1>5. \A k \in 1..n : back[k] = path[k]
  <2>1. \A k \in 1..n : k = 1 \/ k \in 2..n
    BY <1>1 DEF IsPath
  <2>2. QED
    BY <1>1, <1>3, <1>4, <2>1
<1>6. back = path
  BY <1>1, <1>3, <1>5 DEF IsPath
<1>7. InBbf(there, n)
  BY <1>2, <1>4 DEF InBbf, CanConvertBbf
<1>8. QED
  BY <1>6, <1>7 DEF there, back

\* The generic form of a path: an index at its end is dropped, others become 'x'.
Generic(path, m) == [k \in 1..m |-> IF path[k] \in Number THEN "x" ELSE path[k]]

LEMMA GenericElements ==
    ASSUME NEW path, NEW n, IsPath(path, n), path[1] \notin Number
    PROVE  /\ path[n] \in Number => n - 1 \in Nat \ {0} /\ GenericPath(path) = Generic(path, n - 1)
           /\ path[n] \notin Number => GenericPath(path) = Generic(path, n)
<1> USE DEF IsPath
<1>1. Len(path) = n /\ DOMAIN path = 1..n
  BY AppendElements
<1>2. CASE path[n] \notin Number
  <2>1. DropLastNumber(path) = path
    BY <1>1, <1>2 DEF DropLastNumber
  <2>2. GenericPath(path) = Generic(path, n)
    BY <1>1, <2>1, Zenon DEF GenericPath, Generic
  <2>3. QED
    BY <1>2, <2>2
<1>3. CASE path[n] \in Number
  <2>1. n # 1 /\ n - 1 \in Nat \ {0}
    BY <1>3
  <2> DEFINE rest == [k \in 1..n - 1 |-> path[k]]
  <2>2. rest = [k \in 1..n - 1 |-> rest[k]]
    OBVIOUS
  <2>3. \A k \in 1..n - 1 : rest[k] = path[k]
    OBVIOUS
  <2> HIDE DEF rest
  <2>4. /\ Append(rest, path[n]) = [k \in 1..n - 1 + 1 |-> IF k = n - 1 + 1 THEN path[n] ELSE rest[k]]
        /\ SubSeq(Append(rest, path[n]), 1, n - 1) = rest
    BY <2>1, <2>2, AppendElements
  <2>5. Append(rest, path[n]) = path
    BY <2>1, <2>3, <2>4
  <2>6. DropLastNumber(path) = rest
    BY <1>1, <1>3, <2>4, <2>5 DEF DropLastNumber
  <2>7. DOMAIN rest = 1..n - 1
    BY <2>2
  <2>8. GenericPath(path) = [k \in 1..n - 1 |-> IF rest[k] \in Number THEN "x" ELSE rest[k]]
    BY <2>6, <2>7, Zenon DEF GenericPath
  <2>9. GenericPath(path) = Generic(path, n - 1)
    BY <2>3, <2>8 DEF Generic
  <2>10. QED
    BY <1>3, <2>1, <2>9
<1>4. QED
  BY <1>2, <1>3

\* Translation keeps instance indexes and 'x', and makes none.
LEMMA IndexesStay ==
    \A e : e \notin BbfName => /\ ToBbfName(e) \in Number <=> e \in Number
                               /\ ToBbfName(e) = "x" <=> e = "x"
                               /\ e \in Number => ToBbfName(e) = e
                               /\ ToBbfName(e) \in BbfName <=> e \in PrplName
                               /\ e \in PrplName => Entries[ToBbfName(e)] = e
<1> SUFFICES ASSUME NEW e, e \notin BbfName
             PROVE  /\ ToBbfName(e) \in Number <=> e \in Number
                    /\ ToBbfName(e) = "x" <=> e = "x"
                    /\ e \in Number => ToBbfName(e) = e
                    /\ ToBbfName(e) \in BbfName <=> e \in PrplName
                    /\ e \in PrplName => Entries[ToBbfName(e)] = e
  OBVIOUS
<1>1. CASE e \in PrplName
  <2>1. ToBbfName(e) \in BbfName /\ Entries[ToBbfName(e)] = e
    BY <1>1 DEF PrplName, ToBbfName
  <2>2. QED
    BY <1>1, <2>1, Apart
<1>2. CASE e \notin PrplName
  <2>1. ToBbfName(e) = e
    BY <1>2 DEF ToBbfName
  <2>2. QED
    BY <1>2, <2>1
<1>3. QED
  BY <1>1, <1>2

\* The path of an agent is about the same object as its translation, or both are
\* about none that the module knows; the former decides in notif.c what the plugin
\* is told with the latter.
THEOREM TranslationKeepsObject ==
    ASSUME NEW path, NEW n, InPrpl(path, n)
    PROVE  GetObjectId(BbfPath(path)) = GetObjectId(path)
<1> DEFINE bbf == BbfPath(path)
<1>1. IsPath(path, n) /\ path[1] = "xpon_onu" /\ \A k \in 2..n : path[k] \notin BbfName
  BY DEF InPrpl, CanConvertPrpl
<1>2. IsPath(bbf, n) /\ bbf[1] = "XPON.ONU" /\ \A k \in 2..n : bbf[k] = ToBbfName(path[k])
  BY <1>1, PathElements
<1> HIDE DEF bbf
<1>3. n \in Nat \ {0} /\ bbf[1] \notin Number /\ path[1] \notin Number
  BY <1>1, <1>2, Apart DEF IsPath, Roots
<1>4. \A k \in 2..n : bbf[k] \in Number <=> path[k] \in Number
  BY <1>1, <1>2, IndexesStay
<1>5. bbf[n] \in Number <=> path[n] \in Number
  BY <1>3, <1>4
<1>6. PICK m \in Nat \ {0} : /\ m <= n
                             /\ GenericPath(path) = Generic(path, m)
                             /\ GenericPath(bbf) = Generic(bbf, m)
  BY <1>1, <1>2, <1>3, <1>5, GenericElements
<1> DEFINE b == Generic(bbf, m)
           q == Generic(path, m)
<1>7. /\ b = [k \in 1..m |-> b[k]]
      /\ q = [k \in 1..m |-> q[k]]
      /\ b[1] = "XPON.ONU"
      /\ q[1] = "xpon_onu"
  BY <1>1, <1>2, <1>3, <1>6 DEF Generic
<1>8. ASSUME NEW k \in 2..m
      PROVE  q[k] \notin BbfName /\ b[k] = ToBbfName(q[k])
  <2>1. k \in 2..n /\ k \in 1..m
    BY <1>3, <1>6
  <2>2. /\ q[k] = IF path[k] \in Number THEN "x" ELSE path[k]
        /\ b[k] = IF bbf[k] \in Number THEN "x" ELSE bbf[k]
    BY <2>1 DEF Generic
  <2>3. ToBbfName("x") = "x" /\ "x" \notin BbfName
    BY Apart DEF ToBbfName
  <2>4. QED
    BY <1>1, <1>2, <1>4, <2>1, <2>2, <2>3
<1>9. \A id \in ObjectId : b = ObjectInfo[id].bbf <=> q = ObjectInfo[id].prpl
  <2> SUFFICES ASSUME NEW id \in ObjectId
               PROVE  b = ObjectInfo[id].bbf <=> q = ObjectInfo[id].prpl
    OBVIOUS
  <2> DEFINE tb == ObjectInfo[id].bbf
             tq == ObjectInfo[id].prpl
  <2>1. Template(tb) /\ Template(tq) /\ Translates(tb, tq)
    BY Rows DEF Row
  <2> HIDE DEF b, q, tb, tq
  <2>2. /\ tb = [k \in 1..Len(tb) |-> tb[k]]
        /\ tq = [k \in 1..Len(tb) |-> tq[k]]
        /\ Len(tb) \in Nat \ {0} /\ Len(tq) = Len(tb)
        /\ tb[1] = "XPON.ONU" /\ tq[1] = "xpon_onu"
        /\ \A k \in 2..Len(tb) : \/ tb[k] = "x" /\ tq[k] = "x"
                                 \/ tb[k] \in BbfName /\ tq[k] = Entries[tb[k]]
    BY <2>1 DEF Template, Translates
  <2>3. Len(b) = m /\ Len(q) = m
    BY <1>7, AppendElements
  <2>4. \A k \in 2..m : /\ b[k] = "x" <=> q[k] = "x"
                        /\ b[k] \in BbfName <=> q[k] \in PrplName
                        /\ q[k] \in PrplName => Entries[b[k]] = q[k]
    BY <1>8, IndexesStay
  <2>5. ASSUME b = tb PROVE q = tq
    <3>1. Len(tb) = m
      BY <2>3, <2>5
    <3>2. \A k \in 2..m : q[k] = tq[k]
      BY <2>2, <2>4, <2>5, <3>1
    <3>3. \A k \in 1..m : k = 1 \/ k \in 2..m
      BY <1>6
    <3>4. \A k \in 1..m : q[k] = tq[k]
      BY <1>7, <2>2, <3>2, <3>3
    <3>5. QED
      BY <1>7, <2>2, <3>1, <3>4
  <2>6. ASSUME q = tq PROVE b = tb
    <3>1. Len(tb) = m
      BY <2>2, <2>3, <2>6
    <3>2. ASSUME NEW k \in 2..m PROVE b[k] = tb[k]
      <4>1. CASE tb[k] = "x" /\ tq[k] = "x"
        BY <2>4, <2>6, <4>1
      <4>2. CASE tb[k] \in BbfName /\ tq[k] = Entries[tb[k]]
        <5>1. q[k] \in PrplName
          BY <2>6, <4>2 DEF PrplName
        <5>2. b[k] \in BbfName /\ Entries[b[k]] = Entries[tb[k]]
          BY <2>4, <2>6, <4>2, <5>1
        <5>3. QED
          BY <4>2, <5>2, EntriesInjective
      <4>3. QED
        BY <2>2, <3>1, <4>1, <4>2
    <3>3. \A k \in 1..m : k = 1 \/ k \in 2..m
      BY <1>6
    <3>4. \A k \in 1..m : b[k] = tb[k]
      BY <1>7, <2>2, <3>2, <3>3
    <3>5. QED
      BY <1>7, <2>2, <3>1, <3>4
  <2>7. QED
    BY <2>5, <2>6 DEF tb, tq
<1> HIDE DEF b, q
<1>10. GenericPath(bbf) = b /\ GenericPath(path) = q
  BY <1>6 DEF b, q
<1>11. path[1] # "XPON.ONU"
  BY <1>1
<1>12. CASE \E id \in ObjectId : q = ObjectInfo[id].prpl
  <2>1. PICK id \in ObjectId : q = ObjectInfo[id].prpl
    BY <1>12
  <2>2. b = ObjectInfo[id].bbf
    BY <1>9, <2>1
  <2>3. GetObjectId(path) = id
    BY <1>10, <1>11, <2>1, Distinct DEF GetObjectId
  <2>4. GetObjectId(bbf) = id
    BY <1>2, <1>10, <2>1, <2>2, Distinct DEF GetObjectId
  <2>5. QED
    BY <2>3, <2>4 DEF bbf
<1>13. CASE ~\E id \in ObjectId : q = ObjectInfo[id].prpl
  <2>1. ~\E id \in ObjectId : b = ObjectInfo[id].bbf
    BY <1>9, <1>13
  <2>2. GetObjectId(path) = "unknown"
    BY <1>10, <1>11, <1>13 DEF GetObjectId
  <2>3. GetObjectId(bbf) = "unknown"
    BY <1>2, <1>10, <2>1 DEF GetObjectId
  <2>4. QED
    BY <2>2, <2>3 DEF bbf
<1>14. QED
  BY <1>12, <1>13

\* So is the path of the plugin, by which pon_ctrl.c identifies the object that it
\* calls with the translated path.
THEOREM TranslationKeepsObjectToo ==
    ASSUME NEW path, NEW n, InBbf(path, n)
    PROVE  GetObjectId(PrplPath(path)) = GetObjectId(path)
<1> DEFINE prpl == PrplPath(path)
<1>1. InPrpl(prpl, n) /\ BbfPath(prpl) = path
  BY ThereAndBack
<1> HIDE DEF prpl
<1>2. GetObjectId(BbfPath(prpl)) = GetObjectId(prpl)
  BY <1>1, TranslationKeepsObject
<1>3. QED
  BY <1>1, <1>2 DEF prpl

\* Such a path is not empty.
LEMMA NotEmpty ==
    ASSUME NEW p \in Place, NEW index \in Number \cup {NoIndex}
    PROVE  /\ WithIndex(BbfTemplate(p), index) # <<>>
           /\ WithIndex(PrplTemplate(p), index) # <<>>
<1>1. ASSUME NEW t, Template(t), Fits(t, p)
      PROVE  WithIndex(At(t, p), index) # <<>>
  <2> DEFINE a == At(t, p)
             n == Len(t)
  <2>1. n \in Nat \ {0} /\ a = [k \in 1..n |-> a[k]]
    BY <1>1, AtFacts DEF Template
  <2> HIDE DEF a, n
  <2>2. a # <<>>
    BY <2>1
  <2>3. Append(a, index) # <<>>
    BY <2>1, AppendElements
  <2>4. QED
    BY <2>2, <2>3 DEF WithIndex, a
<1>2. QED
  BY <1>1, PlaceFacts, Rows DEF Row, BbfTemplate, PrplTemplate

LEMMA PlaceIsSomewhere == \A p \in Place : p # Elsewhere
BY Ids DEF Place, Elsewhere

-----------------------------------------------------------------------------
(* Replies. *)

\* What obj_process_object_params() takes from a reply is what it has of the
\* object's parameters.
Faithful(id, reply) ==
    \A name : (\E b \in ParamsIn(id, reply[1]) : ObjectInfo[id].params[b] = name)
              <=> name \in UNION Image(reply) /\ name \notin {ObjectInfo[id].key.prpl} \cup Extra

LEMMA TableFaithful ==
    ASSUME NEW id \in ObjectId, NEW reply, Len(reply) = 1, DOMAIN reply = 1..1,
           reply[1] \subseteq Image(ObjectInfo[id].params) \cup {ObjectInfo[id].key.prpl} \cup Extra
    PROVE  Faithful(id, reply)
<1>1. \A b \in DOMAIN ObjectInfo[id].params : ParamType(b) \in Converted
  BY DEF ParamType, Converted
<1>2. ParamsIn(id, reply[1]) = {b \in DOMAIN ObjectInfo[id].params :
                                   ObjectInfo[id].params[b] \in reply[1]}
  BY <1>1 DEF ParamsIn
<1> DEFINE params == ObjectInfo[id].params
           other == {ObjectInfo[id].key.prpl} \cup Extra
           table == reply[1]
<1>3. /\ \A b \in DOMAIN params : params[b] \notin other
      /\ \A name \in table : name \in other \/ \E b \in DOMAIN params : params[b] = name
      /\ ParamsIn(id, table) = {b \in DOMAIN params : params[b] \in table}
  BY <1>2, KeyApart DEF Image
<1> HIDE DEF params, other, table
<1>4. \A name : (\E b \in ParamsIn(id, table) : params[b] = name) <=> name \in table \ other
  BY <1>3
<1>5. \A name : name \in UNION Image(reply) <=> name \in table
  BY DEF Image, table
<1>6. \A name : name \in table \ other <=> name \in UNION Image(reply) /\ name \notin other
  BY <1>5, Zenon
<1>7. \A name : (\E b \in ParamsIn(id, table) : params[b] = name)
                    <=> name \in UNION Image(reply) /\ name \notin other
  BY <1>4, <1>6, Zenon
<1>8. QED
  BY <1>7, Zenon DEF Faithful, params, other, table

LEMMA RepliesFaithful ==
    ASSUME NEW p \in Place
    PROVE  /\ \A reply \in Replies(p) : Len(reply) = 1 => Faithful(p.id, reply)
           /\ \A names \in SUBSET Image(ObjectInfo[p.id].params) :
                  \A reply \in ParamReplies(names) : Faithful(p.id, reply)
<1> DEFINE known == Image(ObjectInfo[p.id].params) \cup {ObjectInfo[p.id].key.prpl} \cup Extra
<1>1. p.id \in ObjectId
  BY PlaceFacts
<1>2. ASSUME NEW reply \in Replies(p), Len(reply) = 1
      PROVE  Faithful(p.id, reply)
  <2>1. \A table \in Tables(p) : table \subseteq known
    BY DEF Tables
  <2>2. PICK n \in 0..2 : reply \in [1..n -> Tables(p)]
    BY DEF Replies
  <2> HIDE DEF known
  <2>3. n = 1
    BY <1>2, <2>2
  <2>4. DOMAIN reply = 1..1 /\ reply[1] \in Tables(p)
    BY <2>2, <2>3
  <2>5. reply[1] \subseteq known
    BY <2>1, <2>4
  <2>6. QED
    BY <1>1, <1>2, <2>4, <2>5, TableFaithful DEF known
<1>3. ASSUME NEW names \in SUBSET Image(ObjectInfo[p.id].params), NEW reply \in ParamReplies(names)
      PROVE  Faithful(p.id, reply)
  <2>1. Len(reply) = 1 /\ DOMAIN reply = 1..1 /\ reply[1] \subseteq names
    BY DEF ParamReplies
  <2>2. QED
    BY <1>1, <2>1, TableFaithful
<1>4. QED
  BY <1>2, <1>3

-----------------------------------------------------------------------------
(* Operations. *)

Right ==
    /\ TypeOK
    /\ RightObjectCalled
    /\ RightObjectTold
    /\ KeyOfInstance
    /\ NothingReportedIsLost
    /\ KnownObjectsServed

\* An operation that fails has called the right object, or has a reason not to.
LEMMA FailsRight ==
    ASSUME TypeOK,
           NEW op \in Operation, NEW p \in Place, NEW called \in {<<>>, PrplNameOf(p)},
           op \in {"get_object_content", "set_enable", "dm_object_changed"} => called # <<>>,
           Fails(op, p, called)
    PROVE  Right'
<1>1. /\ objects' = objects
      /\ DOMAIN last' = DOMAIN Nothing
      /\ last'.op = op
      /\ last'.asked = p
      /\ last'.called = called
      /\ last'.ok = FALSE
      /\ last'.index = NoIndex
  BY DEF Fails, Does, Nothing
<1>2. TypeOK'
  BY <1>1 DEF TypeOK, Index
<1>3. QED
  BY <1>1, <1>2 DEF Right, RightObjectCalled, RightObjectTold, KeyOfInstance,
                    NothingReportedIsLost, KnownObjectsServed

\* What is asked for at an agent, and how.
RightQuery(op, p, replies, path, index, extractKey) ==
    /\ op \in {"get_object_content", "get_param_values", "dm_instance_added", "dm_object_changed"}
    /\ \A reply \in replies : Len(reply) = 1 => Faithful(p.id, reply)
    /\ path # <<>>
    /\ index \in Index
    /\ WithIndex(path, index) = BbfNameOf(p)
    /\ extractKey => p.inst # NoIndex
    /\ op = "dm_instance_added" => extractKey /\ index # NoIndex
    /\ Query(op, p, p.id, PrplNameOf(p), replies, path, index, extractKey)

\* So does one that succeeds, and it tells what it should.
LEMMA QueryRight ==
    ASSUME TypeOK,
           NEW op, NEW p \in Place, NEW replies, NEW path, NEW index, NEW extractKey \in BOOLEAN,
           RightQuery(op, p, replies, path, index, extractKey)
    PROVE  Right'
<1> USE DEF RightQuery
<1>1. PrplNameOf(p) # <<>>
  BY NotEmpty, PlaceFacts DEF PrplNameOf
<1>2. CASE Fails(op, p, PrplNameOf(p))
  BY <1>1, <1>2, FailsRight DEF Operation
<1>3. ASSUME NEW reply \in replies, CanProcess(p.id, reply, extractKey),
             Does([op |-> op, asked |-> p, ok |-> TRUE, called |-> PrplNameOf(p), reply |-> reply,
                   path |-> path, index |-> index,
                   keys |-> IF extractKey THEN KeysIn(p.id, reply[1]) ELSE {},
                   params |-> ParamsIn(p.id, reply[1])])
      PROVE  Right'
  <2>1. /\ objects' = objects
        /\ DOMAIN last' = DOMAIN Nothing
        /\ last'.op = op
        /\ last'.asked = p
        /\ last'.ok = TRUE
        /\ last'.called = PrplNameOf(p)
        /\ last'.reply = reply
        /\ last'.path = path
        /\ last'.index = index
        /\ last'.keys = IF extractKey THEN KeysIn(p.id, reply[1]) ELSE {}
        /\ last'.params = ParamsIn(p.id, reply[1])
    BY <1>3 DEF Does, Nothing
  <2>2. TypeOK'
    BY <2>1 DEF TypeOK, Operation
  <2>3. RightObjectCalled' /\ RightObjectTold' /\ KnownObjectsServed'
    BY <1>1, <2>1 DEF RightObjectCalled, RightObjectTold, KnownObjectsServed
  <2>4. NothingReportedIsLost'
    <3>1. Faithful(p.id, reply)
      BY <1>3 DEF CanProcess
    <3>2. /\ last'.asked = p
          /\ last'.reply = reply
          /\ last'.params = ParamsIn(p.id, reply[1])
      BY <2>1
    <3> DEFINE info == ObjectInfo[last'.asked.id]
               all == (UNION Image(last'.reply)) \ ({info.key.prpl} \cup Extra)
    <3>3. \A name : (\E b \in last'.params : info.params[b] = name) <=> name \in all
      BY <3>1, <3>2 DEF Faithful
    <3>4. (AboutPlace /\ last.ok)' => {info.params[b] : b \in last'.params} = all
      <4> HIDE DEF info, all
      <4>1. QED
        BY <3>3
    <3>5. QED
      BY <3>4, Zenon DEF NothingReportedIsLost
  <2>5. KeyOfInstance'
    BY <1>3, <2>1 DEF KeyOfInstance, CanProcess, KeysIn
  <2>6. QED
    BY <2>2, <2>3, <2>4, <2>5 DEF Right
<1>4. QED
  BY <1>2, <1>3 DEF Query

\* The names of a place.
LEMMA NameFacts ==
    ASSUME NEW p \in Place
    PROVE  /\ p.inst \in Index
           /\ BbfTemplate(p) = WithIndex(BbfTemplate(p), NoIndex)
           /\ PrplTemplate(p) = WithIndex(PrplTemplate(p), NoIndex)
           /\ BbfNameOf(p) = WithIndex(BbfNameOf(p), NoIndex)
           /\ PrplNameOf(p) = WithIndex(PrplNameOf(p), NoIndex)
           /\ BbfTemplate(p) # <<>> /\ BbfNameOf(p) # <<>>
           /\ GetObjectId(BbfTemplate(p)) = p.id /\ GetObjectId(BbfNameOf(p)) = p.id
           /\ GetObjectId(PrplTemplate(p)) = p.id /\ GetObjectId(PrplNameOf(p)) = p.id
           /\ CanConvertBbf(BbfNameOf(p))
           /\ CanConvertPrpl(PrplTemplate(p)) /\ CanConvertPrpl(PrplNameOf(p))
           /\ PrplPath(BbfNameOf(p)) = PrplNameOf(p)
           /\ BbfPath(PrplTemplate(p)) = BbfTemplate(p)
           /\ BbfPath(PrplNameOf(p)) = BbfNameOf(p)
           /\ p.id # "unknown"
<1>1. p.inst \in Index
  BY PlaceFacts DEF Index
<1>2. /\ BbfTemplate(p) = WithIndex(BbfTemplate(p), NoIndex)
      /\ PrplTemplate(p) = WithIndex(PrplTemplate(p), NoIndex)
      /\ BbfNameOf(p) = WithIndex(BbfNameOf(p), NoIndex)
      /\ PrplNameOf(p) = WithIndex(PrplNameOf(p), NoIndex)
  BY DEF WithIndex
<1>3. p.id # "unknown"
  BY PlaceFacts, Ids
<1> DEFINE i == p.inst
<1>4. i \in Number \cup {NoIndex} /\ NoIndex \in Number \cup {NoIndex}
  BY <1>1 DEF Index
<1>5. BbfNameOf(p) = WithIndex(BbfTemplate(p), i) /\ PrplNameOf(p) = WithIndex(PrplTemplate(p), i)
  BY DEF BbfNameOf, PrplNameOf
<1> HIDE DEF i
<1>6. /\ BbfNameOf(p) # <<>>
      /\ GetObjectId(BbfNameOf(p)) = p.id /\ GetObjectId(PrplNameOf(p)) = p.id
      /\ CanConvertBbf(BbfNameOf(p)) /\ CanConvertPrpl(PrplNameOf(p))
      /\ PrplPath(BbfNameOf(p)) = PrplNameOf(p)
      /\ BbfPath(PrplNameOf(p)) = BbfNameOf(p)
  BY <1>4, <1>5, NotEmpty, Identify, Translate
<1>7. /\ BbfTemplate(p) # <<>>
      /\ GetObjectId(BbfTemplate(p)) = p.id /\ GetObjectId(PrplTemplate(p)) = p.id
      /\ CanConvertPrpl(PrplTemplate(p))
      /\ BbfPath(PrplTemplate(p)) = BbfTemplate(p)
  BY <1>2, <1>4, NotEmpty, Identify, Translate
<1>8. QED
  BY <1>1, <1>2, <1>3, <1>6, <1>7

\* An operation that fetches nothing.
Tells(op, p, called, path, index) ==
    /\ objects' = objects
    /\ DOMAIN last' = DOMAIN Nothing
    /\ last'.op = op
    /\ last'.asked = p
    /\ last'.ok = TRUE
    /\ last'.called = called
    /\ last'.reply = <<>>
    /\ last'.path = path
    /\ last'.index = index
    /\ last'.keys = {}
    /\ last'.params = {}

\* It tells of the right object, too.
LEMMA TellsRight ==
    ASSUME TypeOK,
           NEW op \in {"set_enable", "dm_instance_removed"}, NEW p \in Place,
           NEW called \in {<<>>, PrplNameOf(p)}, op = "set_enable" => called # <<>>,
           NEW path, path # <<>>, NEW index \in Index, WithIndex(path, index) = BbfNameOf(p),
           op = "dm_instance_removed" => index # NoIndex,
           Tells(op, p, called, path, index)
    PROVE  Right'
<1> USE DEF Tells
<1>1. TypeOK'
  BY DEF TypeOK, Operation
<1>2. RightObjectCalled' /\ RightObjectTold' /\ KnownObjectsServed' /\ KeyOfInstance'
  BY DEF RightObjectCalled, RightObjectTold, KnownObjectsServed, KeyOfInstance
<1>3. NothingReportedIsLost'
  BY DEF NothingReportedIsLost, Image
<1>4. QED
  BY <1>1, <1>2, <1>3 DEF Right

LEMMA GetContentRight ==
    ASSUME TypeOK, GetContent
    PROVE  Right'
<1>1. PICK p \in Place :
          \/ GetObjectContent(p, BbfTemplate(p), p.inst)
          \/ p.inst # NoIndex /\ GetObjectContent(p, BbfNameOf(p), NoIndex)
  BY DEF GetContent
<1> DEFINE op == "get_object_content"
<1>2. ASSUME NEW path, NEW index \in Index, GetObjectContent(p, path, index),
             WithIndex(path, index) = BbfNameOf(p), path # <<>>, GetObjectId(path) = p.id,
             index # NoIndex => p.inst # NoIndex
      PROVE  Right'
  <2> DEFINE extractKey == index # NoIndex
  <2>1. Query(op, p, p.id, PrplNameOf(p), Replies(p), path, index, extractKey)
    BY <1>2, NameFacts DEF GetObjectContent
  <2>2. RightQuery(op, p, Replies(p), path, index, extractKey)
    BY <1>2, <2>1, RepliesFaithful DEF RightQuery
  <2>3. extractKey \in BOOLEAN
    OBVIOUS
  <2> HIDE DEF extractKey
  <2>4. QED
    BY <2>2, <2>3, QueryRight
<1>3. QED
  BY <1>1, <1>2, NameFacts DEF BbfNameOf, Index

LEMMA GetParamsRight ==
    ASSUME TypeOK, GetParams
    PROVE  Right'
<1>1. PICK p \in {q \in Place : IsObject(q)} :
          \E names \in SUBSET DOMAIN ObjectInfo[p.id].params :
              GetParamValues(p, BbfNameOf(p), names)
  BY DEF GetParams
<1>2. PICK names \in SUBSET DOMAIN ObjectInfo[p.id].params :
          GetParamValues(p, BbfNameOf(p), names)
  BY <1>1
<1> DEFINE prplNames == {ObjectInfo[p.id].params[b] : b \in names}
           op == "get_param_values"
<1>3. CASE Fails(op, p, <<>>)
  BY <1>3, FailsRight DEF Operation
<1>4. CASE Query(op, p, p.id, PrplNameOf(p), ParamReplies(prplNames), BbfNameOf(p), NoIndex, FALSE)
  <2>1. prplNames \in SUBSET Image(ObjectInfo[p.id].params)
    BY <1>2 DEF Image
  <2>2. \A reply \in ParamReplies(prplNames) : Faithful(p.id, reply)
    BY <2>1, RepliesFaithful
  <2> HIDE DEF prplNames
  <2>3. NoIndex \in Index
    BY DEF Index
  <2>4. RightQuery(op, p, ParamReplies(prplNames), BbfNameOf(p), NoIndex, FALSE)
    BY <1>4, <2>2, <2>3, NameFacts DEF RightQuery
  <2>5. QED
    BY <2>4, QueryRight
<1>5. QED
  BY <1>2, <1>3, <1>4, NameFacts DEF GetParamValues

LEMMA SetEnableRight ==
    ASSUME TypeOK, SetEnable
    PROVE  Right'
<1>1. PICK p \in Place :
          \/ Fails("set_enable", p, PrplNameOf(p))
          \/ Does([Nothing EXCEPT !.op = "set_enable", !.asked = p, !.ok = TRUE,
                                   !.called = PrplNameOf(p), !.path = BbfNameOf(p)])
  BY NameFacts DEF SetEnable
<1>2. PrplNameOf(p) # <<>>
  BY NotEmpty, PlaceFacts DEF PrplNameOf
<1>3. CASE Fails("set_enable", p, PrplNameOf(p))
  BY <1>2, <1>3, FailsRight DEF Operation
<1>4. CASE Does([Nothing EXCEPT !.op = "set_enable", !.asked = p, !.ok = TRUE,
                                !.called = PrplNameOf(p), !.path = BbfNameOf(p)])
  <2>1. Tells("set_enable", p, PrplNameOf(p), BbfNameOf(p), NoIndex)
    BY <1>4 DEF Does, Nothing, Tells
  <2>2. QED
    BY <1>2, <2>1, NameFacts, TellsRight DEF Index
<1>5. QED
  BY <1>1, <1>3, <1>4

LEMMA HandleAddedRight ==
    ASSUME TypeOK, HandleAdded
    PROVE  Right'
<1> DEFINE op == "dm_instance_added"
<1>1. PICK p \in Place : HandleFetch(op, p, PrplTemplate(p), p.inst, TRUE)
  BY DEF HandleAdded
<1>2. CASE Fails(op, p, <<>>)
  BY <1>2, FailsRight DEF Operation
<1>3. CASE /\ p.inst # NoIndex
           /\ Query(op, p, p.id, PrplNameOf(p), Replies(p), BbfTemplate(p), p.inst, TRUE)
  <2>1. WithIndex(BbfTemplate(p), p.inst) = BbfNameOf(p)
    BY DEF BbfNameOf
  <2>2. RightQuery(op, p, Replies(p), BbfTemplate(p), p.inst, TRUE)
    BY <1>3, <2>1, NameFacts, RepliesFaithful DEF RightQuery
  <2>3. QED
    BY <2>2, QueryRight
<1>4. WithIndex(PrplTemplate(p), p.inst) = PrplNameOf(p)
  BY DEF PrplNameOf
<1>5. QED
  BY <1>1, <1>2, <1>3, <1>4, NameFacts DEF HandleFetch

LEMMA HandleChangedRight ==
    ASSUME TypeOK, HandleChanged
    PROVE  Right'
<1> DEFINE op == "dm_object_changed"
<1>1. PICK p \in Place : HandleFetch(op, p, PrplNameOf(p), NoIndex, FALSE)
  BY DEF HandleChanged
<1>2. Query(op, p, p.id, PrplNameOf(p), Replies(p), BbfNameOf(p), NoIndex, FALSE)
  BY <1>1, NameFacts DEF HandleFetch
<1>3. NoIndex \in Index
  BY DEF Index
<1>4. RightQuery(op, p, Replies(p), BbfNameOf(p), NoIndex, FALSE)
  BY <1>2, <1>3, NameFacts, RepliesFaithful DEF RightQuery
<1>5. QED
  BY <1>4, QueryRight

LEMMA HandleRemovedInstanceRight ==
    ASSUME TypeOK, HandleRemovedInstance
    PROVE  Right'
<1> DEFINE op == "dm_instance_removed"
<1>1. PICK p \in Place : HandleRemoved(p, PrplTemplate(p), p.inst)
  BY DEF HandleRemovedInstance
<1>2. CASE Fails(op, p, <<>>)
  BY <1>2, FailsRight DEF Operation
<1>3. CASE /\ p.inst # NoIndex
           /\ Does([Nothing EXCEPT !.op = op, !.asked = p, !.ok = TRUE,
                                   !.path = BbfTemplate(p), !.index = p.inst])
  <2>1. Tells(op, p, <<>>, BbfTemplate(p), p.inst)
    BY <1>3 DEF Does, Nothing, Tells
  <2>2. WithIndex(BbfTemplate(p), p.inst) = BbfNameOf(p)
    BY DEF BbfNameOf
  <2>3. QED
    BY <1>3, <2>1, <2>2, NameFacts, TellsRight
<1>4. QED
  BY <1>1, <1>2, <1>3, NameFacts DEF HandleRemoved

\* Of an object it does not know, the module tells nothing but that it is removed.
LEMMA HandleForeignRight ==
    ASSUME TypeOK, HandleForeign
    PROVE  Right'
<1>1. PICK f \in Foreign :
          LET path == SubSeq(f, 1, Len(f) - 1)
              index == f[Len(f)]
          IN  \/ HandleFetch("dm_instance_added", Elsewhere, path, index, TRUE)
              \/ HandleFetch("dm_object_changed", Elsewhere, f, NoIndex, FALSE)
              \/ HandleRemoved(Elsewhere, path, index)
  BY DEF HandleForeign
<1> DEFINE path == SubSeq(f, 1, Len(f) - 1)
           index == f[Len(f)]
<1>2. f \in Seq(STRING) /\ Len(f) > 1 /\ index \in Number
  BY AccessAssumption
<1>3. 1 \in DOMAIN f /\ 1 \in DOMAIN path
  <2>1. DOMAIN f = 1..Len(f) /\ Len(f) \in Nat
    BY <1>2, LenProperties
  <2>2. \A k \in 1..Len(f) - 1 : f[k] \in STRING
    BY <1>2, <2>1, ElementOfSeq
  <2>3. path \in Seq(STRING) /\ Len(path) = Len(f) - 1
    BY <1>2, <2>1, <2>2, SubSeqProperties
  <2>4. QED
    BY <1>2, <2>1, <2>3, LenProperties
<1>4. BbfPath(f) # <<>> /\ BbfPath(path) # <<>>
  <2>1. \A x : DOMAIN BbfPath(x) = DOMAIN x
    BY Zenon DEF BbfPath
  <2>2. 1 \in DOMAIN BbfPath(f) /\ 1 \in DOMAIN BbfPath(path)
    BY <1>3, <2>1
  <2>3. 1 \notin DOMAIN <<>>
    OBVIOUS
  <2>4. QED
    BY <2>2, <2>3, Zenon
<1>5. index \in Index /\ index # NoIndex /\ NoIndex \in Index
  BY <1>2, Apart DEF Index
<1> HIDE DEF path, index
<1>6. ASSUME NEW op \in Operation, NEW called, Fails(op, Elsewhere, called)
      PROVE  TypeOK' /\ ~AboutPlace'
  BY <1>5, <1>6 DEF Fails, Does, Nothing, TypeOK, AboutPlace
<1>7. ASSUME NEW op \in {"dm_instance_added", "dm_object_changed"}, NEW i \in Index,
             NEW extractKey, op = "dm_instance_added" => i # NoIndex,
             NEW x, BbfPath(x) # <<>>, HandleFetch(op, Elsewhere, x, i, extractKey)
      PROVE  TypeOK' /\ ~AboutPlace'
  <2>1. PICK called : \/ Fails(op, Elsewhere, called)
                      \/ \E reply, keys, params :
                            Does([op |-> op, asked |-> Elsewhere, ok |-> TRUE, called |-> called,
                                  reply |-> reply, path |-> BbfPath(x), index |-> i,
                                  keys |-> keys, params |-> params])
    BY <1>7 DEF HandleFetch, Query
  <2>2. CASE Fails(op, Elsewhere, called)
    BY <1>6, <2>2 DEF Operation
  <2>3. ASSUME NEW reply, NEW keys, NEW params,
               Does([op |-> op, asked |-> Elsewhere, ok |-> TRUE, called |-> called,
                     reply |-> reply, path |-> BbfPath(x), index |-> i,
                     keys |-> keys, params |-> params])
        PROVE  TypeOK' /\ ~AboutPlace'
    BY <1>7, <2>3 DEF Does, Nothing, TypeOK, AboutPlace, Operation
  <2>4. QED
    BY <2>1, <2>2, <2>3
<1>8. ASSUME HandleRemoved(Elsewhere, path, index)
      PROVE  TypeOK' /\ ~AboutPlace'
  <2>1. CASE Fails("dm_instance_removed", Elsewhere, <<>>)
    BY <1>6, <2>1 DEF Operation
  <2>2. CASE Does([Nothing EXCEPT !.op = "dm_instance_removed", !.asked = Elsewhere, !.ok = TRUE,
                                  !.path = BbfPath(path), !.index = index])
    BY <1>4, <1>5, <2>2 DEF Does, Nothing, TypeOK, AboutPlace, Operation
  <2>3. QED
    BY <1>8, <2>1, <2>2 DEF HandleRemoved
<1>9. TypeOK' /\ ~AboutPlace'
  BY <1>1, <1>4, <1>5, <1>7, <1>8 DEF path, index
<1>10. QED
  BY <1>9 DEF Right, RightObjectCalled, RightObjectTold, KeyOfInstance, NothingReportedIsLost,
              KnownObjectsServed, AboutPlace

-----------------------------------------------------------------------------
(* Theorems. *)

LEMMA RightNothing ==
    ASSUME TypeOK', last' = Nothing
    PROVE  Right'
BY DEF Right, Nothing, RightObjectCalled, RightObjectTold, KeyOfInstance, NothingReportedIsLost,
       KnownObjectsServed, AboutPlace

LEMMA RightInvariant == Spec => []Right
<1>1. Init => Right
  <2> SUFFICES ASSUME Init PROVE Right
    OBVIOUS
  <2>1. TypeOK
    BY DEF Init, TypeOK, Nothing, Operation, Index
  <2>2. QED
    BY <2>1 DEF Init, Right, Nothing, RightObjectCalled, RightObjectTold, KeyOfInstance,
                NothingReportedIsLost, KnownObjectsServed, AboutPlace
<1>2. Right /\ [Next]_vars => Right'
  <2> SUFFICES ASSUME Right, [Next]_vars PROVE Right'
    OBVIOUS
  <2>0. TypeOK
    BY DEF Right
  <2>1. ASSUME UNCHANGED last, TypeOK' PROVE Right'
    BY <2>1 DEF Right, RightObjectCalled, RightObjectTold, KeyOfInstance, NothingReportedIsLost,
                KnownObjectsServed, AboutPlace
  <2>2. CASE Appears
    BY <2>0, <2>1, <2>2, AccessAssumption DEF Appears, TypeOK
  <2>3. CASE Disappears
    BY <2>0, <2>1, <2>3, AccessAssumption DEF Disappears, TypeOK
  <2>4. CASE GetContent
    BY <2>0, <2>4, GetContentRight
  <2>5. CASE GetParams
    BY <2>0, <2>5, GetParamsRight
  <2>6. CASE SetEnable
    BY <2>0, <2>6, SetEnableRight
  <2>7. CASE HandleAdded
    BY <2>0, <2>7, HandleAddedRight
  <2>8. CASE HandleChanged
    BY <2>0, <2>8, HandleChangedRight
  <2>9. CASE HandleRemovedInstance
    BY <2>0, <2>9, HandleRemovedInstanceRight
  <2>10. CASE HandleForeign
    BY <2>0, <2>10, HandleForeignRight
  <2>11. CASE Return
    <3>1. TypeOK'
      BY <2>0, <2>11 DEF Return, TypeOK, Nothing, Operation, Index
    <3>2. QED
      BY <2>11, <3>1, RightNothing DEF Return
  <2>12. CASE UNCHANGED vars
    BY <2>0, <2>1, <2>12 DEF vars, TypeOK
  <2>13. QED
    BY <2>2, <2>3, <2>4, <2>5, <2>6, <2>7, <2>8, <2>9, <2>10, <2>11, <2>12 DEF Next
<1>3. QED
  BY <1>1, <1>2, PTL DEF Spec

\* The operations keep their types: what the plugin is told has a path, and an
\* index where a pon_stat function takes one.
THEOREM TypeCorrect == Spec => []TypeOK
<1>1. Right => TypeOK
  BY DEF Right
<1>2. QED
  BY <1>1, RightInvariant, PTL

\* Whatever instances there are, the object that is called is the one that the
\* plugin named or that the notification is about.
THEOREM CallsRightObject == Spec => []RightObjectCalled
<1>1. Right => RightObjectCalled
  BY DEF Right
<1>2. QED
  BY <1>1, RightInvariant, PTL

\* Whatever instances there are, the plugin is told of the right object.
THEOREM TellsRightObject == Spec => []RightObjectTold
<1>1. Right => RightObjectTold
  BY DEF Right
<1>2. QED
  BY <1>1, RightInvariant, PTL

\* A new instance comes with the key of its template, and only instances do.
THEOREM InstancesHaveKeys == Spec => []KeyOfInstance
<1>1. Right => KeyOfInstance
  BY DEF Right
<1>2. QED
  BY <1>1, RightInvariant, PTL

\* Of the parameters of an object, the plugin gets all that its agent reports.
THEOREM ReportedIsForwarded == Spec => []NothingReportedIsLost
<1>1. Right => NothingReportedIsLost
  BY DEF Right
<1>2. QED
  BY <1>1, RightInvariant, PTL

\* Objects of the data model are not turned down before their agent is asked.
THEOREM ServesKnownObjects == Spec => []KnownObjectsServed
<1>1. Right => KnownObjectsServed
  BY DEF Right
<1>2. QED
  BY <1>1, RightInvariant, PTL

-----------------------------------------------------------------------------
(* Paths of the plugin's own data model. *)

\* All elements have a translation.
Own(path) == \A k \in DOMAIN path : path[k] \in {"XPON.ONU"} \cup BbfName \cup Number

LEMMA PlaceOwn ==
    ASSUME NEW p \in Place
    PROVE  Own(BbfTemplate(p)) /\ Own(BbfNameOf(p))
<1> DEFINE t == ObjectInfo[p.id].bbf
           a == At(t, p)
           n == Len(t)
           own == {"XPON.ONU"} \cup BbfName \cup Number
<1>1. /\ Template(t) /\ Fits(t, p)
      /\ t[1] = "XPON.ONU"
      /\ \A k \in 2..n : t[k] = "x" \/ t[k] \in BbfName
      /\ p.inst \in Number \cup {NoIndex}
  BY PlaceFacts, Rows DEF Row, Translates
<1>2. n \in Nat \ {0}
  BY <1>1 DEF Template
<1> HIDE DEF t
<1>3. /\ a = [k \in 1..n |-> a[k]]
      /\ a[1] = t[1]
      /\ \A k \in 1..n : IF t[k] = "x" THEN a[k] \in Number ELSE a[k] = t[k] /\ t[k] \notin Number
  BY <1>1, AtFacts
<1> HIDE DEF a, n
<1>4. \A k \in 1..n : k = 1 \/ k \in 2..n
  BY <1>2
<1>5. \A k \in 1..n : a[k] \in own
  BY <1>1, <1>3, <1>4
<1>6. DOMAIN a = 1..n
  BY <1>3
<1>7. Own(a)
  BY <1>5, <1>6 DEF Own
<1>8. ASSUME NEW index \in Number
      PROVE  Own(Append(a, index))
  <2> DEFINE i == Append(a, index)
  <2>1. i = [k \in 1..n + 1 |-> IF k = n + 1 THEN index ELSE a[k]]
    BY <1>2, <1>3, AppendElements
  <2> HIDE DEF i
  <2>2. DOMAIN i = 1..n + 1
    BY <2>1
  <2>3. \A k \in 1..n + 1 : k = n + 1 \/ k \in 1..n
    BY <1>2
  <2>4. \A k \in 1..n + 1 : i[k] \in own
    BY <1>5, <2>1, <2>3
  <2>5. Own(i)
    BY <2>2, <2>4 DEF Own
  <2>6. QED
    BY <2>5 DEF i
<1>9. Own(WithIndex(a, p.inst))
  BY <1>1, <1>7, <1>8 DEF WithIndex
<1>10. QED
  BY <1>7, <1>9 DEF BbfTemplate, BbfNameOf, a, t

\* The template and the index of an instance that only an agent knows.
LEMMA ForeignParts ==
    ASSUME NEW f \in Foreign
    PROVE  /\ IsPath(f, Len(f))
           /\ IsPath(SubSeq(f, 1, Len(f) - 1), Len(f) - 1)
           /\ \A k \in 1..Len(f) - 1 : SubSeq(f, 1, Len(f) - 1)[k] = f[k]
           /\ WithIndex(SubSeq(f, 1, Len(f) - 1), f[Len(f)]) = f
<1> DEFINE n == Len(f)
           s == SubSeq(f, 1, n - 1)
<1>1. f \in Seq(STRING) /\ n > 1 /\ f[n] \in Number
  BY AccessAssumption
<1>2. n \in Nat /\ f = [k \in 1..n |-> f[k]]
  <2>1. DOMAIN f = 1..n /\ n \in Nat
    BY <1>1, LenProperties
  <2>2. f \in [1..n -> STRING]
    BY <1>1
  <2>3. QED
    BY <2>1, <2>2
<1>3. s \in Seq(STRING) /\ Len(s) = n - 1 /\ \A k \in 1..n - 1 : s[k] = f[k]
  <2>1. \A k \in 1..n - 1 : f[k] \in STRING
    BY <1>1, <1>2, ElementOfSeq
  <2>2. QED
    BY <1>1, <1>2, <2>1, SubSeqProperties
<1> HIDE DEF n, s
<1>4. PICK m \in Nat : m + 1 = n /\ m = n - 1
  BY <1>1, <1>2
<1>5. s = [k \in 1..m |-> s[k]]
  <2>1. s \in [1..m -> STRING]
    BY <1>3, <1>4
  <2>2. QED
    BY <2>1
<1>6. Append(s, f[n]) = f
  <2> DEFINE end == f[n]
  <2> HIDE DEF end
  <2>1. Append(s, end) = [k \in 1..m + 1 |-> IF k = m + 1 THEN end ELSE s[k]]
    BY <1>5, AppendElements
  <2>2. f = [k \in 1..m + 1 |-> f[k]]
    BY <1>2, <1>4
  <2>3. \A k \in 1..m + 1 : f[k] = IF k = m + 1 THEN end ELSE s[k]
    BY <1>3, <1>4 DEF end
  <2>4. QED
    BY <2>1, <2>2, <2>3 DEF end
<1>7. f[n] # NoIndex
  BY <1>1, Apart
<1>8. WithIndex(s, f[n]) = f
  BY <1>6, <1>7 DEF WithIndex
<1>9. IsPath(f, n) /\ IsPath(s, n - 1)
  BY <1>1, <1>2, <1>4, <1>5 DEF IsPath
<1>10. QED
  BY <1>3, <1>8, <1>9 DEF n, s

\* What is on the bus has a path that can be translated.
LEMMA OnBusOwn ==
    ASSUME TypeOK, NEW f, OnBus(f)
    PROVE  Own(BbfPath(f))
<1>1. PICK p \in objects : PrplNameOf(p) = f
  BY DEF OnBus
<1>2. p \in Place
  BY AccessAssumption DEF TypeOK
<1>3. BbfPath(f) = BbfNameOf(p)
  BY <1>1, <1>2, NameFacts
<1>4. QED
  BY <1>2, <1>3, PlaceOwn

\* So has its template.
LEMMA PrefixOwn ==
    ASSUME NEW f, NEW s, NEW n, NEW m, IsPath(f, n), IsPath(s, m), m <= n,
           \A k \in 1..m : s[k] = f[k], Own(BbfPath(f))
    PROVE  Own(BbfPath(s))
<1> DEFINE bf == BbfPath(f)
           bs == BbfPath(s)
<1>1. n \in Nat \ {0} /\ m \in Nat \ {0}
  BY DEF IsPath
<1>2. /\ bf[1] = "XPON.ONU" /\ bs[1] = "XPON.ONU"
      /\ IsPath(bf, n) /\ IsPath(bs, m)
      /\ \A k \in 2..n : bf[k] = ToBbfName(f[k])
      /\ \A k \in 2..m : bs[k] = ToBbfName(s[k])
  BY PathElements
<1> HIDE DEF bf, bs
<1>3. \A k \in 1..m : k = 1 \/ (k \in 2..m /\ k \in 2..n)
  BY <1>1
<1>4. \A k \in 1..m : bs[k] = bf[k] /\ k \in 1..n
  BY <1>1, <1>2, <1>3
<1>5. DOMAIN bs = 1..m /\ DOMAIN bf = 1..n
  BY <1>2 DEF IsPath
<1>6. \A k \in DOMAIN bs : k \in DOMAIN bf /\ bs[k] = bf[k]
  BY <1>4, <1>5
<1>7. Own(bf) => Own(bs)
  BY <1>6 DEF Own
<1>8. QED
  BY <1>7 DEF bf, bs

\* Everything the agents have beyond OBJECT_INFO is named as BBF_vs_PRPL_ENTRIES can
\* translate.
ForeignTranslatable ==
    \A f \in Foreign : \A k \in 2..Len(f) : f[k] \in PrplName \cup Number

LEMMA TranslatableOwn ==
    ASSUME NEW f, NEW n, IsPath(f, n), \A k \in 2..n : f[k] \in PrplName \cup Number
    PROVE  Own(BbfPath(f))
<1> DEFINE bf == BbfPath(f)
<1>1. n \in Nat \ {0}
  BY DEF IsPath
<1>2. bf[1] = "XPON.ONU" /\ IsPath(bf, n) /\ \A k \in 2..n : bf[k] = ToBbfName(f[k])
  BY PathElements
<1> HIDE DEF bf
<1>3. \A k \in 2..n : f[k] \notin BbfName
  <2>1. BbfName \cap PrplName = {}
    BY Names
  <2>2. QED
    BY <2>1, Apart
<1>4. \A k \in 2..n : bf[k] \in BbfName \cup Number
  BY <1>2, <1>3, IndexesStay
<1>5. DOMAIN bf = 1..n
  BY <1>2 DEF IsPath
<1>6. \A k \in 1..n : k = 1 \/ k \in 2..n
  BY <1>1
<1>7. Own(bf)
  BY <1>2, <1>4, <1>5, <1>6 DEF Own
<1>8. QED
  BY <1>7 DEF bf

\* What the plugin is told, of a removal if what is foreign can be translated.
OwnTold ==
    last.ok => Own(last.path) \/ (last.op = "dm_instance_removed" /\ ~ForeignTranslatable)

LEMMA FailsTells ==
    ASSUME NEW op, NEW p, NEW called, Fails(op, p, called)
    PROVE  ~last'.ok
BY DEF Fails, Does, Nothing

LEMMA QueryTells ==
    ASSUME NEW op, NEW p, NEW id, NEW called, NEW replies, NEW path, NEW index, NEW extractKey,
           Query(op, p, id, called, replies, path, index, extractKey)
    PROVE  last'.ok => last'.path = path /\ OnBus(called)
<1>1. CASE Fails(op, p, called)
  BY <1>1, FailsTells
<1>2. ASSUME NEW reply, NEW keys, NEW params,
             Does([op |-> op, asked |-> p, ok |-> TRUE, called |-> called, reply |-> reply,
                   path |-> path, index |-> index, keys |-> keys, params |-> params])
      PROVE  last'.path = path
  BY <1>2 DEF Does
<1>3. CASE /\ OnBus(called)
           /\ \E reply \in replies : \E keys, params :
                  Does([op |-> op, asked |-> p, ok |-> TRUE, called |-> called, reply |-> reply,
                        path |-> path, index |-> index, keys |-> keys, params |-> params])
  BY <1>2, <1>3
<1>4. QED
  BY <1>1, <1>3 DEF Query

LEMMA FetchTells ==
    ASSUME NEW op, NEW p, NEW path, NEW index, NEW extractKey,
           HandleFetch(op, p, path, index, extractKey)
    PROVE  last'.ok => last'.path = BbfPath(path) /\ OnBus(WithIndex(path, index))
BY QueryTells, FailsTells DEF HandleFetch

LEMMA ForeignOwn ==
    ASSUME TypeOK, HandleForeign
    PROVE  OwnTold'
<1>1. PICK f \in Foreign :
          LET path == SubSeq(f, 1, Len(f) - 1)
              index == f[Len(f)]
          IN  \/ HandleFetch("dm_instance_added", Elsewhere, path, index, TRUE)
              \/ HandleFetch("dm_object_changed", Elsewhere, f, NoIndex, FALSE)
              \/ HandleRemoved(Elsewhere, path, index)
  BY DEF HandleForeign
<1> DEFINE n == Len(f)
           path == SubSeq(f, 1, n - 1)
           index == f[n]
<1>2. /\ IsPath(f, n) /\ IsPath(path, n - 1)
      /\ \A k \in 1..n - 1 : path[k] = f[k]
      /\ WithIndex(path, index) = f
      /\ WithIndex(f, NoIndex) = f
  BY ForeignParts DEF WithIndex
<1>3. n \in Nat \ {0} /\ n - 1 <= n
  BY <1>2 DEF IsPath
<1>4. Own(BbfPath(f)) => Own(BbfPath(path))
  <2> HIDE DEF n, path
  <2>1. QED
    BY <1>2, <1>3, PrefixOwn
<1>5. ForeignTranslatable => Own(BbfPath(f))
  <2> SUFFICES ASSUME ForeignTranslatable PROVE Own(BbfPath(f))
    OBVIOUS
  <2>1. \A k \in 2..n : f[k] \in PrplName \cup Number
    BY DEF ForeignTranslatable
  <2> HIDE DEF n
  <2>2. QED
    BY <1>2, <2>1, TranslatableOwn
<1> HIDE DEF n, path, index
<1>6. CASE HandleFetch("dm_instance_added", Elsewhere, path, index, TRUE)
  BY <1>2, <1>4, <1>6, FetchTells, OnBusOwn DEF OwnTold
<1>7. CASE HandleFetch("dm_object_changed", Elsewhere, f, NoIndex, FALSE)
  BY <1>2, <1>7, FetchTells, OnBusOwn DEF OwnTold
<1>8. CASE HandleRemoved(Elsewhere, path, index)
  <2>1. last'.ok => last'.op = "dm_instance_removed" /\ last'.path = BbfPath(path)
    BY <1>8 DEF HandleRemoved, Fails, Does, Nothing
  <2>2. QED
    BY <1>4, <1>5, <2>1 DEF OwnTold
<1>9. QED
  BY <1>1, <1>6, <1>7, <1>8 DEF n, path, index


LEMMA NextOwnTold ==
    ASSUME TypeOK, OwnTold, [Next]_vars
    PROVE  OwnTold'
<1>1. ASSUME NEW path, Own(path), last'.ok => last'.path = path
      PROVE  OwnTold'
  BY <1>1 DEF OwnTold
<1>2. CASE UNCHANGED last
  BY <1>2 DEF OwnTold
<1>3. CASE GetContent
  <2>1. PICK p \in Place :
            \/ GetObjectContent(p, BbfTemplate(p), p.inst)
            \/ p.inst # NoIndex /\ GetObjectContent(p, BbfNameOf(p), NoIndex)
    BY <1>3 DEF GetContent
  <2>2. ASSUME NEW path, NEW index, GetObjectContent(p, path, index)
        PROVE  last'.ok => last'.path = path
    BY <2>2, FailsTells, QueryTells DEF GetObjectContent
  <2>3. QED
    BY <1>1, <2>1, <2>2, PlaceOwn
<1>4. CASE GetParams
  <2>1. PICK p \in {q \in Place : IsObject(q)} : \E names : GetParamValues(p, BbfNameOf(p), names)
    BY <1>4 DEF GetParams
  <2>2. last'.ok => last'.path = BbfNameOf(p)
    BY <2>1, FailsTells, QueryTells DEF GetParamValues
  <2>3. QED
    BY <1>1, <2>2, PlaceOwn
<1>5. CASE SetEnable
  <2>1. PICK p \in Place : \/ \E called : Fails("set_enable", p, called)
                           \/ \E called :
                                Does([Nothing EXCEPT !.op = "set_enable", !.asked = p, !.ok = TRUE,
                                                     !.called = called, !.path = BbfNameOf(p)])
    BY <1>5 DEF SetEnable
  <2>2. last'.ok => last'.path = BbfNameOf(p)
    BY <2>1, FailsTells DEF Does, Nothing
  <2>3. QED
    BY <1>1, <2>2, PlaceOwn
<1>6. CASE HandleAdded
  <2>1. PICK p \in Place : HandleFetch("dm_instance_added", p, PrplTemplate(p), p.inst, TRUE)
    BY <1>6 DEF HandleAdded
  <2>2. last'.ok => last'.path = BbfTemplate(p)
    BY <2>1, FetchTells, NameFacts
  <2>3. QED
    BY <1>1, <2>2, PlaceOwn
<1>7. CASE HandleChanged
  <2>1. PICK p \in Place : HandleFetch("dm_object_changed", p, PrplNameOf(p), NoIndex, FALSE)
    BY <1>7 DEF HandleChanged
  <2>2. last'.ok => last'.path = BbfNameOf(p)
    BY <2>1, FetchTells, NameFacts
  <2>3. QED
    BY <1>1, <2>2, PlaceOwn
<1>8. CASE HandleRemovedInstance
  <2>1. PICK p \in Place : HandleRemoved(p, PrplTemplate(p), p.inst)
    BY <1>8 DEF HandleRemovedInstance
  <2>2. last'.ok => last'.path = BbfPath(PrplTemplate(p))
    BY <2>1 DEF HandleRemoved, Fails, Does, Nothing
  <2>3. QED
    BY <1>1, <2>2, PlaceOwn, NameFacts
<1>9. CASE HandleForeign
  BY <1>9, ForeignOwn
<1>10. CASE Return
  BY <1>10 DEF Return, Nothing, OwnTold
<1>11. QED
  BY <1>2, <1>3, <1>4, <1>5, <1>6, <1>7, <1>8, <1>9, <1>10 DEF Next, Appears, Disappears, vars

LEMMA OwnToldInvariant == Spec => []OwnTold
<1>1. Init => OwnTold
  BY DEF Init, Nothing, OwnTold
<1>2. TypeOK /\ OwnTold /\ [Next]_vars => OwnTold'
  BY NextOwnTold
<1>3. QED
  BY <1>1, <1>2, TypeCorrect, PTL DEF Spec

\* Only of a removal can the plugin be told with a path that is not its own: what is
\* added or changed has been fetched, and so is named as the tables have it.
THEOREM OnlyRemovalsUntranslated == Spec => []ToldInBbfUnlessRemoved
<1>1. OwnTold => ToldInBbfUnlessRemoved
  BY DEF OwnTold, Own, ToldInBbfUnlessRemoved, ToldInBbf
<1>2. QED
  BY <1>1, OwnToldInvariant, PTL

\* The conversion of paths keeps what its comment promises as long as the agents add
\* nothing to their data model under names that BBF_vs_PRPL_ENTRIES does not have.
THEOREM ToldInBbfIfTranslatable == ForeignTranslatable => (Spec => []ToldInBbf)
<1> SUFFICES ASSUME ForeignTranslatable PROVE Spec => []ToldInBbf
  OBVIOUS
<1>1. OwnTold => ToldInBbf
  BY DEF OwnTold, Own, ToldInBbf
<1>2. QED
  BY <1>1, OwnToldInvariant, PTL

=============================================================================
