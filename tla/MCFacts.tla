------------------------------ MODULE MCFacts ------------------------------
(* Two UPSes, one read by NUT and one by SNMP, for FactFlow. *)
EXTENDS FactFlow

Ups == [type |-> "set", flags |-> {"OL"}]
UpsOut == [type |-> "set", flags |-> {"OB", "DISCHRG"}]
SnmpOut == [type |-> "text", flags |-> {"OB"}]

MCPollers == {"nut1", "snmp1"}
MCKind == [nut1 |-> "nut", snmp1 |-> "snmp"]
MCName == [nut1 |-> <<"ups">>, snmp1 |-> <<"rack">>]
MCReports == [nut1 |-> <<Status>>, snmp1 |-> <<Status>>]
StatusOf(v) == (Status :> v)
Silence == [f \in {} |-> NoValue]
MCReadings == [nut1 |-> {StatusOf(Ups), StatusOf(UpsOut)},
               snmp1 |-> {StatusOf(SnmpOut)}]
MCReadingsOrSilence == [MCReadings EXCEPT !.snmp1 = @ \cup {Silence}]
MCInterval == [nut1 |-> 1, snmp1 |-> 1]
MCClients == <<"c1">>
MCFeeds == <<<<>>>>
=============================================================================
