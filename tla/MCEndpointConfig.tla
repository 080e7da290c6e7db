-------------------------- MODULE MCEndpointConfig --------------------------
(* Values for the constants of EndpointConfig that a .cfg cannot write.    *)
EXTENDS EndpointConfig

Entry(number, dir, type, size, banks) ==
  [number |-> number, dir |-> dir, type |-> type, size |-> size,
   banks |-> banks]

\* The three tables of main.c's cdcif in the order the driver configures them.
CdcTable ==
  <<Entry(3, "IN", "BULK", 16, 1), Entry(4, "OUT", "BULK", 16, 1),
    Entry(2, "IN", "INTERRUPT", 8, 1)>>

\* An unused entry, then one endpoint at a time: small, large, two banks; one
\* bank too large; a number the controller does not have.
OtherTables ==
  {<<Entry(0, "OUT", "BULK", 8, 1), Entry(1, "OUT", "BULK", 60, 1)>>,
   <<Entry(3, "IN", "BULK", 64, 2)>>, <<Entry(3, "IN", "BULK", 64, 1)>>,
   <<Entry(2, "IN", "BULK", 128, 1)>>, <<Entry(7, "IN", "BULK", 8, 1)>>}

MCTables == {CdcTable} \cup OtherTables
=============================================================================
