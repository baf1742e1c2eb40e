---------------------------- MODULE MCConnection ----------------------------
(***************************************************************************)
(* Small instances of Connection.                                          *)
(***************************************************************************)
EXTENDS Connection

\* Every entry of every data source has a value of its own.
Values  == {d \o "." \o e : d \in Dsn, e \in Entry}
Drivers == {d \o ".DriverClass" : d \in Dsn}

Complete == [d \in Dsn |-> [e \in Entry |-> d \o "." \o e]]

\* All is given, or one entry of one data source is empty or missing.
Inis == {Complete} \cup
        {[Complete EXCEPT ![d][e] = x] : d \in {"a"}, e \in Entry, x \in {"", Absent}}
=============================================================================
