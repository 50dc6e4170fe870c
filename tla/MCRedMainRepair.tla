-------------------------- MODULE MCRedMainRepair --------------------------
(* Instances of RedMainRepair for TLC: two regions, one of which may be a  *)
(* migration path.                                                         *)
EXTENDS RedMainRepair

BothRegions == {"src", "sql"}
NoneOrSql   == {{}, {"sql"}}
Never       == {FALSE}
Always      == {TRUE}
AllLabels   == {Labels}
=============================================================================
