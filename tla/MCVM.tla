-------------------------------- MODULE MCVM -------------------------------
(***************************************************************************)
(* The virtual machine on the programs of module Programs.                 *)
(***************************************************************************)
EXTENDS VM, Programs

C == INSTANCE Compiler WITH ByteMax <- ByteSize - 1

AllPrograms == CommonPrograms \o EndlessCalls \o << Endless, Clock, PrintGc >>

MCScripts == [p \in DOMAIN AllPrograms |-> C!compile(AllPrograms[p]).functions]
=============================================================================
