------------------------------- MODULE MCSandbox -------------------------------
(***************************************************************************)
(* Instances of SandboxTenants: signups t1, t2, t3 of one company, of      *)
(* which t2 and t3 share an address, an operator's tenant o1, and a live   *)
(* key k1 that an operator asks for, to write and not to read.             *)
(***************************************************************************)
EXTENDS SandboxTenants, TLC

CONSTANTS t1, t2, t3, o1, k1

MCEmail == [t \in Tenants |-> CASE t = t1 -> "a" [] t \in {t2, t3} -> "b" [] OTHER -> None]
MCCompany == [t \in Tenants |-> "acme"]
MCOwner == [k \in Keys |-> t1]
MCEnvironment == [k \in Keys |-> "live"]
MCAsked == [k \in Keys |-> {"write"}]
=============================================================================
