----------------------------- MODULE MCAxiFabric -----------------------------
(***************************************************************************)
(* Instances of AxiFabric for TLC: the masters of tb/tb_amba_protocol.v.   *)
(***************************************************************************)
EXTENDS AxiFabric

TwoEach == [m \in Masters |-> 2]
\* bursts and locks on one master, plain reads and writes on the other
SomeTasks == [m \in Masters |-> IF m = 0 THEN Calls \ {"write"} ELSE Calls \ Smoke]
=============================================================================
