----------------------------- MODULE MCManaged -----------------------------
(* Instances of Managed for TLC. *)
EXTENDS Managed

OneRetry == [j \in Jobs |-> 1]

MCSize == <<2,1>>
MCTag  == <<"t1","t2">>

=============================================================================
