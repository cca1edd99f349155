----------------------------- MODULE MCTransfer -----------------------------
(* Instances of Transfer for TLC. *)
EXTENDS Transfer

\* A file that is replaced by a shorter one, then by one without a validator.
MCSize == <<3, 2, 3>>
MCTag  == <<"t1", "t2", NoTag>>

\* A file that is replaced once.
MCSizeTwo == <<2, 3>>
MCTagTwo  == <<"t1", "t2">>

\* A file that is never replaced.
MCSizeFour == <<4>>
MCTagOne   == <<"t1">>

=============================================================================
