------------------------------ MODULE MCServer ------------------------------
(* Two requests, one id that callers send.                                 *)
EXTENDS Server, TLC

CONSTANTS q1, q2, sent1, uuid1, uuid2

MCMinted == (q1 :> uuid1) @@ (q2 :> uuid2)

=============================================================================
