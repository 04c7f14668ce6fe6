------------------------------- MODULE MCAgent -------------------------------
(***************************************************************************)
(* Small instances of the request path for TLC.                            *)
(***************************************************************************)
EXTENDS AgentProperties

CONSTANTS r1, r2, ext, emb

Req(n, k, r, ty) == [id |-> n, kind |-> k, rid |-> r, svc |-> ty]

create1 == Req(1, "create", r1, ext)
delete1 == Req(2, "delete", r1, ext)
cancel1 == Req(3, "cancel", r1, ext)
createE == Req(4, "create", r1, emb)
createE2 == Req(5, "create", r2, emb)
garbage == Req(6, "malformed", r2, NoType)
invalid == Req(7, "create", r2, NoType)
badCancel == Req(8, "cancel", r2, NoType)

CreateDelete == {create1, delete1}
CreateCancel == {create1, cancel1}
Lifecycle == {create1, delete1, cancel1}
EmbeddedCreate == {createE}
Mixed == {createE, createE2, invalid, garbage, badCancel}

=============================================================================
