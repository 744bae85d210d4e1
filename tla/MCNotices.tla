----------------------------- MODULE MCNotices -----------------------------
(* Two members and two workers, for the claim of the notification emitter.    *)
EXTENDS Notices

CONSTANTS i1, p1

SomeConcerns == {<<"low_stock", i1>>, <<"delivery_idle", p1>>}
=============================================================================
