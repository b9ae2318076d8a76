----------------------------- MODULE MCDelivery -----------------------------
(* Two emitting goroutines, a webhook for some of the events, a browser. *)
EXTENDS Delivery

MCHooks == <<"alerts">>
MCWants == <<{"trigger"}>>
=============================================================================
