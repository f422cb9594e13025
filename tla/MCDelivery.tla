----------------------------- MODULE MCDelivery -----------------------------
(* Instances of module Delivery. *)
EXTENDS Delivery, TLC

CONSTANTS s, a, b, t

\* Two routes, over a and b or over b alone; a may also send the packet back to s.
Triangle == (s :> {a, b}) @@ (a :> {s, b}) @@ (b :> {t}) @@ (t :> {b})
=============================================================================
