--------------------------- MODULE DeliveryStatus ---------------------------
(* The effective delivery status Meta's callbacks add up to.               *)
EXTENDS Integers

Succeeded        == {"sent", "delivered", "read"}
DELIVERY_STATUSES == Succeeded \cup {"failed"}

(* No evidence yet ranks lowest; a failure is no evidence of success.      *)
DeliveryRank(s) ==
  CASE s = "sent" -> 1 [] s = "delivered" -> 2 [] s = "read" -> 3 [] OTHER -> 0

(* _next_delivery_status.  current is "none" for a job that has no status  *)
(* of Meta's yet.                                                          *)
NextDeliveryStatus(current, incoming) ==
  CASE incoming = "failed" ->
         IF current \in Succeeded THEN current ELSE "failed"
    [] incoming = "sent" /\ current = "failed" -> "failed"
    [] OTHER ->
         IF DeliveryRank(incoming) > DeliveryRank(current) THEN incoming ELSE current
=============================================================================
