--------------------------- MODULE MCEventStream ---------------------------
(* Instances of EventStream.                                               *)
EXTENDS EventStream

CONSTANTS r1, r2, c1, c2

\* One client joins a run late, the other follows how runs begin and end.
SomeRequests ==
  (c1 :> {[topics |-> Kinds, scope |-> r1, replay |-> r1]}) @@
  (c2 :> {[topics |-> {"run"}, scope |-> None, replay |-> None]})

SomeEvents == (r1 :> 3) @@ (r2 :> 2)

=============================================================================
