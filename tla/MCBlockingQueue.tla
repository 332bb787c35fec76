--------------------------- MODULE MCBlockingQueue ---------------------------
(* A producer that may also close, a consumer, and a thread that does both: *)
(* two threads can wait on either condition variable while a third one acts. *)
EXTENDS BlockingQueue, TLC

CONSTANTS p, c, x

Threads == {p, c, x}
Roles == p :> {"push", "push_for", "try_push", "close"}
      @@ c :> {"pop", "pop_for", "try_pop"}
      @@ x :> {"push", "push_for", "pop", "try_pop"}
=============================================================================
