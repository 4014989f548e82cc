----------------------------- MODULE BufferPool -----------------------------
(***************************************************************************)
(* What the users of the shared buffer (buffer_helper.c) rely on: a pool   *)
(* of segments of which each client owns a set, no segment has two owners, *)
(* and a client gives back everything it took.  ShareBuffer implements it. *)
(***************************************************************************)
CONSTANTS Segs,     \* the segments of the pool
          Clients   \* the pointers that may own a block

VARIABLE owned      \* owned[c]: the segments c may write

Free == Segs \ UNION {owned[c] : c \in Clients}

PoolInit == owned = [c \in Clients |-> {}]

Take(c, B) ==
  /\ owned[c] = {}
  /\ B # {} /\ B \subseteq Free
  /\ owned' = [owned EXCEPT ![c] = B]

Give(c) ==
  /\ owned[c] # {}
  /\ owned' = [owned EXCEPT ![c] = {}]

PoolNext == \E c \in Clients : Give(c) \/ \E B \in SUBSET Segs : Take(c, B)

PoolSpec == PoolInit /\ [][PoolNext]_owned
=============================================================================
