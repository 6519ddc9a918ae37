---------------------------- MODULE AtomicColumns ----------------------------
(***************************************************************************)
(* What a user may rely on about the columns of a row, whatever requests   *)
(* are in flight: each column is a register of its own.  A request that    *)
(* succeeds has found each value it asks for in its column at some moment  *)
(* while it ran, or writes it, together with the others, at its end.  It   *)
(* writes nothing else, and a request that fails writes nothing.           *)
(* Settings implements this specification.                                 *)
(***************************************************************************)
CONSTANTS
  Workers,  \* request handlers
  Columns,
  Values,
  Default,  \* what the columns hold before anybody asks for anything
  None      \* no request

VARIABLES
  stored,   \* the value of each column
  asking,   \* what the request of each worker asks for: values of some columns, or None
  settled   \* the columns in which a request has found the value it asks for

columns == <<stored, asking, settled>>

ColumnsInit ==
  /\ stored = Default
  /\ asking = [w \in Workers |-> None]
  /\ settled = [w \in Workers |-> {}]

Agreed(ask) == {c \in DOMAIN ask : ask[c] = stored[c]}

Begin(w, ask) ==
  /\ asking[w] = None
  /\ asking' = [asking EXCEPT ![w] = ask]
  /\ \E C \in SUBSET Agreed(ask) : settled' = [settled EXCEPT ![w] = C]
  /\ UNCHANGED stored

Settle(w) ==
  /\ asking[w] # None
  /\ \E C \in SUBSET Agreed(asking[w]) : settled' = [settled EXCEPT ![w] = @ \cup C]
  /\ UNCHANGED <<stored, asking>>

\* The requests of W are over.
Over(W) ==
  /\ asking' = [w \in Workers |-> IF w \in W THEN None ELSE asking[w]]
  /\ settled' = [w \in Workers |-> IF w \in W THEN {} ELSE settled[w]]

Complete(w) ==
  /\ asking[w] # None
  /\ stored' = [c \in Columns |-> IF c \in DOMAIN asking[w] \ settled[w]
                                    THEN asking[w][c] ELSE stored[c]]
  /\ Over({w})

Abandon(W) == UNCHANGED stored /\ Over(W)

ColumnsNext ==
  \/ \E w \in Workers : Settle(w) \/ Complete(w)
  \/ \E w \in Workers, C \in SUBSET Columns : \E ask \in [C -> Values] : Begin(w, ask)
  \/ \E W \in SUBSET Workers : Abandon(W)

ColumnsSpec == ColumnsInit /\ [][ColumnsNext]_columns

=============================================================================
