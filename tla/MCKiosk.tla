------------------------------- MODULE MCKiosk -------------------------------
(* An instance of Kiosk for TLC. *)
EXTENDS Kiosk

CONSTANTS d1, d2, d3

MCIds == {d1, d2, d3}

E(id, name, order, enabled) ==
  [id |-> id, name |-> name, order |-> order, enabled |-> enabled]

\* Sorted by order, with a name to break a tie, an entry without an id and a
\* disabled one; sorted by order alone; stable, with an id twice; nothing.
MCPayloads ==
  {[entries |-> <<E(d3, 1, 2, "yes"), E(d2, 3, NoOrder, "absent"), E(NoId, 1, 1, "yes"), E(d1, 2, 0, "yes")>>, default |-> d2],
   [entries |-> <<E(d1, 1, 1, "no"), E(d3, 2, NoOrder, "absent"), E(d2, 1, 3, "yes")>>, default |-> NoId],
   [entries |-> <<E(d2, 1, 1, "absent"), E(d1, 1, 1, "absent"), E(d2, 1, 1, "absent")>>, default |-> d3],
   NoPayload}

\* Every list the window may meet.
MCLists == {ListOf(p) : p \in MCPayloads}

\* 1, 2, up, right, OK, menu, home, yellow and one that is not mapped.
MCCodes == {33, 34, 1, 4, 0, 9, 69, 116, 99}

MCKeyNames == {"2", "Left", "Return", "p", "x"}

=============================================================================
