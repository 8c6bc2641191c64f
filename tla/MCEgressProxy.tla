----------------------------- MODULE MCEgressProxy -----------------------------
(* One connection, to destinations of every kind.                           *)
EXTENDS EgressProxy

Destinations ==
    { [port |-> TRUE, name |-> TRUE, answer |-> {"public"}],
      [port |-> TRUE, name |-> TRUE, answer |-> {"public", "private"}],
      [port |-> TRUE, name |-> TRUE, answer |-> {"unknown"}],
      [port |-> FALSE, name |-> TRUE, answer |-> {"public"}] }

=============================================================================
