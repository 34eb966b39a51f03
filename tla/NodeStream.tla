----------------------------- MODULE NodeStream -----------------------------
(***************************************************************************)
(* What the dumper promises to the reader of its output (Clava rebuilds    *)
(* the graph from it): a stream of node records in which every node has at *)
(* most one record, a record never changes, and whenever the writer is     *)
(* idle every id mentioned so far has its record.  A failed writer stops.  *)
(***************************************************************************)
EXTENDS FiniteSets

CONSTANTS Nodes, Null

VARIABLES
    announced,   \* nodes the writer has committed to
    mentions,    \* the records: for each written node, the ids it mentions
    busy,        \* a call is in progress
    failed

streamVars == <<announced, mentions, busy, failed>>

Written == DOMAIN mentions

Closed(records, promised) ==
    /\ DOMAIN records = promised
    /\ \A n \in promised : records[n] \subseteq promised \cup {Null}

StreamInit ==
    /\ announced = {}
    /\ mentions = <<>>
    /\ busy = FALSE
    /\ failed = FALSE

(* The writer commits to a node it has not announced.                      *)
Announce(n) ==
    /\ ~ failed
    /\ n \notin announced
    /\ announced' = announced \cup {n}
    /\ busy' = TRUE
    /\ UNCHANGED <<mentions, failed>>

(* The record of an announced node is written; the writer may go idle only  *)
(* when the stream is closed.                                               *)
Write(n, ids) ==
    /\ busy
    /\ n \in announced \ Written
    /\ mentions' = [m \in Written \cup {n} |-> IF m = n THEN ids ELSE mentions[m]]
    /\ busy' \in BOOLEAN
    /\ ~ busy' => Closed(mentions', announced)
    /\ UNCHANGED <<announced, failed>>

Fail ==
    /\ busy
    /\ failed' = TRUE
    /\ busy' = FALSE
    /\ UNCHANGED <<announced, mentions>>

StreamNext ==
    \/ \E n \in Nodes : Announce(n)
    \/ \E n \in Nodes : \E ids \in SUBSET (Nodes \cup {Null}) : Write(n, ids)
    \/ Fail

StreamSpec == StreamInit /\ [][StreamNext]_streamVars

(* Between two calls of a writer that has not failed, the stream is closed. *)
IdleStreamClosed == ~ busy /\ ~ failed => Closed(mentions, announced)

=============================================================================
