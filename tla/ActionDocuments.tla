-------------------------- MODULE ActionDocuments --------------------------
(***************************************************************************)
(* How the actions collection keeps an action: record_to_doc,              *)
(* doc_to_record and update_action_assignment of                           *)
(* http-gateway/src/action_store.rs, and the assignment that the action    *)
(* builder puts on its own copy before it publishes that                   *)
(* (http-gateway/src/action_builder.rs, apply_routing).                    *)
(*                                                                         *)
(* A record maps every field to a value or None; a document has the fields *)
(* that are in it.                                                         *)
(***************************************************************************)
EXTENDS Integers

CONSTANTS
    None,        \* Option::None
    Mandatory,   \* the fields of a record that are no Option
    Optional,    \* those that are, without the following four
    Half         \* 2^31, or less for a narrower integer

Duration == "escalation_duration"

Fields == Mandatory \cup Optional
             \cup {Duration, "assigned_to_type", "assigned_to_id", "assigned_to_name"}

(* Faulty: a duration beyond i32 is cut off. *)
AsI32Saturating(n) == IF n < Half THEN n ELSE Half - 1

(* A duration is a u32 in the record and an i32 in the document. *)
AsI32(n) == IF n < Half THEN n ELSE n - 2 * Half
AsU32(n) == n % (2 * Half)

RecordToDoc(record) ==
    [f \in {g \in DOMAIN record : record[g] # None} |->
        IF f = Duration THEN AsI32(record[f]) ELSE record[f]]

(* A document without one of the mandatory fields is no action. *)
DocToRecord(doc) ==
    IF \E f \in Mandatory : f \notin DOMAIN doc THEN None
    ELSE [f \in Fields |-> IF f \notin DOMAIN doc THEN None
                           ELSE IF f = Duration THEN AsU32(doc[f]) ELSE doc[f]]

(* A route has a type, an id and perhaps a name; without one the document keeps
   what it has. *)
UpdateAssignment(doc, route) ==
    LET set == {"assigned_to_type", "assigned_to_id"}
                  \cup (IF route.assigned_to_name = None THEN {} ELSE {"assigned_to_name"})
    IN  [f \in DOMAIN doc \cup set |-> IF f \in set THEN route[f] ELSE doc[f]]

ApplyRouting(record, route) ==
    [f \in DOMAIN record |-> IF f \in DOMAIN route THEN route[f] ELSE record[f]]

=============================================================================
