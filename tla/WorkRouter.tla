----------------------------- MODULE WorkRouter -----------------------------
(***************************************************************************)
(* Who an action is assigned to (http-gateway/src/work_router.rs,          *)
(* ConfigWorkRouter::resolve): the user a template names, or the entry of  *)
(* the first of the request's keys that the configuration has.             *)
(***************************************************************************)
EXTENDS Sequences, Naturals

CONSTANTS
    NoName,    \* Option::None or an empty string
    Default,   \* the key "default"
    Channels   \* the channel names parse_channels knows

(* A key "tenant:name" is <<tenant, name>>, a name alone <<name>>: no name     *)
(* contains a colon.  An entry is [type, id, channels].                        *)

Nobody == [type |-> "queue", id |-> NoName, channels |-> {"email"}, fallback |-> TRUE]

(* Faulty: the role alone is tried first. *)
RoleKeysGeneralFirst(request) ==
    IF request.responsible_role = NoName THEN << >>
    ELSE << <<request.responsible_role>>, <<request.tenant, request.responsible_role>> >>

RoleKeys(request) ==
    IF request.responsible_role = NoName THEN << >>
    ELSE << <<request.tenant, request.responsible_role>>, <<request.responsible_role>> >>

TaskKeys(request) ==
    << <<request.tenant, request.task_type>>, <<request.task_type>>,
       <<request.playbook>>, <<Default>> >>

(* Faulty: a role that has no route is not looked further for. *)
KeysOfRoleOnly(request) ==
    IF request.responsible_role = NoName THEN TaskKeys(request) ELSE RoleKeys(request)

(* A role without a route falls through to the keys of the task. *)
KeysOf(request) == RoleKeys(request) \o TaskKeys(request)

AssigneeType(type) == IF type \in {"user", "team"} THEN type ELSE "queue"

(* Unknown names are dropped; without any, email. *)
ChannelsOf(entry) ==
    IF entry.channels \cap Channels = {} THEN {"email"} ELSE entry.channels \cap Channels

(* The first key that has a route, or 0. *)
FirstHit(routes, keys) ==
    LET hits == {i \in DOMAIN keys : keys[i] \in DOMAIN routes}
    IN  IF hits = {} THEN 0 ELSE CHOOSE i \in hits : \A j \in hits : i <= j

Resolve(routes, request) ==
    LET keys == KeysOf(request)
        hit  == FirstHit(routes, keys)
    IN  IF request.responsible_user # NoName
        THEN [type |-> "user", id |-> request.responsible_user,
              channels |-> {"email"}, fallback |-> FALSE]
        ELSE IF hit = 0 THEN Nobody
        ELSE LET entry == routes[keys[hit]]
             IN  [type |-> AssigneeType(entry.type), id |-> entry.id,
                  channels |-> ChannelsOf(entry), fallback |-> FALSE]

=============================================================================
