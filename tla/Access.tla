------------------------------- MODULE Access -------------------------------
(***************************************************************************)
(* Which attribute a request for a name reaches: Connection._check_attr    *)
(* and _access_attr, the overriders of Service and of restricted().        *)
(***************************************************************************)
EXTENDS Python

SafeAttrs == {BoolName, LenName, IterName, ExitName, EqName, DocName}

DefaultConfig ==
    [allow_safe_attrs |-> TRUE, allow_exposed_attrs |-> TRUE, allow_public_attrs |-> FALSE,
     allow_all_attrs |-> FALSE, exposed_prefix |-> <<120>>,
     allow_getattr |-> TRUE, allow_setattr |-> FALSE, allow_delattr |-> FALSE,
     include_local_traceback |-> TRUE, instantiate_custom_exceptions |-> FALSE,
     import_custom_exceptions |-> FALSE, propagate_KeyboardInterrupt_locally |-> TRUE,
     allow_pickle |-> FALSE]

\* SlaveService.on_connect
SlaveConfig ==
    [DefaultConfig EXCEPT !.allow_all_attrs = TRUE, !.allow_pickle = TRUE,
        !.allow_getattr = TRUE, !.allow_setattr = TRUE, !.allow_delattr = TRUE,
        !.allow_exposed_attrs = FALSE, !.import_custom_exceptions = TRUE,
        !.instantiate_custom_exceptions = TRUE]

\* The attribute that name stands for: a set of one name, or the empty set
\* when AttributeError is raised.
CheckAttr(config, attrs, name, perm) ==
    LET prefix == config.exposed_prefix
        plain == \/ config.allow_all_attrs
                 \/ config.allow_exposed_attrs /\ Starts(name, prefix)
                 \/ config.allow_safe_attrs /\ name \in SafeAttrs
                 \/ config.allow_public_attrs /\ ~Starts(name, Underscore)
        hasExposed == config.allow_exposed_attrs /\ prefix \o name \in DOMAIN attrs
    IN  IF ~config[perm] THEN {}
        ELSE IF plain /\ (~hasExposed \/ name \in DOMAIN attrs) THEN {name}
        ELSE IF hasExposed THEN {prefix \o name} ELSE {}

\* Whether the object's class has an overrider for the permission, and the
\* names it lets pass: Service refuses them all, a restricted view has a list.
Overrides(id, perm) ==
    \/ objects[id].over.k = "service" /\ perm \in {"allow_setattr", "allow_delattr"}
    \/ objects[id].over.k = "restricted" /\ perm \in {"allow_getattr", "allow_setattr"}
Passes(id, perm) ==
    LET over == objects[id].over IN
    IF over.k = "service" THEN {} ELSE IF perm = "allow_getattr" THEN over.attrs ELSE over.wattrs

\* The names the access reaches (at most one), and the object it reaches them
\* on: a restricted view hands the access on to the object it wraps.
AccessAttr(config, heap, id, name, perm) ==
    IF Overrides(id, perm) THEN Passes(id, perm) \cap {name}
    ELSE CheckAttr(config, heap[id].attrs, name, perm)
Wrapped(id) == IF objects[id].over.k = "restricted" THEN objects[id].over.obj ELSE id
=============================================================================
