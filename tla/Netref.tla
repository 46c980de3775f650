------------------------------- MODULE Netref -------------------------------
(***************************************************************************)
(* netref: what an operation on a proxy turns into.  Some are answered by  *)
(* the proxy itself, the others are a request to the side that owns the    *)
(* object.  A proxy is a value [t |-> "netref", conn, pack]; what its      *)
(* class knows (class_factory) is a record of the methods it was made      *)
(* with and of the local class its __class__ gives.                        *)
(***************************************************************************)
EXTENDS Python
LOCAL INSTANCE FiniteSetsExt

HANDLE == [ping |-> 1, getroot |-> 3, getattr |-> 4, delattr |-> 5, setattr |-> 6,
           call |-> 7, callattr |-> 8, repr |-> 9, str |-> 10, cmp |-> 11, hash |-> 12,
           dir |-> 13, pickle |-> 14, inspect |-> 16, buffiter |-> 17, ctxexit |-> 19]

DeletedAttrs == {ArrayName}
LocalAttrs   == DeletedAttrs \cup {ClassName, DocName, ExitName, EqName}

NetrefTo(side, pack) == [t |-> "netref", conn |-> side, pack |-> pack]

\* An id pack is a tuple (name pack, class id, instance id); the instance id
\* of a class is 0.
IsClassPack(pack) == pack.items[3] = Num(0)

(***************************************************************************)
(* class_factory.                                                          *)
(***************************************************************************)
NoClass     == [t |-> "noclass"]
ModuleClass == [t |-> "moduleclass"]
ClassNamed(mod, name) == [t |-> "class", mod |-> mod, name |-> name]

\* The class a name pack stands for on this side: a builtin type, or the name
\* that is left once the longest loaded module has been cut off.
ClassDescriptor(name, mods, classes) ==
    LET cuts == {c \in 1..Len(name) + 1 : /\ c = Len(name) + 1 \/ name[c] = 46
                                          /\ SubSeq(name, 1, c - 1) \in mods}
        c    == Max(cuts)
        mod  == SubSeq(name, 1, c - 1)
        left == SubSeq(name, c + 1, Len(name))
    IN  IF cuts = {} THEN NoClass
        ELSE IF left \in classes[mod] THEN ClassNamed(mod, left)
        ELSE ModuleClass

\* The methods of the netref class: those that do not shadow BaseNetref's own.
ClassFactory(name, methods, mods, classes) ==
    [methods |-> methods \ LocalAttrs, cls |-> ClassDescriptor(name, mods, classes)]

(***************************************************************************)
(* The operations.  class is the class of the proxy the operation is on.   *)
(***************************************************************************)
Ask(h, args) == [k |-> "request", h |-> h, args |-> args]
NoKwargs == Tup(<<>>)

GetAttrClassLocal(p, class, name) ==
    CASE name = ClassName -> Val(class.cls)
      [] name \in DeletedAttrs -> Error(AttributeError)
      [] OTHER -> Ask(HANDLE.getattr, <<p, Str(name)>>)
GetAttr(p, class, name) ==
    CASE name = ClassName /\ class.cls # NoClass -> Val(class.cls)
      [] name \in DeletedAttrs -> Error(AttributeError)
      [] name \in LocalAttrs \ {ClassName, DocName} -> Val(None)
      [] OTHER -> Ask(HANDLE.getattr, <<p, Str(name)>>)

\* A method the interpreter looks up on the class: one of class_factory's, or
\* none at all.
CallSpecial(p, class, name, args) ==
    IF name \notin class.methods THEN Error(TypeError)
    ELSE IF name = CallName THEN Ask(HANDLE.call, <<p, Tup(args), NoKwargs>>)
    ELSE Ask(HANDLE.callattr, <<p, Str(name), Tup(args), NoKwargs>>)

Route(op, p, class) ==
    CASE op.op = "getattr" -> GetAttr(p, class, op.name)
      [] op.op = "setattr" -> IF op.name \in LocalAttrs THEN Val(None)
                              ELSE Ask(HANDLE.setattr, <<p, Str(op.name)>> \o op.args)
      [] op.op = "delattr" -> IF op.name \in LocalAttrs THEN Val(None)
                              ELSE Ask(HANDLE.delattr, <<p, Str(op.name)>>)
      [] op.op = "special" -> CallSpecial(p, class, op.name, op.args)
      [] op.op = "cmp"     -> Ask(HANDLE.cmp, <<p>> \o op.args \o <<Str(op.name)>>)
      [] op.op = "repr"    -> Ask(HANDLE.repr, <<p>>)
      [] op.op = "str"     -> Ask(HANDLE.str, <<p>>)
      [] op.op = "hash"    -> Ask(HANDLE.hash, <<p>>)
      [] op.op = "dir"     -> Ask(HANDLE.dir, <<p>>)
      [] op.op = "exit"    -> Ask(HANDLE.ctxexit, <<p>> \o op.args)
      [] op.op = "pickle"  -> Ask(HANDLE.pickle, <<p, Num(2)>>)
      [] op.op = "buffiter" -> Ask(HANDLE.buffiter, <<p, Num(op.count)>>)
=============================================================================
