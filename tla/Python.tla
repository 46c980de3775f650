------------------------------- MODULE Python -------------------------------
(***************************************************************************)
(* The Python the two sides of a connection run, as far as rpyc calls it:  *)
(* objects with attributes, calls, and the exceptions they raise.  It is   *)
(* external to the repository, but for getmodule.                          *)
(***************************************************************************)
EXTENDS Brine, FiniteSets

VARIABLE objects    \* object -> what no operation changes of it: its class and module,
                    \* its numbers, its methods and overrider, and its body

Obj(id) == [t |-> "obj", id |-> id]

(***************************************************************************)
(* Names.  A name is a short sequence of code points in which the rules    *)
(* about names can still be told: "_" starts what is not public, "x" is    *)
(* the prefix of what is exposed, "." separates a module from a class.     *)
(***************************************************************************)
Underscore == <<95>>
Dot        == <<46>>
Builtins   == <<98>>
Special(c) == Underscore \o <<c>>       \* __c__
CallName == Special(40)
BoolName == Special(66)
ClassName == Special(67)
DocName   == Special(68)
ExitName  == Special(69)
EqName    == Special(61)
IterName  == Special(73)
LenName   == Special(76)
ArrayName == Special(65)                \* __array_struct__

Starts(name, prefix) ==
    Len(prefix) <= Len(name) /\ SubSeq(name, 1, Len(prefix)) = prefix

\* What a call or an attribute access ends with.
Val(v) == [k |-> "val", v |-> v]
Exc(e) == [k |-> "exc", e |-> e]

\* An exception: its class, its arguments and its other public attributes;
\* generic is TRUE for an instance of vinegar's GenericException.
Exception(mod, name, args) ==
    [t |-> "exc", mod |-> mod, name |-> name, args |-> args,
     attrs |-> <<>>, generic |-> FALSE]
Error(name) == Exc(Exception(Builtins, name, <<>>))
AttributeError     == <<65, 69>>
TypeError          == <<84, 69>>
ValueError         == <<86, 69>>
UnicodeEncodeError == <<85, 69>>
ImportError        == <<73, 69>>
EOFError           == <<69, 79, 70>>
PingError          == <<80, 69>>
StopIteration      == <<83, 73>>
KeyboardInterrupt  == <<75, 73>>

\* repr(): one text for each object, never equal to that of another one.
Repr(v) == IF v.t = "obj" THEN Str(<<60>> \o TextOf(objects[v.id].num)) ELSE Str(<<39>>)

(***************************************************************************)
(* Attributes and calls.  heap[id] holds the attributes of an object and,  *)
(* for an iterator, the items it has still to give.                        *)
(***************************************************************************)
PyGet(heap, id, name) ==
    IF name \in DOMAIN heap[id].attrs THEN Val(heap[id].attrs[name]) ELSE Error(AttributeError)

PySet(heap, id, name, v) ==
    [heap EXCEPT ![id].attrs = [n \in DOMAIN @ \cup {name} |-> IF n = name THEN v ELSE @[n]]]

PyDel(heap, id, name) ==
    [heap EXCEPT ![id].attrs = [n \in DOMAIN @ \ {name} |-> @[n]]]

\* Slave.getmodule: mods are the modules that can be imported.
GetModule(mods, name) ==
    LET found == {m \in DOMAIN mods : mods[m] = name}
    IN  IF found = {} THEN Error(ImportError) ELSE Val(Obj(CHOOSE m \in found : TRUE))

\* obj(*args): what the body of a function does.  A body that calls one of
\* its arguments ends with that call ("callback").
PyCall(id, args) ==
    LET body == objects[id].body IN
    CASE body.k = "echo"   -> Val(Tup(args))
      [] body.k = "give"   -> Val(body.v)
      [] body.k = "raise"  -> Exc(body.e)
      [] body.k = "apply"  -> [k |-> "callback", f |-> Head(args), args |-> Tail(args)]
      [] body.k = "import" -> GetModule(body.modules, Head(args))
      [] body.k = "told"   -> Val(IF Head(args).t = "class" THEN Str(Head(args).name) ELSE Head(args))
      [] OTHER -> Error(TypeError)

\* tuple(itertools.islice(it, count))
PySlice(heap, id, count) ==
    LET items == heap[id].items
        n == IF count < Len(items) THEN count ELSE Len(items)
    IN  [taken |-> SubSeq(items, 1, n),
         heap  |-> [heap EXCEPT ![id].items = SubSeq(items, n + 1, Len(items))]]

\* bool(obj): __bool__, or else __len__, if its class has them.
TruthMethod(methods) == IF BoolName \in methods THEN {BoolName} ELSE methods \cap {LenName}
Truthy(v) == v \notin {None, Bool(FALSE), Num(0)}

IsCallable(id) == objects[id].body.k # "none"
=============================================================================
