------------------------------- MODULE Direct -------------------------------
(***************************************************************************)
(* What the operations of a program would end with if the objects of both  *)
(* sides were in one process and every operation were made on the object   *)
(* itself, under the access rules the documentation states (docs/docs/     *)
(* security.rst, docs/docs/services.rst): the reference for Request.       *)
(***************************************************************************)
EXTENDS Request
LOCAL INSTANCE Functions

Server == setup.config["s"]

\* The names that are open to the other side.
Open(name) ==
    \/ Server.allow_all_attrs
    \/ Server.allow_safe_attrs /\ name \in SafeAttrs
    \/ Server.allow_exposed_attrs /\ Starts(name, Server.exposed_prefix)
    \/ Server.allow_public_attrs /\ ~Starts(name, Underscore)

\* The attribute a name means, and the object that has it: the name itself, or
\* the name with the prefix; restricted() and Service have rules of their own.
Meant(h, id, name, perm) ==
    LET over == objects[id].over
        prefixed == Server.exposed_prefix \o name
        has(n) == n \in DOMAIN h[id].attrs
    IN  CASE over.k = "restricted" /\ perm = "allow_getattr" -> over.attrs \cap {name}
          [] over.k = "restricted" /\ perm = "allow_setattr" -> over.wattrs \cap {name}
          [] over.k = "service" /\ perm # "allow_getattr" -> {}
          [] ~Server[perm] -> {}
          [] OTHER -> IF Server.allow_exposed_attrs /\ has(prefixed) /\ ~(has(name) /\ Open(name))
                      THEN {prefixed} ELSE {n \in {name} : Open(n)}

Get(h, id, name) ==
    LET meant == Meant(h, id, name, "allow_getattr")
    IN  IF meant = {} THEN Error(AttributeError) ELSE PyGet(h, Wrapped(id), CHOOSE n \in meant : TRUE)

\* Where the code departs from the reference on purpose or not: what a side
\* cannot or does not send stays on it.  A string with a lone surrogate is
\* dumpable() and raises in dump(); KeyboardInterrupt is not sent by default.
CannotDump(v) == Dumpable(v) /\ DumpRaises(v)
KeepsBack(s, r) == \/ r.k = "val" /\ CannotDump(r.v)
                   \/ r.k = "exc" /\ r.e.name = KeyboardInterrupt
                      /\ setup.config[s].propagate_KeyboardInterrupt_locally

\* The result r of a call of the other side, as side s gets it: what a side has
\* kept back comes out of the innermost call this side itself has under way.
Received(s, r) ==
    LET t == Other(s) IN
    CASE r.k = "kept" -> IF r.by = s THEN r.r ELSE r
      [] r.k # "kept" /\ KeepsBack(t, r) ->
           [k |-> "kept", by |-> t, r |-> IF r.k = "val" THEN Error(UnicodeEncodeError) ELSE r]
      [] OTHER -> r

\* A call on side s; a body that calls its first argument, on the other side,
\* ends with what that gives.
RECURSIVE Call(_, _, _)
Call(s, id, args) ==
    LET r == PyCall(id, args)
    IN  IF r.k = "callback" THEN Received(s, Call(Other(s), r.f.id, r.args)) ELSE r

CallMethod(h, id, name, args) ==
    LET f == Get(h, id, name) IN IF f.k = "exc" THEN f ELSE Call("s", f.v.id, args)

\* Another departure: an exception leaves a with block as a proxy.  __exit__ is
\* told that it is a TypeError, or that there is none if the proxy is not true,
\* and is not called at all if asking for the truth raises.
Truth(h, exc) ==
    LET asked == IF exc = None THEN {} ELSE TruthMethod(objects[exc.id].methods)
    IN  IF asked = {} THEN Val(exc)
        ELSE Received("s", Call("c", h[exc.id].attrs[CHOOSE n \in asked : TRUE].id, <<>>))
Exit(h, o, exc) ==
    LET truth == Truth(h, exc) IN
    IF truth.k # "val" THEN truth
    ELSE CallMethod(h, o, ExitName,
             <<IF Truthy(truth.v) THEN ClassNamed(Builtins, TypeError) ELSE exc>>)

AnswerOf(op, h, o) ==
    CASE op.op = "root"     -> Val(Obj(Root))
      [] op.op = "ping"     -> Val(op.args[1])
      [] op.op = "module"   -> LET r == Call("s", o, <<Str(op.name)>>)
                               IN  IF r.k = "val" THEN r ELSE Error(AttributeError)
      [] op.op = "getattr"  -> LET class == ClassDescriptor(NamePack(o), setup.loaded, Importable)
                               IN  IF op.name = ClassName /\ class # NoClass THEN Val(class)
                                   ELSE IF op.name \in DeletedAttrs THEN Error(AttributeError)
                                   ELSE Get(h, o, op.name)
      [] op.op \in {"setattr", "delattr"} ->
           IF \/ Meant(h, o, op.name, "allow_" \o op.op) = {}
              \/ op.op = "delattr" /\ Meant(h, o, op.name, "allow_delattr") \cap DOMAIN h[o].attrs = {}
           THEN Error(AttributeError) ELSE Val(None)
      [] op.op = "special"  ->
           IF op.name \notin objects[o].methods THEN Error(TypeError)
           ELSE IF \E i \in DOMAIN op.args : CannotDump(op.args[i])
           THEN Error(UnicodeEncodeError)
           ELSE IF op.name = CallName THEN Call("s", o, op.args)
           ELSE CallMethod(h, o, op.name, op.args)
      [] op.op = "cmp"      -> Val(IF op.args = <<Obj(o)>> THEN Bool(TRUE) ELSE NotImplemented)
      [] op.op \in {"repr", "str"} -> Val(Repr(Obj(o)))
      [] op.op = "hash"     -> Val(Num(objects[o].num))
      [] op.op = "dir"      -> Val(Dir(o, h))
      [] op.op = "exit"     -> Exit(h, o, op.args[1])
      [] op.op = "pickle"   -> IF Server.allow_pickle THEN Val(Bytes(TextOf(objects[o].num)))
                               ELSE Error(ValueError)
      [] op.op = "buffiter" -> Val(Tup(h[o].items))

HeapAfter(op, h, o) ==
    CASE op.op = "setattr" /\ AnswerOf(op, h, o).k = "val" ->
           PySet(h, Wrapped(o), CHOOSE n \in Meant(h, o, op.name, "allow_setattr") : TRUE, op.args[1])
      [] op.op = "delattr" /\ AnswerOf(op, h, o).k = "val" ->
           PyDel(h, o, CHOOSE n \in Meant(h, o, op.name, "allow_delattr") : TRUE)
      [] op.op = "buffiter" -> [h EXCEPT ![o].items = <<>>]
      [] OTHER -> h

\* What the user of the client gets: what the server keeps back ends its
\* connection.
Answered(r) == LET a == Received("c", r) IN IF a.k = "kept" THEN Error(EOFError) ELSE a

\* The run of the whole program: the answers, and the heap they leave.
Run ==
    LET step(run, op) ==
            LET given(v) == IF v.t = "result" THEN run.answers[v.i].v ELSE v
                now == [op EXCEPT !.on = given(@), !.args = [i \in DOMAIN @ |-> given(@[i])]]
                o   == IF now.on.t = "obj" THEN now.on.id ELSE Root
            IN  [answers |-> Append(run.answers, Answered(AnswerOf(now, run.heap, o))),
                 heap    |-> HeapAfter(now, run.heap, o)]
    IN  FoldLeft(step, [answers |-> <<>>, heap |-> Heap0], SubSeq(setup.program, 1, Len(outcomes)))

(***************************************************************************)
(* The outcomes of the program against the reference.                      *)
(***************************************************************************)
\* A proxy stands for its object.
RECURSIVE Meaning(_)
Meaning(v) == CASE v.t = "netref" -> Obj(LocalObject(v.pack))
                [] v.t = "tuple"  -> Tup([i \in DOMAIN v.items |-> Meaning(v.items[i])])
                [] OTHER          -> v

\* An exception is of its own class, or of one made up for it when the client
\* may not look for the class; its arguments and its public attributes are those
\* of the original, or their repr.
Printed(v) == IF Dumpable(v) THEN v ELSE Repr(v)
SameException(seen, e) ==
    /\ seen.args = [i \in DOMAIN e.args |-> Printed(e.args[i])]
    /\ ToSet(seen.attrs) = {<<a[1], Printed(a[2])>> : a \in {b \in ToSet(e.attrs) : b[1][1] # 95}}
    /\ \/ seen.mod = e.mod /\ seen.name = e.name
       \/ seen.generic /\ e.mod # Builtins /\ ~setup.config["c"].instantiate_custom_exceptions

TimedOut == \E s \in Sides : conn[s].timedOut
Agrees(seen, answer) ==
    \/ seen.k = "val" /\ answer.k = "val" /\ Meaning(seen.v) = answer.v
    \/ seen.k = "exc" /\ answer.k = "exc" /\ SameException(seen.e, answer.e)
    \/ seen = Error(EOFError) /\ (broken \/ TimedOut)

\* A program on proxies ends each of its operations with what the operation
\* gives on the object itself, whatever route it takes (a method of the netref
\* class, an attribute, a callback), however its frames are cut, and whether or
\* not the classes are known; only a network that fails or a write that times out
\* may end it otherwise, and what the server keeps back has to. At the end of the
\* program the objects are as the operations leave them: nothing was set, deleted
\* or consumed that the rules forbid, and nothing that was answered left undone.
Transparent == LET direct == Run IN
    /\ \A i \in DOMAIN outcomes : Agrees(outcomes[i], direct.answers[i])
    /\ Len(outcomes) = Len(setup.program) /\ ~broken /\ ~TimedOut => heap = direct.heap

(***************************************************************************)
(* The other properties of a request.                                      *)
(***************************************************************************)
\* Replies are nested: a reply answers the last request its side has sent and
\* not had the answer of (a request serves no purpose once nobody can take its
\* answer, and a callback answers before the call it is a part of).
RepliesNested == \A s \in Sides :
    up[s] /\ Complete(s) /\ Packet(s)[1] \in {MSG_REPLY, MSG_EXCEPTION} =>
        /\ conn[s].stack # <<>>
        /\ Load(Tail(Packet(s))).v.items[1] = Num(Last(conn[s].stack).seq)

\* Between two operations each side keeps an object for exactly the references
\* the other side's proxy stands for, and it never keeps it for fewer, plus the
\* references that were counted for a message brine then refused to dump: these
\* nobody will return. A proxy stands for one reference at least.
Quiet == /\ \A s \in Sides : up[s] /\ conn[s].stack = <<>> /\ out[s] = <<>> /\ pipe[s] = <<>>
         /\ \A s \in Sides : rd[s] = Idle
Held(s, pack) == IF pack \in DOMAIN conn[s].proxies THEN conn[s].proxies[pack].n ELSE 0
Accounts == \A s \in Sides :
    /\ \A pack \in DOMAIN conn[s].proxies : Held(s, pack) > 0
    /\ \A pack \in DOMAIN conn[s].locals \cup DOMAIN conn[Other(s)].proxies :
         LET due == Held(Other(s), pack) + Count(conn[s].leaked, pack)
             kept == Count(conn[s].locals, pack)
         IN  IF Quiet THEN kept = due ELSE kept >= due

\* Every program comes to its end, with the server's answers or with EOFError
\* when the connection is gone: no operation waits for ever.
CallsEnd == <>Finished
=============================================================================
