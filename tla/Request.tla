------------------------------ MODULE Request ------------------------------
(***************************************************************************)
(* A request from the operation on a proxy to its outcome: the client "c"  *)
(* runs a program of operations on the objects of the server "s", one at a *)
(* time, and either side serves the other while it waits.  Every value is  *)
(* boxed, dumped, framed, written, read, loaded and unboxed on its way.    *)
(***************************************************************************)
EXTENDS Access, Netref, Vinegar, PacketChannel
LOCAL INSTANCE Functions

CONSTANTS
    Objects,      \* the objects of both sides, see MCRequest
    Setups,       \* the programs, each with the configurations of the two sides, the
                  \* modules that are loaded, the amounts a short write or read
                  \* moves, and whether the network may fail
    Heap0,        \* the attributes and items of the objects at the beginning
    Root,         \* the server's root object
    Importable    \* module -> the names of its classes, on either side

VARIABLES
    setup,        \* the chosen member of Setups
    heap,         \* object -> its attributes and items, on the side that has it
    conn,         \* side -> its Connection
    outcomes,     \* what the operations of the program have ended with
    modules       \* ModuleNamespace's cache: name -> proxy

vars == <<setup, objects, heap, conn, outcomes, modules, framingVars>>

Config(s) == setup.config[s]
MSG_REQUEST == 1
MSG_REPLY == 2
MSG_EXCEPTION == 3

(***************************************************************************)
(* Boxing.                                                                 *)
(***************************************************************************)
NamePack(id) == objects[id].mod \o Dot \o objects[id].class
IdPack(id)   == Tup(<<Str(NamePack(id)), Num(objects[id].cnum),
                      Num(IF objects[id].isClass THEN 0 ELSE objects[id].num)>>)

RECURSIVE Box(_)
Box(v) == CASE Dumpable(v)      -> Tup(<<Num(1), v>>)
            [] ~Dumpable(v) /\ v.t = "tuple" ->
                 Tup(<<Num(2), Tup([i \in DOMAIN v.items |-> Box(v.items[i])])>>)
            [] v.t = "netref"   -> Tup(<<Num(3), v.pack>>)
            [] v.t = "obj"      -> Tup(<<Num(4), IdPack(v.id)>>)

\* The references a package holds, in the order in which they are boxed.
RECURSIVE Refs(_)
Refs(package) ==
    LET label == package.items[1] IN
    IF label = Num(2)
    THEN FlattenSeq([i \in DOMAIN package.items[2].items |-> Refs(package.items[2].items[i])])
    ELSE IF label = Num(4) THEN <<package.items[2]>> ELSE <<>>

Count(f, x) == IF x \in DOMAIN f THEN f[x] ELSE 0
Assign(f, x, v) == [y \in DOMAIN f \cup {x} |-> IF y = x THEN v ELSE f[y]]

\* _local_objects.add, once for every reference that is boxed.
AddLocal(locals, refs) ==
    FoldLeft(LAMBDA l, pack : Assign(l, pack, Count(l, pack) + 1), locals, refs)

Dir(id, h) == LET names == InOrder(DOMAIN h[id].attrs) IN Tup([i \in DOMAIN names |-> Str(names[i])])
LocalObject(pack) == CHOOSE id \in DOMAIN objects : IdPack(id) = pack

\* The value of a package once all its references have their proxies.
RECURSIVE Unboxed(_, _)
Unboxed(s, package) ==
    LET v == package.items[2] IN
    CASE package.items[1] = Num(1) -> v
      [] package.items[1] = Num(2) -> Tup([i \in DOMAIN v.items |-> Unboxed(s, v.items[i])])
      [] package.items[1] = Num(3) -> Obj(LocalObject(v))
      [] package.items[1] = Num(4) -> NetrefTo(s, v)

(***************************************************************************)
(* The request handlers.  The result is a Val, an Exc, the call of a       *)
(* function of the other side or the question for the truth of one of its  *)
(* objects; w.heap is the heap.                                            *)
(***************************************************************************)
Access(s, w, id, name, perm) == AccessAttr(Config(s), w.heap, id, name, perm)

HandleGetAttr(s, w, id, name) ==
    LET reached == Access(s, w, id, name, "allow_getattr") IN
    [w EXCEPT !.result = IF reached = {} THEN Error(AttributeError)
                         ELSE PyGet(w.heap, Wrapped(id), CHOOSE n \in reached : TRUE)]

HandleSetAttr(s, w, id, name, v) ==
    LET reached == Access(s, w, id, name, "allow_setattr") IN
    IF reached = {} THEN [w EXCEPT !.result = Error(AttributeError)]
    ELSE [w EXCEPT !.heap = PySet(@, Wrapped(id), CHOOSE n \in reached : TRUE, v),
                   !.result = Val(None)]

\* A restricted view has no _rpyc_delattr: the view itself is deleted from.
HandleDelAttr(s, w, id, name) ==
    LET reached == Access(s, w, id, name, "allow_delattr") IN
    IF reached \cap DOMAIN w.heap[id].attrs = {}
    THEN [w EXCEPT !.result = Error(AttributeError)]
    ELSE [w EXCEPT !.heap = PyDel(@, id, CHOOSE n \in reached : TRUE),
                   !.result = Val(None)]

HandleCall(w, f, args) ==
    [w EXCEPT !.result = IF f.t = "obj" THEN PyCall(f.id, args) ELSE Error(TypeError)]

HandleCallAttr(s, w, id, name, args) ==
    LET got == HandleGetAttr(s, w, id, name) IN
    IF got.result.k = "exc" THEN got ELSE HandleCall(got, got.result.v, args)

\* The operator is looked up on the type; object.__eq__ tells identity.
HandleCmp(s, w, id, other, name) ==
    LET type == [n \in {EqName} |-> None] IN
    [w EXCEPT !.result =
        IF CheckAttr(Config(s), type, name, "allow_getattr") = {} THEN Error(AttributeError)
        ELSE IF other = Obj(id) THEN Val(Bool(TRUE)) ELSE Val(NotImplemented)]

\* exc is None or a proxy: the class of an exception the client has.  `if exc`
\* asks a proxy for its truth, by a request when its class has a method for it.
\* `raise exc` of a proxy is a TypeError: that is what __exit__ is given.
CallExit(s, w, id, exc, truth) ==
    HandleCallAttr(s, w, id, ExitName,
        IF ~truth THEN <<exc, None, None>>
        ELSE LET e == Exception(Builtins, TypeError, <<>>)
             IN  <<ClassNamed(Builtins, TypeError), e, Obj("traceback")>>)

HandleCtxExit(s, w, id, exc) ==
    LET asked == IF exc.t = "netref" THEN TruthMethod(w.c.proxies[exc.pack].methods) ELSE {}
    IN  IF asked = {} THEN CallExit(s, w, id, exc, Truthy(exc))
        ELSE [w EXCEPT !.result = [k |-> "truth", id |-> id, exc |-> exc,
                                   name |-> CHOOSE n \in asked : TRUE]]

HandleInspect(w, pack) ==
    LET methods == InOrder(objects[LocalObject(pack)].methods)
    IN  [w EXCEPT !.result = Val(Tup([i \in DOMAIN methods |-> Tup(<<Str(methods[i]), None>>)]))]

HandleBuffIter(w, id, count) ==
    LET slice == PySlice(w.heap, id, count) IN
    [w EXCEPT !.heap = slice.heap, !.result = Val(Tup(slice.taken))]

HandlePickle(s, w, id) ==
    [w EXCEPT !.result = IF Config(s).allow_pickle THEN Val(Bytes(TextOf(objects[id].num)))
                         ELSE Error(ValueError)]

Handle(s, w, h, a) ==
    LET answer(v) == [w EXCEPT !.result = Val(v)] IN
    CASE h = HANDLE.ping     -> answer(a[1])
      [] h = HANDLE.getroot  -> answer(Obj(Root))
      [] h = HANDLE.getattr  -> HandleGetAttr(s, w, a[1].id, a[2].chars)
      [] h = HANDLE.delattr  -> HandleDelAttr(s, w, a[1].id, a[2].chars)
      [] h = HANDLE.setattr  -> HandleSetAttr(s, w, a[1].id, a[2].chars, a[3])
      [] h = HANDLE.call     -> HandleCall(w, a[1], a[2].items)
      [] h = HANDLE.callattr -> HandleCallAttr(s, w, a[1].id, a[2].chars, a[3].items)
      [] h \in {HANDLE.repr, HANDLE.str} -> answer(Repr(a[1]))
      [] h = HANDLE.cmp      -> HandleCmp(s, w, a[1].id, a[2], a[3].chars)
      [] h = HANDLE.hash     -> answer(Num(objects[a[1].id].num))
      [] h = HANDLE.dir      -> answer(Dir(a[1].id, w.heap))
      [] h = HANDLE.pickle   -> HandlePickle(s, w, a[1].id)
      [] h = HANDLE.inspect  -> HandleInspect(w, a[1])
      [] h = HANDLE.buffiter -> HandleBuffIter(w, a[1].id, ValueOf(a[2].text))
      [] h = HANDLE.ctxexit  -> HandleCtxExit(s, w, a[1].id, a[2])

(***************************************************************************)
(* What a side does from one message, or one operation, to the next        *)
(* message it sends: w is its state, and what it hands on.                 *)
(*   w.c        its Connection                                             *)
(*   w.result   what the handler or the operation at hand has come to      *)
(*   w.send     the packet to send, if any                                 *)
(*   w.ended    whether the program's operation has its outcome            *)
(*   w.fails    whether an exception leaves serve_all(), the connection    *)
(***************************************************************************)
Work(s) == [c |-> conn[s], heap |-> heap, modules |-> modules,
            result |-> Val(None), send |-> <<>>, ended |-> FALSE, fails |-> FALSE]

Message(msg, seq, payload) == I1(msg) \o Dump(Tup(<<Num(seq), payload>>))

RECURSIVE Resume(_, _, _)

\* An exception leaves serve(): it comes to the request that waits in it, whose
\* answer will find nobody, or ends the server's serve_all.
Raised(s, w, e) ==
    IF w.c.stack = <<>> THEN [w EXCEPT !.fails = TRUE]
    ELSE Resume(s, [w EXCEPT !.c.stack = Front(@), !.result = e], Last(w.c.stack).cont)

\* _async_request for a synchronous request: the references in the arguments
\* are counted by _box, whether or not brine can then dump the arguments.
Request(s, w, h, args, cont) ==
    LET package == Box(Tup(args))
        payload == Tup(<<Num(h), package>>)
        counted == [w EXCEPT !.c.seq = @ + 1, !.c.locals = AddLocal(@, Refs(package))]
    IN  IF DumpRaises(payload)
        THEN Resume(s, [counted EXCEPT !.c.leaked = AddLocal(@, Refs(package)),
                                       !.result = Error(UnicodeEncodeError)], cont)
        ELSE [counted EXCEPT
                !.c.stack = Append(@, [seq |-> w.c.seq, cont |-> cont]),
                !.send = Message(MSG_REQUEST, w.c.seq, payload)]

\* The end of _dispatch_request: the reply, or the exception; what cannot be
\* dumped leaves serve() with an exception, and so does KeyboardInterrupt.
Reply(s, w, seq) ==
    IF w.result.k = "val"
    THEN LET package == Box(w.result.v)
             counted == [w EXCEPT !.c.locals = AddLocal(@, Refs(package))]
         IN  IF DumpRaises(package)
             THEN Raised(s, [counted EXCEPT !.c.leaked = AddLocal(@, Refs(package))],
                         Error(UnicodeEncodeError))
             ELSE [counted EXCEPT !.send = Message(MSG_REPLY, seq, package)]
    ELSE LET dumped == DumpException(w.result.e, Config(s))
             locally == w.result.e.name = KeyboardInterrupt
                        /\ Config(s).propagate_KeyboardInterrupt_locally
         IN  IF locally THEN Raised(s, w, w.result)
             ELSE IF DumpRaises(dumped) THEN Raised(s, w, Error(UnicodeEncodeError))
             ELSE [w EXCEPT !.send = Message(MSG_EXCEPTION, seq, dumped)]

\* The handler has come to a result, or it makes a request to the other side.
ReplyRenumbered(s, w, seq) == Reply(s, [w EXCEPT !.c.seq = @ + 1], w.c.seq)
ReplyTo(s, w, seq) == Reply(s, w, seq)
AfterHandler(s, w, seq) ==
    LET r == w.result IN
    CASE r.k = "callback" ->
           Request(s, w, HANDLE.call, <<r.f, Tup(r.args), NoKwargs>>, [k |-> "body", seq |-> seq])
      [] r.k = "truth" ->
           Request(s, w, HANDLE.callattr, <<r.exc, Str(r.name), Tup(<<>>), NoKwargs>>,
                   [k |-> "exit", seq |-> seq, id |-> r.id, exc |-> r.exc])
      [] OTHER -> ReplyTo(s, w, seq)

\* builtin_classes_cache, made when netref is imported.
BuiltinClasses(name) ==
    {objects[id].methods : id \in {o \in DOMAIN objects :
        objects[o].mod = Builtins /\ NamePack(o) = name}}

\* The class of a new proxy: known for a class met before and for a builtin
\* type, and otherwise asked for with HANDLE_INSPECT.
KnownMethods(w, pack) ==
    IF IsClassPack(pack) /\ pack \in DOMAIN w.c.classes THEN {w.c.classes[pack]}
    ELSE BuiltinClasses(pack.items[1].chars)

NewProxy(s, w, pack, methods) ==
    LET class == ClassFactory(pack.items[1].chars, methods, w.c.loaded, Importable)
    IN  [w EXCEPT !.c.proxies = Assign(@, pack, [n |-> 1, methods |-> class.methods,
                                                 cls |-> class.cls])]

SameProxyUncounted(w, pack) == w
SameProxy(w, pack) == [w EXCEPT !.c.proxies[pack].n = @ + 1]

\* _unbox, one reference after the other; then the request is handled, or the
\* reply handed to the one that waits for it.
RECURSIVE Unbox(_, _, _, _, _)
RECURSIVE Arrived(_, _, _)
Unbox(s, w, refs, package, then) ==
    IF refs = <<>>
    THEN IF then.k = "request"
         THEN AfterHandler(s, Handle(s, w, then.h, Unboxed(s, package).items), then.seq)
         ELSE Arrived(s, [w EXCEPT !.result = Val(Unboxed(s, package))], then.seq)
    ELSE LET pack == Head(refs)
             again(w1) == Unbox(s, w1, Tail(refs), package, then)
         IN  IF pack \in DOMAIN w.c.proxies THEN again(SameProxy(w, pack))
             ELSE IF KnownMethods(w, pack) # {}
             THEN again(NewProxy(s, w, pack, CHOOSE m \in KnownMethods(w, pack) : TRUE))
             ELSE Request(s, w, HANDLE.inspect, <<pack>>,
                          [k |-> "unbox", refs |-> refs, package |-> package, then |-> then])

\* _seq_request_callback: the callback of the reply's number.
Arrived(s, w, seq) ==
    LET waiting == {i \in DOMAIN w.c.stack : w.c.stack[i].seq = seq}
        i == CHOOSE j \in waiting : TRUE
    IN  IF waiting = {} THEN w
        ELSE Resume(s, [w EXCEPT !.c.stack = RemoveAt(@, i)], w.c.stack[i].cont)

(***************************************************************************)
(* The operations of the program.                                          *)
(***************************************************************************)
Ends(w, r) == [w EXCEPT !.result = r, !.ended = TRUE]

\* What an operation makes of the answer v to its request, or of the exception.
PingEnds(w, op, v) == Ends(w, IF v = op.args[1] THEN Val(v) ELSE Error(PingError))

ModuleEnds(w, op) ==
    LET r == w.result IN
    IF r.k = "val" THEN [Ends(w, r) EXCEPT !.modules = Assign(@, op.name, r.v)]
    ELSE Ends(w, IF r.e.name = ImportError THEN Error(AttributeError) ELSE r)

\* A chunk of buffiter: the next request, or the end with an empty one.
ChunkEnds(s, w, op, items) ==
    LET count == Smallest({op.count * op.factor, op.max}) IN
    IF items = <<>> THEN Ends(w, Val(Tup(op.taken)))
    ELSE Request(s, w, HANDLE.buffiter, <<op.on, Num(count)>>,
                 [k |-> "user", op |-> [op EXCEPT !.count = count, !.taken = @ \o items]])

Finish(s, w, op) ==
    CASE op.op = "module" -> ModuleEnds(w, op)
      [] op.op # "module" /\ w.result.k = "exc" -> Ends(w, w.result)
      [] OTHER ->
           LET v == w.result.v IN
           CASE op.op = "root"     -> [Ends(w, w.result) EXCEPT !.c.root = <<v>>]
             [] op.op = "ping"     -> PingEnds(w, op, v)
             [] op.op = "buffiter" -> ChunkEnds(s, w, op, v.items)
             [] OTHER              -> Ends(w, w.result)

\* What waits for an answer goes on with w.result.
Resume(s, w, cont) ==
    CASE cont.k = "user" -> Finish(s, w, cont.op)
      [] cont.k = "body" \/ (cont.k = "exit" /\ w.result.k = "exc") -> Reply(s, w, cont.seq)
      [] cont.k = "exit" /\ w.result.k = "val" ->
           AfterHandler(s, CallExit(s, w, cont.id, cont.exc, Truthy(w.result.v)), cont.seq)
      [] cont.k = "unbox" /\ w.result.k = "exc" ->
           IF cont.then.k = "request" THEN Reply(s, w, cont.then.seq) ELSE Raised(s, w, w.result)
      [] cont.k = "unbox" /\ w.result.k = "val" ->
           LET pairs   == w.result.v.items
               methods == {pairs[i].items[1].chars : i \in DOMAIN pairs}
               pack    == Head(cont.refs)
               cached  == IF IsClassPack(pack) THEN Assign(w.c.classes, pack, methods)
                          ELSE w.c.classes
           IN  Unbox(s, NewProxy(s, [w EXCEPT !.c.classes = cached], pack, methods),
                     Tail(cont.refs), cont.package, cont.then)

\* The operation, with the results of earlier operations in their places.
Given(v) == IF v.t = "result" THEN outcomes[v.i].v ELSE v
Operation(op) == [op EXCEPT !.on = Given(@),
                            !.args = [i \in DOMAIN @ |-> Given(@[i])]]

Perform(w, op) ==
    LET c == w.c
        r == CASE op.op = "root" -> IF c.root # <<>> THEN Val(c.root[1]) ELSE Ask(HANDLE.getroot, <<>>)
               [] op.op = "ping" -> Ask(HANDLE.ping, op.args)
               [] op.op = "module" ->
                    IF op.name \in DOMAIN w.modules THEN Val(w.modules[op.name])
                    ELSE Ask(HANDLE.call, <<op.on, Tup(<<Str(op.name)>>), NoKwargs>>)
               [] OTHER -> Route(op, op.on, c.proxies[op.on.pack])
    IN  IF r.k = "request" THEN Request("c", w, r.h, r.args, [k |-> "user", op |-> op])
        ELSE [w EXCEPT !.result = r, !.ended = TRUE]

(***************************************************************************)
(* The actions.                                                            *)
(***************************************************************************)
NewConnection(s) ==
    [seq |-> 0, stack |-> <<>>, locals |-> <<>>, proxies |-> <<>>, classes |-> <<>>,
     root |-> <<>>, loaded |-> setup.loaded, leaked |-> <<>>, timedOut |-> FALSE]

Init ==
    /\ setup \in Setups
    /\ objects = Objects
    /\ heap = Heap0
    /\ conn = [s \in Sides |-> NewConnection(s)]
    /\ outcomes = <<>>
    /\ modules = <<>>
    /\ FramingInit

\* What the work of side s has come to, as the next state.
Commit(s, w) ==
    /\ conn' = [conn EXCEPT ![s] = IF w.fails THEN [w.c EXCEPT !.stack = <<>>] ELSE w.c]
    /\ heap' = w.heap
    /\ modules' = w.modules
    /\ outcomes' = IF w.ended THEN Append(outcomes, w.result) ELSE outcomes
    /\ UNCHANGED <<setup, objects>>

Finished == Len(outcomes) = Len(setup.program) \/ ~up["c"]

\* The client starts the next operation of its program.
Operate ==
    /\ ~Finished /\ conn["c"].stack = <<>>
    /\ \E w \in {Perform(Work("c"), Operation(setup.program[Len(outcomes) + 1]))} :
       /\ Commit("c", w)
       /\ IF w.send = <<>> THEN UNCHANGED framingVars ELSE Send("c", w.send)

\* A side reads when it has nothing to write and serves: the server always,
\* the client while it waits for an answer.
Serving(s) == out[s] = <<>> /\ (s = "s" \/ conn[s].stack # <<>>)

\* What vinegar makes of an exception may have imported its module.
UnboxExc(s, w, raw) ==
    LET loaded == Imported(raw, Config(s), w.c.loaded, Importable)
    IN  [w EXCEPT !.c.loaded = loaded,
                  !.result = Exc(LoadException(raw, Config(s), loaded, Importable))]

\* _dispatch of a packet that has been read.
Dispatch(s, data, w) ==
    LET body    == Load(Tail(data)).v.items
        seq     == ValueOf(body[1].text)
        payload == body[2]
        package == payload.items[2]
    IN  CASE data[1] = MSG_REQUEST ->
               Unbox(s, w, Refs(package), package,
                     [k |-> "request", seq |-> seq, h |-> ValueOf(payload.items[1].text)])
          [] data[1] = MSG_REPLY ->
               Unbox(s, w, Refs(payload), payload, [k |-> "reply", seq |-> seq])
          [] data[1] = MSG_EXCEPTION ->
               Arrived(s, UnboxExc(s, w, payload), seq)

Deliver(s) ==
    /\ Serving(s) /\ up[s] /\ Complete(s)
    /\ \E w \in {Dispatch(s, Packet(s), Work(s))} :
       /\ Commit(s, w)
       /\ CASE w.fails                     -> CloseStream(s)
            [] ~w.fails /\ w.send = <<>>    -> Take(s)
            [] ~w.fails /\ w.send # <<>>    -> Answer(s, w.send)

\* EOFError leaves the stream, which is closed: the server's serve_all ends,
\* the client's operation has it for its outcome. timedOut tells a write that
\* waited too long for the peer from the other failures.
Fail(s) ==
    /\ SockSendFails(s) \/ (Serving(s) /\ RecvFails(s))
    /\ CloseStream(s)
    /\ conn' = [conn EXCEPT ![s].stack = <<>>,
                            ![s].timedOut = out[s] # <<>> /\ up[Other(s)] /\ ~broken]
    /\ outcomes' = IF s = "c" THEN Append(outcomes, Error(EOFError)) ELSE outcomes
    /\ UNCHANGED <<setup, objects, heap, modules>>

IOVars == <<setup, objects, heap, conn, outcomes, modules>>
WriteSome(s) == SockSend(s, setup.amounts) /\ UNCHANGED IOVars
RecvSome(s)  == Serving(s) /\ SockRecv(s, setup.amounts) /\ UNCHANGED IOVars

NetworkFails ==
    /\ setup.faulty /\ ~broken /\ ~Finished
    /\ broken' = TRUE
    /\ UNCHANGED <<out, pipe, rd, up, coming, IOVars>>

Progress == Operate \/ \E s \in Sides : WriteSome(s) \/ RecvSome(s) \/ Deliver(s) \/ Fail(s)

\* Without a program the channel is by itself: both ends send what they like.
Alone == setup.program = <<>>
Next ==
    \/ ~Alone /\ (Progress \/ NetworkFails)
    \/ Alone /\ ChannelNext /\ UNCHANGED IOVars

\* Weak fairness of Progress, with its ENABLED spelled out: as long as a side
\* has something to do, one of them does it.
CanProgress == ~Alone /\
    \/ ~Finished /\ conn["c"].stack = <<>>
    \/ \E s \in Sides :
         \/ up[s] /\ out[s] # <<>> /\ Len(pipe[Other(s)]) < Room
         \/ up[s] /\ Serving(s) /\ (Complete(s) \/ pipe[s] # <<>>)
         \/ SockSendFails(s) \/ (Serving(s) /\ RecvFails(s))
Fairness == []<>~CanProgress \/ []<><<Progress>>_vars
Spec == Init /\ [][Next]_vars /\ Fairness
=============================================================================
