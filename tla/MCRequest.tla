----------------------------- MODULE MCRequest -----------------------------
(* Request for TLC: a service, the objects behind it, the objects of the   *)
(* client, and the programs.                                               *)
EXTENDS Direct, TLC

\* Names, by their code points: n(101) is "e", x(101) "exposed_e".  The service
\* exposes e(cho), a(pply), t(hing), l(ist), v(alue), h(alf), r(estricted view)
\* and C(lass), and V, O, S and K, which raise; m is getmodule and w an attribute.
n(c)   == <<c>>
x(c)   == <<120, c>>
NoBody == [k |-> "none"]
NoOver == [k |-> "none"]
Thing(mod, class, cnum, num, methods, body) ==
    [mod |-> mod, class |-> class, cnum |-> cnum, num |-> num, isClass |-> FALSE,
     methods |-> methods, over |-> NoOver, body |-> body]
Function(num, body) == Thing(Builtins, n(102), 11, num, {CallName}, body)

Lib == n(77)                    \* a module only the server has loaded
Odd == n(88)                    \* a module with an exception of its own
OddError == n(79)
MCImportable == [m \in {Builtins, Odd} |->
    IF m = Odd THEN {OddError}
    ELSE {n(102), n(108), AttributeError, TypeError, ValueError, UnicodeEncodeError,
          ImportError, StopIteration, KeyboardInterrupt}]

Undumpable(id) == Obj(id)
Half == Str(<<56448>>)          \* a lone surrogate

MCObjects ==
    [svc   |-> [Thing(Lib, n(83), 21, 301, {}, NoBody) EXCEPT !.over = [k |-> "service"]],
     thing |-> Thing(Lib, n(84), 22, 302, {LenName, CallName, ExitName}, [k |-> "give", v |-> Num(-49)]),
     list  |-> Thing(Builtins, n(108), 12, 303, {LenName, IterName}, NoBody),
     iter  |-> Thing(Builtins, n(105), 13, 304, {}, NoBody),
     view  |-> [Thing(Lib, n(82), 23, 305, {}, NoBody) EXCEPT !.over =
                  [k |-> "restricted", obj |-> "thing", attrs |-> {n(119)}, wattrs |-> {n(119), n(122)}]],
     class |-> [Thing(Lib, n(84), 22, 22, {CallName}, [k |-> "give", v |-> Obj("thing")])
                  EXCEPT !.isClass = TRUE],
     echo  |-> Function(310, [k |-> "echo"]),
     apply |-> Function(311, [k |-> "apply"]),
     len   |-> Function(312, [k |-> "give", v |-> Num(160)]),
     exit  |-> Function(313, [k |-> "told"]),
     toiter |-> Function(314, [k |-> "give", v |-> Obj("iter")]),
     half  |-> Function(315, [k |-> "give", v |-> Half]),
     value |-> Function(316, [k |-> "raise", e |->
                  Exception(Builtins, ValueError, <<Num(7), Undumpable("thing")>>)]),
     odd   |-> Function(317, [k |-> "raise", e |->
                  [Exception(Odd, OddError, <<None>>) EXCEPT !.attrs =
                      <<<<n(119), Num(5)>>, <<Special(112), Num(6)>>, <<n(122), Undumpable("thing")>>>>]]),
     stop  |-> Function(318, [k |-> "raise", e |-> Exception(Builtins, StopIteration, <<>>)]),
     inter |-> Function(319, [k |-> "raise", e |-> Exception(Builtins, KeyboardInterrupt, <<>>)]),
     getmodule |-> Function(320, [k |-> "import", modules |-> [thing |-> Str(n(109))]]),
     back  |-> Function(410, [k |-> "echo"]),
     backodd |-> Function(411, [k |-> "raise", e |-> Exception(Odd, OddError, <<Num(1)>>)]),
     backhalf |-> Function(412, [k |-> "give", v |-> Half]),
     backinter |-> Function(413, [k |-> "raise", e |-> Exception(Builtins, KeyboardInterrupt, <<>>)]),
     backapply |-> Function(414, [k |-> "apply"]),
     nothing |-> Function(415, [k |-> "give", v |-> Num(0)]),
     yes   |-> Function(416, [k |-> "give", v |-> Bool(TRUE)]),
     unbound |-> Function(417, [k |-> "raise", e |-> Exception(Builtins, TypeError, <<Num(0)>>)]),
     mine  |-> Thing(n(67), n(77), 31, 402, {LenName}, NoBody),
     true  |-> Thing(n(67), n(84), 32, 403, {BoolName, LenName}, NoBody),
     \* classes of exceptions, one with a __len__ for its instances
     error |-> [Thing(n(67), n(69), 33, 33, {CallName}, NoBody) EXCEPT !.isClass = TRUE],
     sized |-> [Thing(n(67), n(83), 34, 34, {CallName, LenName}, NoBody) EXCEPT !.isClass = TRUE]]

Attrs(id) ==
    CASE id = "svc" -> x(101) :> Obj("echo") @@ x(97) :> Obj("apply") @@ x(116) :> Obj("thing")
             @@ x(108) :> Obj("list") @@ x(118) :> Num(300) @@ n(118) :> Num(1)
             @@ Special(112) :> Num(2) @@ x(104) :> Obj("half") @@ x(86) :> Obj("value")
             @@ x(79) :> Obj("odd") @@ x(83) :> Obj("stop") @@ x(75) :> Obj("inter")
             @@ x(114) :> Obj("view") @@ x(67) :> Obj("class") @@ n(109) :> Obj("getmodule")
             @@ n(116) :> Obj("thing")
      [] id \in {"thing", "list"} -> LenName :> Obj("len") @@ ExitName :> Obj("exit")
             @@ IterName :> Obj("toiter") @@ n(119) :> Num(5) @@ DocName :> None
      [] id = "mine"  -> LenName :> Obj("nothing")
      [] id = "true"  -> LenName :> Obj("nothing") @@ BoolName :> Obj("yes")
      [] id = "sized" -> LenName :> Obj("unbound")
      [] OTHER -> <<>>
MCHeap == [id \in DOMAIN MCObjects |->
    [attrs |-> Attrs(id), items |-> IF id = "iter" THEN <<Num(1), None, Num(3), Num(4)>> ELSE <<>>]]

Op(op, on, name, args) == [op |-> op, on |-> on, name |-> name, args |-> args,
                           count |-> 1, factor |-> 2, max |-> 3, taken |-> <<>>]
R(i)          == [t |-> "result", i |-> i]
OpRoot        == Op("root", None, <<>>, <<>>)
OpGet(i, name) == Op("getattr", R(i), name, <<>>)
OpSet(i, name, v) == Op("setattr", R(i), name, <<v>>)
OpDel(i, name) == Op("delattr", R(i), name, <<>>)
OpCall(i, args) == Op("special", R(i), CallName, args)
OpOn(op, i)   == Op(op, R(i), <<>>, <<>>)
OpExit(i, exc) == Op("exit", R(i), <<>>, <<exc>>)
OpModule(i, name) == Op("module", R(i), name, <<>>)

\* A function of the service, called.
Calling(f, args) == <<OpRoot, OpGet(1, f), OpCall(2, args)>>

Plain == [t |-> "float", packed |-> <<0, 1, 2, 3, 4, 5, 6, 7>>]
Values ==
    {<<>>, <<Num(-48), Num(-49), Num(159), Num(160)>>,
     <<Tup(<<>>), Tup(<<None, Str(<<97, 300, 4000>>)>>), Bool(TRUE), Plain>>,
     <<Bytes(<<1, 2, 3, 4>>), Bytes(<<1, 2, 3, 4, 5>>), FSet({Num(1), Ellipsis})>>,
     <<Slice(<<None, Num(1), NotImplemented>>), [t |-> "complex", packed |-> Plain.packed \o Plain.packed]>>,
     <<Bytes([i \in 1..255 |-> 9])>>, <<IntText([i \in 1..256 |-> 49])>>,
     <<Obj("mine"), Tup(<<Obj("mine"), Num(3), Obj("back")>>)>>,
     <<Obj("mine"), Half>>}

\* A callback that calls the server back, which is then interrupted.
Interrupted == <<OpRoot, OpGet(1, n(97)), OpGet(1, n(75)), OpCall(2, <<Obj("backapply"), R(3)>>),
                 OpGet(1, n(118))>>

Service ==
    {Calling(n(101), v) : v \in Values}
    \cup {Calling(f, <<>>) : f \in {n(104), n(86), n(79), n(83), n(75)}}
    \cup {Calling(n(97), <<Obj("back"), Obj("mine"), Num(1)>>), Calling(n(97), <<Obj("backodd")>>)}
    \cup {<<OpRoot, OpGet(1, n(101)), OpCall(2, <<R(1), Obj("mine"), R(2)>>), OpCall(2, <<R(1)>>)>>,
          <<OpRoot, OpGet(1, n(101)), OpCall(2, <<Obj("mine"), Half>>), OpCall(2, <<Obj("mine")>>)>>,
          <<OpRoot, OpGet(1, n(116)), Op("special", R(2), LenName, <<>>), OpCall(2, <<>>),
            Op("special", R(2), IterName, <<>>), OpExit(2, None)>>,
          <<OpRoot, OpGet(1, n(116)), OpExit(2, Obj("error")), OpExit(2, Obj("error"))>>,
          <<OpRoot, OpGet(1, n(116)), OpExit(2, Obj("mine")), OpExit(2, Obj("true")),
            OpExit(2, Obj("sized"))>>,
          Calling(n(97), <<Obj("backhalf")>>) \o <<OpCall(2, <<Obj("back"), Num(1)>>)>>,
          Calling(n(97), <<Obj("backinter")>>) \o <<OpCall(2, <<Obj("back"), Obj("mine")>>)>>,
          Interrupted,
          <<OpRoot, OpGet(1, n(116)), OpOn("repr", 2), OpOn("str", 2), OpOn("hash", 2),
            Op("cmp", R(2), EqName, <<R(2)>>), Op("cmp", R(2), EqName, <<R(1)>>)>>,
          <<OpRoot, OpGet(1, n(116)), OpGet(2, ClassName), OpGet(2, ArrayName), OpGet(2, n(119)),
            OpGet(2, DocName), OpSet(2, n(119), Num(9)), OpDel(2, LenName)>>,
          <<OpRoot, OpGet(1, n(118)), OpGet(1, x(118)), OpGet(1, Special(112)),
            OpSet(1, x(118), Num(2)), OpDel(1, x(118)), OpOn("pickle", 1)>>,
          <<OpRoot, OpGet(1, n(114)), OpGet(2, n(119)), OpGet(2, n(122)), OpSet(2, n(122), Num(2)),
            OpGet(2, LenName), OpDel(2, n(119))>>,
          <<OpRoot, OpGet(1, n(67)), OpCall(2, <<>>), OpGet(1, n(67)), Op("cmp", R(2), EqName, <<R(4)>>)>>,
          <<OpRoot, OpGet(1, n(108)), OpGet(2, ClassName), Op("special", R(2), IterName, <<>>),
            OpOn("buffiter", 4), OpOn("buffiter", 4)>>,
          <<OpRoot, OpRoot, Op("ping", None, <<>>, <<Num(5)>>), OpOn("dir", 1)>>}

\* The programs whose transfers are cut short, and those the network fails.
Cut == {Calling(n(101), <<Bytes([i \in 1..60 |-> 9])>>), Calling(n(101), <<Bytes([i \in 1..13 |-> 9])>>),
        Calling(n(101), <<Obj("mine")>>)}
Failing == {Calling(n(97), <<Obj("back"), Obj("mine"), Bytes([i \in 1..30 |-> 9])>>)}

\* What the channel by itself carries: a packet that is not compressed, one that
\* is and fits one write with its header, and one whose frame needs three writes.
Packed(len) == [i \in 1..len |-> 9 + i]
MCPackets == [s \in Sides |->
    IF s = "c" THEN {Packed(40), Packed(50)} ELSE {Packed(41)}]

Calling2(f) == <<OpRoot, OpGet(1, f), OpCall(2, <<>>)>>
Slave ==
    {<<OpRoot, OpGet(1, n(109)), OpModule(2, n(109)), OpModule(2, n(109)), OpModule(2, n(110))>>,
     <<OpRoot, OpGet(1, Special(112)), OpGet(1, n(116)), OpSet(3, n(119), Num(9)), OpGet(3, n(119)),
       OpDel(3, n(119)), OpGet(3, n(119)), OpOn("pickle", 3)>>,
     <<OpRoot, OpGet(1, x(97)), OpCall(2, <<Obj("backodd")>>)>>, Calling2(x(79)),
     <<OpRoot, OpGet(1, x(114)), OpDel(2, n(119)), OpGet(2, n(119))>>}

\* Sides that send KeyboardInterrupt, as the documentation has it by default.
Telling == [DefaultConfig EXCEPT !.propagate_KeyboardInterrupt_locally = FALSE]

Setup(client, server, program, amounts, faulty) ==
    [config |-> [s \in Sides |-> IF s = "c" THEN client ELSE server],
     program |-> program, loaded |-> {Builtins}, amounts |-> amounts, faulty |-> faulty]
MCSetups ==
    {Setup(DefaultConfig, DefaultConfig, p, {}, FALSE) : p \in Service}
    \cup {Setup(DefaultConfig, SlaveConfig, p, {}, FALSE) : p \in Slave}
    \cup {Setup(SlaveConfig, SlaveConfig, Calling2(x(79)), {}, FALSE)}
    \cup {Setup(DefaultConfig, Telling, Interrupted, {}, FALSE)}
    \cup {Setup(Telling, s, Calling(n(97), <<Obj("backinter")>>), {}, FALSE) : s \in {DefaultConfig, Telling}}
    \cup {Setup(DefaultConfig, DefaultConfig, p, {3, 20}, FALSE) : p \in Cut}
    \cup {Setup(DefaultConfig, DefaultConfig, p, {7}, TRUE) : p \in Failing}
    \cup {Setup(DefaultConfig, DefaultConfig, <<>>, {}, FALSE)}
=============================================================================
