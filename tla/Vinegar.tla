------------------------------ MODULE Vinegar ------------------------------
(***************************************************************************)
(* vinegar: how an exception crosses the connection.  What is dumped is a  *)
(* value of brine; what is loaded is an exception again, of its own class  *)
(* when the configuration allows it and the class is found, and otherwise  *)
(* of a class made up for its full name.                                   *)
(***************************************************************************)
EXTENDS Python
LOCAL INSTANCE SequencesExt

GenericModule == <<118, 47>>    \* "rpyc.core.vinegar/"

\* dump: the arguments and the public attributes that brine cannot dump are
\* replaced by their repr.
Portable(v) == IF Dumpable(v) THEN v ELSE Repr(v)

DumpException(e, config) ==
    IF e.mod = Builtins /\ e.name = StopIteration THEN Num(1)
    ELSE LET public == SelectSeq(e.attrs, LAMBDA a : ~Starts(a[1], Underscore))
             attrs == [i \in DOMAIN public |->
                          Tup(<<Str(public[i][1]), Portable(public[i][2])>>)]
         IN  Tup(<<Tup(<<Str(e.mod), Str(e.name)>>),
                   Tup([i \in DOMAIN e.args |-> Portable(e.args[i])]),
                   Tup(attrs),
                   Str(IF config.include_local_traceback THEN <<116>> ELSE <<100>>)>>)

\* The modules that are loaded once __import__ has been tried for val.
Imported(val, config, mods, importable) ==
    IF val = Num(1) \/ ~config.import_custom_exceptions THEN mods
    ELSE mods \cup ({val.items[1].items[1].chars} \cap DOMAIN importable)

\* load, after the import: mods is the set of the loaded modules,
\* importable[m] the exception classes of module m.
ClassFound(mod, name, config, mods, importable) ==
    IF config.instantiate_custom_exceptions
    THEN mod \in mods /\ name \in importable[mod]
    ELSE mod = Builtins /\ name \in importable[Builtins]

LoadException(val, config, mods, importable) ==
    IF val = Num(1) THEN Exception(Builtins, StopIteration, <<>>)
    ELSE LET mod   == val.items[1].items[1].chars
             name  == val.items[1].items[2].chars
             own   == ClassFound(mod, name, config, mods, importable)
             attrs == val.items[3].items
         IN  [t |-> "exc",
              mod  |-> IF own THEN mod ELSE GenericModule \o mod,
              name |-> IF own THEN name ELSE mod \o Dot \o name,
              args |-> val.items[2].items,
              attrs |-> [i \in DOMAIN attrs |-> <<attrs[i].items[1].chars, attrs[i].items[2]>>],
              generic |-> ~own]
=============================================================================
