------------------------- MODULE MCIPCharacteristics -------------------------
(***************************************************************************)
(* HAPIPCharacteristics for TLC: an accessory with a switch (5), a lock    *)
(* that wants timed writes (6), a code for admins (7), a thermostat (8), a *)
(* note with write responses (9) and a button (10).                        *)
(***************************************************************************)
EXTENDS HAPIPCharacteristics, TLC

DB == INSTANCE MCDatabase

MCINT32_MIN == -200

Secret == {"readRequiresAdminPermissions", "writeRequiresAdminPermissions"}

MCAccessories ==
    <<[aid |-> 1, services |->
        <<DB!Service(1, "Pairing", <<>>, <<DB!Chr(2, "tlv8", "PairSetup", {"readable"}, <<>>)>>),
          DB!Service(3, "Home", <<>>,
            <<DB!Chr(5, "bool", "On", DB!RW, <<>>),
              DB!Chr(6, "uint8", "Lock", (DB!RW \ {"supportsEventNotification"}) \cup {"requiresTimedWrite"},
                     DB!Valid(<<1, 3>>, <<>>)),
              DB!Chr(7, "int", "Code", DB!RW \cup Secret, DB!Numeric(-4, 200, 2)),
              DB!Chr(8, "float", "Target", DB!RW \ {"readable"}, DB!Numeric(0, 100, 10)),
              DB!Chr(9, "string", "Note", (DB!RW \ {"supportsEventNotification"})
                         \cup {"supportsWriteResponse"}, [maxLength |-> 4]),
              DB!Chr(10, "uint8", "ProgrammableSwitchEvent",
                     DB!RW \ {"writable"}, DB!Valid(<<>>, <<<<0, 2>>>>))>>)>>]>>

Text(n, numBytes, extra) == [NoValue EXCEPT !.kind = "string", !.n = n,
                                !.numBytes = numBytes, !.extra = extra]
Num(n)   == [NoValue EXCEPT !.kind = "number", !.n = n]
Real(n)  == [Num(n) EXCEPT !.fraction = TRUE]
Flag(n)  == [NoValue EXCEPT !.kind = "boolean", !.n = n]

P(iid) == <<1, iid>>

MCInitialValues == (P(5) :> Num(0)) @@ (P(6) :> Num(1)) @@ (P(7) :> Num(0))
                   @@ (P(8) :> Real(50)) @@ (P(9) :> Text(1, 0, 0)) @@ (P(10) :> Num(1))

MCUpdatedValues == P(5) :> {Num(0), Num(1)}

M(name, v) == [name |-> name, value |-> v]

Write(iid, members) == <<M("aid", Num(1)), M("iid", Num(iid))>> \o members

Put(writes) == <<[name |-> "characteristics", objects |-> writes, value |-> NoValue]>>

Timed(pid, writes) == <<[name |-> "pid", objects |-> <<>>, value |-> Num(pid)]>> \o Put(writes)

V(v) == <<M("value", v)>>
Ev(n) == <<M("ev", Flag(n))>>
R == <<M("r", Flag(1))>>

MCBodies ==
    {Put(<<Write(5, V(Num(1))), Write(6, V(Num(3))), Write(10, V(Num(1)))>>),
     Put(<<Write(5, V(Flag(0)) \o R \o Ev(1)), Write(5, V(Num(2))), Write(7, Ev(1))>>),
     Put(<<Write(7, V(Num(5))), Write(7, V(Num(-4))), Write(99, V(Num(1)))>>),
     Put(<<Write(5, Ev(0)), Write(8, V(Real(51))), Write(8, V(Real(58)))>>),
     Put(<<Write(9, V(Text(1, 4, 2)) \o R), Write(9, V(Text(2, 5, 0)))>>),
     Put(<<Write(6, Ev(1)), Write(7, Ev(0)), Write(5, <<>>)>>),
     Put(<<Write(5, <<M("aid", Num(1))>>), Write(5, V(Num(0))), Write(5, V(Num(1))),
           Write(5, V(Num(1)))>>),
     Put(<<<<M("iid", Num(5))>>>>),
     Timed(1, <<Write(6, V(Num(3)))>>),
     Timed(1, <<Write(6, V(Num(1))), Write(6, V(Num(2)))>>),
     Timed(2, <<Write(6, V(Num(3)))>>)}

MCPreparations == {<<M("ttl", Num(0)), M("pid", Num(1))>>,
                   <<M("ttl", Num(0))>>}

Id(paths) == [key |-> "id", paths |-> paths, number |-> 0]

Q(key, n) == [key |-> key, paths |-> <<>>, number |-> n]

MCQueries ==
    {<<Id(<<P(5), P(7), P(9)>>)>>,
     <<Id(<<P(8), P(10), P(99)>>), Q("type", 1)>>,
     <<Id(<<P(5), P(7)>>), Q("meta", 1), Q("perms", 1), Q("ev", 1)>>,
     <<Id(<<P(5), P(99)>>), Q("meta", 1)>>, <<Id(<<P(7)>>), Q("meta", 1)>>,
     <<Id(<<P(5), <<>>>>)>>, <<Id(<<P(5), P(5), P(5), P(5)>>)>>, <<Q("ev", 0)>>}

Answers(read, write) == [path \in Paths |-> [read |-> read, write |-> write]]

MCRefusals == {Answers("None", "None"),
               [Answers("None", "None") EXCEPT ![P(5)] = [read |-> "Busy", write |-> "NotAuthorized"],
                                               ![P(9)].read = "Unknown"]}

Symmetry == Permutations(Sessions)
=============================================================================
