--------------------- MODULE HAPIPCharacteristics_proofs ----------------------
(***************************************************************************)
(* What the requests of the characteristic protocol keep, for every        *)
(* database, every request and every answer of the application: the event  *)
(* tables and values stay sound, values are only written by who may write  *)
(* them and only read by who may read them.                                *)
(***************************************************************************)
EXTENDS HAPIPCharacteristics, TLAPS, SequenceTheorems, FiniteSetTheorems, WellFoundedInduction

-----------------------------------------------------------------------------
(* Runs.  A request is read, written and answered context by context; each *)
(* of these runs is a recursive function, which exists because every step  *)
(* stays in a set of states.                                               *)

\* A set of natural numbers has a least one.
LEMMA LeastElement ==
    ASSUME NEW S \in SUBSET Nat, S # {}
    PROVE  \E n \in S : \A m \in S : n <= m
<1> DEFINE R == {p \in Nat \X Nat : p[1] < p[2]}
<1>1. IsWellFoundedOn(R, Nat)
  BY NatLessThanWellFounded DEF OpToRel
<1>2. PICK n \in S : \A m \in S : <<m, n>> \notin R
  BY <1>1, WFMin
<1>3. ASSUME NEW m \in S
      PROVE  n <= m
  <2>1. m \in Nat /\ n \in Nat /\ <<m, n>> \notin R
    BY <1>2
  <2> QED
    BY <2>1
<1> QED
  BY <1>3

\* What holds at 0 and climbs from i - 1 to i holds up to n.
LEMMA Climb ==
    ASSUME NEW n \in Nat, NEW P, 0 \in P, \A i \in 1 .. n : i - 1 \in P => i \in P
    PROVE  \A i \in 0 .. n : i \in P
<1> DEFINE B == {i \in 0 .. n : i \notin P}
<1> SUFFICES ASSUME B # {} PROVE FALSE
  OBVIOUS
<1>0. B \in SUBSET Nat
  OBVIOUS
<1>1. PICK t \in B : \A u \in B : t <= u
  <2> HIDE DEF B
  <2> QED
    BY <1>0, LeastElement
<1>2. t # 0
  OBVIOUS
<1>3. t - 1 \in 0 .. n /\ t \in 1 .. n /\ t - 1 \notin B
  BY <1>1, <1>2
<1> QED
  BY <1>1, <1>3

\* The runs of n steps from s0, each a function on the states.
RunsOf(n, S, s0, F) ==
    {f \in [0 .. n -> S] : f[0] = s0 /\ \A i \in 1 .. n : f[i] = F[i][f[i - 1]]}

LEMMA RunExists ==
    ASSUME NEW n \in Nat, NEW S, NEW s0 \in S, NEW F \in [1 .. n -> [S -> S]]
    PROVE  \E f : f \in RunsOf(n, S, s0, F)
<1> DEFINE P == {k \in 0 .. n : \E f : f \in RunsOf(k, S, s0, F)}
<1>1. 0 \in P
  <2> DEFINE f == [i \in 0 .. 0 |-> s0]
  <2>1. f \in [0 .. 0 -> S] /\ f[0] = s0
    OBVIOUS
  <2>2. \A i \in 1 .. 0 : f[i] = F[i][f[i - 1]]
    OBVIOUS
  <2> HIDE DEF f
  <2>3. f \in RunsOf(0, S, s0, F)
    BY <2>1, <2>2 DEF RunsOf
  <2> QED
    BY <2>3
<1>2. ASSUME NEW i \in 1 .. n, i - 1 \in P PROVE i \in P
  <2>1. PICK f : f \in RunsOf(i - 1, S, s0, F)
    BY <1>2
  <2> DEFINE g == [j \in 0 .. i |-> IF j = i THEN F[i][f[i - 1]] ELSE f[j]]
  <2>2. f \in [0 .. i - 1 -> S] /\ f[0] = s0 /\ \A j \in 1 .. i - 1 : f[j] = F[j][f[j - 1]]
    BY <2>1 DEF RunsOf
  <2>3. g \in [0 .. i -> S]
    <3>1. f[i - 1] \in S /\ F[i][f[i - 1]] \in S
      BY <2>2
    <3>2. \A j \in 0 .. i : j # i => j \in 0 .. i - 1
      OBVIOUS
    <3> QED
      BY <2>2, <3>1, <3>2
  <2>4. g[0] = s0
    BY <2>2
  <2>5. ASSUME NEW j \in 1 .. i PROVE g[j] = F[j][g[j - 1]]
    <3>1. j - 1 \in 0 .. i /\ j - 1 # i /\ g[j - 1] = f[j - 1]
      OBVIOUS
    <3>2. CASE j = i
      BY <3>1, <3>2
    <3>3. CASE j # i
      <4>1. j \in 1 .. i - 1 /\ g[j] = f[j]
        BY <3>3
      <4> QED
        BY <2>2, <3>1, <4>1
    <3> QED
      BY <3>2, <3>3
  <2> HIDE DEF g
  <2>6. g \in RunsOf(i, S, s0, F)
    BY <2>3, <2>4, <2>5 DEF RunsOf
  <2> QED
    BY <2>6
<1> HIDE DEF P
<1>3. \A k \in 0 .. n : k \in P
  BY <1>1, <1>2, Climb
<1> QED
  BY <1>3 DEF P

-----------------------------------------------------------------------------
(* Requests.  What the parsers return is well typed.                       *)

ParseErrors == {"None", "InvalidData", "OutOfResources"}

MaybeIndex == {<<>>} \cup {<<n>> : n \in Nat}

ObjectStates == [err : ParseErrors, aid : MaybeIndex, iid : MaybeIndex, write : WriteContexts]

WriteRequests == [err : ParseErrors, contexts : Seq(WriteContexts), pid : MaybeIndex]

LEMMA NoValueTyped == NoValue \in JSONValues
BY DEF NoValue, JSONValues

LEMMA NoWriteTyped == NoWrite \in WriteContexts
BY NoValueTyped DEF NoWrite, WriteContexts, PathsRead, Success

\* What a member changes in a write.
LEMMA MembersTyped ==
    ASSUME NEW w \in WriteContexts, NEW v \in JSONValues
    PROVE  /\ ValueMember(w, v).write \in WriteContexts
           /\ EvMember(w, v).write \in WriteContexts
           /\ AuthDataMember(w, v).write \in WriteContexts
           /\ RemoteMember(w, v).write \in WriteContexts
           /\ ResponseMember(w, v).write \in WriteContexts
<1>1. [w EXCEPT !.type = WriteValueType(v)] \in WriteContexts
  BY DEF WriteContexts, WriteValueType
<1>2. ValueMember(w, v).write \in WriteContexts
  BY <1>1 DEF ValueMember, WriteContexts
<1>3. EvMember(w, v).write \in WriteContexts
  BY DEF EvMember, WriteContexts
<1>4. AuthDataMember(w, v).write \in WriteContexts
  BY DEF AuthDataMember, WriteContexts
<1>5. RemoteMember(w, v).write \in WriteContexts
  BY DEF RemoteMember, WriteContexts
<1>6. ResponseMember(w, v).write \in WriteContexts
  BY DEF ResponseMember, WriteContexts
<1> QED
  BY <1>2, <1>3, <1>4, <1>5, <1>6

LEMMA ObjectStepTyped ==
    ASSUME NEW p \in ObjectStates, NEW m \in ObjectMembers
    PROVE  read_characteristic_write_request_parameters(p, m) \in ObjectStates
<1> DEFINE bad == [p EXCEPT !.err = "InvalidData"]
           aid == [p EXCEPT !.aid = <<m.value.n>>]
           iid == [p EXCEPT !.iid = <<m.value.n>>]
           Taken(member) == [p EXCEPT !.write = member.write]
<1>1. p.write \in WriteContexts /\ m.value \in JSONValues
  BY DEF ObjectStates, ObjectMembers
<1>2. bad \in ObjectStates
  BY DEF ObjectStates, ParseErrors
<1>3. IsIndex(m.value) => aid \in ObjectStates /\ iid \in ObjectStates
  <2>1. IsIndex(m.value) => m.value.n \in Nat
    BY <1>1 DEF IsIndex, JSONValues
  <2>2. IsIndex(m.value) => <<m.value.n>> \in MaybeIndex
    BY <2>1 DEF MaybeIndex
  <2> QED
    BY <2>2 DEF ObjectStates
<1>4. /\ Taken(ValueMember(p.write, m.value)) \in ObjectStates
      /\ Taken(EvMember(p.write, m.value)) \in ObjectStates
      /\ Taken(AuthDataMember(p.write, m.value)) \in ObjectStates
      /\ Taken(RemoteMember(p.write, m.value)) \in ObjectStates
      /\ Taken(ResponseMember(p.write, m.value)) \in ObjectStates
  <2>1. ASSUME NEW w \in WriteContexts PROVE [p EXCEPT !.write = w] \in ObjectStates
    BY DEF ObjectStates
  <2> QED
    BY <1>1, <2>1, MembersTyped
<1> QED
  BY <1>2, <1>3, <1>4 DEF read_characteristic_write_request_parameters

\* The members of an object.
LEMMA ObjectRunIs ==
    ASSUME NEW object \in Seq(ObjectMembers)
    PROVE  /\ ObjectRun(object)[0] = [err |-> IF object = <<>> THEN "InvalidData" ELSE "None",
                             aid |-> <<>>, iid |-> <<>>, write |-> NoWrite]
           /\ \A i \in 1 .. Len(object) :
                  ObjectRun(object)[i] =
                      read_characteristic_write_request_parameters(ObjectRun(object)[i - 1], object[i])
           /\ \A i \in 0 .. Len(object) : ObjectRun(object)[i] \in ObjectStates
<1> DEFINE n == Len(object)
           first == [err |-> IF object = <<>> THEN "InvalidData" ELSE "None",
                             aid |-> <<>>, iid |-> <<>>, write |-> NoWrite]
           F == [i \in 1 .. n |-> [r \in ObjectStates |->
                    read_characteristic_write_request_parameters(r, object[i])]]
           run == ObjectRun(object)
<1>1. first \in ObjectStates
  BY NoWriteTyped DEF ObjectStates, ParseErrors, MaybeIndex
<1>2. n \in Nat /\ F \in [1 .. n -> [ObjectStates -> ObjectStates]]
  BY ObjectStepTyped
<1>3. \A i \in 1 .. n : \A r \in ObjectStates :
          F[i][r] = read_characteristic_write_request_parameters(r, object[i])
  OBVIOUS
<1>4. run = [i \in 0 .. n |-> IF i = 0 THEN first
                             ELSE read_characteristic_write_request_parameters(run[i - 1], object[i])]
  <2> HIDE DEF F, n, first
  <2>1. PICK f : f \in RunsOf(n, ObjectStates, first, F)
    BY <1>1, <1>2, RunExists
  <2>2. f = [i \in 0 .. n |-> IF i = 0 THEN first
                            ELSE read_characteristic_write_request_parameters(f[i - 1], object[i])]
    <3>1. \A i \in 1 .. n : f[i] = read_characteristic_write_request_parameters(f[i - 1], object[i])
      BY <1>2, <1>3, <2>1 DEF RunsOf
    <3> QED
      BY <2>1, <3>1 DEF RunsOf
  <2> QED
    BY <2>2 DEF ObjectRun, n, first
<1> HIDE DEF run, first, F, n
<1>5. run[0] = first /\ \A i \in 1 .. n :
          run[i] = read_characteristic_write_request_parameters(run[i - 1], object[i])
  BY <1>2, <1>4
<1>6. \A i \in 0 .. n : run[i] \in ObjectStates
  <2> DEFINE P == {i \in 0 .. n : run[i] \in ObjectStates}
  <2>1. 0 \in P
    BY <1>1, <1>2, <1>5
  <2>2. ASSUME NEW i \in 1 .. n, i - 1 \in P PROVE i \in P
    BY <1>2, <1>3, <1>5, <2>2
  <2> HIDE DEF P
  <2>3. \A i \in 0 .. n : i \in P
    BY <1>2, <2>1, <2>2, Climb
  <2> QED
    BY <2>3 DEF P
<1> QED
  BY <1>5, <1>6 DEF run, first, n

\* An object is one more write, or fails.
LEMMA ObjectTyped ==
    ASSUME NEW r \in WriteRequests, NEW object \in Seq(ObjectMembers)
    PROVE  read_characteristic_write_request(r, object) \in WriteRequests
<1> DEFINE p == ObjectRun(object)[Len(object)]
           err == CASE p.err # "None"               -> p.err
                    [] p.aid = <<>> \/ p.iid = <<>> -> "InvalidData"
                    [] Len(r.contexts) = MaxWriteContexts -> "OutOfResources"
                    [] OTHER                        -> "None"
           w == [p.write EXCEPT !.path = <<p.aid[1], p.iid[1]>>]
<1>1. p \in ObjectStates
  <2>1. Len(object) \in 0 .. Len(object)
    OBVIOUS
  <2> QED
    BY <2>1, ObjectRunIs
<1> HIDE DEF p
<1>2. err \in ParseErrors
  BY <1>1 DEF ObjectStates, ParseErrors
<1>3. err = "None" => w \in WriteContexts
  <2>1. err = "None" => p.aid[1] \in Nat /\ p.iid[1] \in Nat
    BY <1>1 DEF ObjectStates, MaybeIndex
  <2>2. p.write \in WriteContexts
    BY <1>1 DEF ObjectStates
  <2> QED
    BY <2>1, <2>2 DEF WriteContexts, PathsRead
<1> HIDE DEF w, err
<1> DEFINE failed == [r EXCEPT !.err = err]
           more == [r EXCEPT !.contexts = Append(@, w)]
<1>4. failed \in WriteRequests
  BY <1>2 DEF WriteRequests
<1>5. err = "None" => more \in WriteRequests
  <2>1. err = "None" => Append(r.contexts, w) \in Seq(WriteContexts)
    BY <1>3 DEF WriteRequests
  <2> QED
    BY <2>1 DEF WriteRequests
<1> DEFINE result == read_characteristic_write_request(r, object)
<1>6. result = CASE r.err # "None" -> r
                 [] err # "None"   -> failed
                 [] OTHER          -> more
  BY DEF read_characteristic_write_request, p, w, err
<1> HIDE DEF failed, more, result
<1>7. result = r \/ result = failed \/ (err = "None" /\ result = more)
  BY <1>6
<1> QED
  BY <1>4, <1>5, <1>7 DEF result

\* The objects of the array.
LEMMA ObjectsRunIs ==
    ASSUME NEW r \in WriteRequests, NEW objects \in Seq(Seq(ObjectMembers))
    PROVE  /\ ObjectsRun(r, objects)[0] = r
           /\ \A i \in 1 .. Len(objects) :
                  ObjectsRun(r, objects)[i] =
                      read_characteristic_write_request(ObjectsRun(r, objects)[i - 1], objects[i])
           /\ \A i \in 0 .. Len(objects) : ObjectsRun(r, objects)[i] \in WriteRequests
<1> DEFINE n == Len(objects)
           first == r
           F == [i \in 1 .. n |-> [q \in WriteRequests |->
                    read_characteristic_write_request(q, objects[i])]]
           run == ObjectsRun(r, objects)
<1>1. first \in WriteRequests
  OBVIOUS
<1>2. n \in Nat /\ F \in [1 .. n -> [WriteRequests -> WriteRequests]]
  BY ObjectTyped
<1>3. \A i \in 1 .. n : \A q \in WriteRequests :
          F[i][q] = read_characteristic_write_request(q, objects[i])
  OBVIOUS
<1>4. run = [i \in 0 .. n |-> IF i = 0 THEN first
                             ELSE read_characteristic_write_request(run[i - 1], objects[i])]
  <2> HIDE DEF F, n, first
  <2>1. PICK f : f \in RunsOf(n, WriteRequests, first, F)
    BY <1>1, <1>2, RunExists
  <2>2. f = [i \in 0 .. n |-> IF i = 0 THEN first
                            ELSE read_characteristic_write_request(f[i - 1], objects[i])]
    <3>1. \A i \in 1 .. n : f[i] = read_characteristic_write_request(f[i - 1], objects[i])
      BY <1>2, <1>3, <2>1 DEF RunsOf
    <3> QED
      BY <2>1, <3>1 DEF RunsOf
  <2> QED
    BY <2>2 DEF ObjectsRun, n, first
<1> HIDE DEF run, first, F, n
<1>5. run[0] = first /\ \A i \in 1 .. n :
          run[i] = read_characteristic_write_request(run[i - 1], objects[i])
  BY <1>2, <1>4
<1>6. \A i \in 0 .. n : run[i] \in WriteRequests
  <2> DEFINE P == {i \in 0 .. n : run[i] \in WriteRequests}
  <2>1. 0 \in P
    BY <1>1, <1>2, <1>5
  <2>2. ASSUME NEW i \in 1 .. n, i - 1 \in P PROVE i \in P
    BY <1>2, <1>3, <1>5, <2>2
  <2> HIDE DEF P
  <2>3. \A i \in 0 .. n : i \in P
    BY <1>2, <2>1, <2>2, Climb
  <2> QED
    BY <2>3 DEF P
<1> QED
  BY <1>5, <1>6 DEF run, first, n

LEMMA BodyMemberTyped ==
    ASSUME NEW r \in WriteRequests, NEW m \in BodyMembers
    PROVE  ReadBodyMember(r, m) \in WriteRequests
<1>1. [r EXCEPT !.err = "InvalidData"] \in WriteRequests
  BY DEF WriteRequests, ParseErrors
<1>2. IsIndex(m.value) => [r EXCEPT !.pid = <<m.value.n>>] \in WriteRequests
  <2>1. IsIndex(m.value) => m.value.n \in Nat
    BY DEF IsIndex, JSONValues, BodyMembers
  <2>2. IsIndex(m.value) => <<m.value.n>> \in MaybeIndex
    BY <2>1 DEF MaybeIndex
  <2> QED
    BY <2>2 DEF WriteRequests
<1>3. ObjectsRun(r, m.objects)[Len(m.objects)] \in WriteRequests
  <2>1. m.objects \in Seq(Seq(ObjectMembers))
    BY DEF BodyMembers
  <2>2. Len(m.objects) \in 0 .. Len(m.objects)
    BY <2>1
  <2> QED
    BY <2>1, <2>2, ObjectsRunIs
<1> QED
  BY <1>1, <1>2, <1>3 DEF ReadBodyMember

\* The members of a body.
LEMMA BodyRunIs ==
    ASSUME NEW body \in Seq(BodyMembers)
    PROVE  /\ BodyRun(body)[0] = [err |-> IF body = <<>> THEN "InvalidData" ELSE "None",
                           contexts |-> <<>>, pid |-> <<>>]
           /\ \A i \in 1 .. Len(body) :
                  BodyRun(body)[i] =
                      ReadBodyMember(BodyRun(body)[i - 1], body[i])
           /\ \A i \in 0 .. Len(body) : BodyRun(body)[i] \in WriteRequests
<1> DEFINE n == Len(body)
           first == [err |-> IF body = <<>> THEN "InvalidData" ELSE "None",
                           contexts |-> <<>>, pid |-> <<>>]
           F == [i \in 1 .. n |-> [r \in WriteRequests |->
                    ReadBodyMember(r, body[i])]]
           run == BodyRun(body)
<1>1. first \in WriteRequests
  BY DEF WriteRequests, ParseErrors, MaybeIndex
<1>2. n \in Nat /\ F \in [1 .. n -> [WriteRequests -> WriteRequests]]
  BY BodyMemberTyped
<1>3. \A i \in 1 .. n : \A r \in WriteRequests :
          F[i][r] = ReadBodyMember(r, body[i])
  OBVIOUS
<1>4. run = [i \in 0 .. n |-> IF i = 0 THEN first
                             ELSE ReadBodyMember(run[i - 1], body[i])]
  <2> HIDE DEF F, n, first
  <2>1. PICK f : f \in RunsOf(n, WriteRequests, first, F)
    BY <1>1, <1>2, RunExists
  <2>2. f = [i \in 0 .. n |-> IF i = 0 THEN first
                            ELSE ReadBodyMember(f[i - 1], body[i])]
    <3>1. \A i \in 1 .. n : f[i] = ReadBodyMember(f[i - 1], body[i])
      BY <1>2, <1>3, <2>1 DEF RunsOf
    <3> QED
      BY <2>1, <3>1 DEF RunsOf
  <2> QED
    BY <2>2 DEF BodyRun, n, first
<1> HIDE DEF run, first, F, n
<1>5. run[0] = first /\ \A i \in 1 .. n :
          run[i] = ReadBodyMember(run[i - 1], body[i])
  BY <1>2, <1>4
<1>6. \A i \in 0 .. n : run[i] \in WriteRequests
  <2> DEFINE P == {i \in 0 .. n : run[i] \in WriteRequests}
  <2>1. 0 \in P
    BY <1>1, <1>2, <1>5
  <2>2. ASSUME NEW i \in 1 .. n, i - 1 \in P PROVE i \in P
    BY <1>2, <1>3, <1>5, <2>2
  <2> HIDE DEF P
  <2>3. \A i \in 0 .. n : i \in P
    BY <1>2, <2>1, <2>2, Climb
  <2> QED
    BY <2>3 DEF P
<1> QED
  BY <1>5, <1>6 DEF run, first, n

LEMMA BodyTyped ==
    ASSUME NEW body \in Bodies
    PROVE  GetCharacteristicWriteRequests(body) \in WriteRequests
<1>1. body \in Seq(BodyMembers)
  BY RequestsAssumption
<1>2. Len(body) \in 0 .. Len(body)
  BY <1>1
<1> QED
  BY <1>1, <1>2, BodyRunIs DEF GetCharacteristicWriteRequests

\* The parameters of a query.
QueryStates == [err : ParseErrors, contexts : Seq(ReadContexts),
                parameters : [DOMAIN NoParameters -> BOOLEAN]]

LEMMA ReadContextTyped ==
    ASSUME NEW path \in PathsRead
    PROVE  ReadContext(path) \in ReadContexts
BY NoValueTyped DEF ReadContext, ReadContexts, Success

LEMMA ParameterTyped ==
    ASSUME NEW r \in QueryStates, NEW p \in QueryParameters
    PROVE  ReadParameter(r, p) \in QueryStates
<1> DEFINE all == r.contexts \o [i \in 1 .. Len(p.paths) |-> ReadContext(p.paths[i])]
<1>1. all \in Seq(ReadContexts)
  <2>1. p.paths \in Seq(PathsRead) /\ r.contexts \in Seq(ReadContexts)
    BY DEF QueryParameters, QueryStates
  <2>2. Len(p.paths) \in Nat
        /\ \A i \in 1 .. Len(p.paths) : ReadContext(p.paths[i]) \in ReadContexts
    BY <2>1, ReadContextTyped
  <2>3. [i \in 1 .. Len(p.paths) |-> ReadContext(p.paths[i])] \in Seq(ReadContexts)
    BY <2>2
  <2> QED
    BY <2>1, <2>3
<1> HIDE DEF all
<1>2. [r EXCEPT !.contexts = all] \in QueryStates
  BY <1>1 DEF QueryStates
<1>3. /\ [r EXCEPT !.err = "InvalidData"] \in QueryStates
      /\ [r EXCEPT !.err = "OutOfResources"] \in QueryStates
  BY DEF QueryStates, ParseErrors
<1>4. p.key \in DOMAIN NoParameters =>
          [r EXCEPT !.parameters[p.key] = (p.number = 1)] \in QueryStates
  BY DEF QueryStates
<1> QED
  BY <1>2, <1>3, <1>4 DEF ReadParameter, all

\* A query.
LEMMA QueryRunIs ==
    ASSUME NEW query \in Seq(QueryParameters)
    PROVE  /\ QueryRun(query)[0] = [err |-> "None", contexts |-> <<>>, parameters |-> NoParameters]
           /\ \A i \in 1 .. Len(query) :
                  QueryRun(query)[i] =
                      ReadParameter(QueryRun(query)[i - 1], query[i])
           /\ \A i \in 0 .. Len(query) : QueryRun(query)[i] \in QueryStates
<1> DEFINE n == Len(query)
           first == [err |-> "None", contexts |-> <<>>, parameters |-> NoParameters]
           F == [i \in 1 .. n |-> [r \in QueryStates |->
                    ReadParameter(r, query[i])]]
           run == QueryRun(query)
<1>1. first \in QueryStates
  <2>1. NoParameters \in [DOMAIN NoParameters -> BOOLEAN]
    BY DEF NoParameters
  <2> QED
    BY <2>1 DEF QueryStates, ParseErrors
<1>2. n \in Nat /\ F \in [1 .. n -> [QueryStates -> QueryStates]]
  BY ParameterTyped
<1>3. \A i \in 1 .. n : \A r \in QueryStates :
          F[i][r] = ReadParameter(r, query[i])
  OBVIOUS
<1>4. run = [i \in 0 .. n |-> IF i = 0 THEN first
                             ELSE ReadParameter(run[i - 1], query[i])]
  <2> HIDE DEF F, n, first
  <2>1. PICK f : f \in RunsOf(n, QueryStates, first, F)
    BY <1>1, <1>2, RunExists
  <2>2. f = [i \in 0 .. n |-> IF i = 0 THEN first
                            ELSE ReadParameter(f[i - 1], query[i])]
    <3>1. \A i \in 1 .. n : f[i] = ReadParameter(f[i - 1], query[i])
      BY <1>2, <1>3, <2>1 DEF RunsOf
    <3> QED
      BY <2>1, <3>1 DEF RunsOf
  <2> QED
    BY <2>2 DEF QueryRun, n, first
<1> HIDE DEF run, first, F, n
<1>5. run[0] = first /\ \A i \in 1 .. n :
          run[i] = ReadParameter(run[i - 1], query[i])
  BY <1>2, <1>4
<1>6. \A i \in 0 .. n : run[i] \in QueryStates
  <2> DEFINE P == {i \in 0 .. n : run[i] \in QueryStates}
  <2>1. 0 \in P
    BY <1>1, <1>2, <1>5
  <2>2. ASSUME NEW i \in 1 .. n, i - 1 \in P PROVE i \in P
    BY <1>2, <1>3, <1>5, <2>2
  <2> HIDE DEF P
  <2>3. \A i \in 0 .. n : i \in P
    BY <1>2, <2>1, <2>2, Climb
  <2> QED
    BY <2>3 DEF P
<1> QED
  BY <1>5, <1>6 DEF run, first, n

LEMMA QueryTyped ==
    ASSUME NEW query \in Queries
    PROVE  GetCharacteristicReadRequests(query) \in QueryStates
<1>1. query \in Seq(QueryParameters)
  BY RequestsAssumption
<1>2. Len(query) \in 0 .. Len(query)
  BY <1>1
<1> QED
  BY <1>1, <1>2, QueryRunIs DEF GetCharacteristicReadRequests

-----------------------------------------------------------------------------
(* The database.  A characteristic that is offered is typed.               *)

LEMMA CharacteristicsTyped ==
    ASSUME NEW path \in Paths
    PROVE  IsCharacteristic(get_db_ctx(path)) /\ path \in Nat \X Nat
<1>1. \A entry \in IPDatabase : entry[1] \in Nat /\ IsCharacteristic(entry[2])
  <2>1. ASSUME NEW acc \in ToSet(Accessories), NEW svc \in ToSet(acc.services),
               NEW chr \in Offered(svc)
        PROVE  acc.aid \in Nat /\ IsCharacteristic(chr)
    BY <2>1, DatabaseTyped DEF IsAccessory, IsService, Offered
  <2> QED
    BY <2>1 DEF IPDatabase, OfAccessory
<1>2. PICK entry \in IPDatabase : Path(entry) = path
  BY DEF Paths
<1>3. \A e \in IPDatabase : IsCharacteristic(e[2]) => e[2].iid \in Nat
  BY DEF IsCharacteristic, BaseCharacteristic, DataCharacteristic, BoolCharacteristic,
         UInt8Characteristic, UInt16Characteristic, UInt32Characteristic,
         UInt64Characteristic, IntCharacteristic, FloatCharacteristic,
         StringCharacteristic, TLV8Characteristic
<1>4. path \in Nat \X Nat
  BY <1>1, <1>2, <1>3 DEF Path
<1>5. get_db_ctx(path) = (CHOOSE e \in IPDatabase : Path(e) = path)[2]
  BY DEF get_db_ctx, AttributeDatabase
<1> QED
  BY <1>1, <1>2, <1>4, <1>5

Numeric == {"uint8", "uint16", "uint32", "uint64", "int", "float"}

\* The constraints of a number and of a text.
LEMMA ConstraintsTyped ==
    ASSUME NEW chr, IsCharacteristic(chr)
    PROVE  /\ chr.format \in Numeric =>
                 /\ chr.constraints.min \in Int /\ chr.constraints.max \in Int
                 /\ chr.constraints.step \in Nat
           /\ chr.format = "float" =>
                 /\ -FLT_INF <= chr.constraints.min /\ chr.constraints.max <= FLT_INF
           /\ chr.format \in {"string", "data"} => chr.constraints.maxLength \in Nat
           /\ chr.format \in Numeric \cup {"string", "data", "bool", "tlv8"}
<1>1. CASE chr \in DataCharacteristic \/ chr \in StringCharacteristic
           \/ chr \in BoolCharacteristic \/ chr \in TLV8Characteristic
  BY <1>1 DEF DataCharacteristic, StringCharacteristic, BoolCharacteristic,
              TLV8Characteristic, BaseCharacteristic, Numeric
<1>2. CASE chr \in UInt8Characteristic
  BY <1>2 DEF UInt8Characteristic, BaseCharacteristic, Numeric
<1>3. CASE chr \in UInt16Characteristic \/ chr \in UInt32Characteristic
           \/ chr \in UInt64Characteristic \/ chr \in IntCharacteristic
  BY <1>3 DEF UInt16Characteristic, UInt32Characteristic, UInt64Characteristic,
              IntCharacteristic, NumberRange, BaseCharacteristic, Numeric
<1>4. CASE chr \in FloatCharacteristic
  BY <1>4 DEF FloatCharacteristic, NumberRange, BaseCharacteristic, Numeric
<1> QED
  BY <1>1, <1>2, <1>3, <1>4 DEF IsCharacteristic

\* The multiple of the step, counted from lo, that is nearest to v.
Nearest(v, lo, step) ==
    LET over == (v - lo) % step
    IN  v - (IF 2 * over >= step THEN over - step ELSE over)

\* A value within a range whose end is a step is rounded to a step of the range.
LEMMA RoundingStays ==
    ASSUME NEW lo \in Int, NEW hi \in Int, NEW step \in Nat \ {0}, NEW v \in lo .. hi,
           (hi - lo) % step = 0
    PROVE  LET r == Nearest(v, lo, step) IN r \in lo .. hi /\ (r - lo) % step = 0
<1> DEFINE r == Nearest(v, lo, step)
           o == (v - lo) % step
           q == (v - lo) \div step
           m == (hi - lo) \div step
<1>1. o \in 0 .. step - 1 /\ q \in Int /\ v - lo = step * q + o
  OBVIOUS
<1>2. m \in Int /\ hi - lo = step * m
  OBVIOUS
<1>3. q >= 0
  <2>1. q < 0 => step * q <= -step
    OBVIOUS
  <2> QED
    BY <1>1, <2>1
<1>4. ASSUME NEW k \in Int
      PROVE  (step * k) % step = 0
  <2> DEFINE e == (step * k) % step
             d == (step * k) \div step
  <2>1. e \in 0 .. step - 1 /\ d \in Int /\ step * k \in Int /\ step * k = step * d + e
    OBVIOUS
  <2> HIDE DEF e, d
  <2>2. step * (k - d) = e
    BY <2>1
  <2>3. k - d >= 1 => step * (k - d) >= step
    BY <2>1
  <2>4. k - d <= -1 => step * (k - d) <= -step
    BY <2>1
  <2>5. k = d
    BY <2>1, <2>2, <2>3, <2>4
  <2> QED
    BY <2>1, <2>5 DEF e
<1> HIDE DEF o, q, m
<1>5. CASE 2 * o < step
  <2>1. r = lo + step * q
    <3>1. r = v - o
      BY <1>1, <1>5 DEF o, Nearest
    <3> QED
      BY <1>1, <3>1
  <2>2. step * q >= 0
    BY <1>1, <1>3
  <2> QED
    BY <1>1, <1>4, <2>1, <2>2
<1>6. CASE 2 * o >= step
  <2>1. r = lo + (step * q + step) /\ step * q + step = step * (q + 1)
    BY <1>1, <1>6 DEF o, Nearest
  <2>2. step * q >= 0
    BY <1>1, <1>3
  <2>3. m - q > 0
    <3>1. o > 0 /\ step * m - step * q > 0
      BY <1>1, <1>2, <1>6
    <3>2. m <= q => step * m <= step * q
      BY <1>1, <1>2
    <3> QED
      BY <1>1, <1>2, <3>1, <3>2
  <2>4. step * (q + 1) <= step * m
    BY <1>1, <1>2, <2>3
  <2> QED
    BY <1>1, <1>2, <1>4, <2>1, <2>2, <2>4
<1> QED
  BY <1>1, <1>5, <1>6

\* The range of a float that is rounded ends at a step.
StepsFit ==
    \A path \in Paths :
        LET chr == get_db_ctx(path)
        IN  chr.format = "float" /\ chr.constraints.step # 0 =>
                (chr.constraints.max - chr.constraints.min) % chr.constraints.step = 0

WriteErrors == DOMAIN ConvertCharacteristicWriteErrorToStatusCode

\* A float that fulfils its constraints fulfils them rounded.
LEMMA RoundedFulfils ==
    ASSUME NEW path \in Paths, get_db_ctx(path).format = "float", NEW v \in Int,
           HAPFloatCharacteristicIsValueFulfillingConstraints(get_db_ctx(path), v)
    PROVE  LET r == HAPFloatCharacteristicRoundValueToStep(get_db_ctx(path), v)
           IN  /\ r \in Int
               /\ StepsFit =>
                      HAPFloatCharacteristicIsValueFulfillingConstraints(get_db_ctx(path), r)
<1> DEFINE chr == get_db_ctx(path)
           k == chr.constraints
           r == HAPFloatCharacteristicRoundValueToStep(chr, v)
<1>1. k.min \in Int /\ k.max \in Int /\ k.step \in Nat /\ -FLT_INF <= k.min /\ k.max <= FLT_INF
  BY CharacteristicsTyped, ConstraintsTyped DEF Numeric
<1>2. FLT_INF \in Int
  BY WidthsOrdered
<1>3. StepsFit /\ k.step # 0 => (k.max - k.min) % k.step = 0
  BY DEF StepsFit
<1> HIDE DEF chr
<1>4. CASE k.step = 0 \/ v \in {FLT_INF, -FLT_INF}
  BY <1>4 DEF HAPFloatCharacteristicRoundValueToStep, chr
<1>5. CASE k.step # 0 /\ v \notin {FLT_INF, -FLT_INF}
  <2>1. v \in k.min .. k.max
    BY <1>1, <1>5 DEF HAPFloatCharacteristicIsValueFulfillingConstraints,
                      IS_VALUE_IN_RANGE_WITH_TOLERANCE, chr
  <2>2. r = Nearest(v, k.min, k.step)
    BY <1>5 DEF HAPFloatCharacteristicRoundValueToStep, ROUND_VALUE_TO_STEP, Remainder, Nearest
  <2>3. r \in Int
    <3> DEFINE over == (v - k.min) % k.step
    <3>1. over \in Int
      BY <1>1, <1>5
    <3>2. r = v - (IF 2 * over >= k.step THEN over - k.step ELSE over)
      BY <2>2 DEF Nearest
    <3> HIDE DEF over, r, k
    <3> QED
      BY <1>1, <3>1, <3>2
  <2> HIDE DEF r
  <2>4. ASSUME StepsFit PROVE HAPFloatCharacteristicIsValueFulfillingConstraints(chr, r)
    <3>1. r \in k.min .. k.max /\ (r - k.min) % k.step = 0
      <4>1. /\ k.min \in Int /\ k.max \in Int /\ k.step \in Nat \ {0}
            /\ (k.max - k.min) % k.step = 0
        BY <1>1, <1>3, <1>5, <2>4
      <4> HIDE DEF k
      <4>2. Nearest(v, k.min, k.step) \in k.min .. k.max
            /\ (Nearest(v, k.min, k.step) - k.min) % k.step = 0
        BY <2>1, <4>1, RoundingStays
      <4> QED
        BY <2>2, <4>2
    <3>2. Remainder(r, k) = 0
      BY <1>1, <1>5, <3>1 DEF Remainder
    <3>3. IS_VALUE_IN_RANGE_WITH_TOLERANCE(r, k)
      BY <1>1, <3>1, <3>2 DEF IS_VALUE_IN_RANGE_WITH_TOLERANCE
    <3>4. (r = FLT_INF => k.max = FLT_INF) /\ (r = -FLT_INF => k.min = -FLT_INF)
      BY <1>1, <1>2, <3>1
    <3> QED
      BY <3>3, <3>4 DEF HAPFloatCharacteristicIsValueFulfillingConstraints
  <2> QED
    BY <2>3, <2>4 DEF r, chr
<1> QED
  BY <1>4, <1>5

\* The characteristic allows the value, if its steps fit.
Allows(path, v) == StepsFit => Fulfils(get_db_ctx(path), v)

\* What a characteristic is told of the value v.
Stored(chr, n) ==
    IF chr.format = "float" THEN HAPFloatCharacteristicRoundValueToStep(chr, n) ELSE n

\* A value reaches the application if it fulfils its constraints, a float rounded.
LEMMA HandleWriteIs ==
    ASSUME NEW path \in Paths, NEW v \in JSONValues, NEW err \in WriteErrors
    PROVE  LET write == HandleWrite(get_db_ctx(path), v, err)
           IN  /\ write.err \in WriteErrors
               /\ write.err = "None" =>
                      /\ write.value \in JSONValues
                      /\ Allows(path, write.value)
                      /\ write.value.n = Stored(get_db_ctx(path), v.n)
<1> DEFINE chr == get_db_ctx(path)
           write == HandleWrite(chr, v, err)
<1>1. chr.format \in Numeric \cup {"string", "data", "bool", "tlv8"}
  BY CharacteristicsTyped, ConstraintsTyped
<1>2. "InvalidData" \in WriteErrors
  BY DEF WriteErrors, ConvertCharacteristicWriteErrorToStatusCode
<1>3. ASSUME NEW ok, NEW u, write = Passed(ok, u, err)
      PROVE  /\ write.err = IF ok THEN err ELSE "InvalidData"
             /\ write.value = u
  BY <1>3 DEF Passed
<1>4. CASE chr.format = "float"
  <2> DEFINE ok == HAPFloatCharacteristicIsValueFulfillingConstraints(chr, v.n)
             u == IF ok THEN [v EXCEPT !.n = HAPFloatCharacteristicRoundValueToStep(chr, v.n)]
                  ELSE v
  <2>1. write = Passed(ok, u, err)
    BY <1>4 DEF HandleWrite, HAPFloatCharacteristicHandleWrite
  <2>2. v.n \in Int
    BY DEF JSONValues
  <2>3. ok => LET r == HAPFloatCharacteristicRoundValueToStep(chr, v.n)
              IN  /\ r \in Int
                  /\ StepsFit => HAPFloatCharacteristicIsValueFulfillingConstraints(chr, r)
    BY <1>4, <2>2, RoundedFulfils
  <2>4. ok => /\ u \in JSONValues /\ u.n = HAPFloatCharacteristicRoundValueToStep(chr, v.n)
    BY <2>3 DEF JSONValues
  <2>5. ok => Allows(path, u)
    BY <1>4, <2>3, <2>4 DEF Allows, Fulfils
  <2> HIDE DEF ok, u, write, chr
  <2>6. write.err = (IF ok THEN err ELSE "InvalidData") /\ write.value = u
    BY <1>3, <2>1
  <2>7. write.err \in WriteErrors
    BY <1>2, <2>6
  <2>8. write.err = "None" => ok
    BY <2>6
  <2> QED
    BY <1>4, <2>4, <2>5, <2>6, <2>7, <2>8 DEF Stored, write, chr
<1>5. CASE chr.format # "float"
  <2>1. write = Passed(Fulfils(chr, v), v, err)
    BY <1>1, <1>5 DEF HandleWrite, Fulfils, Numeric,
       HAPDataCharacteristicHandleWrite, HAPBoolCharacteristicHandleWrite,
       HAPUInt8CharacteristicHandleWrite, HAPUInt16CharacteristicHandleWrite,
       HAPUInt32CharacteristicHandleWrite, HAPUInt64CharacteristicHandleWrite,
       HAPIntCharacteristicHandleWrite, HAPStringCharacteristicHandleWrite,
       HAPTLV8CharacteristicHandleWrite
  <2> HIDE DEF write, chr
  <2>2. write.err = (IF Fulfils(chr, v) THEN err ELSE "InvalidData") /\ write.value = v
    BY <1>3, <2>1
  <2>3. write.err \in WriteErrors
    BY <1>2, <2>2
  <2>4. write.err = "None" => Allows(path, v)
    BY <2>2 DEF Allows, chr
  <2> QED
    BY <1>5, <2>2, <2>3, <2>4 DEF Stored, write, chr
<1> QED
  BY <1>4, <1>5

ReadErrors == DOMAIN ConvertCharacteristicReadErrorToStatusCode

\* The status of an error: a write and its reading back fail differently.
LEMMA ReadStatusIs ==
    ASSUME NEW err \in ReadErrors
    PROVE  ConvertCharacteristicReadErrorToStatusCode[err] \in Int
           /\ ConvertCharacteristicReadErrorToStatusCode[err]
                  \notin {InvalidValueInWrite, InsufficientPrivileges,
                          ReadFromWriteOnlyCharacteristic}
           /\ "OutOfResources" \in ReadErrors
BY DEF ReadErrors, ConvertCharacteristicReadErrorToStatusCode, Success,
       UnableToPerformOperation, OutOfResources, InsufficientAuthorization, ResourceIsBusy,
       InvalidValueInWrite, InsufficientPrivileges, ReadFromWriteOnlyCharacteristic

LEMMA WriteStatusIs ==
    ASSUME NEW err \in WriteErrors
    PROVE  /\ ConvertCharacteristicWriteErrorToStatusCode[err] \in Int
           /\ ConvertCharacteristicWriteErrorToStatusCode[err]
                  \notin {InsufficientPrivileges, ReadFromWriteOnlyCharacteristic}
           /\ ConvertCharacteristicWriteErrorToStatusCode[err] = Success <=> err = "None"
BY DEF WriteErrors, ConvertCharacteristicWriteErrorToStatusCode, Success,
       UnableToPerformOperation, OutOfResources, InsufficientAuthorization, ResourceIsBusy,
       InvalidValueInWrite, InsufficientPrivileges, ReadFromWriteOnlyCharacteristic

LEMMA ReadTextTyped ==
    ASSUME NEW status \in Int, NEW v \in JSONValues, NEW numBytes \in Nat, NEW room \in Int
    PROVE  LET read == ReadText(status, v, numBytes, room)
           IN  /\ read.status \in {status, OutOfResources}
               /\ read.value \in JSONValues /\ read.room \in Int
<1>1. [v EXCEPT !.numBytes = numBytes] \in JSONValues
  BY DEF JSONValues
<1> QED
  BY <1>1, NoValueTyped DEF ReadText, Success

\* What is read is a value, and no status is one of a refused write.
LEMMA ReadIs ==
    ASSUME NEW path \in Paths, NEW v \in JSONValues, NEW err \in ReadErrors, NEW room \in Int
    PROVE  LET read == handle_characteristic_read_request(get_db_ctx(path), v, err, room)
           IN  /\ read.status \in Int /\ read.value \in JSONValues /\ read.room \in Int
               /\ read.status \notin {InvalidValueInWrite, InsufficientPrivileges,
                                      ReadFromWriteOnlyCharacteristic}
<1> DEFINE chr == get_db_ctx(path)
           status == ConvertCharacteristicReadErrorToStatusCode
           read == handle_characteristic_read_request(chr, v, err, room)
           Good(r) == /\ r.status \in Int /\ r.value \in JSONValues /\ r.room \in Int
                      /\ r.status \notin {InvalidValueInWrite, InsufficientPrivileges,
                                          ReadFromWriteOnlyCharacteristic}
<1>1. /\ v.numBytes \in Nat /\ v.n \in Int /\ Encoded(v.numBytes) \in Nat
      /\ [v EXCEPT !.extra = 0] \in JSONValues
  BY DEF JSONValues, Encoded
<1>2. ASSUME NEW e \in ReadErrors, NEW u \in JSONValues, NEW numBytes \in Nat
      PROVE  Good(ReadText(status[e], u, numBytes, room))
  <2>1. /\ status[e] \in Int
        /\ status[e] \notin {InvalidValueInWrite, InsufficientPrivileges,
                             ReadFromWriteOnlyCharacteristic}
    BY ReadStatusIs
  <2>2. OutOfResources \in Int
        /\ OutOfResources \notin {InvalidValueInWrite, InsufficientPrivileges,
                                  ReadFromWriteOnlyCharacteristic}
    BY DEF OutOfResources, InvalidValueInWrite, InsufficientPrivileges,
           ReadFromWriteOnlyCharacteristic
  <2> HIDE DEF status
  <2> DEFINE r == ReadText(status[e], u, numBytes, room)
  <2>3. r.status \in {status[e], OutOfResources} /\ r.value \in JSONValues /\ r.room \in Int
    BY <2>1, ReadTextTyped
  <2> HIDE DEF r
  <2>4. Good(r)
    BY <2>1, <2>2, <2>3
  <2> QED
    BY <2>4 DEF r
<1>3. CASE chr.format = "string"
  <2>1. HAPStringCharacteristicHandleRead(v, err, room) \in ReadErrors
    BY ReadStatusIs DEF HAPStringCharacteristicHandleRead
  <2>2. read = ReadText(status[HAPStringCharacteristicHandleRead(v, err, room)], v, v.numBytes, room)
    BY <1>3 DEF handle_characteristic_read_request
  <2> QED
    BY <1>1, <1>2, <2>1, <2>2
<1>4. CASE chr.format \in {"data", "tlv8"}
  <2> DEFINE u == [v EXCEPT !.extra = 0]
             e == HAPDataCharacteristicHandleRead(v, err, room)
             numBytes == Encoded(v.numBytes)
  <2>1. e \in ReadErrors
    BY ReadStatusIs DEF HAPDataCharacteristicHandleRead
  <2>2. read = ReadText(status[e], u, numBytes, room)
    BY <1>4 DEF handle_characteristic_read_request
  <2>3. u \in JSONValues /\ numBytes \in Nat
    BY <1>1
  <2> HIDE DEF u, e, numBytes
  <2>4. Good(ReadText(status[e], u, numBytes, room))
    BY <1>2, <2>1, <2>3
  <2> QED
    BY <2>2, <2>4
<1>5. CASE chr.format \notin {"string", "data", "tlv8"}
  <2> DEFINE u == CASE err # "None" -> NoValue
                    [] chr.format = "float" -> HAPFloatCharacteristicHandleRead(chr, v)
                    [] OTHER -> v
  <2>1. u \in JSONValues
    <3>1. chr.format = "float" =>
              HAPFloatCharacteristicRoundValueToStep(chr, v.n) \in Int
      <4>1. chr.format = "float" => /\ chr.constraints.min \in Int
                                    /\ chr.constraints.step \in Nat
        BY CharacteristicsTyped, ConstraintsTyped DEF Numeric
      <4> QED
        BY <1>1, <4>1 DEF HAPFloatCharacteristicRoundValueToStep, ROUND_VALUE_TO_STEP, Remainder
    <3>2. chr.format = "float" => HAPFloatCharacteristicHandleRead(chr, v) \in JSONValues
      BY <3>1 DEF HAPFloatCharacteristicHandleRead, JSONValues
    <3> QED
      BY <3>2, NoValueTyped
  <2> HIDE DEF u
  <2>2. read = [status |-> status[err], room |-> room, value |-> u]
    BY <1>5 DEF handle_characteristic_read_request, u
  <2> HIDE DEF read
  <2>3. read.status = status[err] /\ read.value = u /\ read.room = room
    BY <2>2
  <2>4. Good(read)
    BY <2>1, <2>3, ReadStatusIs
  <2> QED
    BY <2>4 DEF read
<1> QED
  BY <1>3, <1>4, <1>5

-----------------------------------------------------------------------------
(* Reading.                                                                *)

TimedWrites == [isSet : BOOLEAN, left : Int, pid : Int]

SessionStates == [admin : BOOLEAN, events : Seq(Paths), timed : TimedWrites]

StateTyped ==
    /\ value \in [Paths -> JSONValues]
    /\ session \in [Sessions -> SessionStates]
    /\ told \subseteq Sessions \X Paths

ReadStates == [contexts : Seq(ReadContexts), room : Int]

\* c is no answer that its session may not see.
Permitted(s, c) ==
    Known(c.path) /\ ~MayRead(get_db_ctx(c.path), session[s].admin) => c.status # Success

Answered(r, a, room) == [contexts |-> Append(r.contexts, a), room |-> room]

\* One more answer, and a permitted one.
LEMMA ReadRequestIs ==
    ASSUME StateTyped, NEW s \in Sessions, NEW purpose, NEW refusal \in Refusals,
           NEW r \in ReadStates, NEW c \in ReadContexts
    PROVE  \E a \in ReadContexts, room \in Int :
               /\ ReadRequest(s, purpose, refusal, r, c) = Answered(r, a, room)
               /\ a.path = c.path /\ Permitted(s, a)
<1> DEFINE chr == get_db_ctx(c.path)
           read == handle_characteristic_read_request(chr, value[c.path],
                                                      refusal[c.path].read, r.room)
           ev == c.path \in ToSet(session[s].events)
           Answer(status, v) == [c EXCEPT !.status = status, !.value = v, !.ev = ev]
           After(a, room) == Answered(r, a, room)
           result == ReadRequest(s, purpose, refusal, r, c)
           Done == \E a \in ReadContexts, room \in Int :
                       /\ result = After(a, room)
                       /\ a.path = c.path /\ Permitted(s, a)
           Allowed(status) == MayRead(chr, session[s].admin) \/ status # Success
<1> SUFFICES Done
  OBVIOUS
<1>1. r.contexts \in Seq(ReadContexts) /\ r.room \in Int
      /\ \A cs : [r EXCEPT !.contexts = cs] = [contexts |-> cs, room |-> r.room]
  BY DEF ReadStates
<1>2. ev \in BOOLEAN
  OBVIOUS
<1> HIDE DEF ev
<1>3. ASSUME NEW status \in Int, NEW v \in JSONValues
      PROVE  /\ Answer(status, v) \in ReadContexts /\ Answer(status, v).path = c.path
             /\ Answer(status, v).status = status
  BY <1>2 DEF ReadContexts
<1>4. CASE ~Known(c.path)
  <2> DEFINE a == [c EXCEPT !.status = ResourceDoesNotExist]
  <2>1. a \in ReadContexts /\ a.path = c.path
    BY DEF ReadContexts, ResourceDoesNotExist
  <2>2. result = [r EXCEPT !.contexts = Append(@, a)]
    BY <1>4 DEF ReadRequest
  <2> HIDE DEF a
  <2>3. result = After(a, r.room)
    BY <1>1, <2>2 DEF Answered
  <2>4. Permitted(s, a)
    BY <1>4, <2>1 DEF Permitted
  <2> QED
    BY <1>1, <2>1, <2>3, <2>4
<1>5. CASE Known(c.path)
  <2>1. ASSUME NEW a \in ReadContexts, NEW room \in Int, NEW status,
               a.path = c.path, a.status = status,
               Allowed(status),
               result = After(a, room)
        PROVE  Done
    <3>1. Permitted(s, a)
      BY <2>1 DEF Permitted
    <3> QED
      BY <2>1, <3>1
  <2>2. ASSUME NEW status \in Int, NEW v \in JSONValues,
               Allowed(status),
               result = After(Answer(status, v), r.room)
        PROVE  Done
    <3> DEFINE a == Answer(status, v)
    <3>1. a \in ReadContexts /\ a.path = c.path /\ a.status = status
      BY <1>3
    <3>2. result = After(a, r.room) /\ Allowed(status)
      BY <2>2
    <3> HIDE DEF a, result, After, Allowed, Done
    <3> QED
      BY <1>1, <2>1, <3>1, <3>2
  <2>3. CASE ~MayRead(chr, session[s].admin)
    <3>1. result = After(Answer(InsufficientPrivileges, NoValue), r.room)
      BY <1>1, <1>5, <2>3 DEF ReadRequest, Answered, ev
    <3>2. InsufficientPrivileges \in Int /\ Allowed(InsufficientPrivileges)
      BY DEF InsufficientPrivileges, Success
    <3> HIDE DEF result, Answer, After, chr, Done, Allowed
    <3> QED
      BY <2>2, <3>1, <3>2, NoValueTyped
  <2>4. CASE MayRead(chr, session[s].admin) /\ ~Has(chr, "readable")
    <3>1. result = After(Answer(ReadFromWriteOnlyCharacteristic, NoValue), r.room)
      BY <1>1, <1>5, <2>4 DEF ReadRequest, Answered, ev
    <3>2. ReadFromWriteOnlyCharacteristic \in Int /\ Allowed(ReadFromWriteOnlyCharacteristic)
      BY <2>4 DEF ReadFromWriteOnlyCharacteristic
    <3> HIDE DEF result, Answer, After, chr, Done, Allowed
    <3> QED
      BY <2>2, <3>1, <3>2, NoValueTyped
  <2>5. CASE /\ MayRead(chr, session[s].admin) /\ Has(chr, "readable")
             /\ purpose # "EventNotification" /\ chr.type = "ProgrammableSwitchEvent"
    <3>1. result = After(Answer(Success, NoValue), r.room)
      BY <1>1, <1>5, <2>5 DEF ReadRequest, Answered, ev
    <3>2. Success \in Int /\ Allowed(Success)
      BY <2>5 DEF Success
    <3> HIDE DEF result, Answer, After, chr, Done, Allowed
    <3> QED
      BY <2>2, <3>1, <3>2, NoValueTyped
  <2>6. CASE /\ MayRead(chr, session[s].admin) /\ Has(chr, "readable")
             /\ ~(purpose # "EventNotification" /\ chr.type = "ProgrammableSwitchEvent")
    <3>1. read.status \in Int /\ read.value \in JSONValues /\ read.room \in Int
      <4>1. c.path \in Paths /\ value[c.path] \in JSONValues
        BY <1>5 DEF Known, StateTyped
      <4>2. refusal[c.path].read \in ReadErrors
        BY <4>1, ApplicationAssumption DEF ReadErrors
      <4> QED
        BY <1>1, <4>1, <4>2, ReadIs
    <3> DEFINE a == Answer(read.status, read.value)
    <3>2. a \in ReadContexts /\ a.path = c.path /\ a.status = read.status
      BY <1>3, <3>1
    <3>3. result = After(a, read.room)
      BY <1>1, <1>5, <2>6 DEF ReadRequest, Answered, ev
    <3>4. Allowed(read.status)
      BY <2>6
    <3> HIDE DEF a, result, read, After, chr, Done, Allowed
    <3> QED
      BY <2>1, <3>1, <3>2, <3>3, <3>4
  <2> QED
    BY <2>3, <2>4, <2>5, <2>6
<1> QED
  BY <1>4, <1>5

LEMMA ReadRequestTyped ==
    ASSUME StateTyped, NEW s \in Sessions, NEW purpose, NEW refusal \in Refusals,
           NEW r \in ReadStates, NEW c \in ReadContexts
    PROVE  ReadRequest(s, purpose, refusal, r, c) \in ReadStates
<1>1. PICK a \in ReadContexts, room \in Int :
          ReadRequest(s, purpose, refusal, r, c) = Answered(r, a, room)
  BY ReadRequestIs
<1>2. Append(r.contexts, a) \in Seq(ReadContexts)
  BY DEF ReadStates
<1> QED
  BY <1>1, <1>2 DEF ReadStates, Answered

\* The contexts of a request.
LEMMA ReadRunIs ==
    ASSUME StateTyped, NEW s \in Sessions, NEW purpose,
           NEW refusal \in Refusals, NEW contexts \in Seq(ReadContexts)
    PROVE  /\ ReadRun(s, purpose, refusal, contexts)[0] = [contexts |-> <<>>, room |-> ScratchBytes]
           /\ \A i \in 1 .. Len(contexts) :
                  ReadRun(s, purpose, refusal, contexts)[i] =
                      ReadRequest(s, purpose, refusal, ReadRun(s, purpose, refusal, contexts)[i - 1], contexts[i])
           /\ \A i \in 0 .. Len(contexts) : ReadRun(s, purpose, refusal, contexts)[i] \in ReadStates
<1> DEFINE n == Len(contexts)
           first == [contexts |-> <<>>, room |-> ScratchBytes]
           F == [i \in 1 .. n |-> [r \in ReadStates |->
                    ReadRequest(s, purpose, refusal, r, contexts[i])]]
           run == ReadRun(s, purpose, refusal, contexts)
<1>1. first \in ReadStates
  BY StorageAssumption DEF ReadStates
<1>2. n \in Nat /\ F \in [1 .. n -> [ReadStates -> ReadStates]]
  BY ReadRequestTyped
<1>3. \A i \in 1 .. n : \A r \in ReadStates :
          F[i][r] = ReadRequest(s, purpose, refusal, r, contexts[i])
  OBVIOUS
<1>4. run = [i \in 0 .. n |-> IF i = 0 THEN first
                             ELSE ReadRequest(s, purpose, refusal, run[i - 1], contexts[i])]
  <2> HIDE DEF F, n, first
  <2>1. PICK f : f \in RunsOf(n, ReadStates, first, F)
    BY <1>1, <1>2, RunExists
  <2>2. f = [i \in 0 .. n |-> IF i = 0 THEN first
                            ELSE ReadRequest(s, purpose, refusal, f[i - 1], contexts[i])]
    <3>1. \A i \in 1 .. n : f[i] = ReadRequest(s, purpose, refusal, f[i - 1], contexts[i])
      BY <1>2, <1>3, <2>1 DEF RunsOf
    <3> QED
      BY <2>1, <3>1 DEF RunsOf
  <2> QED
    BY <2>2 DEF ReadRun, n, first
<1> HIDE DEF run, first, F, n
<1>5. run[0] = first /\ \A i \in 1 .. n :
          run[i] = ReadRequest(s, purpose, refusal, run[i - 1], contexts[i])
  BY <1>2, <1>4
<1>6. \A i \in 0 .. n : run[i] \in ReadStates
  <2> DEFINE P == {i \in 0 .. n : run[i] \in ReadStates}
  <2>1. 0 \in P
    BY <1>1, <1>2, <1>5
  <2>2. ASSUME NEW i \in 1 .. n, i - 1 \in P PROVE i \in P
    BY <1>2, <1>3, <1>5, <2>2
  <2> HIDE DEF P
  <2>3. \A i \in 0 .. n : i \in P
    BY <1>2, <2>1, <2>2, Climb
  <2> QED
    BY <2>3 DEF P
<1> QED
  BY <1>5, <1>6 DEF run, first, n

LEMMA AnswersArePermitted ==
    ASSUME StateTyped, NEW s \in Sessions, NEW purpose, NEW refusal \in Refusals,
           NEW contexts \in Seq(ReadContexts)
    PROVE  LET answers == handle_characteristic_read_requests(s, purpose, refusal, contexts)
           IN  /\ answers \in Seq(ReadContexts) /\ Len(answers) = Len(contexts)
               /\ \A i \in 1 .. Len(answers) :
                      answers[i].path = contexts[i].path /\ Permitted(s, answers[i])
<1> DEFINE n == Len(contexts)
           run == ReadRun(s, purpose, refusal, contexts)
           Good(i) == /\ Len(run[i].contexts) = i
                      /\ \A j \in 1 .. i : /\ run[i].contexts[j].path = contexts[j].path
                                           /\ Permitted(s, run[i].contexts[j])
           P == {i \in 0 .. n : Good(i)}
<1>1. /\ run[0] = [contexts |-> <<>>, room |-> ScratchBytes]
      /\ \A i \in 1 .. n : run[i] = ReadRequest(s, purpose, refusal, run[i - 1], contexts[i])
      /\ \A i \in 0 .. n : run[i] \in ReadStates
      /\ n \in Nat
  <2>1. n \in Nat
    OBVIOUS
  <2> QED
    BY <2>1, ReadRunIs, Zenon
<1> HIDE DEF run, n
<1>2. 0 \in P
  BY <1>1
<1>3. ASSUME NEW i \in 1 .. n, i - 1 \in P PROVE i \in P
  <2> DEFINE r == run[i - 1]
  <2>1. r \in ReadStates /\ i - 1 \in 0 .. n /\ Good(i - 1) /\ contexts[i] \in ReadContexts
    BY <1>1, <1>3 DEF n
  <2>2. run[i] = ReadRequest(s, purpose, refusal, r, contexts[i])
    BY <1>1
  <2>3. PICK a \in ReadContexts, room \in Int :
            /\ ReadRequest(s, purpose, refusal, r, contexts[i]) = Answered(r, a, room)
            /\ a.path = contexts[i].path /\ Permitted(s, a)
    <3> HIDE DEF r
    <3> QED
      BY <2>1, ReadRequestIs
  <2>4. run[i].contexts = Append(r.contexts, a)
    BY <2>2, <2>3 DEF Answered
  <2>5. r.contexts \in Seq(ReadContexts) /\ Len(r.contexts) = i - 1
    BY <2>1 DEF ReadStates
  <2>6. /\ Len(run[i].contexts) = i /\ run[i].contexts[i] = a
        /\ \A j \in 1 .. i - 1 : run[i].contexts[j] = r.contexts[j]
    BY <2>4, <2>5
  <2>7. \A j \in 1 .. i : /\ run[i].contexts[j].path = contexts[j].path
                          /\ Permitted(s, run[i].contexts[j])
    <3>1. ASSUME NEW j \in 1 .. i, j # i
          PROVE  /\ run[i].contexts[j].path = contexts[j].path
                 /\ Permitted(s, run[i].contexts[j])
      <4>1. j \in 1 .. i - 1
        BY <3>1
      <4> QED
        BY <2>1, <2>6, <4>1
    <3> QED
      BY <2>3, <2>6, <3>1
  <2> QED
    BY <2>6, <2>7
<1> HIDE DEF P
<1>4. \A i \in 0 .. n : i \in P
  BY <1>1, <1>2, <1>3, Climb
<1>5. n \in 0 .. n /\ n \in P /\ run[n] \in ReadStates
  BY <1>1, <1>4
<1>6. Good(n)
  BY <1>5 DEF P
<1> QED
  BY <1>5, <1>6 DEF handle_characteristic_read_requests, run, n, ReadStates

-----------------------------------------------------------------------------
(* Writing.  The event table of the session, what the application was told *)
(* of, and the values.                                                     *)

Worlds == [value : [Paths -> JSONValues], events : Seq(Paths),
           told : SUBSET (Sessions \X Paths), room : Int]

\* The table of s has no entry twice, and the application knows all tables.
TableSound(s, w) ==
    /\ IsInjective(w.events) /\ Len(w.events) <= MaxEventNotifications
    /\ \A t \in Sessions, path \in Paths :
           <<t, path>> \in w.told <=>
               path \in IF t = s THEN ToSet(w.events) ELSE ToSet(session[t].events)

LEMMA SubscribeKeeps ==
    ASSUME NEW s \in Sessions, NEW w \in Worlds, TableSound(s, w), NEW path \in Paths,
           ~Subscribed(w, path), ~TableIsFull(w)
    PROVE  LET u == Subscribe(w, s, path)
           IN  u \in Worlds /\ TableSound(s, u) /\ u.value = w.value /\ u.room = w.room
<1> DEFINE u == Subscribe(w, s, path)
           e == w.events
<1>1. e \in Seq(Paths) /\ Len(e) \in Nat
  BY DEF Worlds
<1>2. /\ u \in Worlds /\ u.value = w.value /\ u.room = w.room
      /\ u.events = Append(e, path) /\ u.told = w.told \cup {<<s, path>>}
  <2> DEFINE told1 == w.told \cup {<<s, path>>}
             events1 == Append(e, path)
  <2>1. events1 \in Seq(Paths) /\ told1 \in SUBSET (Sessions \X Paths)
    BY <1>1 DEF Worlds
  <2>2. u = [w EXCEPT !.events = events1, !.told = told1]
    BY DEF Subscribe
  <2> HIDE DEF u, events1, told1
  <2>3. /\ u \in Worlds /\ u.value = w.value /\ u.room = w.room
        /\ u.events = events1 /\ u.told = told1
    BY <2>1, <2>2 DEF Worlds
  <2> QED
    BY <2>3 DEF events1, told1
<1> HIDE DEF u
<1>3. path \notin ToSet(e) /\ Len(e) < MaxEventNotifications /\ IsInjective(e)
  BY <1>1, StorageAssumption DEF Subscribed, TableIsFull, TableSound
<1> HIDE DEF e
<1>4. /\ Len(u.events) = Len(e) + 1 /\ DOMAIN u.events = 1 .. Len(e) + 1
      /\ u.events[Len(e) + 1] = path
      /\ \A i \in 1 .. Len(e) : u.events[i] = e[i]
  BY <1>1, <1>2
<1>5. \A i \in 1 .. Len(e) : e[i] # path
  BY <1>1, <1>3 DEF ToSet
<1>6. ASSUME NEW i \in 1 .. Len(e) + 1, NEW j \in 1 .. Len(e) + 1,
             u.events[i] = u.events[j]
      PROVE  i = j
  <2>1. CASE i = Len(e) + 1 \/ j = Len(e) + 1
    <3>1. i # Len(e) + 1 => i \in 1 .. Len(e)
      BY <1>1
    <3>2. j # Len(e) + 1 => j \in 1 .. Len(e)
      BY <1>1
    <3> QED
      BY <1>4, <1>5, <1>6, <2>1, <3>1, <3>2
  <2>2. CASE i # Len(e) + 1 /\ j # Len(e) + 1
    <3>1. i \in 1 .. Len(e) /\ j \in 1 .. Len(e)
      BY <1>1, <2>2
    <3> QED
      BY <1>1, <1>3, <1>4, <1>6, <3>1 DEF IsInjective
  <2> QED
    BY <2>1, <2>2
<1>7. IsInjective(u.events)
  BY <1>4, <1>6 DEF IsInjective
<1>8. ToSet(u.events) = ToSet(e) \cup {path}
  <2>1. ToSet(u.events) = {u.events[i] : i \in 1 .. Len(e) + 1}
    BY <1>4 DEF ToSet
  <2>2. ToSet(e) = {e[i] : i \in 1 .. Len(e)}
    BY <1>1 DEF ToSet
  <2>3. \A i \in 1 .. Len(e) + 1 : i = Len(e) + 1 \/ i \in 1 .. Len(e)
    BY <1>1
  <2>4. 1 .. Len(e) \subseteq 1 .. Len(e) + 1 /\ Len(e) + 1 \in 1 .. Len(e) + 1
    BY <1>1
  <2> QED
    BY <1>4, <2>1, <2>2, <2>3, <2>4
<1>9. ASSUME NEW t \in Sessions, NEW p \in Paths
      PROVE  <<t, p>> \in u.told <=>
                 p \in IF t = s THEN ToSet(u.events) ELSE ToSet(session[t].events)
  <2>1. <<t, p>> \in w.told <=>
            p \in IF t = s THEN ToSet(e) ELSE ToSet(session[t].events)
    BY DEF TableSound, e
  <2>2. <<t, p>> \in u.told <=> <<t, p>> \in w.told \/ (t = s /\ p = path)
    BY <1>2
  <2> QED
    BY <1>8, <2>1, <2>2
<1>10. Len(u.events) <= MaxEventNotifications
  BY <1>1, <1>3, <1>4, StorageAssumption
<1> QED
  BY <1>2, <1>7, <1>9, <1>10 DEF TableSound, u

\* An entry leaves its table, the others keep their order.
LEMMA WithoutIs ==
    ASSUME NEW e \in Seq(Paths), IsInjective(e), NEW path \in ToSet(e)
    PROVE  /\ Without(e, path) \in Seq(Paths) /\ Len(Without(e, path)) = Len(e) - 1
           /\ IsInjective(Without(e, path))
           /\ ToSet(Without(e, path)) = ToSet(e) \ {path}
<1> DEFINE n == Len(e)
           at == CHOOSE i \in DOMAIN e : e[i] = path
           from(i) == IF i < at THEN i ELSE i + 1
           u == [i \in 1 .. n - 1 |-> e[from(i)]]
<1>1. n \in Nat /\ DOMAIN e = 1 .. n
  OBVIOUS
<1>2. at \in 1 .. n /\ e[at] = path
  BY <1>1 DEF ToSet
<1>3. Without(e, path) = u
  BY DEF Without
<1> HIDE DEF at, n
<1>4. \A i \in 1 .. n - 1 : from(i) \in 1 .. n /\ from(i) # at
  BY <1>1, <1>2
<1>5. \A i, j \in 1 .. n - 1 : from(i) = from(j) => i = j
  BY <1>1, <1>2
<1>6. \A k \in 1 .. n : k # at => \E i \in 1 .. n - 1 : from(i) = k
  <2>1. ASSUME NEW k \in 1 .. n, k # at
        PROVE  \E i \in 1 .. n - 1 : from(i) = k
    <3>1. CASE k < at
      <4>1. k \in 1 .. n - 1 /\ from(k) = k
        BY <1>1, <1>2, <3>1
      <4> QED
        BY <4>1
    <3>2. CASE k > at
      <4>1. k - 1 \in 1 .. n - 1 /\ from(k - 1) = k
        BY <1>1, <1>2, <3>2
      <4> QED
        BY <4>1
    <3> QED
      BY <1>1, <1>2, <2>1, <3>1, <3>2
  <2> QED
    BY <2>1
<1> HIDE DEF from
<1>7. u \in Seq(Paths) /\ Len(u) = n - 1 /\ DOMAIN u = 1 .. n - 1
  <2>1. n - 1 \in Nat
    BY <1>1, <1>2
  <2>2. \A i \in 1 .. n - 1 : e[from(i)] \in Paths
    BY <1>1, <1>4 DEF n
  <2> QED
    BY <2>1, <2>2
<1>8. IsInjective(u)
  <2>1. \A i, j \in 1 .. n - 1 : u[i] = u[j] => from(i) = from(j)
    BY <1>1, <1>4 DEF IsInjective
  <2> HIDE DEF u
  <2> QED
    BY <1>5, <1>7, <2>1 DEF IsInjective
<1>9. ToSet(u) = ToSet(e) \ {path}
  <2>1. ToSet(u) = {e[from(i)] : i \in 1 .. n - 1}
    BY <1>7 DEF ToSet
  <2>2. ToSet(e) = {e[k] : k \in 1 .. n}
    BY <1>1 DEF ToSet
  <2>3. \A k \in 1 .. n : e[k] = path <=> k = at
    BY <1>1, <1>2 DEF IsInjective
  <2> HIDE DEF u
  <2>4. ASSUME NEW p \in ToSet(u) PROVE p \in ToSet(e) \ {path}
    BY <1>4, <2>1, <2>2, <2>3
  <2>5. ASSUME NEW p \in ToSet(e) \ {path} PROVE p \in ToSet(u)
    BY <1>6, <2>1, <2>2, <2>3
  <2> QED
    BY <2>4, <2>5
<1> QED
  BY <1>3, <1>7, <1>8, <1>9 DEF n

LEMMA UnsubscribeKeeps ==
    ASSUME NEW s \in Sessions, NEW w \in Worlds, TableSound(s, w), NEW path \in Paths,
           Subscribed(w, path)
    PROVE  LET u == Unsubscribe(w, s, path)
           IN  u \in Worlds /\ TableSound(s, u) /\ u.value = w.value /\ u.room = w.room
<1> DEFINE u == Unsubscribe(w, s, path)
           e == w.events
           rest == Without(e, path)
<1>1. e \in Seq(Paths) /\ IsInjective(e) /\ path \in ToSet(e) /\ Len(e) \in Nat
      /\ Len(e) <= MaxEventNotifications
  BY DEF Worlds, Subscribed, TableSound
<1> HIDE DEF e
<1>2. /\ rest \in Seq(Paths) /\ Len(rest) = Len(e) - 1 /\ IsInjective(rest)
      /\ ToSet(rest) = ToSet(e) \ {path}
  BY <1>1, WithoutIs
<1> HIDE DEF rest
<1>3. /\ u \in Worlds /\ u.value = w.value /\ u.room = w.room
      /\ u.events = rest /\ u.told = w.told \ {<<s, path>>}
  BY <1>2 DEF Unsubscribe, Worlds, rest, e
<1> HIDE DEF u
<1>4. ASSUME NEW t \in Sessions, NEW p \in Paths
      PROVE  <<t, p>> \in u.told <=>
                 p \in IF t = s THEN ToSet(u.events) ELSE ToSet(session[t].events)
  <2>1. <<t, p>> \in w.told <=>
            p \in IF t = s THEN ToSet(e) ELSE ToSet(session[t].events)
    BY DEF TableSound, e
  <2>2. <<t, p>> \in u.told <=> <<t, p>> \in w.told /\ ~(t = s /\ p = path)
    BY <1>3
  <2> QED
    BY <1>2, <1>3, <2>1, <2>2
<1>5. Len(u.events) <= MaxEventNotifications
  BY <1>1, <1>2, <1>3, StorageAssumption
<1> QED
  BY <1>2, <1>3, <1>4, <1>5 DEF TableSound, u

\* A subscription keeps the table and needs the permission to read.
LEMMA WriteEventIs ==
    ASSUME StateTyped, NEW s \in Sessions, NEW w \in Worlds, TableSound(s, w),
           NEW c \in WriteContexts, c.path \in Paths
    PROVE  LET event == WriteEvent(w, s, c)
           IN  /\ event.status \in Int
               /\ event.world \in Worlds /\ TableSound(s, event.world)
               /\ event.world.value = w.value /\ event.world.room = w.room
               /\ event.status = Success =>
                      MayRead(get_db_ctx(c.path), session[s].admin)
<1> DEFINE chr == get_db_ctx(c.path)
           path == c.path
           event == WriteEvent(w, s, c)
           Good(u) == /\ u \in Worlds /\ TableSound(s, u)
                      /\ u.value = w.value /\ u.room = w.room
           May == MayRead(chr, session[s].admin)
<1>1. Good(w)
  OBVIOUS
<1>2. ~Subscribed(w, path) /\ ~TableIsFull(w) => Good(Subscribe(w, s, path))
  BY SubscribeKeeps
<1>3. Subscribed(w, path) => Good(Unsubscribe(w, s, path))
  BY UnsubscribeKeeps
<1>4. ASSUME NEW status \in Int, NEW u, Good(u), status = Success => May,
             event = [status |-> status, world |-> u]
      PROVE  /\ event.status \in Int /\ Good(event.world)
             /\ event.status = Success => May
  BY <1>4
<1>5. /\ InsufficientPrivileges \in Int /\ NotificationNotSupported \in Int
      /\ OutOfResources \in Int /\ Success \in Int
      /\ InsufficientPrivileges # Success /\ NotificationNotSupported # Success
  BY DEF InsufficientPrivileges, NotificationNotSupported, OutOfResources, Success
<1> DEFINE Is(status, u) == event = [status |-> status, world |-> u]
<1>6. \/ ~May /\ Is(InsufficientPrivileges, w)
      \/ May /\ Is(NotificationNotSupported, w)
      \/ May /\ Is(OutOfResources, w)
      \/ May /\ Is(Success, w)
      \/ /\ May /\ ~Subscribed(w, path) /\ ~TableIsFull(w)
         /\ Is(Success, Subscribe(w, s, path))
      \/ /\ May /\ Subscribed(w, path) /\ Is(Success, Unsubscribe(w, s, path))
  BY DEF WriteEvent
<1>7. event.status \in Int /\ Good(event.world) /\ (event.status = Success => May)
  <2> HIDE DEF event, Good, May
  <2> QED
    BY <1>1, <1>2, <1>3, <1>5, <1>6
<1> QED
  BY <1>7

\* The world with another value.
Holding(w, path, v) == [w EXCEPT !.value[path] = v]

ReadAsString(chr, c) == chr.format = "tlv8" => c.type = "String"

\* A value is written if and only if the status is a success; a TLV8 value that is
\* no string never is.
LEMMA WriteValueIs ==
    ASSUME NEW w \in Worlds, NEW c \in WriteContexts, c.path \in Paths,
           NEW err \in WriteErrors
    PROVE  LET write == WriteValue(w, c, err)
               chr   == get_db_ctx(c.path)
           IN  /\ write.status \in Int
               /\ write.status \notin {InsufficientPrivileges, ReadFromWriteOnlyCharacteristic}
               /\ \/ /\ write.world = w
                     /\ write.status = Success => ~ReadAsString(chr, c)
                  \/ /\ write.status = Success /\ ReadAsString(chr, c)
                     /\ \E v \in JSONValues :
                            /\ write.world = Holding(w, c.path, v)
                            /\ Allows(c.path, v) /\ v.n = Stored(chr, c.value.n)
<1> DEFINE chr == get_db_ctx(c.path)
           v == Converted(c, chr)
           written == HandleWrite(chr, v, err)
           status == ConvertCharacteristicWriteErrorToStatusCode[written.err]
           write == WriteValue(w, c, err)
<1>1. v \in JSONValues /\ v.n = c.value.n
  BY DEF Converted, JSONValues, WriteContexts, Decoded
<1>2. /\ written.err \in WriteErrors
      /\ written.err = "None" =>
             /\ written.value \in JSONValues /\ Allows(c.path, written.value)
             /\ written.value.n = Stored(chr, v.n)
  BY <1>1, HandleWriteIs
<1>3. /\ status \in Int
      /\ status \notin {InsufficientPrivileges, ReadFromWriteOnlyCharacteristic}
      /\ status = Success <=> written.err = "None"
  BY <1>2, WriteStatusIs
<1>4. /\ {Success, InvalidValueInWrite, OutOfResources} \subseteq Int
      /\ InsufficientPrivileges \notin {Success, InvalidValueInWrite, OutOfResources}
      /\ ReadFromWriteOnlyCharacteristic \notin {Success, InvalidValueInWrite, OutOfResources}
      /\ Success \notin {InvalidValueInWrite, OutOfResources}
  BY DEF Success, InvalidValueInWrite, OutOfResources, InsufficientPrivileges,
         ReadFromWriteOnlyCharacteristic
<1>5. \/ ~ReadAsString(chr, c) /\ write = [status |-> Success, world |-> w]
      \/ write = [status |-> InvalidValueInWrite, world |-> w]
      \/ write = [status |-> OutOfResources, world |-> w]
      \/ /\ ReadAsString(chr, c) /\ written.err # "None"
         /\ write = [status |-> status, world |-> w]
      \/ /\ ReadAsString(chr, c) /\ written.err = "None"
         /\ write = [status |-> status, world |-> Holding(w, c.path, written.value)]
  BY DEF WriteValue, ReadAsString, Holding
<1> HIDE DEF write, status, written, v
<1>6. CASE ~ReadAsString(chr, c) /\ write = [status |-> Success, world |-> w]
  BY <1>4, <1>6 DEF write
<1>7. CASE \/ write = [status |-> InvalidValueInWrite, world |-> w]
           \/ write = [status |-> OutOfResources, world |-> w]
  BY <1>4, <1>7 DEF write
<1>8. CASE /\ ReadAsString(chr, c) /\ written.err # "None"
           /\ write = [status |-> status, world |-> w]
  BY <1>3, <1>8 DEF write
<1>9. CASE /\ ReadAsString(chr, c) /\ written.err = "None"
           /\ write = [status |-> status, world |-> Holding(w, c.path, written.value)]
  BY <1>1, <1>2, <1>3, <1>9 DEF write
<1> QED
  BY <1>5, <1>6, <1>7, <1>8, <1>9

\* What is read back changes neither a table nor a value; without write responses
\* the value of the context stays as it was sent.
LEMMA WriteResponseIs ==
    ASSUME NEW w \in Worlds, NEW c \in WriteContexts, c.path \in Paths, NEW err \in ReadErrors
    PROVE  LET done == WriteResponse(w, c, err)
               swr  == Has(get_db_ctx(c.path), "supportsWriteResponse")
           IN  /\ done.world \in Worlds /\ done.world.value = w.value
               /\ done.world.events = w.events /\ done.world.told = w.told
               /\ done.context \in WriteContexts
               /\ done.context.path = c.path /\ done.context.type = c.type
               /\ done.context.response = c.response
               /\ done.context.status \notin {InvalidValueInWrite, InsufficientPrivileges}
               /\ ~swr => /\ done.context.status =
                                 IF c.response THEN ReadFromWriteOnlyCharacteristic ELSE Success
                          /\ done.context.value = c.value
<1> DEFINE chr == get_db_ctx(c.path)
           read == handle_characteristic_read_request(chr, w.value[c.path], err, w.room)
           done == WriteResponse(w, c, err)
           status == IF c.response THEN ReadFromWriteOnlyCharacteristic ELSE Success
<1>1. /\ read.status \in Int /\ read.value \in JSONValues /\ read.room \in Int
      /\ read.status \notin {InvalidValueInWrite, InsufficientPrivileges}
  <2>1. w.value[c.path] \in JSONValues /\ w.room \in Int
    BY DEF Worlds
  <2> QED
    BY <2>1, ReadIs
<1>2. /\ status \in Int /\ Success \in Int
      /\ status \notin {InvalidValueInWrite, InsufficientPrivileges}
      /\ Success \notin {InvalidValueInWrite, InsufficientPrivileges}
  BY DEF Success, InvalidValueInWrite, InsufficientPrivileges, ReadFromWriteOnlyCharacteristic
<1> HIDE DEF read
<1>3. CASE ~Has(chr, "supportsWriteResponse")
  <2> DEFINE a == [c EXCEPT !.status = status]
  <2>1. a \in WriteContexts /\ a.path = c.path /\ a.type = c.type /\ a.status = status
        /\ a.response = c.response /\ a.value = c.value
    BY <1>2 DEF WriteContexts
  <2>2. done = [world |-> w, context |-> a]
    BY <1>3 DEF WriteResponse
  <2> HIDE DEF a, done, status
  <2> QED
    BY <1>2, <1>3, <2>1, <2>2 DEF done, status
<1>4. CASE Has(chr, "supportsWriteResponse") /\ read.status = Success /\ c.response
  <2> DEFINE a == [c EXCEPT !.status = Success, !.value = read.value]
             u == [w EXCEPT !.room = read.room]
  <2>1. a \in WriteContexts /\ a.path = c.path /\ a.type = c.type /\ a.status = Success
        /\ a.response = c.response
    BY <1>1, <1>2 DEF WriteContexts
  <2>2. u \in Worlds /\ u.value = w.value /\ u.events = w.events /\ u.told = w.told
    BY <1>1 DEF Worlds
  <2>3. done = [world |-> u, context |-> a]
    BY <1>4 DEF WriteResponse, read
  <2> HIDE DEF a, u, done
  <2>4. done.world = u /\ done.context = a
    BY <2>3
  <2> QED
    BY <1>2, <1>4, <2>1, <2>2, <2>4 DEF done
<1>5. CASE Has(chr, "supportsWriteResponse") /\ ~(read.status = Success /\ c.response)
  <2> DEFINE a == [c EXCEPT !.status = read.status]
  <2>1. a \in WriteContexts /\ a.path = c.path /\ a.type = c.type /\ a.status = read.status
        /\ a.response = c.response
    BY <1>1 DEF WriteContexts
  <2>2. done = [world |-> w, context |-> a]
    BY <1>5 DEF WriteResponse, read
  <2> HIDE DEF a, done
  <2> QED
    BY <1>1, <1>5, <2>1, <2>2 DEF done
<1> QED
  BY <1>3, <1>4, <1>5

-----------------------------------------------------------------------------
(* One write of a request.                                                 *)

ValuesSound(w) == \A path \in Paths : Allows(path, w.value[path])

\* c gives away no value that its session may not read.
WritePermitted(s, c) ==
    Known(c.path) /\ ~MayRead(get_db_ctx(c.path), session[s].admin) =>
        c.status # Success \/ ~c.response

\* The session may write the value.
MayBeWritten(s, timedWrite, path) ==
    LET chr == get_db_ctx(path)
    IN  /\ Has(chr, "writable") /\ MayWrite(chr, session[s].admin)
        /\ Has(chr, "requiresTimedWrite") => timedWrite

\* The value is the one that c reports as written, or, if it reports none, the old one.
Told(c, old, new) ==
    IF c.type # "None" /\ CarriedOut(c)
    THEN ~Has(get_db_ctx(c.path), "supportsWriteResponse") =>
             new.n = Stored(get_db_ctx(c.path), c.value.n)
    ELSE new = old

\* What the write c makes of the world w: the world u and the answer a.
Outcome(s, timedWrite, w, c, u, a) ==
    /\ u \in Worlds /\ TableSound(s, u) /\ ValuesSound(u)
    /\ a \in WriteContexts /\ a.path = c.path /\ a.type = c.type /\ a.response = c.response
    /\ WritePermitted(s, a)
    /\ \A path \in Paths : path # c.path => u.value[path] = w.value[path]
    /\ c.path \in Paths =>
           /\ u.value[c.path] # w.value[c.path] => MayBeWritten(s, timedWrite, c.path)
           /\ Told(a, w.value[c.path], u.value[c.path])

Marked(c, status) == [c EXCEPT !.status = status]

LEMMA MarkedIs ==
    ASSUME NEW c \in WriteContexts, NEW status \in Int
    PROVE  LET a == Marked(c, status)
           IN  /\ a \in WriteContexts /\ a.path = c.path /\ a.type = c.type
               /\ a.response = c.response /\ a.value = c.value /\ a.status = status
BY DEF Marked, WriteContexts

\* A write that is refused, or none at all.
LEMMA Unwritten ==
    ASSUME NEW s \in Sessions, NEW timedWrite, NEW w \in Worlds, ValuesSound(w),
           NEW e \in Worlds, TableSound(s, e), e.value = w.value,
           NEW c \in WriteContexts, NEW status \in Int,
           c.path \in Paths =>
               /\ c.type = "None" \/ status \notin {Success, ReadFromWriteOnlyCharacteristic}
               /\ status = Success => MayRead(get_db_ctx(c.path), session[s].admin)
    PROVE  Outcome(s, timedWrite, w, c, e, Marked(c, status))
<1> DEFINE a == Marked(c, status)
<1>1. /\ a \in WriteContexts /\ a.path = c.path /\ a.type = c.type
      /\ a.response = c.response /\ a.value = c.value /\ a.status = status
  BY MarkedIs
<1> HIDE DEF a
<1>2. ValuesSound(e)
  BY DEF ValuesSound
<1>3. WritePermitted(s, a)
  BY <1>1 DEF WritePermitted, Known
<1>4. c.path \in Paths => Told(a, w.value[c.path], e.value[c.path])
  BY <1>1 DEF Told, CarriedOut
<1> QED
  BY <1>1, <1>2, <1>3, <1>4 DEF Outcome, a

\* The write itself, once the session may write.
LEMMA AfterWriteIs ==
    ASSUME NEW s \in Sessions, NEW timedWrite, NEW w \in Worlds, ValuesSound(w),
           NEW e \in Worlds, TableSound(s, e), e.value = w.value,
           NEW c \in WriteContexts, c.path \in Paths, c.type # "None",
           NEW err \in [read : ReadErrors, write : WriteErrors],
           MayBeWritten(s, timedWrite, c.path),
           c.response => MayRead(get_db_ctx(c.path), session[s].admin)
    PROVE  LET done == AfterWrite(WriteValue(e, c, err.write), e, c, err)
           IN  Outcome(s, timedWrite, w, c, done.world, done.context)
<1> DEFINE chr == get_db_ctx(c.path)
           write == WriteValue(e, c, err.write)
           done == AfterWrite(write, e, c, err)
<1>1. /\ write.status \in Int
      /\ write.status \notin {InsufficientPrivileges, ReadFromWriteOnlyCharacteristic}
      /\ \/ /\ write.world = e
            /\ write.status = Success => ~ReadAsString(chr, c)
         \/ /\ write.status = Success /\ ReadAsString(chr, c)
            /\ \E v \in JSONValues :
                   /\ write.world = Holding(e, c.path, v)
                   /\ Allows(c.path, v) /\ v.n = Stored(chr, c.value.n)
  BY WriteValueIs
<1> HIDE DEF write
<1>2. CASE write.status # Success
  <2>1. done = [world |-> e, context |-> Marked(c, write.status)]
    BY <1>2 DEF AfterWrite, Marked
  <2>2. Outcome(s, timedWrite, w, c, e, Marked(c, write.status))
    BY <1>1, <1>2, Unwritten
  <2> QED
    BY <2>1, <2>2 DEF write
<1>3. CASE write.status = Success
  <2> DEFINE answer == WriteResponse(write.world, c, err.read)
             a == answer.context
             u == answer.world
  <2>1. done = answer
    BY <1>3 DEF AfterWrite
  <2> DEFINE x == write.world
             Good == /\ x \in Worlds /\ TableSound(s, x) /\ ValuesSound(x)
                     /\ \A path \in Paths : path # c.path => x.value[path] = w.value[path]
                     /\ IF ReadAsString(chr, c)
                        THEN x.value[c.path].n = Stored(chr, c.value.n)
                        ELSE x.value = w.value
  <2>2. Good
    <3>1. CASE ~ReadAsString(chr, c)
      <4>1. x = e
        BY <1>1, <3>1
      <4> QED
        BY <3>1, <4>1 DEF ValuesSound
    <3>2. CASE ReadAsString(chr, c)
      <4>1. PICK v \in JSONValues :
                /\ x = Holding(e, c.path, v)
                /\ Allows(c.path, v) /\ v.n = Stored(chr, c.value.n)
        BY <1>1, <1>3, <3>2
      <4> HIDE DEF x
      <4>2. /\ x \in Worlds /\ x.events = e.events /\ x.told = e.told
            /\ x.value = [e.value EXCEPT ![c.path] = v]
        BY <4>1 DEF Holding, Worlds
      <4>3. /\ x.value[c.path] = v
            /\ \A path \in Paths : path # c.path => x.value[path] = w.value[path]
        BY <4>2 DEF Worlds
      <4>4. TableSound(s, x)
        BY <4>2 DEF TableSound
      <4>5. ValuesSound(x)
        BY <4>1, <4>3 DEF ValuesSound
      <4> QED
        BY <3>2, <4>1, <4>2, <4>3, <4>4, <4>5
    <3> QED
      BY <3>1, <3>2
  <2>3. /\ u \in Worlds /\ u.value = write.world.value
        /\ u.events = write.world.events /\ u.told = write.world.told
        /\ a \in WriteContexts /\ a.path = c.path /\ a.type = c.type
        /\ a.response = c.response
        /\ a.status \notin {InvalidValueInWrite, InsufficientPrivileges}
        /\ ~Has(chr, "supportsWriteResponse") =>
               /\ a.status = IF c.response THEN ReadFromWriteOnlyCharacteristic ELSE Success
               /\ a.value = c.value
    BY <2>2, WriteResponseIs
  <2> HIDE DEF a, u
  <2>4. TableSound(s, u) /\ ValuesSound(u)
    BY <2>2, <2>3 DEF TableSound, ValuesSound
  <2>5. WritePermitted(s, a)
    BY <2>3 DEF WritePermitted
  <2>6. Told(a, w.value[c.path], u.value[c.path])
    <3>1. CASE ReadAsString(chr, c)
      <4>1. CarriedOut(a)
        BY <2>3, <3>1 DEF CarriedOut, ReadAsString
      <4> QED
        BY <2>2, <2>3, <3>1, <4>1 DEF Told
    <3>2. CASE ~ReadAsString(chr, c)
      <4>1. ~CarriedOut(a)
        BY <2>3, <3>2 DEF CarriedOut, ReadAsString
      <4> QED
        BY <2>2, <2>3, <3>2, <4>1 DEF Told
    <3> QED
      BY <3>1, <3>2
  <2>7. Outcome(s, timedWrite, w, c, u, a)
    BY <2>2, <2>3, <2>4, <2>5, <2>6 DEF Outcome
  <2> QED
    BY <2>1, <2>7 DEF a, u, write
<1> QED
  BY <1>2, <1>3

LEMMA HandleWriteRequestIs ==
    ASSUME StateTyped, NEW s \in Sessions, NEW timedWrite,
           NEW w \in Worlds, TableSound(s, w), ValuesSound(w),
           NEW c \in WriteContexts, c.path \in Paths,
           NEW err \in [read : ReadErrors, write : WriteErrors],
           c.type # "None" /\ Has(get_db_ctx(c.path), "requiresTimedWrite") => timedWrite
    PROVE  LET done == handle_characteristic_write_request(w, s, c, err)
           IN  Outcome(s, timedWrite, w, c, done.world, done.context)
<1> DEFINE chr == get_db_ctx(c.path)
           admin == session[s].admin
           event == IF c.ev = "Undefined" THEN [status |-> Success, world |-> w]
                    ELSE WriteEvent(w, s, c)
           e == event.world
           done == handle_characteristic_write_request(w, s, c, err)
           Answer(status) == [world |-> e, context |-> Marked(c, status)]
           Done == Outcome(s, timedWrite, w, c, done.world, done.context)
<1> SUFFICES Done
  OBVIOUS
<1>1. /\ event.status \in Int /\ e \in Worlds /\ TableSound(s, e) /\ e.value = w.value
      /\ c.ev # "Undefined" /\ event.status = Success => MayRead(chr, admin)
  <2>1. CASE c.ev = "Undefined"
    BY <2>1 DEF Success
  <2>2. CASE c.ev # "Undefined"
    BY <2>2, WriteEventIs
  <2> QED
    BY <2>1, <2>2
<1>2. done = AfterEvent(event, admin, c, err)
  BY DEF handle_characteristic_write_request
<1> HIDE DEF event
<1>3. ASSUME NEW status \in Int,
             c.type = "None" \/ status \notin {Success, ReadFromWriteOnlyCharacteristic},
             status = Success => MayRead(chr, admin),
             done = Answer(status)
      PROVE  Done
  <2>1. Outcome(s, timedWrite, w, c, e, Marked(c, status))
    BY <1>1, <1>3, Unwritten
  <2>2. done.world = e /\ done.context = Marked(c, status)
    BY <1>3
  <2> QED
    BY <2>1, <2>2
<1>4. /\ {InvalidValueInWrite, InsufficientPrivileges, WriteToReadOnlyCharacteristic}
             \subseteq Int \ {Success, ReadFromWriteOnlyCharacteristic}
  BY DEF InvalidValueInWrite, InsufficientPrivileges, WriteToReadOnlyCharacteristic,
         Success, ReadFromWriteOnlyCharacteristic
<1>5. \/ c.type = "None" /\ c.ev = "Undefined" /\ done = Answer(InvalidValueInWrite)
      \/ c.type = "None" /\ c.ev # "Undefined" /\ done = Answer(event.status)
      \/ done = Answer(InsufficientPrivileges)
      \/ done = Answer(WriteToReadOnlyCharacteristic)
      \/ done = Answer(InvalidValueInWrite)
      \/ /\ c.type # "None" /\ Has(chr, "writable") /\ MayWrite(chr, admin)
         /\ c.response => MayRead(chr, admin)
         /\ done = AfterWrite(WriteValue(e, c, err.write), e, c, err)
  BY <1>2 DEF AfterEvent, Marked
<1>6. CASE c.type = "None" /\ c.ev # "Undefined" /\ done = Answer(event.status)
  <2> HIDE DEF done, Done, Answer
  <2> QED
    BY <1>1, <1>3, <1>6
<1>7. CASE \/ done = Answer(InvalidValueInWrite)
           \/ done = Answer(InsufficientPrivileges)
           \/ done = Answer(WriteToReadOnlyCharacteristic)
  <2> HIDE DEF done, Done, Answer
  <2> QED
    BY <1>3, <1>4, <1>7
<1>8. CASE /\ c.type # "None" /\ Has(chr, "writable") /\ MayWrite(chr, admin)
           /\ c.response => MayRead(chr, admin)
           /\ done = AfterWrite(WriteValue(e, c, err.write), e, c, err)
  <2>1. MayBeWritten(s, timedWrite, c.path)
    BY <1>8 DEF MayBeWritten
  <2> HIDE DEF e, done
  <2> QED
    BY <1>1, <1>8, <2>1, AfterWriteIs
<1> QED
  BY <1>5, <1>6, <1>7, <1>8

\* The worlds between two writes of a request, and the answers so far.
SoundWorlds(s) == {w \in Worlds : TableSound(s, w) /\ ValuesSound(w)}

WriteStates(s) == [world : SoundWorlds(s), contexts : Seq(WriteContexts)]

Written(r, u, a) == [world |-> u, contexts |-> Append(r.contexts, a)]

\* One more write.
LEMMA WriteRequestIs ==
    ASSUME StateTyped, NEW s \in Sessions, NEW refusal \in Refusals,
           NEW timedWrite, NEW r \in WriteStates(s), NEW c \in WriteContexts
    PROVE  \E u, a : /\ WriteRequest(s, refusal, timedWrite, r, c) = Written(r, u, a)
                     /\ Outcome(s, timedWrite, r.world, c, u, a)
<1> DEFINE w == r.world
           result == WriteRequest(s, refusal, timedWrite, r, c)
<1>1. /\ w \in Worlds /\ TableSound(s, w) /\ ValuesSound(w)
      /\ r.contexts \in Seq(WriteContexts)
      /\ \A cs : [r EXCEPT !.contexts = cs] = [world |-> w, contexts |-> cs]
  BY DEF WriteStates, SoundWorlds
<1>2. ASSUME NEW status \in Int \ {Success, ReadFromWriteOnlyCharacteristic},
             result = [r EXCEPT !.contexts = Append(@, Marked(c, status))]
      PROVE  \E u, a : result = Written(r, u, a) /\ Outcome(s, timedWrite, w, c, u, a)
  <2>1. result = Written(r, w, Marked(c, status))
    BY <1>1, <1>2 DEF Written
  <2>2. Outcome(s, timedWrite, w, c, w, Marked(c, status))
    <3> HIDE DEF w
    <3> QED
      BY <1>1, <1>2, Unwritten
  <2> QED
    BY <2>1, <2>2
<1>3. CASE ~Known(c.path)
  <2>1. result = [r EXCEPT !.contexts = Append(@, Marked(c, ResourceDoesNotExist))]
    BY <1>3 DEF WriteRequest, Marked
  <2>2. ResourceDoesNotExist \in Int \ {Success, ReadFromWriteOnlyCharacteristic}
    BY DEF ResourceDoesNotExist, Success, ReadFromWriteOnlyCharacteristic
  <2> HIDE DEF result
  <2> QED
    BY <1>2, <2>1, <2>2 DEF result
<1>4. CASE /\ Known(c.path) /\ c.type # "None" /\ ~timedWrite
           /\ Has(get_db_ctx(c.path), "requiresTimedWrite")
  <2>1. result = [r EXCEPT !.contexts = Append(@, Marked(c, InvalidValueInWrite))]
    BY <1>4 DEF WriteRequest, Marked
  <2>2. InvalidValueInWrite \in Int \ {Success, ReadFromWriteOnlyCharacteristic}
    BY DEF InvalidValueInWrite, Success, ReadFromWriteOnlyCharacteristic
  <2> HIDE DEF result
  <2> QED
    BY <1>2, <2>1, <2>2 DEF result
<1>5. CASE /\ Known(c.path)
           /\ c.type # "None" /\ Has(get_db_ctx(c.path), "requiresTimedWrite") => timedWrite
  <2> DEFINE done == handle_characteristic_write_request(w, s, c, refusal[c.path])
  <2>1. c.path \in Paths /\ refusal[c.path] \in [read : ReadErrors, write : WriteErrors]
    BY <1>5, ApplicationAssumption DEF Known, ReadErrors, WriteErrors
  <2>2. result = Written(r, done.world, done.context)
    BY <1>5 DEF WriteRequest, Written
  <2>3. Outcome(s, timedWrite, w, c, done.world, done.context)
    <3> HIDE DEF w
    <3> QED
      BY <1>1, <1>5, <2>1, HandleWriteRequestIs
  <2> HIDE DEF done
  <2> QED
    BY <2>2, <2>3 DEF result
<1> QED
  BY <1>3, <1>4, <1>5

LEMMA WriteRequestTyped ==
    ASSUME StateTyped, NEW s \in Sessions, NEW refusal \in Refusals,
           NEW timedWrite, NEW r \in WriteStates(s), NEW c \in WriteContexts
    PROVE  WriteRequest(s, refusal, timedWrite, r, c) \in WriteStates(s)
<1>1. PICK u, a : /\ WriteRequest(s, refusal, timedWrite, r, c) = Written(r, u, a)
                  /\ Outcome(s, timedWrite, r.world, c, u, a)
  BY WriteRequestIs
<1>2. u \in SoundWorlds(s) /\ a \in WriteContexts
  BY <1>1 DEF Outcome, SoundWorlds
<1>3. Append(r.contexts, a) \in Seq(WriteContexts)
  BY <1>2 DEF WriteStates
<1> QED
  BY <1>1, <1>2, <1>3 DEF WriteStates, Written

\* The world that a request finds.
WorldNow(s) == [value |-> value, events |-> session[s].events, told |-> told,
                room |-> ScratchBytes]

\* The contexts of a request.
LEMMA WriteRunIs ==
    ASSUME StateTyped, NEW s \in Sessions, NEW refusal \in Refusals,
           NEW timedWrite, WorldNow(s) \in SoundWorlds(s),
           NEW contexts \in Seq(WriteContexts)
    PROVE  /\ WriteRun(s, refusal, contexts, timedWrite)[0] = [world |-> WorldNow(s), contexts |-> <<>>]
           /\ \A i \in 1 .. Len(contexts) :
                  WriteRun(s, refusal, contexts, timedWrite)[i] =
                      WriteRequest(s, refusal, timedWrite, WriteRun(s, refusal, contexts, timedWrite)[i - 1], contexts[i])
           /\ \A i \in 0 .. Len(contexts) : WriteRun(s, refusal, contexts, timedWrite)[i] \in WriteStates(s)
<1> DEFINE n == Len(contexts)
           first == [world |-> WorldNow(s), contexts |-> <<>>]
           F == [i \in 1 .. n |-> [r \in WriteStates(s) |->
                    WriteRequest(s, refusal, timedWrite, r, contexts[i])]]
           run == WriteRun(s, refusal, contexts, timedWrite)
<1>1. first \in WriteStates(s)
  BY DEF WriteStates
<1>2. n \in Nat /\ F \in [1 .. n -> [WriteStates(s) -> WriteStates(s)]]
  BY WriteRequestTyped
<1>3. \A i \in 1 .. n : \A r \in WriteStates(s) :
          F[i][r] = WriteRequest(s, refusal, timedWrite, r, contexts[i])
  OBVIOUS
<1>4. run = [i \in 0 .. n |-> IF i = 0 THEN first
                             ELSE WriteRequest(s, refusal, timedWrite, run[i - 1], contexts[i])]
  <2> HIDE DEF F, n, first
  <2>1. PICK f : f \in RunsOf(n, WriteStates(s), first, F)
    BY <1>1, <1>2, RunExists
  <2>2. f = [i \in 0 .. n |-> IF i = 0 THEN first
                            ELSE WriteRequest(s, refusal, timedWrite, f[i - 1], contexts[i])]
    <3>1. \A i \in 1 .. n : f[i] = WriteRequest(s, refusal, timedWrite, f[i - 1], contexts[i])
      BY <1>2, <1>3, <2>1 DEF RunsOf
    <3> QED
      BY <2>1, <3>1 DEF RunsOf
  <2> QED
    BY <2>2 DEF WriteRun, WorldNow, n, first
<1> HIDE DEF run, first, F, n
<1>5. run[0] = first /\ \A i \in 1 .. n :
          run[i] = WriteRequest(s, refusal, timedWrite, run[i - 1], contexts[i])
  BY <1>2, <1>4
<1>6. \A i \in 0 .. n : run[i] \in WriteStates(s)
  <2> DEFINE P == {i \in 0 .. n : run[i] \in WriteStates(s)}
  <2>1. 0 \in P
    BY <1>1, <1>2, <1>5
  <2>2. ASSUME NEW i \in 1 .. n, i - 1 \in P PROVE i \in P
    BY <1>2, <1>3, <1>5, <2>2
  <2> HIDE DEF P
  <2>3. \A i \in 0 .. n : i \in P
    BY <1>2, <2>1, <2>2, Climb
  <2> QED
    BY <2>3 DEF P
<1> QED
  BY <1>5, <1>6 DEF run, first, n


\* The answer j reports a write of the path as carried out.
Carries(answers, path, j) ==
    answers[j].path = path /\ answers[j].type # "None" /\ CarriedOut(answers[j])

\* What the answers report of the path: nothing, or its last write.
Reported(answers, path, old, new) ==
    /\ (\A j \in 1 .. Len(answers) : ~Carries(answers, path, j)) => new = old
    /\ \A m \in 1 .. Len(answers) :
           /\ Carries(answers, path, m)
           /\ \A j \in m + 1 .. Len(answers) : ~Carries(answers, path, j)
           /\ ~Has(get_db_ctx(path), "supportsWriteResponse")
           => new.n = Stored(get_db_ctx(path), answers[m].value.n)

LEMMA ReportedStep ==
    ASSUME NEW answers \in Seq(WriteContexts), NEW a \in WriteContexts,
           NEW path \in Paths, NEW old, NEW mid, NEW new,
           Reported(answers, path, old, mid),
           IF a.path = path THEN Told(a, mid, new) ELSE new = mid
    PROVE  Reported(Append(answers, a), path, old, new)
<1> DEFINE n == Len(answers)
           more == Append(answers, a)
           chr == get_db_ctx(path)
           swr == Has(chr, "supportsWriteResponse")
           takes == a.path = path /\ a.type # "None" /\ CarriedOut(a)
<1>1. /\ n \in Nat /\ Len(more) = n + 1 /\ more[n + 1] = a
      /\ \A j \in 1 .. n : more[j] = answers[j]
  OBVIOUS
<1> HIDE DEF more, n
<1>2. /\ Carries(more, path, n + 1) <=> takes
      /\ \A j \in 1 .. n : Carries(more, path, j) <=> Carries(answers, path, j)
  BY <1>1 DEF Carries
<1>3. /\ takes /\ ~swr => new.n = Stored(chr, a.value.n)
      /\ ~takes => new = mid
  BY DEF Told
<1> HIDE DEF takes, swr, chr
<1>4. ASSUME \A j \in 1 .. n + 1 : ~Carries(more, path, j)
      PROVE  new = old
  <2>1. ~takes /\ \A j \in 1 .. n : ~Carries(answers, path, j)
    BY <1>1, <1>2, <1>4
  <2> QED
    BY <1>3, <2>1 DEF Reported, n
<1>5. ASSUME NEW m \in 1 .. n + 1, Carries(more, path, m), ~swr,
             \A j \in m + 1 .. n + 1 : ~Carries(more, path, j)
      PROVE  new.n = Stored(chr, more[m].value.n)
  <2>1. CASE m = n + 1
    BY <1>1, <1>2, <1>3, <1>5, <2>1
  <2>2. CASE m # n + 1
    <3>1. m \in 1 .. n /\ n + 1 \in m + 1 .. n + 1
      BY <1>1, <2>2
    <3>2. ~takes /\ Carries(answers, path, m) /\ more[m] = answers[m]
      BY <1>1, <1>2, <1>5, <3>1
    <3>3. \A j \in m + 1 .. n : j \in 1 .. n /\ j \in m + 1 .. n + 1
      BY <1>1, <3>1
    <3>4. \A j \in m + 1 .. n : ~Carries(answers, path, j)
      BY <1>2, <1>5, <3>3
    <3>5. mid.n = Stored(chr, answers[m].value.n)
      BY <1>5, <3>1, <3>2, <3>4 DEF Reported, swr, chr, n
    <3> QED
      BY <1>3, <3>2, <3>5
  <2> QED
    BY <2>1, <2>2
<1> QED
  BY <1>1, <1>4, <1>5 DEF Reported, swr, chr, more

\* What a whole request does.
WritesDone(s, timedWrite, contexts, world, answers) ==
    /\ world \in SoundWorlds(s)
    /\ answers \in Seq(WriteContexts) /\ Len(answers) = Len(contexts)
    /\ \A i \in 1 .. Len(answers) : WritePermitted(s, answers[i])
    /\ \A path \in Paths :
           /\ world.value[path] # value[path] => MayBeWritten(s, timedWrite, path)
           /\ Reported(answers, path, value[path], world.value[path])

LEMMA WritesAreDone ==
    ASSUME StateTyped, NEW s \in Sessions, NEW refusal \in Refusals,
           NEW timedWrite, WorldNow(s) \in SoundWorlds(s),
           NEW contexts \in Seq(WriteContexts)
    PROVE  LET r == handle_characteristic_write_requests(s, refusal, contexts, timedWrite)
           IN  WritesDone(s, timedWrite, contexts, r.world, r.contexts)
<1> DEFINE n == Len(contexts)
           run == WriteRun(s, refusal, contexts, timedWrite)
           Good(i) ==
               /\ Len(run[i].contexts) = i
               /\ \A j \in 1 .. i : WritePermitted(s, run[i].contexts[j])
               /\ \A path \in Paths :
                      /\ run[i].world.value[path] # value[path] =>
                             MayBeWritten(s, timedWrite, path)
                      /\ Reported(run[i].contexts, path, value[path],
                                  run[i].world.value[path])
           P == {i \in 0 .. n : Good(i)}
<1>1. /\ run[0] = [world |-> WorldNow(s), contexts |-> <<>>]
      /\ \A i \in 1 .. n :
             run[i] = WriteRequest(s, refusal, timedWrite, run[i - 1], contexts[i])
      /\ \A i \in 0 .. n : run[i] \in WriteStates(s)
      /\ n \in Nat
  <2>1. n \in Nat
    OBVIOUS
  <2> QED
    BY <2>1, WriteRunIs, Zenon
<1> HIDE DEF run, n
<1>2. 0 \in P
  BY <1>1 DEF WorldNow, Reported
<1>3. ASSUME NEW i \in 1 .. n, i - 1 \in P PROVE i \in P
  <2> DEFINE r == run[i - 1]
             c == contexts[i]
             w == r.world
  <2>1. r \in WriteStates(s) /\ i - 1 \in 0 .. n /\ Good(i - 1) /\ c \in WriteContexts
    BY <1>1, <1>3 DEF n
  <2>2. run[i] = WriteRequest(s, refusal, timedWrite, r, c)
    BY <1>1
  <2>3. PICK u, a : /\ WriteRequest(s, refusal, timedWrite, r, c) = Written(r, u, a)
                    /\ Outcome(s, timedWrite, w, c, u, a)
    <3> HIDE DEF r, c
    <3> QED
      BY <2>1, WriteRequestIs
  <2>4. run[i].contexts = Append(r.contexts, a) /\ run[i].world = u
    BY <2>2, <2>3 DEF Written
  <2>5. r.contexts \in Seq(WriteContexts) /\ Len(r.contexts) = i - 1
    BY <2>1 DEF WriteStates
  <2>6. /\ a \in WriteContexts /\ a.path = c.path /\ WritePermitted(s, a)
        /\ \A path \in Paths : path # c.path => u.value[path] = w.value[path]
        /\ c.path \in Paths =>
               /\ u.value[c.path] # w.value[c.path] => MayBeWritten(s, timedWrite, c.path)
               /\ Told(a, w.value[c.path], u.value[c.path])
    BY <2>3 DEF Outcome
  <2> HIDE DEF c
  <2>7. /\ Len(run[i].contexts) = i /\ run[i].contexts[i] = a
        /\ \A j \in 1 .. i - 1 : run[i].contexts[j] = r.contexts[j]
    BY <2>4, <2>5
  <2>8. \A j \in 1 .. i : WritePermitted(s, run[i].contexts[j])
    <3>1. ASSUME NEW j \in 1 .. i, j # i
          PROVE  WritePermitted(s, run[i].contexts[j])
      <4>1. j \in 1 .. i - 1
        BY <3>1
      <4> QED
        BY <2>1, <2>7, <4>1
    <3> QED
      BY <2>6, <2>7, <3>1
  <2>9. ASSUME NEW path \in Paths
        PROVE  /\ run[i].world.value[path] # value[path] =>
                      MayBeWritten(s, timedWrite, path)
               /\ Reported(run[i].contexts, path, value[path], run[i].world.value[path])
    <3>1. /\ w.value[path] # value[path] => MayBeWritten(s, timedWrite, path)
          /\ Reported(r.contexts, path, value[path], w.value[path])
      BY <2>1
    <3>2. IF a.path = path THEN Told(a, w.value[path], u.value[path])
          ELSE u.value[path] = w.value[path]
      BY <2>6
    <3> HIDE DEF w, r
    <3>3. Reported(Append(r.contexts, a), path, value[path], u.value[path])
      BY <2>5, <2>6, <3>1, <3>2, ReportedStep
    <3> QED
      BY <2>4, <2>6, <3>1, <3>3
  <2> QED
    BY <2>7, <2>8, <2>9
<1> HIDE DEF P
<1>4. \A i \in 0 .. n : i \in P
  BY <1>1, <1>2, <1>3, Climb
<1>5. n \in 0 .. n /\ n \in P /\ run[n] \in WriteStates(s)
  BY <1>1, <1>4
<1>6. Good(n)
  BY <1>5 DEF P
<1> QED
  BY <1>5, <1>6 DEF handle_characteristic_write_requests, run, n, WriteStates, WritesDone

-----------------------------------------------------------------------------
(* Responses.                                                              *)

\* A response about the contexts, whatever becomes of its body.
IsResponse(r, kind, s, contexts, timed) ==
    \E outcome, length, parameters :
        r = [kind |-> kind, s |-> s, contexts |-> contexts, outcome |-> outcome,
             length |-> length, parameters |-> parameters, timed |-> timed]

LEMMA ResponseIs ==
    ASSUME NEW kind, NEW s, NEW contexts
    PROVE  IsResponse(Response(kind, s, contexts), kind, s, contexts, FALSE)
BY DEF IsResponse, Response

LEMMA FieldsAre ==
    ASSUME NEW r, NEW kind, NEW s, NEW contexts, NEW timed,
           IsResponse(r, kind, s, contexts, timed)
    PROVE  r.kind = kind /\ r.s = s /\ r.contexts = contexts /\ r.timed = timed
BY DEF IsResponse

\* The fields that are filled in later.
WithOutcome(r, o)    == [r EXCEPT !.outcome = o]
WithLength(r, o, n)  == [r EXCEPT !.outcome = o, !.length = n]
WithParameters(r, p) == [r EXCEPT !.parameters = p]
WithTimed(r, t)      == [r EXCEPT !.timed = t]

LEMMA FieldsChange ==
    ASSUME NEW r, NEW kind, NEW s, NEW contexts, NEW timed,
           IsResponse(r, kind, s, contexts, timed)
    PROVE  /\ \A o : IsResponse(WithOutcome(r, o), kind, s, contexts, timed)
           /\ \A o, n : IsResponse(WithLength(r, o, n), kind, s, contexts, timed)
           /\ \A p : IsResponse(WithParameters(r, p), kind, s, contexts, timed)
           /\ \A t : IsResponse(WithTimed(r, t), kind, s, contexts, t)
<1> DEFINE Of(o, n, p, t) ==
               [kind : {kind}, s : {s}, contexts : {contexts}, outcome : {o},
                length : {n}, parameters : {p}, timed : {t}]
<1>1. PICK outcome, length, parameters :
          r = [kind |-> kind, s |-> s, contexts |-> contexts, outcome |-> outcome,
               length |-> length, parameters |-> parameters, timed |-> timed]
  BY DEF IsResponse
<1>2. r \in Of(outcome, length, parameters, timed)
  BY <1>1
<1>3. ASSUME NEW q, NEW o, NEW n, NEW p, NEW t, q \in Of(o, n, p, t)
      PROVE  IsResponse(q, kind, s, contexts, t)
  <2>1. q = [kind |-> kind, s |-> s, contexts |-> contexts, outcome |-> o,
             length |-> n, parameters |-> p, timed |-> t]
    BY <1>3
  <2> QED
    BY <2>1 DEF IsResponse
<1>4. ASSUME NEW o PROVE WithOutcome(r, o) \in Of(o, length, parameters, timed)
  BY <1>2 DEF WithOutcome
<1>5. ASSUME NEW o, NEW n PROVE WithLength(r, o, n) \in Of(o, n, parameters, timed)
  BY <1>2 DEF WithLength
<1>6. ASSUME NEW p PROVE WithParameters(r, p) \in Of(outcome, length, p, timed)
  BY <1>2 DEF WithParameters
<1>7. ASSUME NEW t PROVE WithTimed(r, t) \in Of(outcome, length, parameters, t)
  BY <1>2 DEF WithTimed
<1> HIDE DEF Of
<1> QED
  BY <1>3, <1>4, <1>5, <1>6, <1>7

LEMMA WrittenResponseIs ==
    ASSUME NEW r, NEW kind, NEW s, NEW contexts, NEW timed,
           IsResponse(r, kind, s, contexts, timed)
    PROVE  IsResponse(write_response(r), kind, s, contexts, timed)
<1>1. \/ write_response(r) = WithOutcome(r, "OutOfResources")
      \/ write_response(r) = WithOutcome(r, "Fatal")
      \/ write_response(r) = WithLength(r, "Body", BodyLength(r))
  BY DEF write_response, WithOutcome, WithLength
<1> QED
  BY <1>1, FieldsChange

\* A request that is refused says nothing of a path.
LEMMA RefusedIs ==
    ASSUME NEW err
    PROVE  IsResponse(Refused(err), "None", "nobody", <<>>, FALSE)
<1>1. \E o : Refused(err) = WithOutcome(NoResponse, o)
  BY DEF Refused, WithOutcome
<1>2. IsResponse(NoResponse, "None", "nobody", <<>>, FALSE)
  BY ResponseIs DEF NoResponse
<1> QED
  BY <1>1, <1>2, FieldsChange

-----------------------------------------------------------------------------
(* The invariant of the sessions.                                          *)

\* Each table is one, and the application knows them all.
TablesKnown ==
    /\ \A s \in Sessions : /\ IsInjective(session[s].events)
                           /\ Len(session[s].events) <= MaxEventNotifications
    /\ \A s \in Sessions, path \in Paths :
           <<s, path>> \in told <=> path \in ToSet(session[s].events)

CharInv ==
    /\ StateTyped
    /\ \A s \in Sessions : session[s].timed.left >= -1
    /\ StepsFit => ValuesFulfilConstraints
    /\ TablesKnown
    /\ ValuesStayWithAdmins

LEMMA WorldNowIsSound ==
    ASSUME CharInv, NEW s \in Sessions
    PROVE  WorldNow(s) \in SoundWorlds(s)
<1> DEFINE w == WorldNow(s)
<1>1. /\ w.value = value /\ w.events = session[s].events /\ w.told = told
      /\ w \in Worlds
  BY StorageAssumption DEF WorldNow, Worlds, CharInv, StateTyped, SessionStates
<1> HIDE DEF w
<1>2. TableSound(s, w)
  BY <1>1 DEF TableSound, CharInv, TablesKnown
<1>3. ValuesSound(w)
  BY <1>1 DEF ValuesSound, Allows, CharInv, ValuesFulfilConstraints
<1> QED
  BY <1>1, <1>2, <1>3 DEF SoundWorlds, w

\* The values of a response, by the permissions of its session.
AllPermitted(kind, s, contexts) ==
    \A c \in ToSet(contexts) : Permitted(s, c) \/ (kind = "Write" /\ WritePermitted(s, c))

LEMMA ReadsStay ==
    ASSUME NEW s \in Sessions, NEW kind, NEW timed, NEW contexts,
           IsResponse(response', kind, s, contexts, timed),
           session'[s].admin = session[s].admin, AllPermitted(kind, s, contexts)
    PROVE  ValuesStayWithAdmins'
<1>1. response'.contexts = contexts /\ response'.s = s /\ response'.kind = kind
  BY FieldsAre
<1>2. ASSUME NEW c \in ToSet(contexts), Known(c.path), ~session[s].admin,
             Has(get_db_ctx(c.path), "readRequiresAdminPermissions")
      PROVE  c.status # Success \/ (kind = "Write" /\ ~c.response)
  BY <1>2 DEF AllPermitted, Permitted, WritePermitted, MayRead
<1> QED
  BY <1>1, <1>2 DEF ValuesStayWithAdmins

LEMMA SilenceStays ==
    ASSUME NEW kind, NEW s, NEW timed, IsResponse(response', kind, s, <<>>, timed)
    PROVE  ValuesStayWithAdmins'
<1>1. response'.contexts = <<>> /\ ToSet(<<>>) = {}
  BY FieldsAre DEF ToSet
<1> QED
  BY <1>1 DEF ValuesStayWithAdmins

LEMMA InitIsSound ==
    ASSUME CharInit
    PROVE  CharInv
<1>1. StateTyped /\ ValuesFulfilConstraints
  <2>1. value = InitialValues /\ told = {}
        /\ session \in [Sessions -> [admin : BOOLEAN, events : {<<>>}, timed : {NoTimedWrite}]]
    BY DEF CharInit
  <2>2. NoTimedWrite \in TimedWrites /\ <<>> \in Seq(Paths)
    BY DEF TimedWrites, NoTimedWrite
  <2>3. session \in [Sessions -> SessionStates]
    BY <2>1, <2>2 DEF SessionStates
  <2>4. StateTyped
    BY <2>1, <2>3, ApplicationAssumption DEF StateTyped
  <2> QED
    BY <2>1, <2>4, ApplicationAssumption DEF ValuesFulfilConstraints
<1>2. \A s \in Sessions : session[s].events = <<>> /\ session[s].timed.left = 0
  BY DEF CharInit, NoTimedWrite
<1>3. TablesKnown
  BY <1>2, StorageAssumption DEF TablesKnown, CharInit, IsInjective, ToSet
<1>4. ValuesStayWithAdmins
  <2>1. response.contexts = <<>> /\ ToSet(<<>>) = {}
    BY DEF CharInit, NoResponse, Response, ToSet
  <2> QED
    BY <2>1 DEF ValuesStayWithAdmins
<1> QED
  BY <1>1, <1>2, <1>3, <1>4 DEF CharInv

\* What neither changes a value nor a session keeps all but the response.
LEMMA OthersStay ==
    ASSUME CharInv, UNCHANGED <<value, session, told>>, ValuesStayWithAdmins'
    PROVE  CharInv'
BY DEF CharInv, StateTyped, ValuesFulfilConstraints, TablesKnown

LEMMA GetKeeps ==
    ASSUME CharInv, NEW s \in Sessions, get_characteristics(s)
    PROVE  CharInv' /\ ~IsPut
<1>1. UNCHANGED <<value, session, told>> /\ StateTyped
  BY DEF get_characteristics, CharInv
<1>2. PICK query \in Queries, refusal \in Refusals :
          LET request == GetCharacteristicReadRequests(query)
              answers == handle_characteristic_read_requests(
                             s, "GetCharacteristics", refusal, request.contexts)
          IN  response' =
                  CASE request.err # "None" -> Refused(request.err)
                    [] request.err = "None" /\ request.contexts = <<>> ->
                           Response("Read", s, <<>>)
                    [] OTHER -> write_response(
                           [Response("Read", s, answers)
                               EXCEPT !.parameters = request.parameters])
  BY DEF get_characteristics
<1> DEFINE request == GetCharacteristicReadRequests(query)
           answers == handle_characteristic_read_requests(
                          s, "GetCharacteristics", refusal, request.contexts)
<1>3. request.contexts \in Seq(ReadContexts)
  BY QueryTyped DEF QueryStates
<1>4. /\ answers \in Seq(ReadContexts)
      /\ \A i \in 1 .. Len(answers) : Permitted(s, answers[i])
  <2> HIDE DEF request
  <2> QED
    BY <1>1, <1>3, AnswersArePermitted
<1>5. \/ response' = Refused(request.err)
      \/ response' = Response("Read", s, <<>>)
      \/ response' = write_response([Response("Read", s, answers)
                                         EXCEPT !.parameters = request.parameters])
  BY <1>2
<1> HIDE DEF answers, request
<1>6. AllPermitted("Read", s, answers)
  BY <1>4 DEF AllPermitted, ToSet
<1>7. ValuesStayWithAdmins' /\ ~IsPut
  <2>1. CASE response' = Refused(request.err)
    <3>1. IsResponse(response', "None", "nobody", <<>>, FALSE)
      BY <2>1, RefusedIs
    <3>2. response'.kind = "None"
      BY <3>1, FieldsAre
    <3>3. ValuesStayWithAdmins'
      BY <3>1, SilenceStays
    <3>4. ~IsPut
      BY <3>2 DEF IsPut
    <3> QED
      BY <3>3, <3>4
  <2>2. CASE response' = Response("Read", s, <<>>)
    <3>1. IsResponse(response', "Read", s, <<>>, FALSE)
      BY <2>2, ResponseIs
    <3>2. response'.kind = "Read"
      BY <3>1, FieldsAre
    <3>3. ValuesStayWithAdmins'
      BY <3>1, SilenceStays
    <3>4. ~IsPut
      BY <3>2 DEF IsPut
    <3> QED
      BY <3>3, <3>4
  <2>3. CASE response' = write_response([Response("Read", s, answers)
                                             EXCEPT !.parameters = request.parameters])
    <3> DEFINE answer == WithParameters(Response("Read", s, answers), request.parameters)
    <3>1. response' = write_response(answer)
      BY <2>3 DEF WithParameters
    <3>2. IsResponse(answer, "Read", s, answers, FALSE)
      BY ResponseIs, FieldsChange
    <3> HIDE DEF answer
    <3>3. IsResponse(response', "Read", s, answers, FALSE)
      BY <3>1, <3>2, WrittenResponseIs
    <3> QED
      BY <1>1, <1>6, <3>3, ReadsStay, FieldsAre DEF IsPut
  <2> QED
    BY <1>5, <2>1, <2>2, <2>3
<1> QED
  BY <1>1, <1>7, OthersStay

LEMMA EventsKeep ==
    ASSUME CharInv, NEW s \in Sessions, write_event_notifications(s)
    PROVE  CharInv' /\ ~IsPut
<1>1. UNCHANGED <<value, session, told>> /\ StateTyped
  BY DEF write_event_notifications, CharInv
<1>2. PICK n \in 1 .. Len(session[s].events), refusal \in Refusals :
          \E raised \in InOrder(n, Len(session[s].events)) :
              response' = write_response(Response("Event", s,
                  handle_characteristic_read_requests(
                      s, "EventNotification", refusal,
                      [i \in 1 .. n |-> ReadContext(session[s].events[raised[i]])])))
  BY DEF write_event_notifications
<1>3. PICK raised \in InOrder(n, Len(session[s].events)) :
          response' = write_response(Response("Event", s,
              handle_characteristic_read_requests(
                  s, "EventNotification", refusal,
                  [i \in 1 .. n |-> ReadContext(session[s].events[raised[i]])])))
  BY <1>2
<1> DEFINE events == session[s].events
           contexts == [i \in 1 .. n |-> ReadContext(events[raised[i]])]
           answers == handle_characteristic_read_requests(
                          s, "EventNotification", refusal, contexts)
<1>4. contexts \in Seq(ReadContexts)
  <2>1. events \in Seq(Paths) /\ n \in Nat
    BY <1>1, <1>2 DEF StateTyped, SessionStates
  <2>2. \A i \in 1 .. n : raised[i] \in 1 .. Len(events)
    BY <1>3 DEF InOrder
  <2>3. \A i \in 1 .. n : events[raised[i]] \in PathsRead
    <3>1. Paths \subseteq PathsRead
      BY CharacteristicsTyped DEF PathsRead
    <3> HIDE DEF events
    <3> QED
      BY <2>1, <2>2, <3>1
  <2>4. \A i \in 1 .. n : ReadContext(events[raised[i]]) \in ReadContexts
    BY <2>3, ReadContextTyped
  <2> QED
    BY <2>1, <2>4
<1>5. /\ answers \in Seq(ReadContexts)
      /\ \A i \in 1 .. Len(answers) : Permitted(s, answers[i])
  <2> HIDE DEF contexts
  <2> QED
    BY <1>1, <1>4, AnswersArePermitted
<1>6. response' = write_response(Response("Event", s, answers))
  BY <1>3
<1> HIDE DEF answers
<1>7. AllPermitted("Event", s, answers)
  BY <1>5 DEF AllPermitted, ToSet
<1>8. IsResponse(response', "Event", s, answers, FALSE)
  BY <1>6, ResponseIs, WrittenResponseIs
<1>9. ValuesStayWithAdmins' /\ ~IsPut
  BY <1>1, <1>7, <1>8, ReadsStay, FieldsAre DEF IsPut
<1> QED
  BY <1>1, <1>9, OthersStay

-----------------------------------------------------------------------------
(* PUT /characteristics.                                                   *)

\* What the writes do to the state: to the values, to the table of the session and
\* to its prepared write, which a timed write uses up.
PutEffect(s, timedWrite, contexts, world, answers) ==
    /\ WritesDone(s, timedWrite, contexts, world, answers)
    /\ IsResponse(response', "Write", s, answers, timedWrite)
    /\ value' = world.value /\ told' = world.told
    /\ DOMAIN session' = Sessions /\ \A t \in Sessions : t # s => session'[t] = session[t]
    /\ session' \in [Sessions -> SessionStates]
    /\ session'[s].events = world.events /\ session'[s].admin = session[s].admin
    /\ session'[s].timed \in {session[s].timed, NoTimedWrite}
    /\ timedWrite => /\ session[s].timed.isSet /\ session[s].timed.left >= 0
                     /\ session'[s].timed = NoTimedWrite

\* Another table and another prepared write.
SessionWith(s, events, timed) ==
    [session EXCEPT ![s].events = events, ![s].timed = timed]

LEMMA SessionChanges ==
    ASSUME StateTyped, NEW s \in Sessions, NEW events \in Seq(Paths), NEW timed \in TimedWrites,
           session' = SessionWith(s, events, timed)
    PROVE  /\ session' \in [Sessions -> SessionStates] /\ DOMAIN session' = Sessions
           /\ \A t \in Sessions : t # s => session'[t] = session[t]
           /\ session'[s].events = events /\ session'[s].admin = session[s].admin
           /\ session'[s].timed = timed
<1>1. session[s] \in SessionStates /\ session \in [Sessions -> SessionStates]
  BY DEF StateTyped
<1> DEFINE x == [session[s] EXCEPT !.events = events, !.timed = timed]
<1>2. /\ x \in SessionStates /\ x.events = events /\ x.timed = timed
      /\ x.admin = session[s].admin
  BY <1>1 DEF SessionStates
<1>3. session' = [session EXCEPT ![s] = x]
  BY <1>1 DEF SessionWith
<1> HIDE DEF x
<1> QED
  BY <1>1, <1>2, <1>3

LEMMA TimedWriteChanges ==
    ASSUME StateTyped, NEW s \in Sessions, NEW timed \in TimedWrites,
           session' = [session EXCEPT ![s].timed = timed]
    PROVE  /\ session' \in [Sessions -> SessionStates] /\ DOMAIN session' = Sessions
           /\ \A t \in Sessions : t # s => session'[t] = session[t]
           /\ session'[s].events = session[s].events
           /\ session'[s].admin = session[s].admin
           /\ session'[s].timed = timed
<1>1. session[s] \in SessionStates /\ session \in [Sessions -> SessionStates]
  BY DEF StateTyped
<1> DEFINE x == [session[s] EXCEPT !.timed = timed]
<1>2. /\ x \in SessionStates /\ x.events = session[s].events /\ x.timed = timed
      /\ x.admin = session[s].admin
  BY <1>1 DEF SessionStates
<1>3. session' = [session EXCEPT ![s] = x]
  BY <1>1
<1> HIDE DEF x
<1> QED
  BY <1>1, <1>2, <1>3

LEMMA TimedWriteDoneIs ==
    ASSUME CharInv, NEW s \in Sessions, NEW request
    PROVE  LET timed == TimedWriteDone(s, request)
           IN  /\ timed \in TimedWrites /\ timed \in {session[s].timed, NoTimedWrite}
               /\ request.pid # <<>> => timed = NoTimedWrite
BY DEF TimedWriteDone, TimedWrites, NoTimedWrite, CharInv, StateTyped, SessionStates

\* A timed write that fails writes nothing.
LEMMA RejectIs ==
    ASSUME CharInv, NEW s \in Sessions, NEW request \in WriteRequests,
           RejectWrites(s, request)
    PROVE  \E answers : PutEffect(s, FALSE, request.contexts, WorldNow(s), answers)
<1> DEFINE contexts == request.contexts
           answers == [i \in 1 .. Len(contexts) |-> Marked(contexts[i], InvalidValueInWrite)]
           w == WorldNow(s)
           timed == TimedWriteDone(s, request)
<1>1. w \in SoundWorlds(s) /\ w.value = value /\ w.events = session[s].events /\ w.told = told
  BY WorldNowIsSound DEF WorldNow
<1>2. contexts \in Seq(WriteContexts) /\ Len(contexts) \in Nat
  BY DEF WriteRequests
<1>3. ASSUME NEW i \in 1 .. Len(contexts)
      PROVE  /\ Marked(contexts[i], InvalidValueInWrite) \in WriteContexts
             /\ Marked(contexts[i], InvalidValueInWrite).status = InvalidValueInWrite
  <2>1. contexts[i] \in WriteContexts /\ InvalidValueInWrite \in Int
    BY <1>2 DEF InvalidValueInWrite
  <2> HIDE DEF contexts
  <2> QED
    BY <2>1, MarkedIs
<1>4. /\ answers \in Seq(WriteContexts) /\ Len(answers) = Len(contexts)
      /\ \A i \in 1 .. Len(answers) : answers[i].status = InvalidValueInWrite
  BY <1>2, <1>3
<1>5. /\ response' = write_response(Response("Write", s, answers))
      /\ session' = [session EXCEPT ![s].timed = timed]
      /\ UNCHANGED <<value, told>>
  BY DEF RejectWrites, Marked
<1> HIDE DEF answers, w
<1>6. WritesDone(s, FALSE, contexts, w, answers)
  <2>1. \A i \in 1 .. Len(answers) : WritePermitted(s, answers[i])
    BY <1>4 DEF WritePermitted, InvalidValueInWrite, Success
  <2>2. \A path \in Paths, i \in 1 .. Len(answers) : ~Carries(answers, path, i)
    BY <1>4 DEF Carries, CarriedOut, InvalidValueInWrite, Success,
                ReadFromWriteOnlyCharacteristic
  <2>3. \A path \in Paths : Reported(answers, path, value[path], w.value[path])
    BY <1>1, <2>2 DEF Reported
  <2> QED
    BY <1>1, <1>4, <2>1, <2>3 DEF WritesDone
<1>7. IsResponse(response', "Write", s, answers, FALSE)
  BY <1>5, ResponseIs, WrittenResponseIs
<1>8. timed \in TimedWrites /\ timed \in {session[s].timed, NoTimedWrite}
  BY TimedWriteDoneIs
<1> HIDE DEF timed
<1>9. /\ session' \in [Sessions -> SessionStates] /\ DOMAIN session' = Sessions
      /\ \A t \in Sessions : t # s => session'[t] = session[t]
      /\ session'[s].events = session[s].events
      /\ session'[s].admin = session[s].admin
      /\ session'[s].timed = timed
  BY <1>5, <1>8, TimedWriteChanges DEF CharInv
<1>10. PutEffect(s, FALSE, contexts, w, answers)
  BY <1>1, <1>5, <1>6, <1>7, <1>8, <1>9 DEF PutEffect
<1> QED
  BY <1>10 DEF w

LEMMA CarryOutIs ==
    ASSUME CharInv, NEW s \in Sessions, NEW request \in WriteRequests,
           NEW refusal \in Refusals,
           ~TimedWriteFails(s, request.pid), CarryOutWrites(s, refusal, request)
    PROVE  \E world, answers :
               PutEffect(s, request.pid # <<>>, request.contexts, world, answers)
<1> DEFINE contexts == request.contexts
           timedWrite == request.pid # <<>>
           r == handle_characteristic_write_requests(s, refusal, contexts, timedWrite)
           world == r.world
           answers == r.contexts
           timed == TimedWriteDone(s, request)
           answer == WriteAnswer(s, answers)
<1>1. WritesDone(s, timedWrite, contexts, world, answers)
  <2>1. contexts \in Seq(WriteContexts) /\ WorldNow(s) \in SoundWorlds(s) /\ StateTyped
    BY WorldNowIsSound DEF WriteRequests, CharInv
  <2> HIDE DEF contexts, timedWrite
  <2> QED
    BY <2>1, WritesAreDone
<1>2. /\ response' = WithTimed(answer, timedWrite)
      /\ session' = SessionWith(s, world.events, timed)
      /\ value' = world.value /\ told' = world.told
  BY DEF CarryOutWrites, WithTimed, SessionWith
<1>3. timedWrite => session[s].timed.isSet /\ ~(session[s].timed.left < 0)
  BY DEF TimedWriteFails
<1>4. /\ timed \in TimedWrites /\ timed \in {session[s].timed, NoTimedWrite}
      /\ timedWrite => timed = NoTimedWrite
  BY TimedWriteDoneIs
<1> HIDE DEF timed, timedWrite, r, contexts
<1>5. IsResponse(answer, "Write", s, answers, FALSE)
  <2>1. \/ answer = Response("Write", s, answers)
        \/ answer = write_response(Response("Write", s, answers))
    BY DEF WriteAnswer
  <2> QED
    BY <2>1, ResponseIs, WrittenResponseIs
<1> HIDE DEF answer
<1>6. IsResponse(response', "Write", s, answers, timedWrite)
  BY <1>2, <1>5, FieldsChange
<1>7. world.events \in Seq(Paths)
  BY <1>1 DEF WritesDone, SoundWorlds, Worlds
<1>8. /\ session' \in [Sessions -> SessionStates] /\ DOMAIN session' = Sessions
      /\ \A t \in Sessions : t # s => session'[t] = session[t]
      /\ session'[s].events = world.events
      /\ session'[s].admin = session[s].admin
      /\ session'[s].timed = timed
  <2>1. StateTyped
    BY DEF CharInv
  <2> HIDE DEF world
  <2> QED
    BY <1>2, <1>4, <1>7, <2>1, SessionChanges
<1>9. timedWrite => session[s].timed.left >= 0
  <2>1. session[s].timed.left \in Int
    BY DEF CharInv, StateTyped, SessionStates, TimedWrites
  <2> QED
    BY <1>3, <2>1
<1>10. PutEffect(s, timedWrite, contexts, world, answers)
  BY <1>1, <1>2, <1>3, <1>4, <1>6, <1>8, <1>9 DEF PutEffect
<1> QED
  BY <1>10 DEF timedWrite, contexts

\* The request is refused, or it has the effect of its writes.
LEMMA PutIs ==
    ASSUME CharInv, NEW s \in Sessions, put_characteristics(s)
    PROVE  \/ /\ UNCHANGED <<value, session, told>>
              /\ IsResponse(response', "None", "nobody", <<>>, FALSE)
           \/ \E timedWrite \in BOOLEAN : \E contexts, world, answers :
                  PutEffect(s, timedWrite, contexts, world, answers)
<1>1. PICK body \in Bodies, refusal \in Refusals :
          \E request \in {GetCharacteristicWriteRequests(body)} :
              \/ /\ response' = Refused(request.err)
                 /\ UNCHANGED <<value, session, told>>
              \/ RejectWrites(s, request)
              \/ ~TimedWriteFails(s, request.pid) /\ CarryOutWrites(s, refusal, request)
  BY DEF put_characteristics
<1>2. PICK request \in WriteRequests :
          \/ /\ response' = Refused(request.err)
             /\ UNCHANGED <<value, session, told>>
          \/ RejectWrites(s, request)
          \/ ~TimedWriteFails(s, request.pid) /\ CarryOutWrites(s, refusal, request)
  BY <1>1, BodyTyped
<1>3. CASE response' = Refused(request.err) /\ UNCHANGED <<value, session, told>>
  BY <1>3, RefusedIs
<1>4. CASE RejectWrites(s, request)
  BY <1>4, RejectIs
<1>5. CASE ~TimedWriteFails(s, request.pid) /\ CarryOutWrites(s, refusal, request)
  BY <1>5, CarryOutIs
<1> QED
  BY <1>2, <1>3, <1>4, <1>5

LEMMA PutKeeps ==
    ASSUME CharInv, NEW s \in Sessions, put_characteristics(s)
    PROVE  CharInv'
<1>1. CASE /\ UNCHANGED <<value, session, told>>
           /\ IsResponse(response', "None", "nobody", <<>>, FALSE)
  BY <1>1, SilenceStays, OthersStay
<1>2. ASSUME NEW timedWrite \in BOOLEAN, NEW contexts, NEW world, NEW answers,
             PutEffect(s, timedWrite, contexts, world, answers)
      PROVE  CharInv'
  <2>1. /\ WritesDone(s, timedWrite, contexts, world, answers)
        /\ IsResponse(response', "Write", s, answers, timedWrite)
        /\ value' = world.value /\ told' = world.told
        /\ \A t \in Sessions : t # s => session'[t] = session[t]
        /\ session' \in [Sessions -> SessionStates]
        /\ session'[s].events = world.events /\ session'[s].admin = session[s].admin
        /\ session'[s].timed \in {session[s].timed, NoTimedWrite}
    BY <1>2 DEF PutEffect
  <2>2. world \in Worlds /\ TableSound(s, world) /\ ValuesSound(world)
    BY <2>1 DEF WritesDone, SoundWorlds
  <2>3. StateTyped'
    BY <2>1, <2>2 DEF StateTyped, Worlds
  <2>4. \A t \in Sessions : session'[t].timed.left >= -1
    BY <2>1 DEF CharInv, NoTimedWrite
  <2>5. (StepsFit => ValuesFulfilConstraints)'
    BY <2>1, <2>2 DEF ValuesFulfilConstraints, ValuesSound, Allows
  <2>6. TablesKnown'
    <3>1. \A t \in Sessions : /\ IsInjective(session'[t].events)
                              /\ Len(session'[t].events) <= MaxEventNotifications
      BY <2>1, <2>2 DEF TableSound, CharInv, TablesKnown
    <3>2. \A t \in Sessions, path \in Paths :
              <<t, path>> \in told' <=> path \in ToSet(session'[t].events)
      BY <2>1, <2>2 DEF TableSound
    <3> QED
      BY <3>1, <3>2 DEF TablesKnown
  <2>7. ValuesStayWithAdmins'
    <3>1. AllPermitted("Write", s, answers)
      BY <2>1 DEF AllPermitted, ToSet, WritesDone
    <3> QED
      BY <2>1, <3>1, ReadsStay
  <2> QED
    BY <2>3, <2>4, <2>5, <2>6, <2>7 DEF CharInv
<1> QED
  BY <1>1, <1>2, PutIs

-----------------------------------------------------------------------------
(* The other steps.                                                        *)

\* A prepared write has its time and its number.
LEMMA PreparationTyped ==
    ASSUME NEW body \in Preparations, GetCharacteristicWritePreparation(body).err = "None"
    PROVE  LET p == GetCharacteristicWritePreparation(body)
           IN  p.ttl \in Nat /\ p.pid \in Nat
<1> DEFINE Named(name) == {i \in 1 .. Len(body) : body[i].name = name}
           Number(name) == body[CHOOSE i \in Named(name) : TRUE].value
           All == \A name \in {"ttl", "pid"} :
                      Cardinality(Named(name)) = 1 /\ IsIndex(Number(name))
           p == GetCharacteristicWritePreparation(body)
<1>1. p = IF All THEN [err |-> "None", ttl |-> Number("ttl").n, pid |-> Number("pid").n]
          ELSE [err |-> "InvalidData"]
  BY DEF GetCharacteristicWritePreparation
<1>2. ASSUME NEW name \in {"ttl", "pid"}, Cardinality(Named(name)) = 1, IsIndex(Number(name))
      PROVE  Number(name).n \in Nat
  <2> DEFINE S == Named(name)
             at == CHOOSE i \in S : TRUE
  <2>1. S \subseteq 1 .. Len(body) /\ Cardinality(S) = 1
    BY <1>2
  <2>2. Number(name) = body[at].value
    OBVIOUS
  <2> HIDE DEF S
  <2>3. S # {}
    BY <2>1, FS_EmptySet
  <2>4. at \in 1 .. Len(body)
    BY <2>1, <2>3
  <2>5. body \in Seq(ObjectMembers)
    BY RequestsAssumption
  <2> HIDE DEF at, Number
  <2>6. body[at] \in ObjectMembers
    BY <2>4, <2>5
  <2>7. Number(name) \in JSONValues
    BY <2>2, <2>6 DEF ObjectMembers
  <2> QED
    BY <1>2, <2>7 DEF IsIndex, JSONValues
<1> HIDE DEF Number, Named
<1>3. All
  BY <1>1
<1> QED
  BY <1>1, <1>2, <1>3

\* Only prepared writes change.
LEMMA OnlyTimedWrites ==
    ASSUME CharInv, UNCHANGED <<value, told>>,
           session' \in [Sessions -> SessionStates],
           \A s \in Sessions : /\ session'[s].events = session[s].events
                               /\ session'[s].timed.left >= -1,
           ValuesStayWithAdmins'
    PROVE  CharInv'
<1>1. StateTyped'
  BY DEF CharInv, StateTyped
<1>2. TablesKnown'
  BY DEF CharInv, TablesKnown
<1>3. (StepsFit => ValuesFulfilConstraints)'
  BY DEF CharInv, ValuesFulfilConstraints
<1> QED
  BY <1>1, <1>2, <1>3 DEF CharInv

LEMMA NothingSaid ==
    ASSUME response' = NoResponse
    PROVE  ValuesStayWithAdmins'
<1>1. IsResponse(NoResponse, "None", "nobody", <<>>, FALSE)
  BY ResponseIs DEF NoResponse
<1> QED
  BY <1>1, SilenceStays

LEMMA PrepareKeeps ==
    ASSUME CharInv, NEW s \in Sessions, put_prepare(s)
    PROVE  CharInv'
<1>1. PICK body \in Preparations :
          LET p == GetCharacteristicWritePreparation(body)
          IN  IF p.err = "None"
              THEN /\ session' = [session EXCEPT ![s].timed =
                                     [isSet |-> TRUE, left |-> p.ttl, pid |-> p.pid]]
                   /\ response' = NoResponse
              ELSE /\ response' = Refused(p.err) /\ UNCHANGED session
  BY DEF put_prepare
<1> DEFINE p == GetCharacteristicWritePreparation(body)
           timed == [isSet |-> TRUE, left |-> p.ttl, pid |-> p.pid]
<1>2. CASE p.err = "None"
  <2>1. p.ttl \in Nat /\ p.pid \in Nat
    BY <1>2, PreparationTyped
  <2> HIDE DEF p
  <2>2. timed \in TimedWrites /\ timed.left >= -1
    BY <2>1 DEF TimedWrites
  <2>3. session' = [session EXCEPT ![s].timed = timed] /\ response' = NoResponse
    BY <1>1, <1>2 DEF p
  <2> HIDE DEF timed
  <2>4. /\ session' \in [Sessions -> SessionStates]
        /\ \A t \in Sessions : t # s => session'[t] = session[t]
        /\ session'[s].events = session[s].events
        /\ session'[s].timed = timed
    BY <2>2, <2>3, TimedWriteChanges DEF CharInv
  <2>5. \A t \in Sessions : /\ session'[t].events = session[t].events
                            /\ session'[t].timed.left >= -1
    BY <2>2, <2>4 DEF CharInv
  <2> QED
    BY <2>3, <2>4, <2>5, NothingSaid, OnlyTimedWrites DEF put_prepare
<1>3. CASE p.err # "None"
  <2>1. response' = Refused(p.err) /\ UNCHANGED <<value, session, told>>
    BY <1>1, <1>3 DEF put_prepare
  <2> HIDE DEF p
  <2> QED
    BY <2>1, RefusedIs, SilenceStays, OthersStay
<1> QED
  BY <1>2, <1>3

LEMMA TickKeeps ==
    ASSUME CharInv, Tick
    PROVE  CharInv'
<1> DEFINE Left(s) == IF session[s].timed.isSet /\ session[s].timed.left >= 0
                      THEN session[s].timed.left - 1 ELSE session[s].timed.left
           Later(s) == [session[s] EXCEPT !.timed.left = Left(s)]
<1>1. session' = [s \in Sessions |-> Later(s)]
  BY DEF Tick
<1>2. ASSUME NEW s \in Sessions
      PROVE  /\ Later(s) \in SessionStates /\ Later(s).events = session[s].events
             /\ Later(s).timed.left >= -1
  <2>1. session[s] \in SessionStates /\ session[s].timed.left >= -1
    BY DEF CharInv, StateTyped
  <2>2. Left(s) \in Int /\ Left(s) >= -1
    BY <2>1 DEF SessionStates, TimedWrites
  <2> HIDE DEF Left
  <2> QED
    BY <2>1, <2>2 DEF SessionStates, TimedWrites
<1> HIDE DEF Later
<1>3. /\ session' \in [Sessions -> SessionStates]
      /\ \A s \in Sessions : /\ session'[s].events = session[s].events
                             /\ session'[s].timed.left >= -1
  BY <1>1, <1>2
<1> QED
  BY <1>3, NothingSaid, OnlyTimedWrites DEF Tick

LEMMA PermissionsKeep ==
    ASSUME CharInv, NEW s \in Sessions, SetPermissions(s)
    PROVE  CharInv'
<1> DEFINE x == [session[s] EXCEPT !.admin = ~@]
<1>1. session[s] \in SessionStates /\ session \in [Sessions -> SessionStates]
  BY DEF CharInv, StateTyped
<1>2. x \in SessionStates /\ x.events = session[s].events /\ x.timed = session[s].timed
  BY <1>1 DEF SessionStates
<1>3. session' = [session EXCEPT ![s] = x]
  BY <1>1 DEF SetPermissions
<1> HIDE DEF x
<1>4. /\ session' \in [Sessions -> SessionStates]
      /\ \A t \in Sessions : /\ session'[t].events = session[t].events
                             /\ session'[t].timed.left >= -1
  BY <1>1, <1>2, <1>3 DEF CharInv
<1> QED
  BY <1>4, NothingSaid, OnlyTimedWrites DEF SetPermissions

LEMMA CloseKeeps ==
    ASSUME CharInv, NEW s \in Sessions, CloseSession(s)
    PROVE  CharInv'
<1>1. PICK admin \in BOOLEAN :
          session' = [session EXCEPT ![s] =
                         [admin |-> admin, events |-> <<>>, timed |-> NoTimedWrite]]
  BY DEF CloseSession
<1> DEFINE x == [admin |-> admin, events |-> <<>>, timed |-> NoTimedWrite]
<1>2. session \in [Sessions -> SessionStates] /\ told \subseteq Sessions \X Paths
  BY DEF CharInv, StateTyped
<1>3. x \in SessionStates /\ x.events = <<>> /\ x.timed.left = 0
  BY DEF SessionStates, TimedWrites, NoTimedWrite
<1>4. session' = [session EXCEPT ![s] = x]
  BY <1>1
<1> HIDE DEF x
<1>5. /\ session' \in [Sessions -> SessionStates] /\ session'[s].events = <<>>
      /\ \A t \in Sessions : t # s => session'[t] = session[t]
      /\ \A t \in Sessions : session'[t].timed.left >= -1
  BY <1>2, <1>3, <1>4 DEF CharInv
<1>6. /\ told' = told \ {<<s, path>> : path \in ToSet(session[s].events)}
      /\ value' = value /\ response' = NoResponse
  BY DEF CloseSession
<1>7. StateTyped'
  BY <1>2, <1>5, <1>6 DEF CharInv, StateTyped
<1>8. TablesKnown'
  <2>1. IsInjective(<<>>) /\ Len(<<>>) <= MaxEventNotifications /\ ToSet(<<>>) = {}
    BY StorageAssumption DEF IsInjective, ToSet
  <2>2. \A t \in Sessions : /\ IsInjective(session'[t].events)
                            /\ Len(session'[t].events) <= MaxEventNotifications
    BY <1>5, <2>1 DEF CharInv, TablesKnown
  <2>3. ASSUME NEW t \in Sessions, NEW path \in Paths
        PROVE  <<t, path>> \in told' <=> path \in ToSet(session'[t].events)
    <3>1. <<t, path>> \in told <=> path \in ToSet(session[t].events)
      BY DEF CharInv, TablesKnown
    <3>2. <<t, path>> \in told' <=>
              <<t, path>> \in told /\ ~(t = s /\ path \in ToSet(session[s].events))
      BY <1>6
    <3>3. CASE t = s
      BY <1>5, <2>1, <3>1, <3>2, <3>3
    <3>4. CASE t # s
      BY <1>5, <3>1, <3>2, <3>4
    <3> QED
      BY <3>3, <3>4
  <2> QED
    BY <2>2, <2>3 DEF TablesKnown
<1>9. (StepsFit => ValuesFulfilConstraints)'
  BY <1>6 DEF CharInv, ValuesFulfilConstraints
<1> QED
  BY <1>5, <1>6, <1>7, <1>8, <1>9, NothingSaid DEF CharInv

LEMMA UpdatesKeep ==
    ASSUME CharInv, ApplicationUpdates
    PROVE  CharInv'
<1>1. PICK path \in DOMAIN UpdatedValues : \E v \in UpdatedValues[path] :
          value' = [value EXCEPT ![path] = v]
  BY DEF ApplicationUpdates
<1>2. PICK v \in UpdatedValues[path] : value' = [value EXCEPT ![path] = v]
  BY <1>1
<1>3. path \in Paths /\ v \in JSONValues /\ Fulfils(get_db_ctx(path), v)
  BY ApplicationAssumption
<1>4. value \in [Paths -> JSONValues] /\ UNCHANGED <<session, told>> /\ response' = NoResponse
  BY DEF CharInv, StateTyped, ApplicationUpdates
<1>5. value' \in [Paths -> JSONValues]
      /\ \A q \in Paths : value'[q] = IF q = path THEN v ELSE value[q]
  BY <1>2, <1>3, <1>4
<1>6. StateTyped'
  BY <1>4, <1>5 DEF CharInv, StateTyped
<1>7. (StepsFit => ValuesFulfilConstraints)'
  BY <1>3, <1>5 DEF CharInv, ValuesFulfilConstraints
<1>8. TablesKnown'
  BY <1>4 DEF CharInv, TablesKnown
<1> QED
  BY <1>4, <1>6, <1>7, <1>8, NothingSaid DEF CharInv

\* Each step, one after the other.
LEMMA StepKeeps ==
    ASSUME CharInv, [CharNext]_charVars
    PROVE  CharInv'
<1>1. ASSUME NEW s \in Sessions, get_characteristics(s) PROVE CharInv'
  BY <1>1, GetKeeps
<1>2. ASSUME NEW s \in Sessions, put_characteristics(s) PROVE CharInv'
  BY <1>2, PutKeeps
<1>3. ASSUME NEW s \in Sessions, put_prepare(s) PROVE CharInv'
  BY <1>3, PrepareKeeps
<1>4. ASSUME NEW s \in Sessions, write_event_notifications(s) PROVE CharInv'
  BY <1>4, EventsKeep
<1>5. ASSUME NEW s \in Sessions, CloseSession(s) PROVE CharInv'
  BY <1>5, CloseKeeps
<1>6. ASSUME NEW s \in Sessions, SetPermissions(s) PROVE CharInv'
  BY <1>6, PermissionsKeep
<1>7. CASE ApplicationUpdates
  BY <1>7, UpdatesKeep
<1>8. CASE Tick
  BY <1>8, TickKeeps
<1>9. CASE ResponseSent
  BY <1>9, NothingSaid, OthersStay DEF ResponseSent
<1>10. CASE UNCHANGED charVars
  BY <1>10 DEF charVars, CharInv, StateTyped, ValuesFulfilConstraints, TablesKnown,
               ValuesStayWithAdmins
<1> QED
  BY <1>1, <1>2, <1>3, <1>4, <1>5, <1>6, <1>7, <1>8, <1>9, <1>10 DEF CharNext, Requests

\* A response to a PUT has the effect of one.
LEMMA PutsAre ==
    ASSUME CharInv, CharNext, IsPut
    PROVE  \E s \in Sessions, timedWrite \in BOOLEAN :
               \E contexts, world, answers :
                   PutEffect(s, timedWrite, contexts, world, answers)
<1>1. ASSUME NEW s \in Sessions, get_characteristics(s) PROVE FALSE
  BY <1>1, GetKeeps
<1>2. ASSUME NEW s \in Sessions, write_event_notifications(s) PROVE FALSE
  BY <1>2, EventsKeep
<1>3. CASE response' = NoResponse
  BY <1>3 DEF IsPut, NoResponse, Response
<1>4. ASSUME NEW s \in Sessions, put_prepare(s) PROVE FALSE
  <2>1. \/ response' = NoResponse
        \/ \E err : response' = Refused(err)
    BY <1>4 DEF put_prepare
  <2>2. \A err : Refused(err).kind = "None"
    BY RefusedIs, FieldsAre
  <2> QED
    BY <1>3, <2>1, <2>2 DEF IsPut, NoResponse, Response
<1>5. ASSUME NEW s \in Sessions, put_characteristics(s)
      PROVE  \E timedWrite \in BOOLEAN : \E contexts, world, answers :
                 PutEffect(s, timedWrite, contexts, world, answers)
  <2>1. ~IsResponse(response', "None", "nobody", <<>>, FALSE)
    BY FieldsAre DEF IsPut
  <2> QED
    BY <1>5, <2>1, PutIs
<1> QED
  BY <1>1, <1>2, <1>3, <1>4, <1>5
  DEF CharNext, Requests, CloseSession, SetPermissions, ApplicationUpdates, Tick, ResponseSent

LEMMA CharInvAlways == CharSpec => []CharInv
<1>1. CharInit => CharInv
  BY InitIsSound
<1>2. CharInv /\ [CharNext]_charVars => CharInv'
  BY StepKeeps
<1> QED
  BY <1>1, <1>2, PTL DEF CharSpec

-----------------------------------------------------------------------------
(* Theorems.                                                               *)

\* The types, the event tables and what the sessions are told.
LEMMA InvImplies ==
    ASSUME CharInv
    PROVE  CharTypeOK /\ SubscriptionsAreTold /\ ValuesStayWithAdmins
<1>1. StateTyped /\ TablesKnown /\ ValuesStayWithAdmins
  BY DEF CharInv
<1>2. CharTypeOK
  BY <1>1 DEF CharTypeOK, CharInv, StateTyped, TablesKnown, SessionStates, TimedWrites
<1>3. \A t \in told : \E s \in Sessions, path \in Paths : t = <<s, path>>
  BY <1>1 DEF StateTyped
<1>4. \A s \in Sessions : ToSet(session[s].events) \subseteq Paths
  BY <1>1 DEF StateTyped, SessionStates, ToSet
<1>5. told = UNION {{<<s, path>> : path \in ToSet(session[s].events)} : s \in Sessions}
  BY <1>1, <1>3, <1>4 DEF TablesKnown
<1> QED
  BY <1>1, <1>2, <1>5 DEF SubscriptionsAreTold, TablesKnown

\* The event tables, prepared writes and values that the requests work on stay sound, and
\* no session is told a value that it may not read, if the range of each rounded float
\* ends at a step.
THEOREM SessionsAlwaysSound ==
    ASSUME StepsFit
    PROVE  CharSpec => []SessionsAreSound
<1>1. CharInv => SessionsAreSound
  BY InvImplies DEF CharInv, SessionsAreSound
<1> QED
  BY <1>1, CharInvAlways, PTL

\* The same of every database, but for the constraints of the values.
THEOREM SubscriptionsAlwaysTold ==
    CharSpec => [](CharTypeOK /\ SubscriptionsAreTold /\ ValuesStayWithAdmins)
<1>1. CharInv => CharTypeOK /\ SubscriptionsAreTold /\ ValuesStayWithAdmins
  BY InvImplies
<1> QED
  BY <1>1, CharInvAlways, PTL

\* Controllers write what they may write, and a timed characteristic only with the pid
\* of a prepared write that has not expired and is used up.
THEOREM WritesAlwaysAuthorized == CharSpec => WritesAreAuthorized
<1> DEFINE Fine(path) ==
               LET chr == get_db_ctx(path) s == response'.s
               IN  (IsPut /\ Changed(path)) =>
                      /\ Has(chr, "writable")
                      /\ Has(chr, "writeRequiresAdminPermissions") => session[s].admin
                      /\ Has(chr, "requiresTimedWrite") =>
                             /\ response'.timed /\ session[s].timed.isSet
                             /\ session[s].timed.left >= 0 /\ ~session'[s].timed.isSet
<1>1. ASSUME CharInv, CharNext, NEW path \in Paths
      PROVE  Fine(path)
  <2> SUFFICES ASSUME IsPut, Changed(path) PROVE Fine(path)
    OBVIOUS
  <2>0. PICK s \in Sessions, timedWrite \in BOOLEAN :
            \E contexts, world, answers :
                PutEffect(s, timedWrite, contexts, world, answers)
    BY <1>1, PutsAre
  <2>1. PICK contexts, world, answers : PutEffect(s, timedWrite, contexts, world, answers)
    BY <2>0
  <2>2. response'.s = s /\ response'.timed = timedWrite
    BY <2>1, FieldsAre DEF PutEffect
  <2>3. MayBeWritten(s, timedWrite, path)
    BY <2>1 DEF PutEffect, WritesDone, Changed
  <2>4. timedWrite => /\ session[s].timed.isSet /\ session[s].timed.left >= 0
                      /\ ~session'[s].timed.isSet
    BY <2>1 DEF PutEffect, NoTimedWrite
  <2> QED
    BY <2>2, <2>3, <2>4 DEF MayBeWritten, MayWrite
<1>2. CharInv /\ [CharNext]_charVars => [\A path \in Paths : Fine(path)]_charVars
  <2> HIDE DEF Fine
  <2> QED
    BY <1>1
<1> QED
  BY <1>2, CharInvAlways, PTL DEF CharSpec, WritesAreAuthorized

\* The values that a response reports as written are the values of the application,
\* and a value changes by no write that is reported to have failed.
THEOREM WritesAlwaysReported == CharSpec => WritesAreReported
<1> DEFINE c(i) == response'.contexts[i]
           written(path) == {i \in DOMAIN response'.contexts :
                                c(i).path = path /\ c(i).type # "None" /\ CarriedOut(c(i))}
           Fine(path) ==
               LET chr == get_db_ctx(path)
                   v   == c(Max(written(path))).value.n
               IN  IsPut =>
                      IF written(path) = {} THEN ~Changed(path)
                      ELSE ~Has(chr, "supportsWriteResponse") =>
                               value'[path].n = IF chr.format = "float"
                                                THEN HAPFloatCharacteristicRoundValueToStep(chr, v)
                                                ELSE v
<1>1. ASSUME CharInv, CharNext, NEW path \in Paths
      PROVE  Fine(path)
  <2> SUFFICES ASSUME IsPut PROVE Fine(path)
    OBVIOUS
  <2>0. PICK s \in Sessions, timedWrite \in BOOLEAN :
            \E contexts, world, answers :
                PutEffect(s, timedWrite, contexts, world, answers)
    BY <1>1, PutsAre
  <2>1. PICK contexts, world, answers : PutEffect(s, timedWrite, contexts, world, answers)
    BY <2>0
  <2>2. response'.contexts = answers /\ value' = world.value
    BY <2>1, FieldsAre DEF PutEffect
  <2>3. /\ answers \in Seq(WriteContexts)
        /\ Reported(answers, path, value[path], world.value[path])
    BY <2>1 DEF PutEffect, WritesDone
  <2> DEFINE W == written(path)
             n == Len(answers)
             m == Max(W)
  <2>4. n \in Nat /\ DOMAIN answers = 1 .. n
    BY <2>3
  <2>5. \A i : i \in W <=> i \in 1 .. n /\ Carries(answers, path, i)
    BY <2>2, <2>4 DEF Carries
  <2> HIDE DEF W, n
  <2>6. CASE W = {}
    <3>1. ~Changed(path)
      BY <2>2, <2>3, <2>4, <2>5, <2>6 DEF Reported, Changed, n
    <3> QED
      BY <2>6, <3>1 DEF W
  <2>7. CASE W # {}
    <3>1. m \in W /\ \A i \in W : i <= m
      <4>1. W \subseteq 1 .. n
        BY <2>5
      <4>2. \E x \in W : \A y \in W : x >= y
        <5> DEFINE B == {x \in 0 .. n : \A y \in W : x >= y}
        <5>1. n \in B /\ B \in SUBSET Nat
          BY <2>4, <4>1
        <5> HIDE DEF B
        <5>2. PICK x \in B : \A y \in B : x <= y
          BY <5>1, LeastElement
        <5>3. x \in Nat /\ \A y \in W : x >= y
          BY <5>1, <5>2 DEF B
        <5>4. x \in W
          <6> SUFFICES ASSUME x \notin W PROVE FALSE
            OBVIOUS
          <6>1. ASSUME NEW y \in W PROVE x - 1 >= y /\ y >= 1
            <7>1. y \in Int /\ y >= 1 /\ x >= y /\ x # y
              BY <2>4, <4>1, <5>3
            <7> QED
              BY <5>3, <7>1
          <6>2. x - 1 \in 0 .. n
            <7>1. PICK y : y \in W
              BY <2>7
            <7>2. y \in Int /\ x - 1 >= y /\ y >= 1 /\ x \in 0 .. n
              BY <2>4, <4>1, <5>2, <6>1, <7>1 DEF B
            <7> QED
              BY <2>4, <7>2
          <6>3. x - 1 \in B
            BY <6>1, <6>2 DEF B
          <6> QED
            BY <5>2, <5>3, <6>3
        <5> QED
          BY <5>3, <5>4
      <4>3. m \in W /\ \A y \in W : m >= y
        BY <4>2 DEF Max
      <4> QED
        BY <2>4, <4>1, <4>3
    <3>2. m \in 1 .. n /\ Carries(answers, path, m)
      BY <2>5, <3>1
    <3> HIDE DEF m
    <3>3. \A j \in m + 1 .. n : ~Carries(answers, path, j)
      <4>1. ASSUME NEW j \in m + 1 .. n PROVE ~Carries(answers, path, j)
        <5>1. j \in 1 .. n /\ j > m /\ j \in Int /\ m \in Int
          BY <2>4, <3>2
        <5> QED
          BY <2>5, <3>1, <5>1
      <4> QED
        BY <4>1
    <3>4. ~Has(get_db_ctx(path), "supportsWriteResponse") =>
              world.value[path].n = Stored(get_db_ctx(path), answers[m].value.n)
      BY <2>3, <3>2, <3>3 DEF Reported, n
    <3> QED
      BY <2>2, <2>7, <3>4 DEF Stored, W, m
  <2> QED
    BY <2>6, <2>7
<1>2. CharInv /\ [CharNext]_charVars => [\A path \in Paths : Fine(path)]_charVars
  <2> HIDE DEF Fine
  <2> QED
    BY <1>1
<1> QED
  BY <1>2, CharInvAlways, PTL DEF CharSpec, WritesAreReported

=============================================================================
