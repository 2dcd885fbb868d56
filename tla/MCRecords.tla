------------------------------ MODULE MCRecords -----------------------------
(* Instances of Records: the payloads, decimals, tax ids, times and listings *)
(* the algorithms are run on.                                                *)
EXTENDS Records, TLC

\* Payloads: leaves, arrays and objects of them, and these inside a payload.
MCText == STRING
MCKeyOrder == <<"note", "narrative", "taxId">>
Leaf == {Null, Undefined, Str("5n"), <<"number", "5">>, <<"number", "NaN">>, <<"bigint", "5">>,
         <<"Date", "5n">>, <<"PIIString", "5">>}
Arrays(values) == {Arr(s) : s \in UNION {[1..n -> values] : n \in 0..2}}
Objects(values) ==
    {Obj(s) : s \in {s \in UNION {[1..n -> Key \X values] : n \in 0..2} :
                        Len(s) = 2 => s[1][1] # s[2][1]}}
Few == {Undefined, <<"number", "5">>, <<"PIIString", "5">>}
Small == Arrays(Few) \cup Objects(Few)
Inside == {Arr(<<>>), Arr(<<Undefined>>), Obj(<<<<"taxId", <<"number", "5">>>>>>),
           Obj(<<<<"note", Undefined>>>>), Arr(<<Obj(<<<<"taxId", <<"number", "5">>>>>>)>>)}
Payloads == Leaf \cup Small \cup Arrays(Leaf) \cup Arrays(Inside) \cup Objects(Inside)
            \cup {Obj(<<<<"note", v>>>>) : v \in Leaf \cup Small}

Decimals == [negative : BOOLEAN, whole : {0, 1, 12}, frac : UNION {[1..n -> {0, 1, 5, 9}] : n \in 0..3}]
OtherDecimals == [negative : BOOLEAN, whole : {0, 1}, frac : {<<>>, <<0>>, <<5>>, <<5, 0>>}]

Shapes == [pre : 0..4, digits : 4..15, first : {0, 1, 3}, post : 0..3,
           separator : {"", "-", "."}, beforeLast : BOOLEAN]

\* Times, and two stored sessions with a filter over them.
Times == [clock : 0..2, frac : {<<>>, <<0>>, <<5>>, <<5, 0>>, <<5, 0, 0, 1>>}, zone : {"Z", "+", "-"}]
Corners == [clock : {1}, frac : {<<>>, <<5>>}, zone : {"Z", "+", "-"}]
Some == {s \in [identityId : {"i"}, status : {"PENDING", "VERIFIED"}, startedAt : Corners] :
            s.startedAt.zone # "-"}
Filters == [subjectId : {"i"}, status : {Unset, "PENDING"}, from : {Unset} \cup Corners,
            to : {Unset} \cup Corners, limit : -1..1]

MCPathOf == [s \in Subscription |-> IF s = "s3" THEN "q" ELSE "p"]
MCCallbackOf == [s \in Subscription |-> IF s = "s2" THEN "f" ELSE "g"]
MCMatchOf == [r \in Reviewer |-> IF r = "r3" THEN "n" ELSE "m"]
MCKind == [r \in Reviewer |-> IF r = "r1" THEN "CONFIRMED_MATCH" ELSE "FALSE_POSITIVE"]

MCInput ==
    [payload |-> Payloads,
     decimal |-> Decimals \X OtherDecimals,
     taxId |-> Country \X Shapes,
     time |-> Times \X Times,
     listing |-> [sessions : {<<s, [s EXCEPT !.identityId = "j"], t>> : s, t \in Some},
                  filter : Filters, at : Corners]]

=============================================================================
