--------------------------- MODULE MC_Invocation ---------------------------
(* Flags, files and environments for TLC. *)
EXTENDS Invocation

V == <<"v">>
W == <<"w">>
MCVariable == {V, W}

MCFlags ==
    [region : {<<>>, <<"r">>}, cluster : {<<>>, <<"a">>}, service : {<<>>, <<"a">>},
     taskDefinitionArn : {<<>>, <<"t">>}]

\* A missing key, an empty string, a name, literals alone, repeated and in both orders,
\* one before what becomes a literal if its value is a $, and one that has no name.
MCServiceJsons ==
    [cluster : {<<>>, <<"b">>}, service : {<<>>, <<"b">>}]
    \cup [cluster : {Literal(V), Literal(W) \o Literal(V), <<Dollar, Open, Close>>,
                     Literal(V) \o <<Open, "w", Close>> \o Literal(V)},
          service : {Literal(W)}]
    \cup {[cluster |-> Nil, service |-> <<"b">>], [cluster |-> <<"b">>, service |-> Nil]}

\* Values that are plain, empty, undefined, the literal of the other variable, and the $
\* of one.
MCEnvironments ==
    {[n \in Variable |-> IF n = V THEN x ELSE y] :
        x \in {<<"c">>, <<>>, Literal(W), <<Dollar>>}, y \in {Nil, <<"b">>}}
=============================================================================
