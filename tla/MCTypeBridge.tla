---------------------------- MODULE MCTypeBridge ----------------------------
(***************************************************************************)
(* A small instance of TypeBridge: a type of each kind the bindings tell   *)
(* apart, some with parameters of their own, and names in two letters.     *)
(***************************************************************************)
EXTENDS TypeBridge

MCUpper == [a |-> "A", s |-> "S"]
MCKeywords == {<<"a", "s">>}

ZonedTime == <<"DateTime64", "(", "3", Comma, "'UTC'", ")">>
Aggregate == <<"AggregateFunction", "(", "quantiles", "(", "0.5", ")", Comma, "Float64", ")">>

MCTypes == {<<"String">>, <<"Bool">>, <<"UInt8">>, <<"Int64">>, <<"Float64">>, <<"JSON">>,
            ZonedTime, Aggregate}
MCWords == Heads \cup {"Map", "(", Comma, ")"} \cup UNION {{base[i] : i \in DOMAIN base} : base \in MCTypes}

(* A key that is wrapped itself, and holds a comma within brackets.        *)
WrappedTime == [wraps |-> <<[head |-> "LowCardinality"]>>, base |-> ZonedTime]

MCKeys == {Bare(String), WrappedTime}
=============================================================================
