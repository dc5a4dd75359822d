------------------------------ MODULE MCNetflow -----------------------------
(* Small instances of Netflow.                                              *)
EXTENDS Netflow

\* The least that carries all four fields with 2-byte counters, and a layout
\* without a start time.
Full  == [length |-> 14, fields |-> Field]
Bare  == [length |-> 10, fields |-> Field \ {"first"}]
Count == [length |-> 12, fields |-> Field \ {"dst"}]
NoField == [length |-> 0, fields |-> {}]
Layouts == {Full, Bare, Count, NoField}

\* r1 is reconfigured, its two template ids share a slot (320 = 256 + 64), and
\* r2 uses one of the ids for something else and the other for a template
\* without fields.
TwoExporters ==
    [x \in {"r1", "r2"} \X {256, 320} |->
       CASE x = <<"r1", 256>> -> {Full, Bare}
         [] x = <<"r1", 320>> -> {Full}
         [] x = <<"r2", 256>> -> {Count}
         [] OTHER -> {NoField}]

Apart == [s \in Source |-> IF s = "r1" THEN 1 ELSE 2]
=============================================================================
