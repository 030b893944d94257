--------------------------- MODULE MCConfigEngine --------------------------
(***************************************************************************)
(* One setting of each kind; the drain duration must be shorter than the   *)
(* shutdown timeout, which is lenient too.                                 *)
(***************************************************************************)
EXTENDS ConfigEngine, TLC

Symmetry == Permutations(Workers)

Kinds == [host |-> "text", shutdown |-> "lenient", drain |-> "lenient",
          conns |-> "strict", jwt |-> "secret"]

Usual == [host |-> 1, shutdown |-> 3, drain |-> 1, conns |-> 2, jwt |-> 1]
Acceptable == [s \in DOMAIN Kinds |-> IF s \in {"host", "drain"} THEN 0 .. 3 ELSE 1 .. 3]
DrainBelowShutdown == {<<"drain", "shutdown">>}

Only(s, v) == [t \in DOMAIN Kinds |-> IF t = s THEN v ELSE Unset]
Both(l, m) == [t \in DOMAIN Kinds |-> IF l[t] # Unset THEN l[t] ELSE m[t]]

Files == {Absent, Blank, Only("conns", Malformed), Both(Only("drain", 2), Only("jwt", 2))}
Envs == {Only("host", 2), Both(Only("conns", Malformed), Only("drain", 0)), Only("jwt", 0),
         Both(Only("jwt", 3), Only("drain", Malformed))}
Secrets == {NoSettings, Only("jwt", 3)}
Args == {Both(Only("host", 3), Only("shutdown", Malformed)), Only("conns", Malformed),
         Both(Only("shutdown", 2), Only("host", 0))}
Override == NoSettings
Saved == {[Usual EXCEPT !.drain = 3], [Usual EXCEPT !.host = 2]}
=============================================================================
