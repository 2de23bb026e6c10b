---------------------------- MODULE MCGatedCalls ----------------------------
(***************************************************************************)
(* Instances of GatedCalls for TLC.                                        *)
(***************************************************************************)
EXTENDS GatedCalls, TLC

CONSTANTS c1, c2, c3

CallSymmetry == Permutations(Calls)

Row(n, e) == [name |-> n, email |-> e]

\* One employee.
OneRow == 1 :> Row(1, 1)

Localhost == <<"localhost">>
DefaultAllowlist == {Localhost}

Endpoint == <<"/", "employees">>
Request(op, id, given) == [op |-> op, id |-> id, given |-> given, path |-> Endpoint]

\* Every operation; an update gives every field; two creations and an update that differ
\* in name and meet in their email.
WholeRequests ==
  { Request("list", 0, << >>),
    Request("get", 1, << >>), Request("get", 2, << >>),
    Request("create", 0, Row(1, 2)), Request("create", 0, Row(2, 2)),
    Request("update", 1, Row(2, 1)), Request("update", 1, Row(1, 2)),
    Request("delete", 1, << >>), Request("delete", 2, << >>) }

\* A method that is not supported, and a path without its first "/".
OddRequests ==
  { Request("head", 0, << >>),
    [Request("delete", 1, << >>) EXCEPT !.path = <<":1", "/", "employees">>] }

GateRequests == WholeRequests \cup OddRequests

\* Updates that give one field each.
PartialRequests ==
  { Request("update", 1, [name |-> 2]), Request("update", 1, [email |-> 2]) }

Environment(call, mutating, base, format, urls) ==
  [allowCall |-> call, allowMutating |-> mutating, baseUrl |-> base,
   allowlist |-> [format |-> format, urls |-> urls]]

\* Flags on and off; the allowlist as the default, as JSON and as CSV; base URLs with a "/"
\* at the end, and of a port that is not allowed.
GateEnvironments ==
  { Environment(TRUE, TRUE, Localhost \o <<"/">>, "unset", {}),
    Environment(TRUE, FALSE, Localhost, "json", {Localhost \o <<"/">>}),
    Environment(FALSE, TRUE, Localhost, "unset", {}),
    Environment(TRUE, TRUE, <<"localhost", ":1">>, "json", {Localhost}),
    Environment(TRUE, TRUE, Localhost, "json", {}),
    Environment(TRUE, TRUE, Localhost, "csv", {Localhost}) }

OpenEnvironments == { Environment(TRUE, TRUE, Localhost, "unset", {}) }
=============================================================================
