---------------------------- MODULE MC_HttpRequest ----------------------------
(* Requests whose head and body arrive in one to four units.                *)
EXTENDS HttpRequest

Bodies == {<<>>, <<"text">>, <<"x", "y">>, <<"right", "x", "y">>, <<"x", "y", "unnamed">>,
           <<"right", "x", "unnamed", "y">>}
(* None, exact ones, too short, too long, repeated and malformed ones.      *)
Lengths == {<<>>, <<1>>, <<2>>, <<3>>, <<4>>, <<1, 3>>, <<Malformed>>, <<2, Malformed>>}
SmallRequests ==
  [endpoint : Endpoint, head : {1, 2}, lengths : Lengths, body : Bodies]
=============================================================================
