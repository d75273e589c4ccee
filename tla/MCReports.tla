------------------------------ MODULE MCReports ------------------------------
(* A small instance of Reports.  The messages repeat, overlap and split what  *)
(* was submitted; one of the values and one of the tokens share characters    *)
(* with the marker, so that markers are rewritten and read across.            *)
EXTENDS Reports

CONSTANTS h1, h2

ProfileOrigin == [scheme |-> "https", host |-> h1, port |-> 2083]

Letters == {"[", "]", "R", ";", " ", "a", "b", "c"}
TheMarker == <<"[", "R", "]">>
Submitted == {<<"a">>, <<"b", "a">>, <<"a", ";", " ", "b">>, <<"R">>}
ApiTokens == {<<"a", "b">>, <<"]", "a">>}
Echoes == {<<>>, <<"a", "b", "a">>, <<"]", "a", "R">>, <<"b", "a", "a", "b">>, <<"b">>,
           <<"c", "a", ";", " ", "b">>}
Leaves == {<<"data", "user">>, <<"data", "key", "text">>}
==============================================================================
