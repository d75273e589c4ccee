------------------------------ MODULE Transport ------------------------------
(***************************************************************************)
(* UAPITransport.call of src/cpanel_admin/transport.py: one call of a UAPI *)
(* function, with the redirects that a server may answer it with.  The     *)
(* loop over redirects is urllib's; the program overrides the step that    *)
(* decides on one (SameOriginRedirectHandler).                             *)
(*                                                                         *)
(*   called    the request that the caller asked for                       *)
(*   request   the request that is under way                               *)
(*   sent      all requests that left the client, a history                *)
(*   visited   how often each location was redirected to (redirect_dict)   *)
(*   result    what the caller gets                                        *)
(*                                                                         *)
(* A location is what follows the origin in a URL, its query included.     *)
(* Every request carries the API token in its Authorization header, and a  *)
(* redirected one keeps its headers.  A POST carries the parameters and    *)
(* the files in its body; a GET has none.  The callers' identifiers,       *)
(* methods and timeouts are valid: they come from the fixed operations and *)
(* from a checked option.                                                  *)
(***************************************************************************)
EXTENDS Naturals, FiniteSets

CONSTANTS
    Schemes, Hosts, Ports, Locations,
    Home,              \* where the profile says that the account is
    MaxRepeats, MaxRedirections   \* urllib's limits: 4 and 10

Origins == [scheme : Schemes, host : Hosts, port : Ports]
Codes == {301, 302, 303, 307, 308}
Requests == [origin : Origins, location : Locations, method : {"GET", "POST"}]

ASSUME TransportAssumption ==
    /\ Home \in Origins
    /\ MaxRepeats \in Nat \ {0} /\ MaxRedirections \in Nat \ {0}

VARIABLES called, request, sent, visited, pc, result

vars == <<called, request, sent, visited, pc, result>>

\* The call is put together from the profile and the operation.
Init ==
    /\ called \in {r \in Requests : r.origin = Home}
    /\ request = called
    /\ sent = {}
    /\ visited = [location \in Locations |-> 0]
    /\ pc = "send"
    /\ result = "none"

Return(r) == pc' = "done" /\ result' = r

Send == /\ pc = "send"
        /\ sent' = sent \cup {request}
        /\ pc' = "wait"
        /\ UNCHANGED <<called, request, visited, result>>

\* Mutant of SameOrigin: the port is not compared.
SameHost(a, b) == a.scheme = b.scheme /\ a.host = b.host

SameOrigin(a, b) == a = b

\* Which redirects urllib follows: those of a GET, and the older ones of a POST.
Followed(code) == request.method = "GET" \/ code \in {301, 302, 303}

Seen == {location \in Locations : visited[location] > 0}

\* Mutant of Endless: one repetition too many.
EndlessOneMore(location) ==
    Seen # {} /\ (visited[location] > MaxRepeats \/ Cardinality(Seen) >= MaxRedirections)

\* A location is not redirected to again and again, nor are there redirects
\* forever; the first one is not counted against the limits.
Endless(location) ==
    Seen # {} /\ (visited[location] >= MaxRepeats \/ Cardinality(Seen) >= MaxRedirections)

\* Mutant of Redirected: the method is kept, and with it the body.
RedirectedWhole(location) == [request EXCEPT !.location = location]

\* A redirect that is followed is a GET without a body.
Redirected(location) == [request EXCEPT !.location = location, !.method = "GET"]

\* The server redirects; another origin is refused before anything else.
Redirect ==
    /\ pc = "wait"
    /\ \E code \in Codes, origin \in Origins, location \in Locations :
         IF SameOrigin(request.origin, origin) /\ Followed(code) /\ ~Endless(location)
         THEN /\ request' = [Redirected(location) EXCEPT !.origin = origin]
              /\ visited' = [visited EXCEPT ![location] = @ + 1]
              /\ pc' = "send"
              /\ UNCHANGED result
         ELSE Return("transport") /\ UNCHANGED <<request, visited>>
    /\ UNCHANGED <<called, sent>>

\* A name that does not resolve, a refused connection, a certificate that does
\* not verify, a timeout, a status outside 2xx, a redirect without a location, a
\* body that is too long, is no JSON, no object or has no result object.
Fail == /\ pc \in {"send", "wait"}
        /\ Return("transport")
        /\ UNCHANGED <<called, request, sent, visited>>

\* A response that is not HTTP, or chunks that break off: http.client raises an
\* HTTPException, which is no OSError and which call does not catch.
Garbled == /\ pc = "wait"
           /\ Return("internal")
           /\ UNCHANGED <<called, request, sent, visited>>

\* A whole envelope arrives: status 1 is a success, any other an error of the
\* UAPI function.
Answer == /\ pc = "wait"
          /\ \E r \in {"ok", "uapi"} : Return(r)
          /\ UNCHANGED <<called, request, sent, visited>>

Next == Send \/ Redirect \/ Fail \/ Garbled \/ Answer

Spec == Init /\ [][Next]_vars

------------------------------------------------------------------------------
(* Properties.                                                              *)

\* The types of the state; the redirects of one call are bounded.
TypeOK ==
    /\ called \in Requests /\ request \in Requests
    /\ sent \subseteq Requests
    /\ visited \in [Locations -> 0..MaxRepeats]
    /\ pc \in {"send", "wait", "done"}
    /\ result \in {"none", "ok", "uapi", "transport", "internal"}

\* The token goes to the profile's scheme, host and port alone, however many
\* redirects are followed one after the other.
TokenStaysHome == \A r \in sent : r.origin = Home

\* A POST (of a password, a private key or a file) leaves the client once, as the
\* first request of its call: no redirect repeats it or takes its body elsewhere.
ContentIsSentOnce ==
    [][pc = "send" /\ pc' = "wait" /\ request.method = "POST"
       => sent = {} /\ request = called]_vars
==============================================================================
