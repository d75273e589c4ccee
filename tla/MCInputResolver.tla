--------------------------- MODULE MCInputResolver ---------------------------
(* A small instance of InputResolver: operations with every source, optional   *)
(* parameters, two uploads, two secrets, and the ones that are refused.        *)
EXTENDS InputResolver, TLC

P(name, source, validator, required, secret, sensitive) ==
    [name |-> name, sources |-> <<source>>, validator |-> validator,
     required |-> required, secret |-> secret, sensitive_output |-> sensitive]

Op(status, parameters) == [status |-> status, parameters |-> parameters]

SmallOperations ==
    {Op("included", <<P("alias", "argument", "domain", FALSE, FALSE, FALSE),
                      P("password", "stdin", "secret", TRUE, TRUE, TRUE)>>),
     Op("included", <<P("content", "stdin", "content", TRUE, TRUE, TRUE),
                      P("note", "argument", "bounded_text", TRUE, FALSE, TRUE)>>),
     Op("included", <<P("one", "local_file", "local_file", FALSE, FALSE, FALSE),
                      P("two", "local_file", "local_file", FALSE, FALSE, FALSE)>>),
     Op("included", <<P("cert", "protected_file", "bounded_text", FALSE, FALSE, FALSE),
                      P("key", "protected_file", "bounded_text", TRUE, TRUE, FALSE)>>),
     Op("included", <<P("encrypted_token", "encrypted_profile", "secret", TRUE, TRUE, TRUE),
                      P("pass", "environment", "secret", FALSE, TRUE, TRUE)>>),
     Op("included", <<P("pass", "encrypted_profile", "secret", TRUE, TRUE, TRUE)>>),
     Op("included", <<P("first", "stdin", "secret", TRUE, TRUE, TRUE),
                      P("second", "stdin", "secret", TRUE, TRUE, TRUE)>>),
     Op("included", <<[P("any", "argument", "secret", TRUE, FALSE, FALSE)
                        EXCEPT !.sources = <<"argument", "stdin">>]>>),
     Op("excluded", <<>>)}

SmallTexts ==
    {[body |-> "x", eol |-> FALSE], [body |-> "x", eol |-> TRUE],
     [body |-> "X", eol |-> FALSE], [body |-> "", eol |-> FALSE]}

\* The last name has a quote in it, say.
SomePaths ==
    {[dir |-> "d", name |-> "f"], [dir |-> "e", name |-> "f"], [dir |-> "e", name |-> "g"],
     [dir |-> "e", name |-> "quoted"]}
Lower == [body |-> "x", eol |-> FALSE]
FirstFiles ==
    [q \in SomePaths |->
        IF q.dir = "d" THEN [content |-> Lower, private |-> TRUE]
        ELSE [content |-> [Lower EXCEPT !.eol = TRUE], private |-> TRUE]]

ResolutionSymmetry == Permutations(Resolutions)
==============================================================================
