---------------------------- MODULE MCHttpServer ----------------------------
(***************************************************************************)
(* One request at a time. Two people: the first has an ID of each          *)
(* provider. The requests cover the rules one against another: the path    *)
(* against the tags, and the tokens against the metadata. Firebase is      *)
(* configured or not.                                                      *)
(***************************************************************************)
EXTENDS HttpServer, TLC

CONSTANT s1
MCSlots == {s1}

MCPersonOf(u) == IF u \in {"ice1", "fb1"} THEN 1 ELSE 2

Good == GenerateTokens("ice1")[2]
Tokens == {Garbage, Good, GenerateTokens("ice1")[1], [Good EXCEPT !.valid = FALSE],
           Token("RS256", "google", "fb1", TRUE, "phone"),
           Token("RS256", "google", "fb1", TRUE, "password")}
Metadata == {NoMetadata, GenerateMetadata("ice1", "ice1", "fb1", "ice"),
             GenerateMetadata("ice1", "ice1", "fb1", "firebase"),
             GenerateMetadata("ice2", "ice2", NoUser, "ice"),
             [NoMetadata EXCEPT !.token = Good]}

Request(token, metadata, method, path, ends, tags, calls) ==
    [token |-> token, metadata |-> metadata, method |-> method, pathUser |-> path,
     endsWithUser |-> ends, allowUnauthorized |-> "unauthorized" \in tags,
     allowForbiddenGet |-> "get" \in tags, allowForbiddenWriteOperation |-> "write" \in tags,
     wellFormed |-> TRUE, complete |-> TRUE, calls |-> calls, gone |-> FALSE]

Plain == Request(Good, NoMetadata, "GET", "ice1", FALSE, {}, "none")
Malformed == {[Plain EXCEPT !.wellFormed = FALSE], [Plain EXCEPT !.complete = FALSE]}
Calling == {[Plain EXCEPT !.calls = k] : k \in Kinds \ {"replace", "setClaims"}}

Tags == {"unauthorized", "get", "write"}
Paths ==
    {Request(Good, NoMetadata, m, p, e, g, "none") :
        m \in {"GET", "PUT"}, p \in {"ice1", "ice2"}, e \in BOOLEAN,
        g \in {{}, {"get"}, {"write"}, Tags}}
    \cup {Request(t, NoMetadata, m, p, FALSE, g, "none") :
        t \in {Good, Garbage}, m \in {"GET", "POST", "PUT"},
        p \in {NoUser, "dash", "ice2"}, g \in {{}, {"unauthorized"}}}
Identities ==
    {Request(t, d, "PUT", "fb1", FALSE, {}, "none") : t \in Tokens, d \in Metadata}
    \cup {Request(t, d, "GET", NoUser, FALSE, {"unauthorized"}, "none") :
        t \in {Garbage, Good}, d \in Metadata}

\* Without Firebase: all tokens, the operations on accounts, and a call that has no need
\* of it.
MCInputs(s, configured) ==
    IF configured THEN Malformed \cup Calling \cup Paths \cup Identities
    ELSE {in \in Calling : in.calls \in Accounts \cup {"tracking"}} \cup Identities
=============================================================================
